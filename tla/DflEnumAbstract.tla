--------------------------- MODULE DflEnumAbstract ---------------------------
(***************************************************************************)
(* What libdfl promises the client about device records (spec.md 3, 4.1,   *)
(* 4.2, 4.6), with allocation and failure causes left out: the client     *)
(* holds lists of records; a call either hands over one whole list whose   *)
(* records are those the spec defines for their devices, or changes       *)
(* nothing; destroy takes back one whole list.                            *)
(*                                                                         *)
(* The registry constants are those of DflDevice, which refines this      *)
(* module with lists <- owned.                                             *)
(***************************************************************************)
EXTENDS Naturals, Sequences, SequencesExt

CONSTANTS Nodes, NoNode, RegOrder, ParentOf, Subsystem, Driver, SysnameKind, SysAttrs

VARIABLE lists   \* the record lists the client holds

\* The ancestors of n, nearest first.
RECURSIVE UpFrom(_)
UpFrom(p) == IF p = NoNode THEN <<>> ELSE <<p>> \o UpFrom(ParentOf[p])

\* Step 3 of the constructor: the nearest dfl-pci ancestor ends the walk;
\* the region is the nearest fpga_region met before it.
Topology(n) ==
  LET up  == UpFrom(ParentOf[n])
      k   == SelectInSeq(up, LAMBDA a : Driver[a] = "dfl-pci")
      rgs == IF k = 0 THEN <<>>
             ELSE SelectSeq(SubSeq(up, 1, k - 1), LAMBDA a : Subsystem[a] = "fpga_region")
  IN [pci    |-> IF k = 0 THEN NoNode ELSE up[k],
      region |-> IF rgs = <<>> THEN NoNode ELSE Head(rgs)]

Kind(n) ==
  CASE SysnameKind[n] = "dfl-fme"  -> "FPGA_DEVICE"
    [] SysnameKind[n] = "dfl-port" -> "FPGA_ACCELERATOR"
    [] OTHER                        -> "none"

\* Whether construct(path of n) can succeed: a recognised name and both
\* ancestors found.
Constructible(n) ==
  Kind(n) # "none" /\ Topology(n).pci # NoNode /\ Topology(n).region # NoNode

\* The record of n: kind, ancestors and the error attributes in the
\* registry's order (4.5: the errors/ entries other than clear, revision,
\* uevent and power).
RecordOf(n) ==
  [dev    |-> n,
   type   |-> Kind(n),
   pci    |-> Topology(n).pci,
   region |-> Topology(n).region,
   errors |-> SelectSeq(SysAttrs[n],
                LAMBDA a : a.dir = "errors" /\ a.leaf \notin {"clear", "revision", "uevent", "power"})]

Matching == SelectSeq(RegOrder, LAMBDA n : Driver[n] \in {"dfl-fme", "dfl-port"})

Held == UNION {ToSet(l) : l \in ToSet(lists)}

Give(l) == lists' = Append(lists, l)

Init == lists = <<>>

\* 4.1: enumerate hands over one record per matching device, in registry
\* order, or fails with nothing; an empty result is not a list.
Enumerate == Matching # <<>> /\ Give([i \in DOMAIN Matching |-> RecordOf(Matching[i])])

\* 4.2: construct on the path of a constructible device.
Construct == \E n \in Nodes : Constructible(n) /\ Give(<<RecordOf(n)>>)

\* 3, Lifecycle: a clone re-resolves from the record's path.
CloneRecord == \E r \in Held : Give(<<RecordOf(r.dev)>>)

\* 4.6: the parent of an accelerator is a root device of its region.
Parent ==
  \E r \in Held, n \in Nodes :
    /\ r.type = "FPGA_ACCELERATOR"
    /\ ParentOf[n] = r.region /\ SysnameKind[n] = "dfl-fme"
    /\ Constructible(n)
    /\ Give(<<RecordOf(n)>>)

\* destroy takes back one whole list.
DestroyList == \E i \in DOMAIN lists : lists' = RemoveAt(lists, i)

Next == Enumerate \/ Construct \/ CloneRecord \/ Parent \/ DestroyList

Spec == Init /\ [][Next]_lists
=============================================================================
