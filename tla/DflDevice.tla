------------------------------ MODULE DflDevice ------------------------------
(***************************************************************************)
(* The device records of libdfl (src/libdfl/opae_dfl.c): construction from *)
(* a sysfs path (dfl_device_new), enumeration of every dfl-fme / dfl-port  *)
(* device (dfl_device_enum), cloning, destruction, parent lookup and the   *)
(* identity GUIDs (compat_id, afu_id, dfl_device_guid_match).              *)
(*                                                                         *)
(* The udev registry is a constant tree of nodes.  One client calls the    *)
(* API in any order; every call is one atomic step, as the code runs it    *)
(* under one thread.  Faults the environment can inject (an allocation or *)
(* udev call failing, an attribute that does not parse) are chosen by \E.  *)
(* The library's allocations are counted: udev device references          *)
(* (handles), dfl_device structs (records) and dfl_error nodes (errNodes). *)
(***************************************************************************)
EXTENDS Naturals, Sequences, SequencesExt

CONSTANTS
  Nodes,        \* the udev devices of the registry
  NoNode,       \* a NULL udev_device pointer
  RegOrder,     \* every node once, in udev enumeration (syspath) order
  ParentOf,     \* udev_device_get_parent
  Subsystem,    \* udev_device_get_subsystem ("fpga_region", "pci", ...)
  Driver,       \* udev_device_get_driver and the DRIVER property
  SysnameKind,  \* which fnmatch pattern the sysname satisfies
  SysAttrs,     \* udev_device_get_sysattr_list_entry, in list order
  CompatId,     \* the compat_id attribute: a GUID, "absent" or "malformed"
  AfuId,        \* the afu_id attribute: a GUID, "absent" or "malformed"
  Guids,        \* the GUID values that occur
  MaxOwned,     \* bound on the number of lists the client holds
  MaxErrs       \* the largest error-node index at which malloc may fail

FPGA_DEVICE == "FPGA_DEVICE"
FPGA_ACCELERATOR == "FPGA_ACCELERATOR"
NoType == "none"

FPGA_OK == "FPGA_OK"
FPGA_INVALID_PARAM == "FPGA_INVALID_PARAM"
FPGA_EXCEPTION == "FPGA_EXCEPTION"
FPGA_NOT_FOUND == "FPGA_NOT_FOUND"

\* A guid argument left unwritten by the callee (an uninitialized buffer).
Unset == "unset"

\* The faults of one dfl_device_new call, besides a failing error-node malloc.
Faults == {"none", "calloc", "udev_new", "pci_id", "numa"}

Record == [dev : Nodes, type : {FPGA_DEVICE, FPGA_ACCELERATOR},
           pci : Nodes \cup {NoNode}, region : Nodes \cup {NoNode},
           errors : Seq([dir : STRING, leaf : STRING])]
NoRec == [dev |-> NoNode]

VARIABLES
  owned,     \* the dfl_device lists the client holds, one per returned head
  handles,   \* live udev_device references taken by the library
  records,   \* allocated dfl_device structs
  errNodes,  \* allocated dfl_error nodes
  last       \* the last call: its name, argument, result and output

vars == <<owned, handles, records, errNodes, last>>

-----------------------------------------------------------------------------
(* Registry helpers *)

RECURSIVE AncestorsOf(_)
AncestorsOf(n) ==
  IF ParentOf[n] = NoNode THEN {} ELSE {ParentOf[n]} \cup AncestorsOf(ParentOf[n])

\* strstr(le_name, pci_path) == le_name: the syspath of r starts with that of p
UnderPath(p, r) == r = p \/ p \in AncestorsOf(r)

\* fnmatch(DFL_ERRORS_PATTERN, attr, FNM_EXTMATCH):
\*   "errors/!(clear|revision|uevent|power)"
IsErrorAttr(a) == a.dir = "errors" /\ a.leaf \notin {"clear", "revision", "uevent", "power"}

\* fnmatch(DFL_FME_PATTERN / DFL_PORT_PATTERN, sysname, 0)
TypeOfSysname(n) ==
  CASE SysnameKind[n] = "dfl-fme"  -> FPGA_DEVICE
    [] SysnameKind[n] = "dfl-port" -> FPGA_ACCELERATOR
    [] OTHER                        -> NoType

\* The ancestor walk of dfl_device_new: every fpga_region ancestor met
\* overwrites region; the first dfl-pci ancestor ends the walk.
RECURSIVE WalkParents(_, _)
WalkParents(p, region) ==
  IF p = NoNode THEN [pci |-> NoNode, region |-> region]
  ELSE IF Subsystem[p] = "fpga_region" THEN WalkParents(ParentOf[p], p)
  ELSE IF Driver[p] = "dfl-pci" THEN [pci |-> p, region |-> region]
  ELSE WalkParents(ParentOf[p], region)

-----------------------------------------------------------------------------
(* Construction of one record *)

\* dfl_get_errors: one node per matching attribute, appended at the tail.
\* A NULL attribute list fails; a failing malloc (the m-th node) frees the
\* nodes built so far.  held is what stays allocated after a failure.
dfl_get_errors(n, m) ==
  LET sel == SelectSeq(SysAttrs[n], IsErrorAttr)
  IN IF SysAttrs[n] = <<>> THEN [ok |-> FALSE, list |-> <<>>, held |-> 0]
     ELSE IF m \in 1..Len(sel) THEN [ok |-> FALSE, list |-> <<>>, held |-> 0]
     ELSE [ok |-> TRUE, list |-> sel, held |-> 0]

\* dfl_device_parse_id: vendor, then device, of the PCI device through
\* dfl_parse_attr32 (DflAttr), each narrowed to 16 bits; the first read
\* that fails fails the record.  The ids are data no property here reads,
\* so the call is its outcome: it fails under the injected fault "pci_id".
dfl_device_parse_id(f) == IF f = "pci_id" THEN FPGA_EXCEPTION ELSE FPGA_OK

\* Mutant: the error list is built before the numa_node read.
ConstructStepsErrorsFirst == <<"calloc", "udev_new", "classify", "topology",
                              "pci_id", "errors", "numa">>

\* The fallible steps of dfl_device_new, in the order the code runs them.
ConstructSteps == <<"calloc", "udev_new", "classify", "topology",
                    "pci_id", "numa", "errors">>

\* Mutant: the walk's result is checked for the PCI device only.
StepFailsNoRegionCheck(n, f, m, s) ==
  LET w == WalkParents(ParentOf[n], NoNode)
  IN CASE s = "calloc"   -> f = "calloc"
       [] s = "udev_new" -> f = "udev_new"
       [] s = "classify" -> TypeOfSysname(n) = NoType
       [] s = "topology" -> w.pci = NoNode
       [] s = "pci_id"   -> dfl_device_parse_id(f) # FPGA_OK
       [] s = "numa"     -> f = "numa"
       [] s = "errors"   -> ~dfl_get_errors(n, m).ok

\* Whether step s fails for node n under fault f and malloc failure m:
\* pci_id stands for dfl_device_parse_id and for parse_pcie_addr (checked by
\* DflPci), which fails the same way; numa for the numa_node read.
StepFails(n, f, m, s) ==
  LET w == WalkParents(ParentOf[n], NoNode)
  IN CASE s = "calloc"   -> f = "calloc"
       [] s = "udev_new" -> f = "udev_new"
       [] s = "classify" -> TypeOfSysname(n) = NoType
       [] s = "topology" -> w.pci = NoNode \/ w.region = NoNode
       [] s = "pci_id"   -> dfl_device_parse_id(f) # FPGA_OK
       [] s = "numa"     -> f = "numa"
       [] s = "errors"   -> ~dfl_get_errors(n, m).ok

\* dfl_device_new(path): the record, or NULL with what stays allocated.
\* The failure label err_unref_dfl_dev unrefs the handle and frees the
\* struct but not its error list.
dfl_device_new(n, f, m) ==
  LET k    == SelectInSeq(ConstructSteps, LAMBDA s : StepFails(n, f, m, s))
      w    == WalkParents(ParentOf[n], NoNode)
      errs == dfl_get_errors(n, m)
      ran(s) == \E i \in 1..(k - 1) : ConstructSteps[i] = s
  IN IF k = 0
     THEN [ok |-> TRUE, handles |-> 1, records |-> 1, errNodes |-> Len(errs.list),
           rec |-> [dev |-> n, type |-> TypeOfSysname(n), pci |-> w.pci,
                    region |-> w.region, errors |-> errs.list]]
     ELSE [ok |-> FALSE, handles |-> 0, records |-> 0, rec |-> NoRec,
           errNodes |-> IF ran("errors") THEN Len(errs.list) ELSE errs.held]

\* Mutant: destroy also unrefs the borrowed pci and region parents.
DestroyUnrefsParents(l) ==
  [handles  |-> 3 * Len(l),
   records  |-> Len(l),
   errNodes |-> FoldLeft(LAMBDA acc, r : acc + Len(r.errors), 0, l)]

\* dfl_device_destroy(list): what it releases, per record the udev
\* reference, the error nodes and the struct.
dfl_device_destroy(l) ==
  [handles  |-> Len(l),
   records  |-> Len(l),
   errNodes |-> FoldLeft(LAMBDA acc, r : acc + Len(r.errors), 0, l)]

-----------------------------------------------------------------------------
(* Enumeration *)

\* udev_enumerate_add_match_property(DRIVER, dfl-fme / dfl-port)
EnumDevices == SelectSeq(RegOrder, LAMBDA n : Driver[n] \in {"dfl-fme", "dfl-port"})

\* Mutant: the failure path destroys the list but still returns its head.
EnumKeepsHead(j, f, m) ==
  LET D  == EnumDevices
      R  == [i \in 1..Len(D) |-> dfl_device_new(D[i], IF i = j THEN f ELSE "none",
                                                 IF i = j THEN m ELSE 0)]
      ff == SelectInSeq(R, LAMBDA r : ~r.ok)
      n  == IF ff = 0 THEN Len(R) ELSE ff - 1
      built == [i \in 1..n |-> R[i].rec]
      made  == FoldLeft(LAMBDA acc, r : acc + Len(r.errors), 0, built)
      freed == dfl_device_destroy(built)
  IN IF ff = 0
     THEN [list |-> built, handles |-> n, records |-> n, errNodes |-> made]
     ELSE [list     |-> built,
           handles  |-> n + R[ff].handles - freed.handles,
           records  |-> n + R[ff].records - freed.records,
           errNodes |-> made + R[ff].errNodes - freed.errNodes]

\* dfl_device_enum: construct each listed device in order; on the first
\* failure destroy the records built so far and return NULL.  Device j
\* (0: none) meets fault f and malloc failure m.
dfl_device_enum(j, f, m) ==
  LET D  == EnumDevices
      R  == [i \in 1..Len(D) |-> dfl_device_new(D[i], IF i = j THEN f ELSE "none",
                                                 IF i = j THEN m ELSE 0)]
      ff == SelectInSeq(R, LAMBDA r : ~r.ok)
      n  == IF ff = 0 THEN Len(R) ELSE ff - 1
      built == [i \in 1..n |-> R[i].rec]
      made  == FoldLeft(LAMBDA acc, r : acc + Len(r.errors), 0, built)
  IN IF ff = 0
     THEN [list |-> built, handles |-> n, records |-> n, errNodes |-> made]
     ELSE LET freed == dfl_device_destroy(built)
          IN [list     |-> <<>>,
              handles  |-> n + R[ff].handles - freed.handles,
              records  |-> n + R[ff].records - freed.records,
              errNodes |-> made + R[ff].errNodes - freed.errNodes]

-----------------------------------------------------------------------------
(* Parent lookup and identity *)

\* Mutant: the FME check is dropped; an FME looks in its own region.
EntriesAnyType(rec) ==
  {c \in Nodes : ParentOf[c] = rec.region /\ SysnameKind[c] = "dfl-fme"}

\* The entries dfl_device_get_parent may construct: none for an FME;
\* otherwise the region directory's entries that match DFL_FME_PATTERN.
\* The first in readdir order is taken, and that order is the filesystem's.
ParentEntries(rec) ==
  IF rec.type = FPGA_DEVICE THEN {}
  ELSE {c \in Nodes : ParentOf[c] = rec.region /\ SysnameKind[c] = "dfl-fme"}

FpgaRegions == SelectSeq(RegOrder, LAMBDA r : Subsystem[r] = "fpga_region")

\* dfl_device_get_compat_id: the first fpga_region under the device's PCI
\* path that is not its own region supplies compat_id.  ueOk: whether
\* udev_enumerate_new succeeds; devOk: whether the candidate's udev device
\* can be created.  handles is the net change in udev references.
dfl_device_get_compat_id(rec, ueOk, devOk) ==
  LET cands == SelectSeq(FpgaRegions,
                 LAMBDA r : r # rec.region /\ UnderPath(rec.pci, r))
      c     == Head(cands)
      Ret(res, g, h) == [res |-> res, guid |-> g, handles |-> h]
  IN IF rec.type # FPGA_DEVICE THEN Ret(FPGA_INVALID_PARAM, Unset, 0)
     ELSE IF ~ueOk THEN Ret(FPGA_EXCEPTION, Unset, 0)
     ELSE IF FpgaRegions = <<>> THEN Ret(FPGA_NOT_FOUND, Unset, 0)
     ELSE IF cands = <<>> THEN Ret(FPGA_OK, Unset, 0)
     ELSE IF ~devOk THEN Ret(FPGA_NOT_FOUND, Unset, 0)
     ELSE IF CompatId[c] = "absent" THEN Ret(FPGA_NOT_FOUND, Unset, 1 - 1)
     ELSE IF CompatId[c] = "malformed" THEN Ret(FPGA_EXCEPTION, Unset, 1 - 1)
     ELSE Ret(FPGA_OK, CompatId[c], 1 - 1)

\* dfl_device_get_afu_id
dfl_device_get_afu_id(rec) ==
  IF rec.type # FPGA_ACCELERATOR THEN [res |-> FPGA_INVALID_PARAM, guid |-> Unset]
  ELSE IF AfuId[rec.dev] \in Guids THEN [res |-> FPGA_OK, guid |-> AfuId[rec.dev]]
  ELSE [res |-> FPGA_EXCEPTION, guid |-> Unset]

\* dfl_device_guid_match: 0 when the device's GUID equals g.  A GUID the
\* callee left unwritten is whatever the stack held (junk).
dfl_device_guid_match(rec, g, ueOk, devOk, junk) ==
  LET this == IF rec.type = FPGA_DEVICE
              THEN dfl_device_get_compat_id(rec, ueOk, devOk)
              ELSE dfl_device_get_afu_id(rec)
      seen == IF this.guid = Unset THEN junk ELSE this.guid
  IN IF this.res # FPGA_OK THEN FPGA_INVALID_PARAM
     ELSE IF seen = g THEN "0" ELSE "nonzero"

-----------------------------------------------------------------------------
(* The client's calls *)

Init ==
  /\ owned = <<>>
  /\ handles = 0
  /\ records = 0
  /\ errNodes = 0
  /\ last = [op |-> "none", arg |-> NoRec, res |-> FPGA_OK, out |-> <<>>, guid |-> Unset]

\* Apply what a call allocated (or left allocated) and hand a non-empty
\* result list to the client.
Account(o) ==
  /\ handles'  = handles + o.handles
  /\ records'  = records + o.records
  /\ errNodes' = errNodes + o.errNodes

Returned(l) == owned' = IF l = <<>> THEN owned ELSE Append(owned, l)

Log(op, arg, res, out, g) ==
  last' = [op |-> op, arg |-> arg, res |-> res, out |-> out, guid |-> g]

\* dfl_device_enum; ueOk: whether udev_enumerate_new succeeds.
Enum ==
  /\ Len(owned) < MaxOwned
  /\ \E ueOk \in BOOLEAN, j \in 0..Len(EnumDevices), f \in Faults, m \in 0..MaxErrs :
       IF ueOk /\ EnumDevices # <<>>
       THEN LET o == dfl_device_enum(j, f, m)
            IN /\ Account(o)
               /\ Returned(o.list)
               /\ Log("enum", NoRec, FPGA_OK, o.list, Unset)
       ELSE /\ UNCHANGED <<owned, handles, records, errNodes>>
            /\ Log("enum", NoRec, FPGA_OK, <<>>, Unset)

\* dfl_device_new on a path the client names, and dfl_device_clone, which
\* re-creates a record from its syspath.
Construct(op, arg, n) ==
  /\ Len(owned) < MaxOwned
  /\ \E f \in Faults, m \in 0..MaxErrs :
       LET o == dfl_device_new(n, f, m)
           l == IF o.ok THEN <<o.rec>> ELSE <<>>
       IN /\ Account(o)
          /\ Returned(l)
          /\ Log(op, arg, FPGA_OK, l, Unset)

New == \E n \in Nodes : Construct("new", NoRec, n)

Clone == \E i \in DOMAIN owned : \E k \in DOMAIN owned[i] :
           Construct("clone", owned[i][k], owned[i][k].dev)

\* dfl_device_destroy on the head of a list the client holds.
Destroy ==
  \E i \in DOMAIN owned :
    LET freed == dfl_device_destroy(owned[i])
    IN /\ handles'  = handles - freed.handles
       /\ records'  = records - freed.records
       /\ errNodes' = errNodes - freed.errNodes
       /\ owned' = RemoveAt(owned, i)
       /\ Log("destroy", NoRec, FPGA_OK, <<>>, Unset)

\* dfl_device_get_parent: NULL for an FME, when opendir fails (dirOk) or
\* when no dfl-fme.* entry is in the region directory; otherwise
\* dfl_device_new on the first such entry.
GetParent ==
  \E i \in DOMAIN owned : \E k \in DOMAIN owned[i] : \E dirOk \in BOOLEAN :
    LET rec   == owned[i][k]
        cands == IF dirOk THEN ParentEntries(rec) ELSE {}
    IN \/ /\ cands = {}
          /\ UNCHANGED <<owned, handles, records, errNodes>>
          /\ Log("get_parent", rec, FPGA_OK, <<>>, Unset)
       \/ /\ Len(owned) < MaxOwned
          /\ \E c \in cands, f \in Faults, m \in 0..MaxErrs :
               LET o == dfl_device_new(c, f, m)
                   l == IF o.ok THEN <<o.rec>> ELSE <<>>
               IN /\ Account(o)
                  /\ Returned(l)
                  /\ Log("get_parent", rec, FPGA_OK, l, Unset)

GetCompatId ==
  \E i \in DOMAIN owned : \E k \in DOMAIN owned[i] : \E ueOk, devOk \in BOOLEAN :
    LET o == dfl_device_get_compat_id(owned[i][k], ueOk, devOk)
    IN /\ handles' = handles + o.handles
       /\ UNCHANGED <<owned, records, errNodes>>
       /\ Log("compat_id", owned[i][k], o.res, <<>>, o.guid)

GetAfuId ==
  \E i \in DOMAIN owned : \E k \in DOMAIN owned[i] :
    LET o == dfl_device_get_afu_id(owned[i][k])
    IN /\ UNCHANGED <<owned, handles, records, errNodes>>
       /\ Log("afu_id", owned[i][k], o.res, <<>>, o.guid)

GuidMatch ==
  \E i \in DOMAIN owned : \E k \in DOMAIN owned[i] : \E g \in Guids :
  \E ueOk, devOk \in BOOLEAN, junk \in Guids \cup {Unset} :
    /\ UNCHANGED <<owned, handles, records, errNodes>>
    /\ Log("guid_match", owned[i][k],
           dfl_device_guid_match(owned[i][k], g, ueOk, devOk, junk), <<>>, g)

Next == Enum \/ New \/ Clone \/ Destroy \/ GetParent \/ GetCompatId \/ GetAfuId \/ GuidMatch

Spec == Init /\ [][Next]_vars

-----------------------------------------------------------------------------
(* Properties *)

TypeOK ==
  /\ owned \in Seq(Seq(Record))
  /\ handles \in Nat
  /\ records \in Nat
  /\ errNodes \in Nat

HeldRecords == FoldLeft(LAMBDA acc, l : acc + Len(l), 0, owned)
HeldErrNodes ==
  FoldLeft(LAMBDA acc, l : acc + FoldLeft(LAMBDA a, r : a + Len(r.errors), 0, l), 0, owned)

\* No leak and no double release, across every call and every failure path
\* (dfl_device_new's err_unref_dfl_dev label, dfl_get_errors' out_free_list,
\* dfl_device_enum's out_free_list, dfl_device_destroy, the candidate handle
\* of dfl_device_get_compat_id): the library holds exactly one udev
\* reference, one struct and the error nodes of each record the client owns.
NoLeak ==
  /\ handles = HeldRecords
  /\ records = HeldRecords
  /\ errNodes = HeldErrNodes

\* dfl_device_enum, dfl_device_new, dfl_device_clone, dfl_device_get_parent
\* and dfl_device_destroy implement the contract of DflEnumAbstract: every
\* call either hands the client one whole list of records equal to those
\* the spec defines for their devices (kind from the sysname, nearest
\* dfl-pci and fpga_region ancestors, error attributes in order) or
\* changes nothing the client holds, whatever fails part-way; destroy
\* takes back exactly one list.
Abs == INSTANCE DflEnumAbstract WITH lists <- owned

ImplementsEnumContract == Abs!Spec

\* dfl_device_get_parent returns a record only for an accelerator, and that
\* record is the FME of the same region and PCI device.
ParentSameCard ==
  (last.op = "get_parent" /\ last.out # <<>>) =>
    /\ last.arg.type = FPGA_ACCELERATOR
    /\ last.out[1].type = FPGA_DEVICE
    /\ last.out[1].region = last.arg.region
    /\ last.out[1].pci = last.arg.pci

\* The identity a record can have: the compat_id of an fpga_region under its
\* PCI device other than its own region (FME), or its afu_id (port).
Identities(r) ==
  IF r.type = FPGA_DEVICE
  THEN {CompatId[x] : x \in {x \in Nodes : Subsystem[x] = "fpga_region" /\ x # r.region
                                           /\ UnderPath(r.pci, x)}}
  ELSE {AfuId[r.dev]}

\* dfl_device_get_compat_id succeeds only for an FME and then has written
\* the compat_id of one of its PR regions into guid.
CompatIdSound ==
  (last.op = "compat_id" /\ last.res = FPGA_OK) =>
    /\ last.arg.type = FPGA_DEVICE
    /\ last.guid \in Identities(last.arg)

=============================================================================
