\* Two cards with PR regions, a stray port; every call and fault.
CONSTANTS
  NoNode = "null"
  Nodes <- MC_Nodes
  RegOrder <- MC_RegOrder
  ParentOf <- MC_ParentOf
  Subsystem <- MC_Subsystem
  Driver <- MC_Driver
  SysnameKind <- MC_SysnameKind
  SysAttrs <- MC_SysAttrs
  CompatId <- MC_CompatId
  AfuId <- MC_AfuId
  Guids <- MC_Guids
  MaxOwned = 2
  MaxErrs = 2

SPECIFICATION Spec

INVARIANT TypeOK
INVARIANT ParentSameCard
INVARIANT NoLeak

PROPERTY ImplementsEnumContract
