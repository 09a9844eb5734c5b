\* Two threads, two context lifetimes, two devices listed per scan.
CONSTANTS
  t1 = t1
  t2 = t2
  NoThread = NoThread
  Threads <- MC_Threads
  MaxGen = 2
  DevCount = 2

SPECIFICATION Spec

INVARIANT LockReleasedOnReturn
INVARIANT ScanSeesOneContext
INVARIANT ContextNotLeaked
PROPERTY LockEventuallyReleased
