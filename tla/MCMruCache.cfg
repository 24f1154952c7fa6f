SPECIFICATION Spec
CONSTANTS
  Keys = {k1, k2, k3, k4}
  Snapshots = {s1, s2}
  DesiredMiB <- MCDesiredMiB
  AverageMiB <- MCAverageMiB
INVARIANT TypeOK
INVARIANT ListIndexesCache
PROPERTY ImplementsLru
