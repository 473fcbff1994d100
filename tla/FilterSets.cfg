SPECIFICATION Spec
CONSTANTS
  k1 = k1
  k2 = k2
  None = None
  Kinds <- TwoKinds
  Filters <- TwoFilters
  Kernels <- AllOneOrNone
  cc = 3
  CPUs <- TwoCPUs
INVARIANT KernelLetsThrough
PROPERTY DeliveredPassFilter
