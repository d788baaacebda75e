SPECIFICATION Spec
CONSTANTS
  Orders = {o1, o2}
  NoOrder = NoOrder
  CancelQueueCap = 1
  SweepEvery = 1
  MaxPosts = 2
  MaxFailures = 1
  MaxTimeouts = 1
  MaxEvents = 1
  MaxRestarts = 1
SYMMETRY OrderSymmetry
INVARIANT TypeOK
PROPERTIES PostedOnce GhostsAreGone SweepSparesManaged
