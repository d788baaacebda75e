SPECIFICATION Spec
CONSTANTS
  Orders = {o1}
  NoOrder = NoOrder
  CancelQueueCap = 1
  SweepEvery = 2
  MaxPosts = 2
  MaxFailures = 2
  MaxTimeouts = 1
  MaxEvents = 1
  MaxRestarts = 1
PROPERTIES OrphansLeaveTheBook VanishedOrdersEnd TimeoutsResolved
