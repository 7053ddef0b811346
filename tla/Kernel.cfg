CONSTANTS
  NR_PROCS = 3
  s_trap_mask <- Masks
  s_k_call_mask <- KernelCalls
  ANY = ANY
  NONE = NONE
  NULL = NULL
SPECIFICATION Spec
INVARIANTS TypeOK NoWaitCycle NoLostWakeup QueueIsSenders SentIsDelivered NoneWaitsForDead AssertionsHold
PROPERTIES SendersInOrder
CHECK_DEADLOCK FALSE
