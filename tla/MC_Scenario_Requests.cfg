CONSTANTS
  s0 = s0  s1 = s1  s2 = s2
  e0 = e0  e1 = e1  e2 = e2
  A = A
  Syncs <- MC_Syncs
  Events <- MC_Events
  Itvs <- MC_Itvs
  SyncOf <- MC_SyncOf
  StartEv <- MC_StartEv
  EndEv <- MC_EndEv
  StartSync = s0
  RootCapable <- MC_RootCapable
  MaxRequests = 2
  Authored = {}
  FlagOps = FALSE
SPECIFICATION Spec
INVARIANT NoDanglingRequest
