CONSTANTS
  s0 = s0  s1 = s1
  e0 = e0  e1 = e1
  A = A
  Syncs <- MCF_Syncs
  Events <- MCF_Events
  Itvs <- MCF_Itvs
  SyncOf <- MCF_SyncOf
  StartEv <- MCF_StartEv
  EndEv <- MCF_EndEv
  StartSync = s0
  RootCapable = {s0}
  MaxRequests = 1
  Authored = {"NONE", "PENDING", "HAPPENED", "DISPOSED"}
  FlagOps = TRUE
SPECIFICATION Spec
INVARIANTS TypeOK RunningSetSound MutedScenarioSilencesMembers
PROPERTY ResetComponentTearsDown
