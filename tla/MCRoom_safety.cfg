SPECIFICATION Spec
CONSTANTS
  u1 = u1
  u2 = u2
  a1 = a1
  a2 = a2
  Users = {u1}
  Agents = {a1}
  System = system
  Keys = {k1, k2}
  Requests = {r1}
  Finalizers = {f1}
  Changes <- FirstAgent
  Nothing = nothing
  MaxAgents = 1
  Grace = 1
  MaxCrashes = 1
SYMMETRY Symmetry
INVARIANTS
  ArchivedIsSettled
  RepliesMatchWakes
  TranscriptOrdered
PROPERTIES
  WakeLifecycle
  NoLateReply
CHECK_DEADLOCK FALSE
