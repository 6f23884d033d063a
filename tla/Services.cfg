SPECIFICATION ServicesSpec
CONSTANTS
  Rules <- SomeRules
  Entities = {"card_number"}
  Values = {v1}
  Evaluations = {e1, e2}
  Reloads = {l1}
  MaxEdits = 1
  MaxAnalyses = 3
  Cards = {c1, c2}
  Devices = {d1, d2}
  IPs = {i1}
  Patches = {p1, p2}
  Statuses = {"OPEN", "CLOSED"}
  Analysts = {"ann"}
  MaxRecords = 2
  MaxPosted = 2
  MaxFaults = 2
  Services = {"alerts", "cases", "notifications", "stream", "profile", "gateway", "rules", "graph"}
  MaxBoots = 2
SYMMETRY Alike
INVARIANTS
  ServicesTypeOK
  ResultExplained
  StaleNeedsOverlap
  FindingsExplained
  OneCasePerAlert
  ClosedOnlyWhileStopping
PROPERTY
  PatchesCompose
CHECK_DEADLOCK FALSE
