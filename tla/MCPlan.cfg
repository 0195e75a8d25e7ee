SPECIFICATION Spec
CONSTANTS
  c1 = c1
  c2 = c2
  n1 = n1
  n2 = n2
  None = None
  Clients <- TwoClients
  Names <- TwoNames
  Existing <- SecondExists
  Cases = {t1, t2}
  Wants <- SomeWants
  OnExisting = {"duplicate", "see_other"}
  Faults = {"failed", "refused", "lost"}
  MaxCalls = 4
  MaxFaults = 1
INVARIANTS TypeOK  ConfiguredRight FailsOnlyTroubled LinksKept
SYMMETRY Symmetry
CHECK_DEADLOCK FALSE
