SPECIFICATION Spec
CONSTANTS
  alice = alice
  bob = bob
  Curve = Curve
  Pair = Pair
  Users <- MCUsers
  Creator = alice
  Treasury = bob
  Recipients <- MCRecipients
  Params <- MCParams
  Bps = 4
  Wealth = 5
INVARIANTS
  Solvent
  OnCurve
  GraduatesAtBoundary
PROPERTIES
  TradingEnds
