SPECIFICATION Spec
CONSTANTS
  Launches <- TwoCreators
  Editors <- ThreeEditors
  Wallets <- TheirWallets
  Kinds <- OneKind
  MaxRequests <- TheirRequests
INVARIANTS
  OwnContent
  EditsSerial
