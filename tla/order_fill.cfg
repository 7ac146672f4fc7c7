CONSTANTS
  None = None
  ann = ann
  bob = bob
  Users = {ann, bob}
  Keys = {k1, k2}
  Quotes = {q1, q2}
  Handlers = {h1, h2}
  Terms <- MCTerms
  Minted <- AnnMinted
  Deposited <- BothDeposited
  PayoutAtoms = 3
  TickAtoms = 1
  MinimumOrderQuantity = 1
  MaximumPositionQuantity = 4
  MakerBasisPoints = 2500
  TakerBasisPoints = 5000
  FlatAtoms = 1
SYMMETRY Symmetry
SPECIFICATION Spec
INVARIANT LotsAreComplete
CHECK_DEADLOCK FALSE
