\* Overlapping batches and single moves with no key between them
\* while statements come and go: what the row locks and the guards hold alone.
CONSTANTS
  Parcel = {p1, p2}
  Rider = {r1}
  Placeholder = {}
  Request = {q1, q2}
  None = None
  CodAmount = 2
  PartialCash = {1}
  Exchange = {p1}
  HandedOff = {}
  DirectDelivery = {p1, p2}
  Kinds = {"single", "bulk"}
  Roles = {"force"}
  Targets = {"ready_to_deliver", "delivered"}
  Redis = "down"
  StatementsRace = TRUE
SPECIFICATION Spec
INVARIANTS BatchesLeaveNoGap OneExchangeReturn
PROPERTIES RewritesAccounted
SYMMETRY SymmetricSets
