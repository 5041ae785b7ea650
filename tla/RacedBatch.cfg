\* Two batches overlap without the status lock.
CONSTANTS
  Parcel = {p1, p2}
  Rider = {r1}
  Placeholder = {}
  Request = {q1, q2}
  None = None
  CodAmount = 2
  PartialCash = {1}
  Exchange = {}
  HandedOff = {}
  DirectDelivery = {}
  Kinds = {"bulk"}
  Roles = {"force"}
  Targets = {"sent_for_delivery", "failed_delivery", "ready_to_deliver", "delivered"}
  Redis = "failing"
  StatementsRace = FALSE
SPECIFICATION Spec
PROPERTIES RacedParcelsLeftAlone
