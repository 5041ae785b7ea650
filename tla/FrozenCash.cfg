\* A carrier delivers a parcel whose partial cash is already on a statement.
CONSTANTS
  Parcel = {p1}
  Rider = {r1}
  Placeholder = {}
  Request = {q1, q2}
  None = None
  CodAmount = 2
  PartialCash = {1}
  Exchange = {}
  HandedOff = {p1}
  DirectDelivery = {}
  Kinds = {"single", "carrier"}
  Roles = {"admin"}
  Targets = {"rider_assigned", "picked_up", "arrived", "ready_to_deliver", "sent_for_delivery", "partially_delivered", "follow_up", "oov", "dispatched", "arrived_at_branch", "delivered"}
  Redis = "up"
  StatementsRace = FALSE
SPECIFICATION Spec
INVARIANTS FrozenCopiesAgree
