\* A parcel with partial cash recorded goes out again with another rider.
CONSTANTS
  Parcel = {p1}
  Rider = {r1, r2}
  Placeholder = {}
  Request = {q1, q2}
  None = None
  CodAmount = 2
  PartialCash = {1}
  Exchange = {}
  HandedOff = {}
  DirectDelivery = {p1}
  Kinds = {"single"}
  Roles = {"admin"}
  Targets = {"rider_assigned", "picked_up", "arrived", "ready_to_deliver", "sent_for_delivery", "partially_delivered", "ready_to_return", "sent_to_vendor"}
  Redis = "up"
  StatementsRace = FALSE
SPECIFICATION Spec
PROPERTIES CashStaysWithCollector
