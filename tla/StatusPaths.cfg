\* All four handlers, every account and every status, on one parcel.
CONSTANTS
  Parcel = {p1}
  Rider = {r1, r2}
  Placeholder = {pm}
  Request = {q1, q2}
  None = None
  CodAmount = 2
  PartialCash = {1}
  Exchange = {p1}
  HandedOff = {p1}
  DirectDelivery = {}
  Kinds = {"single", "bulk", "carrier", "follow_up"}
  Roles = {"force", "admin", "vendor", "rider"}
  Targets <- AllStatuses
  Redis = "up"
  StatementsRace = TRUE
SPECIFICATION Spec
INVARIANTS TypeOK SnapshotsAreCurrent TimelineUnbroken CashMatchesDelivery RiderReleased
PROPERTIES TerminalOnlyForced RewritesAccounted
SYMMETRY SymmetricSets
