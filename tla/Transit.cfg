\* Scans, dispatches, receives and carrier handoffs racing for a parcel.
CONSTANTS
  Parcel = {p1}
  Manifest = {m1, m2}
  Clerk = {c1, c2}
  Hub <- OneHub
  NcmCovers = {p1}
  None = None
  MaxOrders = 3
SPECIFICATION Spec
INVARIANTS TypeOK OneScanManifest DepartsOnce OrdersAccounted
SYMMETRY Interchangeable
