\* An edit adds an order while another statement is being created over it.
CONSTANTS
  c1 = c1
  c2 = c2
  v1 = v1
  v2 = v2
  Collection <- Orders
  Cash <- Cashes
  Charge <- Charges
  CarrierHeld = {c2}
  StatementId = {s1, s2}
  Claim = {v1, v2}
  ClaimAmount <- Payments
  Request = {q1, q2}
SPECIFICATION Spec
INVARIANTS BilledOnce
SYMMETRY Symmetric
