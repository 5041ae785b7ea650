\* Two transactions over a branch's statements; two handlers over the requests
\* of two vendors.
CONSTANTS
  o1 = o1
  o2 = o2
  Order = {o1, o2}
  Cash <- Cashes
  Rates = {1}
  StatementId = {1, 2}
  PaymentId = {p1, p2, p3}
  Amounts = {2}
  Tx = {q1, q2}
  v1 = v1
  v2 = v2
  s1 = s1
  s2 = s2
  Vendor = {v1, v2}
  VendorStatement = {s1, s2}
  Owner <- Owners
  RequestId = {p1, p2, p3}
  Handler = {q1, q2}
SPECIFICATION EitherSpec
INVARIANTS EitherTypeOK ReceiptsAccounted PaidIsBacked AnsweredOnce
PROPERTY ClosedForGood
CONSTRAINT OneRefused
SYMMETRY Symmetric
