\* Two orders of a vendor and the last claim of a voucher; one order, diverted.
CONSTANTS
  v1 = v1
  Order = {o1, o2}
  Claim = {k1, k2}
  Vendor = {v1}
  Owner <- Both
  Request = {r1, r2}
  None = None
  Quote = {3, 5}
  Fee = {2}
  MaxFees = 2
  Offer <- Percent
SPECIFICATION Spec
INVARIANTS TypeOK ClaimMatchesOrder VoucherLimits SettledDiscountFrozen ChargesExplained
CONSTRAINT PricedAlone
ACTION_CONSTRAINT ForcedAlone
SYMMETRY Interchangeable
