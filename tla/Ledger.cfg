\* One statement over two orders, two instalments, operations and a sweep.
CONSTANTS
  c1 = c1
  c2 = c2
  Source = {s1}
  MaxInstalments = 2
  Month = {1}
  Today = 1
  Tx = {q1, q2, w1}
  Sweeper = {w1}
  Collection <- Orders
  Cash <- Cashes
  Charges = {0, 3}
  MaxVersions = 3
SPECIFICATION FairSpec
INVARIANTS TypeOK OneActivePosting CashNeverOverposted
PROPERTIES BookKept BooksCatchUp
