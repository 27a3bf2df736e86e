\* Three pools, two pages of two objects; pools are destroyed and created again.
CONSTANTS
  Pools = {a, b, c}
  Nobody = Nobody
  NumElements = 2
  NumPages = 2
  MaxCreates = 4
SPECIFICATION Spec
SYMMETRY PoolSymmetry
INVARIANTS TypeOK InOnePlace PagesAccounted NoPageLeaks
\* The threads may stop calling.
CHECK_DEADLOCK FALSE
