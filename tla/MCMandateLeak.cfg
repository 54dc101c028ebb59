SPECIFICATION Spec
CONSTANTS
  i1 = i1
  i2 = i2
  Ids = {i1, i2}
  Payments <- TwoPayments
  Grants <- OneGrant
  NoPayment = NoPayment
  NoGrant = NoGrant
  Presentations = {c1, c2}
  Ceiling = 6
  Threshold = 2
INVARIANT FailureRecordsNoSpend
