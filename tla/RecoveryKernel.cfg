SPECIFICATION Spec
CONSTANTS
  Approvals = {a1, a2}
  Keys = {k1, k2}
  Tickets = {t1, t2}
  Calls = {c1, c2}
  None = None
  MaxFaults = 1
  MaxVerify = 1
SYMMETRY Symmetry
CHECK_DEADLOCK FALSE
INVARIANTS
  OneDispatchPerKey
  ConsumedTicketWasReadBack
  RecoveredWasReadBack
  ReceiptIsEvidenced
  ApprovalIsSingleUse
