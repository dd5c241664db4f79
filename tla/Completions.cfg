CONSTANTS
  r1 = r1
  r2 = r2
  Requests = {r1, r2}
  MaxAttempts = 2
  Refusable <- First
  Cancellable <- First
  MaxCrashes = 1
SPECIFICATION FairSpec
INVARIANTS ReceiptsAccepted LeaseCoversRequest
PROPERTIES KeepsContract ReceiptKept AdmittedEnds

