SPECIFICATION SessionsSpec
CONSTANTS
  Requests = {1, 2, 3}
  None = none
  MaxOpened = 3
  MaxCreated = 5
  MaxExpired = 2
  Visitors = {1}
  Resetters = {q1, q2}
  MaxRows = 2
  MaxResetTokens = 1
  MaxPasswords = 3
INVARIANT StrandedBehindInvalid
INVARIANT RefusedForAReason
INVARIANT TokenSetsOnePassword
INVARIANT ResetLeavesNoOldRow
INVARIANT LoginsNotForked
PROPERTY SessionsImplemented
PROPERTY MessagesAnswered
CHECK_DEADLOCK FALSE
