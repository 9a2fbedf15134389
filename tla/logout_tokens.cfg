SPECIFICATION PresentedSpec
CONSTANTS
  Requests = {1}
  None = none
  MaxOpened = 3
  MaxCreated = 4
INVARIANT LogoutEndsTokens
CHECK_DEADLOCK FALSE
