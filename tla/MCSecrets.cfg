CONSTANTS
  ClientId = FALSE
  Flows = {f1}
  MaxTokens = 2
  MaxRequests = 1
  MaxChanges = 4
SPECIFICATION SecretsFairSpec
INVARIANTS VaultKeepsUp GaveUpIsShown
PROPERTIES ErasedOnlyRefused DueIsRefreshed
CHECK_DEADLOCK FALSE
