SPECIFICATION FidelitySpec
CONSTANTS
  Name <- Names
  Helper = "helper"
  Hypotheses <- Some
  Stated <- Few
  MaxEdits = 2
INVARIANTS HeadersInv ContractInv
