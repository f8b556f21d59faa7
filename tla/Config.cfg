\* Every file of up to MaxChars characters of two letters, blanks, newlines,
\* comments and characters that are refused.
CONSTANTS
  Letter = {"a", "b"}
  Item <- MCItem
  Unset = Unset
  MaxChars = 8
SPECIFICATION Spec
INVARIANTS ReadsLines StringsOwned
CHECK_DEADLOCK FALSE
