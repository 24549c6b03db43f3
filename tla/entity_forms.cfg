\* Every form; two presses of Enter whose clicks may come at any time.
SPECIFICATION FormSpec
CONSTANTS
  Forms <- MCForms
  MaxEnters = 2
INVARIANTS
  ButtonIsJustified
  DuplicateIsShown
  SentOnce
CHECK_DEADLOCK FALSE
