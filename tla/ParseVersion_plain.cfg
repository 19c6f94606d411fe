\* Inputs over digits, the separator and one foreign character, long enough
\* for a fifth field ("1.1.1.1.1").
CONSTANTS
  Alphabet = {"1", ".", "x"}
  MaxLen = 9
SPECIFICATION Spec
INVARIANTS TypeOK 
\* parse_version returns: its final states have no successor.
CHECK_DEADLOCK FALSE
