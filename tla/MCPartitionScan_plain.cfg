\* Every text of up to 4 characters over digits, signs and white space, a
\* few hex, octal and "unassigned" texts, and two that pass 2^32.
CONSTANTS
  Alphabet = {"0", "1", "8", "+", "-", " "}
  MaxLen = 4
  ExtraInputs <- MCExtraWrap
SPECIFICATION Spec
INVARIANT AcceptsEveryPartition
INVARIANT AcceptsOnlyPartitionsOrOverflow
\* The case runs once; the final state has no successor.
CHECK_DEADLOCK FALSE
