\* 4294967297 = 2^32 + 1, beside the one-character texts.
CONSTANTS
  Alphabet = {"1"}
  MaxLen = 1
  ExtraInputs <- MCWrap
SPECIFICATION Spec
INVARIANT AcceptsExactlyPartitions
CHECK_DEADLOCK FALSE
