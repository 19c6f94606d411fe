\* Inputs that also hold white space and signs, which operator>> accepts.
CONSTANTS
  Alphabet = {"1", ".", " ", "+", "-", "0"}
  MaxLen = 4
SPECIFICATION Spec
INVARIANT AgreesWithGrammar
CHECK_DEADLOCK FALSE
