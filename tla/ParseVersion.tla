--------------------------- MODULE ParseVersion ---------------------------
(***************************************************************************)
(* parse_version() of the JSON output's Config.cpp: the check applied to   *)
(* the <brokerVersion> of a <kafka> output.  The function reads up to four *)
(* dot-separated integers from a std::istringstream with operator>>.       *)
(*                                                                         *)
(* The stream is modelled by what it does: a read position into the input *)
(* characters and the eof bit.  operator>> into an int (skip leading       *)
(* white space, optional sign, decimal digits, stop at the first           *)
(* non-digit, set eof when the end is reached, fail when no digit is read  *)
(* or the value overflows) is the operator Extract.  Each pass of the      *)
(* for-loop is two steps: the separator read by get() and the field read   *)
(* by operator>>.                                                          *)
(***************************************************************************)
EXTENDS Integers, Sequences, FiniteSets

CONSTANTS
  Alphabet,   \* characters (one-character strings) the input may contain
  MaxLen      \* longest input string checked

ASSUME MaxLen \in Nat

FIELDS_MIN == 2
FIELDS_MAX == 4
INT_MAX    == 2147483647

Digits     == {"0", "1", "2", "3", "4", "5", "6", "7", "8", "9"}
DigitValue == [d \in Digits |->
                 CHOOSE n \in 0..9 : <<"0","1","2","3","4","5","6","7","8","9">>[n + 1] = d]
\* isspace() in the "C" locale
Space      == {" ", "\t", "\n", "\f", "\r"}

Inputs == UNION {[1..n -> Alphabet] : n \in 0..MaxLen}

VARIABLES
  str,       \* the input string, a sequence of characters
  pos,       \* index of the next character the stream will read
  eof,       \* the stream's eofbit
  idx,       \* the loop counter of parse_version
  version,   \* the output array version[4]
  pc         \* "cond", "sep", "field", or the result "ok" / "err"

vars == <<str, pos, eof, idx, version, pc>>

(***************************************************************************)
(* operator>>(int&) on the stream positioned at p: the sentry skips white  *)
(* space; num_get reads an optional sign and the decimal digits that       *)
(* follow.  Result: fail bit, the value stored, new position, eof bit.     *)
(***************************************************************************)
RECURSIVE SkipSpace(_, _)
SkipSpace(s, p) == IF p <= Len(s) /\ s[p] \in Space THEN SkipSpace(s, p + 1) ELSE p

RECURSIVE DigitsEnd(_, _)
DigitsEnd(s, p) == IF p <= Len(s) /\ s[p] \in Digits THEN DigitsEnd(s, p + 1) ELSE p

RECURSIVE Accumulate(_, _, _, _)
Accumulate(s, p, q, acc) ==
  IF p >= q THEN acc ELSE Accumulate(s, p + 1, q, 10 * acc + DigitValue[s[p]])

Extract(s, p) ==
  LET b    == SkipSpace(s, p)
      sgn  == b <= Len(s) /\ s[b] \in {"+", "-"}
      d    == IF sgn THEN b + 1 ELSE b
      e    == DigitsEnd(s, d)
      mag  == Accumulate(s, d, e, 0)
      neg  == sgn /\ s[b] = "-"
  IN [fail |-> e = d \/ mag > INT_MAX,
      val  |-> IF neg THEN -mag ELSE mag,
      pos  |-> e,
      eof  |-> e > Len(s)]

Init ==
  /\ str \in Inputs
  /\ pos = 1
  /\ eof = FALSE
  /\ idx = 0
  /\ version = [i \in 1..FIELDS_MAX |-> 0]
  /\ pc = "cond"

\* fault: the loop bound on idx is lost
LoopEnterUnbounded ==
  /\ pc = "cond"
  /\ ~eof
  /\ pc' = IF idx # 0 THEN "sep" ELSE "field"
  /\ UNCHANGED <<str, pos, eof, idx, version>>

\* for (idx = 0; idx < FIELDS_MAX && !parser.eof(); idx++): enter the body
LoopEnter ==
  /\ pc = "cond"
  /\ idx < FIELDS_MAX /\ ~eof
  /\ pc' = IF idx # 0 THEN "sep" ELSE "field"
  /\ UNCHANGED <<str, pos, eof, idx, version>>

LoopExitCheck(e, i) == ~e \/ i < FIELDS_MIN

LoopExit ==
  /\ pc = "cond"
  /\ ~(idx < FIELDS_MAX /\ ~eof)
  /\ pc' = IF LoopExitCheck(eof, idx) THEN "err" ELSE "ok"
  /\ UNCHANGED <<str, pos, eof, idx, version>>

\* if (idx != 0 && parser.get() != '.') return IPX_ERR_FORMAT
ReadSeparator ==
  /\ pc = "sep"
  /\ IF pos > Len(str)
       THEN /\ eof' = TRUE /\ pos' = pos /\ pc' = "err"
       ELSE /\ pos' = pos + 1 /\ eof' = eof
            /\ pc' = IF str[pos] = "." THEN "field" ELSE "err"
  /\ UNCHANGED <<str, idx, version>>

\* parser >> version[idx]; if (parser.fail() || version[idx] < 0) error
FieldRejected(r) == r.fail \/ r.val < 0

ReadField ==
  /\ pc = "field"
  /\ LET r == Extract(str, pos) IN
       /\ pos' = r.pos
       /\ eof' = r.eof
       /\ version' = [version EXCEPT ![idx + 1] = IF r.fail THEN 0 ELSE r.val]
       /\ IF FieldRejected(r)
            THEN pc' = "err" /\ idx' = idx
            ELSE pc' = "cond" /\ idx' = idx + 1
  /\ UNCHANGED str

Next == LoopEnter \/ LoopExit \/ ReadSeparator \/ ReadField

Spec == Init /\ [][Next]_vars

-----------------------------------------------------------------------------
(***************************************************************************)
(* The reference: the grammar the specification gives the function, 2 to  *)
(* 4 dot-separated non-empty runs of decimal digits and nothing else,      *)
(* missing fields 0.                                                       *)
(***************************************************************************)
RECURSIVE SplitAtDots(_)
SplitAtDots(s) ==
  IF \A i \in 1..Len(s) : s[i] # "."
    THEN <<s>>
    ELSE LET k == CHOOSE i \in 1..Len(s) :
                    s[i] = "." /\ \A j \in 1..(i - 1) : s[j] # "."
         IN <<SubSeq(s, 1, k - 1)>> \o SplitAtDots(SubSeq(s, k + 1, Len(s)))

RefFields(s) == SplitAtDots(s)

RefAccepts(s) ==
  LET f == RefFields(s) IN
  /\ Len(f) \in FIELDS_MIN..FIELDS_MAX
  /\ \A i \in 1..Len(f) : Len(f[i]) > 0 /\ \A j \in 1..Len(f[i]) : f[i][j] \in Digits

RefVersion(s) ==
  LET f == RefFields(s) IN
  [i \in 1..FIELDS_MAX |-> IF i <= Len(f) THEN Accumulate(f[i], 1, Len(f[i]) + 1, 0) ELSE 0]

-----------------------------------------------------------------------------
TypeOK ==
  /\ str \in Inputs
  /\ pos \in 1..(MaxLen + 1)
  /\ eof \in BOOLEAN
  /\ idx \in 0..FIELDS_MAX
  /\ version \in [1..FIELDS_MAX -> Int]
  /\ pc \in {"cond", "sep", "field", "ok", "err"}

(***************************************************************************)
(* When parse_version returns, it has accepted the string exactly when the *)
(* specified grammar accepts it, and on acceptance version[] holds the     *)
(* fields with the missing ones 0.  This exercises the stream's eof bit,   *)
(* the separator read and the field count bounds of the loop.              *)
(***************************************************************************)
AgreesWithGrammar ==
  pc \in {"ok", "err"} =>
    /\ (pc = "ok") = RefAccepts(str)
    /\ pc = "ok" => version = RefVersion(str)
=============================================================================
