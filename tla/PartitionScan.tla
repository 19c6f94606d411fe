--------------------------- MODULE PartitionScan ---------------------------
(***************************************************************************)
(* The <partition> case of Config::parse_kafka (Config.cpp):               *)
(*                                                                         *)
(*   if (strcasecmp(str, "unassigned") == 0) partition = UA; break;        *)
(*   if (sscanf(str, "%" SCNi32 "%c", &value, &aux) != 1 || value < 0)    *)
(*       throw invalid_argument(...);                                      *)
(*   partition = value;                                                    *)
(*                                                                         *)
(* sscanf is modelled by what glibc does with the two directives.  %i      *)
(* skips white space, takes an optional sign, picks the base from the      *)
(* prefix (0x/0X hex, 0 octal, else decimal) and converts with strtol into *)
(* a long, which is then stored into the int32_t by truncation: the value  *)
(* is the number modulo 2^32 read as two's complement.  (strtol saturates  *)
(* at LONG_MAX only beyond 18 digits; no input here is that long.)  %c     *)
(* then succeeds exactly when a character is left.  The value is kept in   *)
(* two 16-bit halves so that no intermediate leaves TLC's integers.        *)
(*                                                                         *)
(* A text is a sequence of one-character strings.                          *)
(***************************************************************************)
EXTENDS Integers, Sequences
LOCAL INSTANCE SequencesExt

PARTITION_UA == -1           \* RD_KAFKA_PARTITION_UA

\* isspace() in the "C" locale (vertical tab has no TLA+ string escape)
Space == {" ", "\t", "\n", "\f", "\r"}

LowerHex == <<"0","1","2","3","4","5","6","7","8","9","a","b","c","d","e","f">>
UpperHex == <<"0","1","2","3","4","5","6","7","8","9","A","B","C","D","E","F">>

\* is c a digit of base b, and its value
IsDigitOf(c, b) == \E i \in 1..b : LowerHex[i] = c \/ UpperHex[i] = c
DigitValue(c) == CHOOSE i \in 0..15 : LowerHex[i + 1] = c \/ UpperHex[i + 1] = c

-----------------------------------------------------------------------------
(* Unsigned 32-bit words as [hi, lo] halves                                *)
H == 65536
Zero == [hi |-> 0, lo |-> 0]

\* w * b + d  modulo 2^32
MulAdd(w, b, d) ==
  LET l == w.lo * b + d
  IN  [hi |-> (w.hi * b + l \div H) % H, lo |-> l % H]

\* -w  modulo 2^32
Negate(w) ==
  [hi |-> (H - w.hi - (IF w.lo = 0 THEN 0 ELSE 1)) % H, lo |-> (H - w.lo) % H]

\* the word read as int32_t
ToInt32(w) == IF w.hi >= H \div 2 THEN (w.hi - H) * H + w.lo ELSE w.hi * H + w.lo

-----------------------------------------------------------------------------
RECURSIVE SkipWs(_, _)
SkipWs(s, p) == IF p <= Len(s) /\ s[p] \in Space THEN SkipWs(s, p + 1) ELSE p

RECURSIVE RunEnd(_, _, _)
RunEnd(s, p, b) == IF p <= Len(s) /\ IsDigitOf(s[p], b) THEN RunEnd(s, p + 1, b) ELSE p

(***************************************************************************)
(* The %i directive on s: a set of outcomes [n, val, pos], n the return    *)
(* count so far (-1 is EOF: nothing but white space), pos the first        *)
(* character not consumed.  "0x" with no hex digit after it is a matching  *)
(* failure by the C standard, while glibc (bug 12701) has consumed the "x" *)
(* and stores 0: both are outcomes.                                        *)
(***************************************************************************)
ScanI(s) ==
  LET b    == SkipWs(s, 1)
      sgn  == b <= Len(s) /\ s[b] \in {"+", "-"}
      q    == IF sgn THEN b + 1 ELSE b
      zero == q <= Len(s) /\ s[q] = "0"
      hex  == zero /\ q + 1 <= Len(s) /\ s[q + 1] \in {"x", "X"}
      base == IF hex THEN 16 ELSE IF zero THEN 8 ELSE 10
      d    == IF hex THEN q + 2 ELSE q
      e    == RunEnd(s, d, base)
      mag  == FoldLeft(LAMBDA w, c : MulAdd(w, base, DigitValue(c)), Zero, SubSeq(s, d, e - 1))
      w    == IF sgn /\ s[b] = "-" THEN Negate(mag) ELSE mag
      fail == [n |-> 0, val |-> 0, pos |-> b]
  IN  CASE b > Len(s)     -> {[fail EXCEPT !.n = -1]}
        [] hex /\ e = d   -> {fail, [n |-> 1, val |-> 0, pos |-> d]}
        [] e = d          -> {fail}
        [] OTHER          -> {[n |-> 1, val |-> ToInt32(w), pos |-> e]}

\* sscanf(s, "%" SCNi32 "%c", &value, &aux): [matched, val]
SScanf(s) ==
  { [matched |-> IF r.n = 1 /\ r.pos <= Len(s) THEN 2 ELSE r.n, val |-> r.val]
      : r \in ScanI(s) }

-----------------------------------------------------------------------------
UNASSIGNED == <<"u","n","a","s","s","i","g","n","e","d">>
UpperAZ == <<"A","B","C","D","E","F","G","H","I","J","K","L","M",
             "N","O","P","Q","R","S","T","U","V","W","X","Y","Z">>
LowerAZ == <<"a","b","c","d","e","f","g","h","i","j","k","l","m",
             "n","o","p","q","r","s","t","u","v","w","x","y","z">>

\* tolower() as strcasecmp applies it
Fold(c) == IF \E i \in 1..26 : UpperAZ[i] = c
             THEN LowerAZ[CHOOSE i \in 1..26 : UpperAZ[i] = c] ELSE c

\* strcasecmp(s, "unassigned") == 0
IsUnassigned(s) ==
  Len(s) = Len(UNASSIGNED) /\ \A i \in 1..Len(s) : Fold(s[i]) = UNASSIGNED[i]

\* faulty: the %c guard is ignored, trailing characters pass
PartitionBadTrailing(r) == r.matched < 1 \/ r.val < 0

\* faulty: a zero partition refused (value <= 0)
PartitionBadZero(r) == r.matched # 1 \/ r.val <= 0

\* sscanf(...) != 1 || value < 0
PartitionBad(r) == r.matched # 1 \/ r.val < 0

\* The outcomes of the whole case: [ok, val], ok FALSE when it throws.
PartitionOf(s) ==
  IF IsUnassigned(s)
    THEN {[ok |-> TRUE, val |-> PARTITION_UA]}
    ELSE {[ok |-> ~PartitionBad(r), val |-> IF PartitionBad(r) THEN 0 ELSE r.val]
            : r \in SScanf(s)}
=============================================================================
