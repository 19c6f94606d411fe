-------------------------- MODULE MCPartitionScan --------------------------
(***************************************************************************)
(* The <partition> case of parse_kafka run on every text up to a length    *)
(* over a small alphabet, plus a few longer texts, and compared with what  *)
(* the specification says a partition is: "unassigned" or an int32 that is *)
(* not negative, written as an integer.                                    *)
(***************************************************************************)
EXTENDS PartitionScan
LOCAL INSTANCE SequencesExt

CONSTANTS
  Alphabet,     \* characters the texts may contain
  MaxLen,       \* every text up to this length is checked
  ExtraInputs   \* longer texts, given as sequences of characters

INT32_MAX == 2147483647

Inputs == BoundedSeq(Alphabet, MaxLen) \cup ExtraInputs

VARIABLES
  text,         \* content->ptr_string
  result        \* {} before the case runs, then {[ok, val]}

vars == <<text, result>>

Init == text \in Inputs /\ result = {}

\* case KAFKA_PARTION: one pass through the case for the yielded text
Convert ==
  /\ result = {}
  /\ \E o \in PartitionOf(text) : result' = {o}
  /\ UNCHANGED text

Spec == Init /\ [][Convert]_vars

-----------------------------------------------------------------------------
(***************************************************************************)
(* The reference: an integer written the way C writes integers, after      *)
(* optional white space and one sign: decimal [1-9][0-9]*, octal 0[0-7]*,  *)
(* hex 0[xX][0-9a-fA-F]+.  Its value is computed exactly, saturating at    *)
(* -1 ("does not fit") as soon as it passes INT32_MAX.                     *)
(***************************************************************************)
AllIn(t, S) == \A i \in 1..Len(t) : t[i] \in S

LitBase(t) ==
  CASE Len(t) >= 1 /\ t[1] # "0"                          -> 10
    [] Len(t) >= 2 /\ t[1] = "0" /\ t[2] \in {"x", "X"}    -> 16
    [] OTHER                                               -> 8

LitDigits(t) == IF LitBase(t) = 16 THEN SubSeq(t, 3, Len(t)) ELSE t

IsLiteral(t) ==
  /\ Len(LitDigits(t)) >= 1
  /\ \A i \in 1..Len(LitDigits(t)) : IsDigitOf(LitDigits(t)[i], LitBase(t))

RECURSIVE LitValue(_, _)
LitValue(t, b) ==
  IF t = <<>> THEN 0
  ELSE LET v == LitValue(Front(t), b)
           d == DigitValue(Last(t))
       IN  IF v = -1 \/ v > (INT32_MAX - d) \div b THEN -1 ELSE v * b + d

\* the ways to read s as white space, at most one sign and a literal
Body(s, i, j) == SubSeq(s, i + j + 1, Len(s))
Parses(s) ==
  { ij \in (0..Len(s)) \X (0..1) :
      LET i == ij[1]  j == ij[2] IN
      /\ i + j <= Len(s)
      /\ AllIn(SubSeq(s, 1, i), Space)
      /\ AllIn(SubSeq(s, i + 1, i + j), {"+", "-"})
      /\ IsLiteral(Body(s, i, j)) }

\* the magnitude of one reading; -1 when it does not fit
Magnitude(s, i, j) == LitValue(LitDigits(Body(s, i, j)), LitBase(Body(s, i, j)))

\* the signed value of one reading; -1 when the magnitude does not fit
Value(s, i, j) ==
  LET m == Magnitude(s, i, j)
  IN  IF m # -1 /\ j = 1 /\ s[i + 1] = "-" THEN -m ELSE m

\* white space, at most one sign and a bare "0x" or "0X" with no digit after it
HexPrefixOnly(s) ==
  \E i \in 0..Len(s), j \in 0..1 :
    /\ i + j + 2 = Len(s)
    /\ AllIn(SubSeq(s, 1, i), Space)
    /\ AllIn(SubSeq(s, i + 1, i + j), {"+", "-"})
    /\ s[i + j + 1] = "0" /\ s[i + j + 2] \in {"x", "X"}

\* the text spells an integer whose magnitude passes INT32_MAX
Overflows(s) == \E ij \in Parses(s) : Magnitude(s, ij[1], ij[2]) = -1

\* the numbers in 0..INT32_MAX the text spells (at most one)
Denotes(s) == { Value(s, ij[1], ij[2]) : ij \in Parses(s) } \cap 0..INT32_MAX

RefPartition(s) ==
  IF IsUnassigned(s) THEN {PARTITION_UA} ELSE Denotes(s)

-----------------------------------------------------------------------------
\* longer texts: hex, octal, the sentinel in mixed case, and 2^32 + 1
MCExtra ==
  { <<"0","x","1","f">>, <<"0","X","A">>, <<"-","0","x","1">>, <<"0","x","8","g">>,
    <<"0","7","7">>, <<" ","0","1","7","7">>,
    <<"U","n","A","s","s","i","g","n","e","d">>, <<"u","n","a","s","s","i","g","n","e","x">> }

MCWrap == { <<"4","2","9","4","9","6","7","2","9","7">> }

\* the longer texts together with the wrapping ones
MCExtraWrap ==
  MCExtra \cup MCWrap \cup
  { <<"-","4","2","9","4","9","6","7","2","9","5">>, <<"0","x">>, <<" ","-","0","X">> }

(***************************************************************************)
(* Whatever sscanf's outcome, the <partition> case accepts a text exactly  *)
(* when the text is "unassigned" or spells a partition number in           *)
(* 0..INT32_MAX, and then stores that number.  It is about the %c guard    *)
(* against trailing characters, the value < 0 check, and the base prefixes *)
(* and truncation of %i.                                                   *)
(***************************************************************************)
AcceptsExactlyPartitions ==
  \A o \in result :
    IF o.ok THEN RefPartition(text) = {o.val} ELSE RefPartition(text) = {}

(***************************************************************************)
(* Every text that is "unassigned" or spells a partition number in         *)
(* 0..INT32_MAX is accepted, whatever sscanf's outcome, and its number is  *)
(* stored: the case never refuses a valid partition.  It is about the      *)
(* value < 0 bound and the %c count test of parse_kafka refusing too much. *)
(***************************************************************************)
AcceptsEveryPartition ==
  \A o \in result : \A v \in RefPartition(text) : o.ok /\ o.val = v

(***************************************************************************)
(* A text the case accepts is "unassigned" or a partition number stored    *)
(* as written, unless it spells a number whose magnitude passes INT32_MAX  *)
(* (which %i truncates into the int32_t; see AcceptsExactlyPartitions), or *)
(* it is a bare "0x" prefix, which glibc's %i may store as 0.  It is about *)
(* the %c guard against trailing characters and the base prefixes of %i.   *)
(***************************************************************************)
AcceptsOnlyPartitionsOrOverflow ==
  \A o \in result :
    o.ok => \/ RefPartition(text) = {o.val}
            \/ Overflows(text)
            \/ HexPrefixOnly(text) /\ o.val = 0
=============================================================================
