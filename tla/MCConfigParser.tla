--------------------------- MODULE MCConfigParser ---------------------------
(***************************************************************************)
(* Instantiation of ConfigParser for TLC: the table that stands for       *)
(* strcasecmp's case folding, the outcomes of the <partition> case         *)
(* computed by PartitionScan, and the <program> values.                    *)
(***************************************************************************)
EXTENDS ConfigParser

\* every word the inputs use, with its lower-case form
MCLower ==
  ("formatted" :> "formatted") @@ ("raw" :> "raw") @@ ("unix" :> "unix") @@
  ("RAW" :> "raw") @@ ("bogus" :> "bogus") @@
  ("UDP" :> "udp") @@ ("TCP" :> "tcp") @@ ("tcp" :> "tcp") @@
  ("none" :> "none") @@ ("gzip" :> "gzip") @@ ("GZIP" :> "gzip") @@
  ("local" :> "local") @@ ("Local" :> "local") @@
  ("x" :> "x")

\* the <partition> texts as characters, and the case's outcomes on each
PS == INSTANCE PartitionScan
MCChars ==
  ("Unassigned" :> <<"U","n","a","s","s","i","g","n","e","d">>) @@
  ("3" :> <<"3">>) @@ ("-2" :> <<"-","2">>) @@ ("3x" :> <<"3","x">>) @@
  ("010" :> <<"0","1","0">>)
MCPartitionOf == [w \in DOMAIN MCChars |-> PS!PartitionOf(MCChars[w])]

\* <program> values as char codes: 48 letters, 49 letters, one with a space
Letters(n) == [i \in 1..n |-> 65]
MCPrograms == {Letters(48), Letters(49), <<65, 32, 66>>}
=============================================================================
