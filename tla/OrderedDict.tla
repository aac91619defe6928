---------------------------- MODULE OrderedDict ----------------------------
(***************************************************************************)
(* The order of a collections.OrderedDict as the bounded caches of this     *)
(* code use it: a sequence of distinct keys, the oldest first; and what its *)
(* operations do, for keys of any kind.                                     *)
(***************************************************************************)
EXTENDS Integers, Sequences, Functions

Distinct(s) == \A i, j \in DOMAIN s : s[i] = s[j] => i = j

\* Mutant: re-storing a key leaves its old place in the order too.
WithoutKeyKept(s, key) == s

\* move_to_end (for a key that is present or about to be).
WithoutKey(s, key) ==
  IF key \notin Range(s) THEN s
  ELSE LET at == CHOOSE i \in DOMAIN s : s[i] = key
       IN  [i \in 1 .. Len(s) - 1 |-> IF i < at THEN s[i] ELSE s[i + 1]]

MoveToEnd(s, key) == Append(WithoutKey(s, key), key)
=============================================================================
