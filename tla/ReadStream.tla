----------------------------- MODULE ReadStream -----------------------------
(***************************************************************************)
(* plakpacs::read_stream, reduced to the size of its buffer and a reading  *)
(* position: what the code calls _bytes.size() and _position.  Both are    *)
(* unsigned words, and the bounds check subtracts in unsigned arithmetic.  *)
(***************************************************************************)
EXTENDS Integers

CONSTANT WordSize  \* number of values of std::size_t

ASSUME WordAssumption == WordSize \in Nat \ {0}

Words == 0 .. WordSize - 1

(* The difference of two words. *)
Minus(a, b) == IF b <= a THEN a - b ELSE a - b + WordSize

(* read_stream::can_read_num(n) at position pos of a buffer of size bytes. *)
CanReadNum_NoSize(bytes, pos, n) == pos <= bytes
CanReadNum_Strict(bytes, pos, n) == pos < Minus(bytes, n)
CanReadNum(bytes, pos, n) == pos <= Minus(bytes, n)

(* read<T>() goes ahead, where n is sizeof(T), or 0 for an empty type, for *)
(* which nothing is checked and nothing consumed; otherwise it throws.     *)
Reads(bytes, pos, n) == n = 0 \/ CanReadNum(bytes, pos, n)
=============================================================================
