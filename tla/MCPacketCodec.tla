---------------------------- MODULE MCPacketCodec ----------------------------
(* Types for model checking PacketCodec, one for each walker and for each  *)
(* pair of walkers that may disturb each other, with all their values up   *)
(* to a length at which the size of a container no longer fits.            *)
EXTENDS PacketCodec

CONSTANT MaxLength  \* bound: elements of a container, characters of a string

MCDeclared == <<
    Num(1), Num(2), Empty, String, SpString, End,     \*  1 ..  6
    Sp(1), Array(2, 1), Optional(1), Optional(2),     \*  7 .. 10
    Optional(4), Sp(9), Constrained(7, 1, 2),         \* 11 .. 13
    Object(1, 6), Object(4, 14), Object(2, 15),       \* 14 .. 16
    Object(7, 14), Object(5, 14),                     \* 17 .. 18
    Object(11, 6), Object(10, 19), Object(1, 20),     \* 19 .. 21
    Object(3, 14), Object(1, 22),                     \* 22 .. 23
    Object(8, 6), Object(12, 24),                     \* 24 .. 25
    Object(9, 6), Object(1, 26), Optional(27),        \* 26 .. 28
    Object(28, 6), Object(13, 29)>>                   \* 29 .. 30

(* The types of whole packets. *)
Packets == {16, 17, 18, 21, 23, 25, 30}

UpTo(n, S) == UNION {[1 .. k -> S] : k \in 0 .. n}

Small[t \in 1 .. Len(MCDeclared)] ==
    LET d == MCDeclared[t]
    IN  CASE d.kind = "num" -> [1 .. d.width -> Byte]
          [] d.kind \in {"empty", "end"} -> {<<>>}
          [] d.kind \in {"string", "spstring"} -> UpTo(MaxLength, Byte)
          [] d.kind = "array" -> [1 .. d.size -> Small[d.of]]
          [] d.kind = "sp" -> UpTo(MaxLength, Small[d.of])
          [] d.kind = "optional" -> UpTo(1, Small[d.of])
          [] d.kind = "constrained" -> Small[d.of]
          [] d.kind = "object" -> Small[d.first] \X Small[d.rest]

MCSamples == UNION {{t} \X Small[t] : t \in Packets}
=============================================================================
