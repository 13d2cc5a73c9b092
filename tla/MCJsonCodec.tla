----------------------------- MODULE MCJsonCodec -----------------------------
(* Types for model checking JsonCodec, which combine the walkers that may  *)
(* disturb each other, with all their small values, and all documents of   *)
(* two levels over the names of their fields.                              *)
EXTENDS JsonCodec

MCDeclared == <<
    Num, String, AnyJson, End,                            \*  1 ..  4
    Optional(1), List(1), Array(2, 1),                    \*  5 ..  7
    Map(6), Optional(6), Optional(5),                     \*  8 .. 10
    Object("b", 5, 4), Object("a", 1, 11),                \* 11 .. 12
    Object("b", 7, 4), Object("a", 6, 13),                \* 13 .. 14
    Object("b", 2, 4), Object("a", 8, 15),                \* 15 .. 16
    Lenient("b", 9, 4), Lenient("a", 1, 17),              \* 17 .. 18
    Object("b", 3, 4), Object("a", 18, 19),               \* 19 .. 20
    Object("b", 1, 4), List(21), Object("a", 10, 4),      \* 21 .. 23
    Object("b", 23, 4), Object("a", 22, 24),              \* 24 .. 25
    Object("a", 2, 4), Optional(26), Object("b", 27, 4),  \* 26 .. 28
    Lenient("b", 1, 4), Lenient("a", 1, 29), List(30)>>   \* 29 .. 31

(* The types of whole documents. *)
Whole == {12, 14, 16, 20, 25, 28, 31}

UpTo(n, S) == UNION {[1 .. k -> S] : k \in 0 .. n}

ObjectsOf(S) == {JObject(f) : f \in [Name -> UpTo(1, S)]}

Simple == {Null, JNum(0), JText("x")}

Flat == Simple \cup {JArray(s) : s \in UpTo(2, Simple)} \cup ObjectsOf(Simple)

MCDocuments == Flat \cup ObjectsOf(Flat)

Small[t \in 1 .. Len(MCDeclared)] ==
    LET d == MCDeclared[t]
    IN  CASE d.kind = "num" -> 0 .. MaxNumber
          [] d.kind = "string" -> {"", "x"}
          [] d.kind = "any" -> Simple
          [] d.kind = "end" -> {<<>>}
          [] d.kind = "list" -> UpTo(2, Small[d.of])
          [] d.kind = "array" -> [1 .. d.size -> Small[d.of]]
          [] d.kind = "optional" -> UpTo(1, Small[d.of])
          [] d.kind = "map" -> [Name -> UpTo(1, Small[d.of])]
          [] d.kind = "object" -> Small[d.first] \X Small[d.rest]

MCSamples == UNION {{t} \X Small[t] : t \in Whole}

(* A value with an element in every container. *)
Full[t \in 1 .. Len(MCDeclared)] ==
    LET d == MCDeclared[t]
    IN  CASE d.kind = "num" -> MaxNumber
          [] d.kind = "string" -> "x"
          [] d.kind = "any" -> JText("x")
          [] d.kind = "end" -> <<>>
          [] d.kind \in {"list", "optional"} -> <<Full[d.of]>>
          [] d.kind = "array" -> [i \in 1 .. d.size |-> Full[d.of]]
          [] d.kind = "map" -> [k \in Name |-> <<Full[d.of]>>]
          [] d.kind = "object" -> <<Full[d.first], Full[d.rest]>>

MCUsed == [t \in Whole |-> Full[t]]
=============================================================================
