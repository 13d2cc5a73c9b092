---------------------------- MODULE BinaryWalkers ----------------------------
(***************************************************************************)
(* plakpacs: serializer and binary_walker, from a value to bytes and back, *)
(* over the bounds check of read_stream.  A byte is 0 or one of a few      *)
(* others.  A program declares its types one after the other, each made of *)
(* types before it, which are named by their place.  A type is a record    *)
(* with a kind:                                                            *)
(*   num          a trivially copyable type; its value is its bytes        *)
(*   empty        a type without members                                   *)
(*   string       std::string, the sequence of its characters              *)
(*   array        a container of a size known at compile time              *)
(*   sp           sp_vector or sp_list                                     *)
(*   spstring     sp_string                                                *)
(*   optional     std::optional, a sequence of no or one value             *)
(*   constrained  constrained<T, container_size_limit<least, most>>        *)
(*   object       a type with bpacs reflection from one of its fields on:  *)
(*                that field, and the object from the next field on; its   *)
(*                value is the pair of their values                        *)
(*   end          an object behind its last field                          *)
(* Reading is into a fresh object.  C-style strings, which cannot be read, *)
(* and types that contain themselves are left out.                         *)
(***************************************************************************)
EXTENDS ReadStream, Sequences

CONSTANTS
    Declared,   \* the types of a program
    Base,       \* number of values of a byte
    SizeWidth,  \* bytes of the std::uint32_t before an sp_container
    SpLimit,    \* the 65536 an sp_container may hold when it is read
    Junk        \* the byte written for an empty type, which nobody has set

Type == DOMAIN Declared

Byte == 0 .. Base - 1

(* What fits into a std::vector<uint8_t>. *)
Buffer == {s \in Seq(Byte) : Len(s) < WordSize}

Num(w) == [kind |-> "num", width |-> w]
Empty == [kind |-> "empty"]
String == [kind |-> "string"]
SpString == [kind |-> "spstring"]
End == [kind |-> "end"]
Array(n, t) == [kind |-> "array", size |-> n, of |-> t]
Sp(t) == [kind |-> "sp", of |-> t]
Optional(t) == [kind |-> "optional", of |-> t]
Constrained(t, least, most) ==
    [kind |-> "constrained", of |-> t, least |-> least, most |-> most]
Object(t, rest) == [kind |-> "object", first |-> t, rest |-> rest]

(* The types made of known ones. *)
MadeOf(known) ==
    [kind : {"num"}, width : Words \ {0}]
    \cup {Empty, String, SpString, End}
    \cup [kind : {"array"}, of : known, size : Nat]
    \cup [kind : {"sp", "optional"}, of : known]
    \cup [kind : {"constrained"}, of : known, least : Nat, most : Nat]
    \cup [kind : {"object"}, first : known, rest : known]

-----------------------------------------------------------------------------
(***************************************************************************)
(* Sizes, cast to std::uint32_t                                            *)
(***************************************************************************)

(* What is left of a size behind its first bytes, the lowest first. *)
Above(n) ==
    LET above[i \in 0 .. SizeWidth] == IF i = 0 THEN n ELSE above[i - 1] \div Base
    IN  above

SizeBytes(n) == [i \in 1 .. SizeWidth |-> Above(n)[i - 1] % Base]

(* The number that a size read stands for, from its highest byte on. *)
Sum_Reversed(b) ==
    LET sum[i \in 0 .. SizeWidth] == IF i = 0 THEN 0 ELSE sum[i - 1] * Base + b[i]
    IN  sum
Sum(b) ==
    LET sum[i \in 0 .. SizeWidth] ==
            IF i = 0 THEN 0 ELSE sum[i - 1] * Base + b[SizeWidth - i + 1]
    IN  sum

SizeOf(b) == Sum(b)[SizeWidth]

ASSUME WalkersAssumption ==
    /\ Base \in Nat \ {0, 1}
    /\ SizeWidth \in Words \ {0}
    /\ SpLimit \in Nat
    /\ Above(SpLimit)[SizeWidth] = 0
    /\ Junk \in Byte
    /\ Declared \in Seq(MadeOf(Nat))
    /\ \A t \in Type : Declared[t] \in MadeOf(1 .. t - 1)

-----------------------------------------------------------------------------
(***************************************************************************)
(* Reading: the outcome of a read at a position (from 0) of the bytes s.   *)
(* "undefined": the bounds check let a read pass that goes behind the      *)
(* buffer, or a bool was read from a byte that is none.                    *)
(***************************************************************************)

Done(v, pos) == [status |-> "ok", value |-> v, pos |-> pos]
Threw == [status |-> "threw", value |-> <<>>, pos |-> 0]
Undefined == [status |-> "undefined", value |-> <<>>, pos |-> 0]

Ok(r) == r.status = "ok"

ReadNum(w, s, pos) ==
    IF ~ Reads(Len(s), pos, w) THEN Threw
    ELSE IF pos + w > Len(s) THEN Undefined
    ELSE Done(SubSeq(s, pos + 1, pos + w), pos + w)

(* Characters are read up to a NUL, which is consumed.  A string that does *)
(* not end throws with its last character.                                 *)
StringOpenAtEnd_Accepts(s, pos) == Done(SubSeq(s, pos + 1, Len(s)), Len(s))
StringOpenAtEnd(s, pos) == IF s = <<>> THEN Undefined ELSE Threw

ReadString(s, pos) ==
    LET nul == {i \in pos + 1 .. Len(s) : s[i] = 0}
        end == CHOOSE i \in nul : \A j \in nul : i <= j
    IN  IF nul = {} THEN StringOpenAtEnd(s, pos)
        ELSE Done(SubSeq(s, pos + 1, end - 1), end)

(***************************************************************************)
(* A walker is what serializer::write and serializer::read are for a type: *)
(* the bytes of each of its values, and the outcome of each read.          *)
(***************************************************************************)

Values(walker) == DOMAIN walker.write

(* One element after the other; the first exception is the last read. *)
ReadNext(walker, s, before) ==
    LET next == walker.read[s][before.pos]
    IN  IF ~ Ok(before) THEN before
        ELSE IF ~ Ok(next) THEN next
        ELSE Done(Append(before.value, next.value), next.pos)

ElementsRead(walker, n, s, pos) ==
    LET upto[i \in 0 .. n] ==
            IF i = 0 THEN Done(<<>>, pos) ELSE ReadNext(walker, s, upto[i - 1])
    IN  upto

ReadElements(walker, n, s, pos) == ElementsRead(walker, n, s, pos)[n]

ElementsWritten(walker, v) ==
    LET upto[i \in 0 .. Len(v)] ==
            IF i = 0 THEN <<>> ELSE upto[i - 1] \o walker.write[v[i]]
    IN  upto

WriteElements(walker, v) == ElementsWritten(walker, v)[Len(v)]

(* The size, tested against the limit, and what follows it. *)
TooLarge_ByMore(n) == n > SpLimit + 1
TooLarge(n) == n > SpLimit

ReadSp(walker, s, pos) ==
    LET size == ReadNum(SizeWidth, s, pos)
        n == SizeOf(size.value)
    IN  IF ~ Ok(size) THEN size
        ELSE IF TooLarge(n) THEN Threw
        ELSE ReadElements(walker, n, s, size.pos)

(* At the end of the bytes an optional is left without a value. *)
ReadOptional(walker, s, pos) ==
    LET has == ReadNum(1, s, pos)
    IN  IF ~ CanReadNum(Len(s), pos, 1) THEN Done(<<>>, pos)
        ELSE IF ~ Ok(has) THEN has
        ELSE IF has.value = <<0>> THEN Done(<<>>, has.pos)
        ELSE IF has.value = <<1>> THEN ReadElements(walker, 1, s, has.pos)
        ELSE Undefined

ReadConstrained(walker, least, most, s, pos) ==
    LET r == walker.read[s][pos]
    IN  IF Ok(r) => Len(r.value) \in least .. most THEN r ELSE Threw

ReadObject(walker, others, s, pos) ==
    LET first == walker.read[s][pos]
        rest == others.read[s][first.pos]
    IN  IF ~ Ok(first) THEN first
        ELSE IF ~ Ok(rest) THEN rest
        ELSE Done(<<first.value, rest.value>>, rest.pos)

-----------------------------------------------------------------------------
(***************************************************************************)
(* The walkers                                                             *)
(***************************************************************************)

NumWalker(w) ==
    [write |-> [v \in [1 .. w -> Byte] |-> v],
     read |-> [s \in Buffer |-> [pos \in Nat |-> ReadNum(w, s, pos)]]]

(* An object of an empty type has a size of one. *)
EmptyWalker ==
    [write |-> [v \in {<<>>} |-> <<Junk>>],
     read |-> [s \in Buffer |-> [pos \in Nat |-> Done(<<>>, pos)]]]

StringWalker ==
    [write |-> [v \in Seq(Byte) |-> Append(v, 0)],
     read |-> [s \in Buffer |-> [pos \in Nat |-> ReadString(s, pos)]]]

ArrayWalker(walker, n) ==
    [write |-> [v \in [1 .. n -> Values(walker)] |-> WriteElements(walker, v)],
     read |-> [s \in Buffer |-> [pos \in Nat |-> ReadElements(walker, n, s, pos)]]]

SpWalker(walker) ==
    [write |-> [v \in Seq(Values(walker)) |->
                   SizeBytes(Len(v)) \o WriteElements(walker, v)],
     read |-> [s \in Buffer |-> [pos \in Nat |-> ReadSp(walker, s, pos)]]]

(* The character behind a string is read as well, and ignored. *)
ReadSpString_NoEnd(s, pos) ==
    LET chars == ReadSp(NumWalker(1), s, pos)
    IN  IF Ok(chars)
        THEN Done([i \in 1 .. Len(chars.value) |-> chars.value[i][1]], chars.pos)
        ELSE chars
ReadSpString(s, pos) ==
    LET chars == ReadSp(NumWalker(1), s, pos)
        end == ReadNum(1, s, chars.pos)
    IN  IF ~ Ok(chars) THEN chars
        ELSE IF ~ Ok(end) THEN end
        ELSE Done([i \in 1 .. Len(chars.value) |-> chars.value[i][1]], end.pos)

SpStringWalker ==
    [write |-> [v \in Seq(Byte) |-> SizeBytes(Len(v)) \o Append(v, 0)],
     read |-> [s \in Buffer |-> [pos \in Nat |-> ReadSpString(s, pos)]]]

OptionalWalker(walker) ==
    [write |-> [v \in {v \in Seq(Values(walker)) : Len(v) <= 1} |->
                   <<Len(v)>> \o WriteElements(walker, v)],
     read |-> [s \in Buffer |-> [pos \in Nat |-> ReadOptional(walker, s, pos)]]]

ConstrainedWalker(walker, least, most) ==
    [write |-> walker.write,
     read |-> [s \in Buffer |-> [pos \in Nat |->
                  ReadConstrained(walker, least, most, s, pos)]]]

ObjectWalker(walker, others) ==
    [write |-> [v \in Values(walker) \X Values(others) |->
                   walker.write[v[1]] \o others.write[v[2]]],
     read |-> [s \in Buffer |-> [pos \in Nat |-> ReadObject(walker, others, s, pos)]]]

EndWalker ==
    [write |-> [v \in {<<>>} |-> <<>>],
     read |-> [s \in Buffer |-> [pos \in Nat |-> Done(<<>>, pos)]]]

(* The walker of a type d, given those of the types it is made of. *)
WalkerOf(d, walkers) ==
    CASE d.kind = "num" -> NumWalker(d.width)
      [] d.kind = "empty" -> EmptyWalker
      [] d.kind = "string" -> StringWalker
      [] d.kind = "array" -> ArrayWalker(walkers[d.of], d.size)
      [] d.kind = "sp" -> SpWalker(walkers[d.of])
      [] d.kind = "spstring" -> SpStringWalker
      [] d.kind = "optional" -> OptionalWalker(walkers[d.of])
      [] d.kind = "constrained" -> ConstrainedWalker(walkers[d.of], d.least, d.most)
      [] d.kind = "object" -> ObjectWalker(walkers[d.first], walkers[d.rest])
      [] d.kind = "end" -> EndWalker

Walker[t \in Type] == WalkerOf(Declared[t], Walker)

Write(t, v) == Walker[t].write[v]
Read(t, s, pos) == Walker[t].read[s][pos]
=============================================================================
