----------------------------- MODULE PacketCodec -----------------------------
(***************************************************************************)
(* A packet written by one program and read by another, over the walkers   *)
(* of BinaryWalkers.  In between the packet may have lost its end, or have *)
(* grown one: a peer built from a schema with fewer or more fields.  The   *)
(* reader may also meet bytes that no writer of its schema has written.    *)
(***************************************************************************)
EXTENDS BinaryWalkers

CONSTANTS
    Samples,   \* pairs of a type and a value of it
    MaxForeign \* bound: length of bytes from elsewhere

(* Samples are values of their types, and their packets fit in memory. *)
ASSUME CodecAssumption ==
    /\ \A sample \in Samples :
        /\ sample[1] \in Type
        /\ sample[2] \in Values(Walker[sample[1]])
        /\ Len(Write(sample[1], sample[2])) + 1 < WordSize
    /\ MaxForeign \in Words

VARIABLES
    type,    \* the type written and read
    value,   \* the value written, if one was
    packet,  \* its bytes
    stage,   \* "object", "written", "cut", "grown", "foreign" or "read"
    source,  \* the stage before "read"
    result   \* what was read

vars == <<type, value, packet, stage, source, result>>

Init ==
    /\ type \in {sample[1] : sample \in Samples}
    /\ value = <<>>
    /\ packet = <<>>
    /\ stage = "object"
    /\ source = "object"
    /\ result = Threw

(* write_stream collects what serializer::write writes. *)
Serialize ==
    /\ stage = "object"
    /\ stage' = "written"
    /\ \E sample \in Samples :
        /\ sample[1] = type
        /\ value' = sample[2]
        /\ packet' = Write(type, value')
    /\ UNCHANGED <<type, source, result>>

LoseEnd ==
    /\ stage = "written"
    /\ stage' = "cut"
    /\ \E n \in 0 .. Len(packet) - 1 : packet' = SubSeq(packet, 1, n)
    /\ UNCHANGED <<type, value, source, result>>

GrowEnd ==
    /\ stage = "written"
    /\ stage' = "grown"
    /\ \E b \in Byte : packet' = Append(packet, b)
    /\ UNCHANGED <<type, value, source, result>>

Foreign ==
    /\ stage = "object"
    /\ stage' = "foreign"
    /\ \E n \in 0 .. MaxForeign : packet' \in [1 .. n -> Byte]
    /\ UNCHANGED <<type, value, source, result>>

(* serializer::read<T>. *)
Deserialize ==
    /\ stage \in {"written", "cut", "grown", "foreign"}
    /\ stage' = "read"
    /\ source' = stage
    /\ result' = Read(type, packet, 0)
    /\ UNCHANGED <<type, value, packet>>

Next == Serialize \/ LoseEnd \/ GrowEnd \/ Foreign \/ Deserialize

Spec == Init /\ [][Next]_vars
-----------------------------------------------------------------------------
(***************************************************************************)
(* What the properties say of the values of a type:                        *)
(*   portable   those that the format can carry: no NUL inside a           *)
(*              std::string, no oversized container, and no value of an    *)
(*              empty type, which is written as one byte and read as none  *)
(*   missing    those of which nothing was in the bytes                    *)
(*   shortened  pairs of a value and that value without some optionals     *)
(*              that came last                                             *)
(*   exact      whether all bytes read count: the character behind an      *)
(*              sp_string may be any, and an empty type is not read        *)
(***************************************************************************)

Each(v, S) == \A i \in DOMAIN v : v[i] \in S

Portable(d, V, known) ==
    CASE d.kind \in {"num", "end"} -> V
      [] d.kind = "empty" -> {}
      [] d.kind = "string" -> {v \in V : Each(v, Byte \ {0})}
      [] d.kind = "spstring" -> {v \in V : Len(v) <= SpLimit}
      [] d.kind \in {"array", "optional"} -> {v \in V : Each(v, known[d.of].portable)}
      [] d.kind = "sp" -> {v \in V : Len(v) <= SpLimit /\ Each(v, known[d.of].portable)}
      [] d.kind = "constrained" ->
            {v \in known[d.of].portable : Len(v) \in d.least .. d.most}
      [] d.kind = "object" -> known[d.first].portable \X known[d.rest].portable

Missing(d, V, known) ==
    CASE d.kind \in {"num", "string", "sp", "spstring"} -> {}
      [] d.kind \in {"empty", "end"} -> V
      [] d.kind = "optional" -> {<<>>}
      [] d.kind = "array" -> {v \in V : Each(v, known[d.of].missing)}
      [] d.kind = "constrained" -> known[d.of].missing
      [] d.kind = "object" -> known[d.first].missing \X known[d.rest].missing

(* The elements of w are those of v, one shortened, and then missing ones. *)
EndsEarly(v, w, of) ==
    /\ Len(v) = Len(w)
    /\ \E k \in 1 .. Len(v) :
        /\ \A i \in 1 .. k - 1 : w[i] = v[i]
        /\ <<v[k], w[k]>> \in of.shortened
        /\ \A i \in k + 1 .. Len(v) : w[i] \in of.missing

(* The same for the first field of an object and the others. *)
FieldsEndEarly(v, w, first, rest) ==
    \/ v[1] = w[1] /\ <<v[2], w[2]>> \in rest.shortened
    \/ <<v[1], w[1]>> \in first.shortened /\ w[2] \in rest.missing

EndsIn(d, v, w, known) ==
    CASE d.kind \in {"num", "empty", "string", "spstring", "end"} -> FALSE
      [] d.kind \in {"array", "sp", "optional"} -> EndsEarly(v, w, known[d.of])
      [] d.kind = "constrained" -> <<v, w>> \in known[d.of].shortened
      [] d.kind = "object" -> FieldsEndEarly(v, w, known[d.first], known[d.rest])

Exact(d, known) ==
    CASE d.kind \in {"num", "string", "end"} -> TRUE
      [] d.kind \in {"empty", "spstring"} -> FALSE
      [] d.kind \in {"array", "sp", "optional", "constrained"} -> known[d.of].exact
      [] d.kind = "object" -> known[d.first].exact /\ known[d.rest].exact

(* The same for a type d with values V, given that of the types it is made *)
(* of.                                                                     *)
FormatOf(d, V, known) ==
    [portable |-> Portable(d, V, known),
     missing |-> Missing(d, V, known),
     shortened |-> {p \in V \X V : \/ p[2] = p[1]
                                   \/ p[2] \in Missing(d, V, known)
                                   \/ EndsIn(d, p[1], p[2], known)},
     exact |-> Exact(d, known)]

Format[t \in Type] == FormatOf(Declared[t], Values(Walker[t]), Format)

(***************************************************************************)
(* What bounds the reads of a type:                                        *)
(*   within   the values that keep the limits of all containers in them    *)
(*   widest   the most bytes that one read takes: on a shorter packet the  *)
(*            bounds check of read_stream wraps and lets that read pass    *)
(***************************************************************************)

Within(d, V, known) ==
    CASE d.kind \in {"num", "empty", "string", "end"} -> V
      [] d.kind = "spstring" -> {v \in V : Len(v) <= SpLimit}
      [] d.kind \in {"array", "optional"} -> {v \in V : Each(v, known[d.of].within)}
      [] d.kind = "sp" -> {v \in V : Len(v) <= SpLimit /\ Each(v, known[d.of].within)}
      [] d.kind = "constrained" -> {v \in known[d.of].within : Len(v) \in d.least .. d.most}
      [] d.kind = "object" -> known[d.first].within \X known[d.rest].within

Wider(m, n) == IF m <= n THEN n ELSE m

Widest(d, known) ==
    CASE d.kind \in {"empty", "end"} -> 0
      [] d.kind = "num" -> d.width
      [] d.kind = "string" -> 1
      [] d.kind = "spstring" -> SizeWidth
      [] d.kind = "sp" -> Wider(SizeWidth, known[d.of].widest)
      [] d.kind = "optional" -> Wider(1, known[d.of].widest)
      [] d.kind \in {"array", "constrained"} -> known[d.of].widest
      [] d.kind = "object" -> Wider(known[d.first].widest, known[d.rest].widest)

BoundsOf(d, V, known) == [within |-> Within(d, V, known), widest |-> Widest(d, known)]

Bounds[t \in Type] == BoundsOf(Declared[t], Values(Walker[t]), Bounds)

-----------------------------------------------------------------------------
(***************************************************************************)
(* Properties                                                              *)
(***************************************************************************)

(* A portable value is read back as it was, and what follows its bytes is  *)
(* left alone.                                                             *)
RoundTrip ==
    (stage = "read" /\ source \in {"written", "grown"} /\ value \in Format[type].portable) =>
        result = Done(value, Len(packet) - (IF source = "grown" THEN 1 ELSE 0))

(* A packet that lost its end is not taken for another packet: reading it  *)
(* throws, or gives the value written but for optionals that came last.    *)
(* Only of a packet with fewer bytes than one read takes is more read than *)
(* it has.                                                                 *)
CutIsNoticed ==
    (stage = "read" /\ source = "cut" /\ value \in Format[type].portable) =>
        \/ result = Threw
        \/ Ok(result) /\ <<value, result.value>> \in Format[type].shortened
        \/ result = Undefined /\ Len(packet) < Bounds[type].widest

(* Whatever the bytes, a value that is read is one whose writing begins    *)
(* with the bytes consumed: no two walkers of a type disagree.             *)
Canonical ==
    (stage = "read" /\ Ok(result) /\ Format[type].exact) =>
        /\ result.pos <= Len(Write(type, result.value))
        /\ SubSeq(packet, 1, result.pos) = SubSeq(Write(type, result.value), 1, result.pos)

(* Whatever the bytes, a container that is read keeps its limits, wherever *)
(* it is in a packet: one that was written too large is refused, or its    *)
(* size has wrapped to one within the limits.                              *)
LimitsAreKept == (stage = "read" /\ Ok(result)) => result.value \in Bounds[type].within
=============================================================================
