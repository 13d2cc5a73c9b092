------------------------------ MODULE JsonCodec ------------------------------
(***************************************************************************)
(* A JSON document written by one program and read by another, over the    *)
(* walkers of JsonWalkers, with each of the modes for missing fields and   *)
(* into an object that is new or has been used.  In between the document   *)
(* may have lost a member, as when a peer has fewer fields; or it may come *)
(* from elsewhere.                                                         *)
(***************************************************************************)
EXTENDS JsonWalkers

CONSTANTS
    Samples,   \* pairs of a type and a value of it
    Used,      \* for each type, a value its target may hold beforehand
    Documents  \* bound: documents from elsewhere

ASSUME CodecAssumption ==
    /\ \A sample \in Samples :
        /\ sample[1] \in Type
        /\ sample[2] \in Values(Walker[sample[1]])
        /\ Write(sample[1], sample[2]) \in Document
    /\ \A t \in DOMAIN Used : t \in Type /\ Used[t] \in Walker[t].targets
    /\ Documents \subseteq Document

VARIABLES
    type,    \* the type written and read
    mode,    \* missing_fields_mode of the reader
    value,   \* the value written, if one was
    doc,     \* the document
    source,  \* "none", "written", "lost" or "foreign"
    target,  \* what the object read into held
    result   \* what was read; its status is "none" before

vars == <<type, mode, value, doc, source, target, result>>

Unread == [status |-> "none", value |-> <<>>]

Init ==
    /\ type \in DOMAIN Used
    /\ mode \in Modes
    /\ value = <<>>
    /\ doc = Null
    /\ source = "none"
    /\ target = <<>>
    /\ result = Unread

(* json_serializer::write<T>. *)
Serialize ==
    /\ source = "none"
    /\ source' = "written"
    /\ \E sample \in Samples :
        /\ sample[1] = type
        /\ value' = sample[2]
        /\ doc' = Write(type, value')
    /\ UNCHANGED <<type, mode, target, result>>

(* The documents that are d without one member, at any depth. *)
WithoutOf(d, without) ==
    CASE d.kind = "array" ->
            UNION {{[d EXCEPT !.items[i] = x] : x \in without[d.items[i]]} :
                   i \in DOMAIN d.items}
      [] d.kind = "object" ->
            UNION {{[d EXCEPT !.members[k] = s] :
                    s \in {<<>>} \cup {<<x>> : x \in without[Subkey(d, k)]}} :
                   k \in Subkeys(d)}
      [] OTHER -> {}

Without[d \in Document] == WithoutOf(d, Without)

LoseMember ==
    /\ source = "written"
    /\ result = Unread
    /\ source' = "lost"
    /\ doc' \in Without[doc]
    /\ UNCHANGED <<type, mode, value, target, result>>

Foreign ==
    /\ source = "none"
    /\ source' = "foreign"
    /\ doc' \in Documents
    /\ UNCHANGED <<type, mode, value, target, result>>

(* json_serializer::read<T> into a new object, read_to into a used one. *)
Deserialize ==
    /\ source # "none"
    /\ result = Unread
    /\ target' \in {Uninitialised(type), Used[type]}
    /\ result' = ReadTo(type, doc, target', mode)
    /\ UNCHANGED <<type, mode, value, doc, source>>

Next == Serialize \/ LoseMember \/ Foreign \/ Deserialize

Spec == Init /\ [][Next]_vars
-----------------------------------------------------------------------------
(***************************************************************************)
(* What the properties say of a type d, whose walker is w:                 *)
(*   portable  the values that a document can carry: an empty container is *)
(*             written as null, and so cannot be told from an optional     *)
(*             without a value                                             *)
(*   shaped    the documents written for a type, with members lost or not  *)
(*   complete  for each mode, those in which no field is missing that the  *)
(*             reader insists on; inside containers, maps and optionals    *)
(*             every field is, in whatever mode the reader is              *)
(*   keeping   the modes in which reading depends on what the target holds: *)
(*             containers are added to, missing fields may stay as they are *)
(*   unset     the modes in which a part may stay as it was made: arrays    *)
(*             may be longer than what is in the document                   *)
(***************************************************************************)

Each(v, S) == \A i \in DOMAIN v : v[i] \in S

OfKind(kinds) == {x \in Document : x.kind \in kinds}

PlainFormat(w, shaped) ==
    [portable |-> Values(w), shaped |-> shaped,
     complete |-> [m \in Modes |-> Document], keeping |-> {}, unset |-> {}]

(* In containers: what stays unset in them does so in each mode or in none. *)
Everywhere(modes) == IF DefaultMode \in modes THEN Modes ELSE {}

ItemsFormat(w, item, unset) ==
    [portable |-> {v \in Values(w) : Each(v, item.portable)},
     shaped |-> {x \in OfKind({"null", "array"}) : Each(Items(x), item.shaped)},
     complete |-> [m \in Modes |->
        {x \in Document : Each(Items(x), item.complete[DefaultMode])}],
     keeping |-> Modes,
     unset |-> unset]

OptionalFormat(w, item) ==
    [portable |->
        {v \in Values(w) : v # <<>> => v[1] \in item.portable /\ w.write[v] # Null},
     shaped |-> {x \in Document : x = Null \/ x \in item.shaped},
     complete |-> [m \in Modes |->
        {x \in Document : x = Null \/ x \in item.complete[DefaultMode]}],
     keeping |-> {},
     unset |-> Everywhere(item.unset)]

MapFormat(w, item) ==
    [portable |-> {v \in Values(w) : \A k \in Name : Each(v[k], item.portable)},
     shaped |-> {x \in OfKind({"null", "object"}) :
                    \A k \in Name : Each(Members(x)[k], item.shaped)},
     complete |-> [m \in Modes |->
        {x \in Document : \A k \in Name :
            Each(Members(x)[k], item.complete[DefaultMode])}],
     keeping |-> Modes,
     unset |-> Everywhere(item.unset)]

(* The modes in which a missing field is left as it is. *)
Leaves(d) == {m \in Modes : m = "ignore" \/ (m = "throw_exception" /\ d.lenient)}

ObjectFormat(d, w, first, rest) ==
    [portable |-> {v \in Values(w) : v[1] \in first.portable /\ v[2] \in rest.portable},
     shaped |-> {x \in Document : /\ Each(Members(x)[d.name], first.shaped)
                                  /\ x \in rest.shaped},
     complete |-> [m \in Modes |->
        {x \in Document :
            /\ IF SubkeyExists(x, d.name) THEN Subkey(x, d.name) \in first.complete[m]
               ELSE m # "throw_exception" \/ d.lenient
            /\ x \in rest.complete[m]}],
     keeping |-> Leaves(d) \cup first.keeping \cup rest.keeping,
     unset |-> Leaves(d) \cup first.unset \cup rest.unset]

FormatOf(d, w, known) ==
    CASE d.kind = "num" -> PlainFormat(w, OfKind({"num"}))
      [] d.kind = "string" -> PlainFormat(w, OfKind({"text"}))
      [] d.kind = "any" -> PlainFormat(w, Document)
      [] d.kind = "end" -> PlainFormat(w, OfKind({"null", "object"}))
      [] d.kind = "list" -> ItemsFormat(w, known[d.of], Everywhere(known[d.of].unset))
      [] d.kind = "array" -> ItemsFormat(w, known[d.of], Modes)
      [] d.kind = "optional" -> OptionalFormat(w, known[d.of])
      [] d.kind = "map" -> MapFormat(w, known[d.of])
      [] d.kind = "object" -> ObjectFormat(d, w, known[d.first], known[d.rest])

Format[t \in Type] == FormatOf(Declared[t], Walker[t], Format)

-----------------------------------------------------------------------------
(***************************************************************************)
(* Properties                                                              *)
(***************************************************************************)

(* A portable value, empty containers and absent optionals included, is    *)
(* read back as it was, in every mode.                                     *)
RoundTrip ==
    (source = "written" /\ result # Unread /\ target = Uninitialised(type)
        /\ value \in Format[type].portable)
        => result = Done(value)

(* A document that a writer wrote, a member lost or not, or one of that    *)
(* shape from elsewhere, is refused exactly when a field is missing where  *)
(* the reader insists on it; what the object held before makes no          *)
(* difference.                                                             *)
ThrowsOnMissing ==
    (result # Unread /\ (source \in {"written", "lost"} \/ doc \in Format[type].shaped))
        => (Ok(result) <=> doc \in Format[type].complete[mode])

(* Whatever the document, what a used object held shows through in no      *)
(* other types than containers, which are added to, and objects whose      *)
(* missing fields are left as they are.                                    *)
ReplacesTarget ==
    (result # Unread /\ mode \notin Format[type].keeping)
        => result = ReadTo(type, doc, ValueInitialised(type), mode)

(* A new object that was read holds a value, with no part uninitialised,   *)
(* whatever was missing, except in those types: with default_initialize in *)
(* none but short arrays, and lenient objects inside containers.           *)
NothingUnset ==
    (Ok(result) /\ target = Uninitialised(type) /\ mode \notin Format[type].unset)
        => result.value \in Values(Walker[type])
=============================================================================
