----------------------------- MODULE JsonWalkers -----------------------------
(***************************************************************************)
(* bpjson: json_serializer and json_walker over the traits for nlohmann's  *)
(* basic_json, from a value to a JSON document and back.  A program        *)
(* declares its types one after the other, each made of types before it,   *)
(* which are named by their place.  A type is a record with a kind:        *)
(*   num, string  types that nlohmann converts itself                      *)
(*   list         a container; its value is the sequence of its elements   *)
(*   array        a container of a size known at compile time              *)
(*   optional     std::optional, a sequence of no or one value             *)
(*   map          std::map<std::string, T>, such a sequence for each name  *)
(*   object       a type with bpacs reflection from one of its fields on:  *)
(*                that field, and the object from the next field on; its   *)
(*                value is the pair of their values.  lenient says that it *)
(*                is marked with BPJSON_ALL_FIELDS_OPTIONAL                *)
(*   end          an object behind its last field                          *)
(*   any          the document type itself                                 *)
(* Numbers, texts and names are abstract.  Types that contain themselves   *)
(* are left out.                                                           *)
(***************************************************************************)
EXTENDS Integers, Sequences, SequencesExt

CONSTANTS
    Declared,   \* the types of a program
    Name,       \* names of fields and keys of maps
    Text,       \* the values of a text
    MaxNumber,  \* bound: numbers are 0 .. MaxNumber
    Depth       \* bound: how deep documents nest

Type == DOMAIN Declared

Num == [kind |-> "num"]
String == [kind |-> "string"]
AnyJson == [kind |-> "any"]
End == [kind |-> "end"]
List(t) == [kind |-> "list", of |-> t]
Array(n, t) == [kind |-> "array", size |-> n, of |-> t]
Optional(t) == [kind |-> "optional", of |-> t]
Map(t) == [kind |-> "map", of |-> t]
Object(n, t, rest) ==
    [kind |-> "object", name |-> n, first |-> t, rest |-> rest, lenient |-> FALSE]
Lenient(n, t, rest) ==
    [kind |-> "object", name |-> n, first |-> t, rest |-> rest, lenient |-> TRUE]

(* The types made of known ones. *)
MadeOf(known) ==
    {Num, String, AnyJson, End}
    \cup [kind : {"list", "optional", "map"}, of : known]
    \cup [kind : {"array"}, of : known, size : Nat]
    \cup [kind : {"object"}, name : Name, first : known, rest : known, lenient : BOOLEAN]

ASSUME JsonAssumption ==
    /\ MaxNumber \in Nat /\ Depth \in Nat
    /\ IsFiniteSet(Name)
    /\ "" \in Text
    /\ Declared \in Seq(MadeOf(Nat))
    /\ \A t \in Type :
        /\ Declared[t] \in MadeOf(1 .. t - 1)
        /\ Declared[t].kind = "object" => Declared[Declared[t].rest].kind \in {"object", "end"}

-----------------------------------------------------------------------------
(***************************************************************************)
(* Documents and nlohmann's traits                                         *)
(***************************************************************************)

Number == 0 .. MaxNumber

(* The value of a number that nobody has initialised. *)
Junk == MaxNumber + 1

(* No or one element of S. *)
Optionally(S) == {s \in Seq(S) : Len(s) <= 1}

Null == [kind |-> "null"]
JNum(x) == [kind |-> "num", num |-> x]
JText(x) == [kind |-> "text", text |-> x]
JArray(s) == [kind |-> "array", items |-> s]
JObject(f) == [kind |-> "object", members |-> f]

(* The documents made of others. *)
Around(docs) ==
    {Null}
    \cup [kind : {"num"}, num : Number]
    \cup [kind : {"text"}, text : Text]
    \cup [kind : {"array"}, items : Seq(docs)]
    \cup [kind : {"object"}, members : [Name -> Optionally(docs)]]

DocumentsUpTo[n \in 0 .. Depth] == Around(IF n = 0 THEN {} ELSE DocumentsUpTo[n - 1])

Document == DocumentsUpTo[Depth]

NoMembers == [k \in Name |-> <<>>]

Members(d) == IF d.kind = "object" THEN d.members ELSE NoMembers

SubkeyExists(d, key) == Members(d)[key] # <<>>
Subkey(d, key) == Members(d)[key][1]

Subkeys(d) == {k \in Name : SubkeyExists(d, k)}

(* What a range-based for over a document goes through: a number or a text *)
(* is a range of one, itself.                                              *)
Items(d) ==
    CASE d.kind = "null" -> <<>>
      [] d.kind = "array" -> d.items
      [] d.kind = "object" ->
            [i \in 1 .. Cardinality(Subkeys(d)) |-> Subkey(d, SetToSeq(Subkeys(d))[i])]
      [] OTHER -> <<d>>

-----------------------------------------------------------------------------
(***************************************************************************)
(* A walker is what json_serializer does for a type:                       *)
(*   names    of the fields, of an object                                  *)
(*   targets  what an object of the type may hold, uninitialised or not    *)
(*   new      what it holds behind T value;                                *)
(*   init     what it holds behind T{}                                     *)
(*   write    the document of each value, written into a new one, which is *)
(*            null                                                         *)
(*   read     the outcome of reading a document into an object, in a mode  *)
(*            for missing fields: what the object holds then, or that an   *)
(*            exception was thrown                                         *)
(***************************************************************************)

Modes == {"ignore", "default_initialize", "throw_exception"}

(* serialization_settings settings = {} *)
DefaultMode == "throw_exception"

Done(v) == [status |-> "ok", value |-> v]
Threw == [status |-> "threw", value |-> <<>>]
Ok(r) == r.status = "ok"

Values(walker) == DOMAIN walker.write

(* json_walker::read takes no settings: what it reads is read with the     *)
(* default settings, into a new value.                                     *)
ReadItem(walker, d) == walker.read[d][walker.new][DefaultMode]

(* The outcomes of reading the items of a document, one after the other. *)
ItemsRead(walker, d) == [i \in 1 .. Len(Items(d)) |-> ReadItem(walker, Items(d)[i])]

ItemsOk(walker, d) == \A i \in 1 .. Len(Items(d)) : Ok(ItemsRead(walker, d)[i])

(* An empty container writes nothing. *)
WriteItems(walker, v) ==
    IF v = <<>> THEN Null ELSE JArray([i \in 1 .. Len(v) |-> walker.write[v[i]]])

(* Elements are appended to those the container holds. *)
ReadList(walker, d, old) ==
    IF ItemsOk(walker, d)
    THEN Done(old \o [i \in 1 .. Len(Items(d)) |-> ItemsRead(walker, d)[i].value])
    ELSE Threw

(* Elements are stored from the first place on; what is too many is read   *)
(* and dropped, the places left over keep what they hold.                  *)
StoredUpTo_OneLess(n) == n - 1
StoredUpTo(n) == n

ReadArray(walker, n, d, old) ==
    IF ItemsOk(walker, d)
    THEN Done([i \in 1 .. n |->
                  IF i <= StoredUpTo(Len(Items(d))) THEN ItemsRead(walker, d)[i].value
                  ELSE old[i]])
    ELSE Threw

(* Null is no value. *)
NoValue_Keeps(old) == Done(old)
NoValue(old) == Done(<<>>)

ReadOptional(walker, d, old) ==
    LET r == ReadItem(walker, d)
    IN  IF d.kind = "null" THEN NoValue(old)
        ELSE IF Ok(r) THEN Done(<<r.value>>) ELSE Threw

WriteMap(walker, v) ==
    IF v = NoMembers THEN Null
    ELSE JObject([k \in Name |-> IF v[k] = <<>> THEN <<>> ELSE <<walker.write[v[k][1]]>>])

(* Each member is read over the entry of its key, or over a new one.       *)
MemberRead(walker, d, old, k) ==
    walker.read[Subkey(d, k)][IF old[k] = <<>> THEN walker.init ELSE old[k][1]][DefaultMode]

(* A document that has items but no members throws. *)
ReadMap(walker, d, old) ==
    IF d.kind # "object"
    THEN IF Items(d) = <<>> THEN Done(old) ELSE Threw
    ELSE IF \E k \in Subkeys(d) : ~ Ok(MemberRead(walker, d, old, k)) THEN Threw
    ELSE Done([k \in Name |-> IF k \in Subkeys(d)
                              THEN <<MemberRead(walker, d, old, k).value>> ELSE old[k]])

(* Whether a field must be there.  force_optional is looked up for the     *)
(* type of the object, whose walker never sets it, and not of the field.   *)
Required_Always(d, mode) == mode = "throw_exception"
Required(d, mode) == mode = "throw_exception" /\ ~ d.lenient

(* What a field that is not there holds afterwards. *)
Absent_Kept(walker, old, mode) == old
Absent(walker, old, mode) == IF mode = "default_initialize" THEN walker.init ELSE old

ReadField(type, walker, d, old, mode) ==
    IF SubkeyExists(d, type.name) THEN walker.read[Subkey(d, type.name)][old][mode]
    ELSE IF Required(type, mode) THEN Threw
    ELSE Done(Absent(walker, old, mode))

ReadObject(type, walker, others, d, old, mode) ==
    LET first == ReadField(type, walker, d, old[1], mode)
        rest == others.read[d][old[2]][mode]
    IN  IF Ok(first) /\ Ok(rest) THEN Done(<<first.value, rest.value>>) ELSE Threw

(* json[name] = the field, in a document that is null or an object. *)
WriteObject(type, walker, others, v) ==
    JObject([Members(others.write[v[2]]) EXCEPT ![type.name] = <<walker.write[v[1]]>>])

(* A document in a document is copied, to be written and to be read. *)
CopyOf(d) == d

-----------------------------------------------------------------------------
(***************************************************************************)
(* The walkers                                                             *)
(***************************************************************************)

NumWalker ==
    [targets |-> Number \cup {Junk}, new |-> Junk, init |-> 0,
     write |-> [v \in Number |-> JNum(v)],
     read |-> [d \in Document |-> [old \in Number \cup {Junk} |-> [mode \in Modes |->
                  IF d.kind = "num" THEN Done(d.num) ELSE Threw]]]]

StringWalker ==
    [targets |-> Text, new |-> "", init |-> "",
     write |-> [v \in Text |-> JText(v)],
     read |-> [d \in Document |-> [old \in Text |-> [mode \in Modes |->
                  IF d.kind = "text" THEN Done(d.text) ELSE Threw]]]]

AnyWalker ==
    [targets |-> Document, new |-> Null, init |-> Null,
     write |-> [v \in Document |-> CopyOf(v)],
     read |-> [d \in Document |-> [old \in Document |-> [mode \in Modes |->
                  Done(CopyOf(d))]]]]

ListWalker(walker) ==
    [targets |-> Seq(walker.targets), new |-> <<>>, init |-> <<>>,
     write |-> [v \in Seq(Values(walker)) |-> WriteItems(walker, v)],
     read |-> [d \in Document |-> [old \in Seq(walker.targets) |-> [mode \in Modes |->
                  ReadList(walker, d, old)]]]]

ArrayWalker(walker, n) ==
    [targets |-> [1 .. n -> walker.targets],
     new |-> [i \in 1 .. n |-> walker.new], init |-> [i \in 1 .. n |-> walker.init],
     write |-> [v \in [1 .. n -> Values(walker)] |-> WriteItems(walker, v)],
     read |-> [d \in Document |-> [old \in [1 .. n -> walker.targets] |-> [mode \in Modes |->
                  ReadArray(walker, n, d, old)]]]]

OptionalWalker(walker) ==
    [targets |-> Optionally(walker.targets), new |-> <<>>, init |-> <<>>,
     write |-> [v \in Optionally(Values(walker)) |->
                   IF v = <<>> THEN Null ELSE walker.write[v[1]]],
     read |-> [d \in Document |-> [old \in Optionally(walker.targets) |-> [mode \in Modes |->
                  ReadOptional(walker, d, old)]]]]

MapWalker(walker) ==
    [targets |-> [Name -> Optionally(walker.targets)], new |-> NoMembers, init |-> NoMembers,
     write |-> [v \in [Name -> Optionally(Values(walker))] |-> WriteMap(walker, v)],
     read |-> [d \in Document |->
                 [old \in [Name -> Optionally(walker.targets)] |-> [mode \in Modes |->
                  ReadMap(walker, d, old)]]]]

ObjectWalker(type, walker, others) ==
    [names |-> {type.name} \cup others.names,
     targets |-> walker.targets \X others.targets,
     new |-> <<walker.new, others.new>>, init |-> <<walker.init, others.init>>,
     write |-> [v \in Values(walker) \X Values(others) |-> WriteObject(type, walker, others, v)],
     read |-> [d \in Document |->
                 [old \in walker.targets \X others.targets |-> [mode \in Modes |->
                  ReadObject(type, walker, others, d, old, mode)]]]]

EndWalker ==
    [names |-> {}, targets |-> {<<>>}, new |-> <<>>, init |-> <<>>,
     write |-> [v \in {<<>>} |-> Null],
     read |-> [d \in Document |-> [old \in {<<>>} |-> [mode \in Modes |-> Done(<<>>)]]]]

(* The walker of a type, given those of the types it is made of. *)
WalkerOf(type, walkers) ==
    CASE type.kind = "num" -> NumWalker
      [] type.kind = "string" -> StringWalker
      [] type.kind = "any" -> AnyWalker
      [] type.kind = "list" -> ListWalker(walkers[type.of])
      [] type.kind = "array" -> ArrayWalker(walkers[type.of], type.size)
      [] type.kind = "optional" -> OptionalWalker(walkers[type.of])
      [] type.kind = "map" -> MapWalker(walkers[type.of])
      [] type.kind = "object" -> ObjectWalker(type, walkers[type.first], walkers[type.rest])
      [] type.kind = "end" -> EndWalker

Walker[t \in Type] == WalkerOf(Declared[t], Walker)

(* The fields of an object have names of their own. *)
ASSUME NamesAssumption ==
    \A t \in Type :
        Declared[t].kind = "object" => Declared[t].name \notin Walker[Declared[t].rest].names

Write(t, v) == Walker[t].write[v]
ReadTo(t, d, old, mode) == Walker[t].read[d][old][mode]

Uninitialised(t) == Walker[t].new
ValueInitialised(t) == Walker[t].init
=============================================================================
