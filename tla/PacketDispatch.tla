--------------------------- MODULE PacketDispatch ---------------------------
(***************************************************************************)
(* gspp::HandlerSystem on one thread: RegisterHandler and HandlePacket,    *)
(* which reads a header from the packet's bytes, looks the handler up,     *)
(* reads the fields of its schema one after the other (serializer::read)   *)
(* and calls PacketHandlerFunction::Handle.  A packet is a type and a      *)
(* number of bytes, a schema the widths of its fields.  Nothing keeps a    *)
(* packet from being shorter or longer than its schema, or empty: that is  *)
(* what async_read_sp hands over when it cannot allocate the buffer.       *)
(***************************************************************************)
EXTENDS ReadStream, Sequences

CONSTANTS
    Ids,          \* packet types
    Schemas,      \* sequences of field widths
    HeaderWidth,  \* bytes of a header
    MinBytes,     \* no packet is shorter
    MaxBytes      \* bound: no packet is longer

ASSUME DispatchAssumption ==
    /\ Schemas \subseteq Seq(Words)
    /\ HeaderWidth \in Words
    /\ MinBytes \in Nat
    /\ MaxBytes \in Words

VARIABLES
    handlers,  \* _handlers: the schema each registered type is read with
    original,  \* history: the schema a type was first registered with
    phase,     \* "idle", "header", "find", "fields" or "handle"
    id,        \* the type of the packet at hand
    bytes,     \* its size
    position,  \* of the read_stream over it
    fields,    \* widths of the fields still to be read
    last       \* what the last call of HandlePacket came to

dispatchVars == <<handlers, original, phase, id, bytes, position, fields, last>>

HandleOutcomes == {"none", "Continue", "Disconnect", "read threw", "handler threw"}

(* No schema: no type has this width. *)
None == <<WordSize>>

TypeOK ==
    /\ handlers \in [Ids -> Schemas \cup {None}]
    /\ original \in [Ids -> Schemas \cup {None}]
    /\ phase \in {"idle", "header", "find", "fields", "handle"}
    /\ id \in Ids
    /\ bytes \in MinBytes .. MaxBytes
    /\ position \in Nat
    /\ fields \in Seq(Words)
    /\ last \in HandleOutcomes

DispatchInit ==
    /\ handlers = [t \in Ids |-> None]
    /\ original = handlers
    /\ phase = "idle"
    /\ id \in Ids
    /\ bytes \in MinBytes .. MaxBytes
    /\ position = 0
    /\ fields = <<>>
    /\ last = "none"

-----------------------------------------------------------------------------

(* RegisterHandler: a type that has a handler keeps it. *)
Registered_Replaces(t, s) == [handlers EXCEPT ![t] = s]
Registered(t, s) ==
    IF handlers[t] = None THEN [handlers EXCEPT ![t] = s] ELSE handlers

RegisterHandler ==
    /\ phase = "idle"
    /\ \E t \in Ids, s \in Schemas :
        /\ handlers' = Registered(t, s)
        /\ original' = IF original[t] = None THEN [original EXCEPT ![t] = s] ELSE original
    /\ UNCHANGED <<phase, id, bytes, position, fields, last>>

HandlePacket ==
    /\ phase = "idle"
    /\ phase' = "header"
    /\ id' \in Ids
    /\ bytes' \in MinBytes .. MaxBytes
    /\ position' = 0
    /\ fields' = <<>>
    /\ last' = "none"
    /\ UNCHANGED <<handlers, original>>

Finish(outcome) == phase' = "idle" /\ last' = outcome

(* One read of n bytes; where the stage goes next when it does not throw. *)
ReadBytes(n, next) ==
    /\ IF Reads(bytes, position, n)
       THEN position' = position + n /\ phase' = next /\ UNCHANGED last
       ELSE Finish("read threw") /\ UNCHANGED position
    /\ UNCHANGED <<handlers, original, id, bytes>>

ReadHeader ==
    /\ phase = "header"
    /\ ReadBytes(HeaderWidth, "find")
    /\ UNCHANGED fields

(* A type without a handler is skipped. *)
HasHandler_Always == TRUE
HasHandler == handlers[id] # None

FindHandler ==
    /\ phase = "find"
    /\ IF HasHandler
       THEN phase' = "fields" /\ fields' = handlers[id] /\ UNCHANGED last
       ELSE Finish("Continue") /\ UNCHANGED fields
    /\ UNCHANGED <<handlers, original, id, bytes, position>>

(* serializer::read_object goes through the fields in order. *)
ReadField ==
    /\ phase = "fields"
    /\ fields # <<>>
    /\ ReadBytes(Head(fields), "fields")
    /\ fields' = Tail(fields)

CallHandler ==
    /\ phase = "fields"
    /\ fields = <<>>
    /\ phase' = "handle"
    /\ UNCHANGED <<handlers, original, id, bytes, position, fields, last>>

HandlerReturns ==
    /\ phase = "handle"
    /\ \E o \in {"Continue", "Disconnect", "handler threw"} : Finish(o)
    /\ UNCHANGED <<handlers, original, id, bytes, position, fields>>

DispatchNext ==
    \/ RegisterHandler
    \/ HandlePacket
    \/ ReadHeader
    \/ FindHandler
    \/ ReadField
    \/ CallHandler
    \/ HandlerReturns

DispatchSpec == DispatchInit /\ [][DispatchNext]_dispatchVars
-----------------------------------------------------------------------------
(***************************************************************************)
(* Properties                                                              *)
(***************************************************************************)

(* "Can't read past the end of the stream" (read_stream::read): no read    *)
(* takes bytes from behind the buffer.                                     *)
ReadsInside == position <= bytes

(* What fields of these widths take together. *)
Width[widths \in Seq(Nat)] ==
    IF widths = <<>> THEN 0 ELSE Head(widths) + Width[Tail(widths)]

(* What a packet with this schema needs. *)
Needs(schema) == HeaderWidth + Width[schema]

(* A handler runs on a packet that held all fields of the schema its type  *)
(* was first registered with, and only after all of them were read.        *)
HandlerSeesWholePacket ==
    phase = "handle" =>
        original[id] # None /\ position = Needs(original[id]) /\ position <= bytes

(* The packet at hand ends before its header, or before a field of the     *)
(* schema that its type was first registered with.                         *)
TooShort ==
    \/ bytes < HeaderWidth
    \/ original[id] # None /\ bytes < Needs(original[id])

(* HandlePacket ends with an exception of a read if the packet is too      *)
(* short, and only then: no short packet is handled or skipped, none that  *)
(* is long enough is refused.                                              *)
ThrowsExactlyWhenShort ==
    [][(phase # "idle" /\ phase' = "idle") => (last' = "read threw" <=> TooShort)]_dispatchVars
=============================================================================
