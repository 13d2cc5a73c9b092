-------------------------- MODULE MCPacketDispatch --------------------------
(* Schemas for model checking PacketDispatch: no field, an empty type      *)
(* between two fields, and fields of several widths.                       *)
EXTENDS PacketDispatch

MCSchemas == {<<>>, <<1, 0, 2>>, <<4, 1>>}
=============================================================================
