---------------------------- MODULE MCPacketStream ----------------------------
(***************************************************************************)
(* Instances of PacketStream for TLC: bytes of two bits, a length of two   *)
(* bytes, a size_t of three.                                               *)
(***************************************************************************)
EXTENDS PacketStream

Sizes == [byte |-> 1, unsigned |-> 2, size |-> 3]

SmallMessages == {
  [opcode |-> 0, values |-> << >>],
  [opcode |-> 1, values |-> <<Text(<<2>>), Text(<<0, 3>>)>>],
  [opcode |-> 1, values |-> <<Text(<< >>), Text(<<2>>)>>],
  [opcode |-> 2, values |-> <<Number("unsigned", 7), Text(<<3>>)>>],
  [opcode |-> 3, values |-> <<Number("size", 0)>>],
  [opcode |-> 3, values |-> <<Number("size", 1), Number("unsigned", 9), Text(<<1, 2>>)>>]}
===============================================================================
