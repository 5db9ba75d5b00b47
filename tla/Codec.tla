-------------------------------- MODULE Codec ---------------------------------
(***************************************************************************)
(* binary_serializer and binary_deserializer: numbers as their bytes, the  *)
(* least significant first, a string as its size and its characters, no    *)
(* tags and no padding.  The sizes of the types are constants, so that     *)
(* small ones can be checked.                                              *)
(***************************************************************************)
EXTENDS Integers, Sequences, SequencesExt

CONSTANTS
  Base,        \* values of a byte (256)
  SizeOf,      \* bytes of "byte" (1), "unsigned" (4) and "size" (size_t, 8)
  BufferSize   \* bytes of the buffers packets are built in and read to (2048)

ASSUME CodecAssumption ==
  /\ Base \in Nat \ {0, 1}
  /\ SizeOf \in [{"byte", "unsigned", "size"} -> Nat \ {0}]
  /\ BufferSize \in Nat

(***************************************************************************)
(* Values: a number of some type, or a text, a sequence of bytes.          *)
(***************************************************************************)

Number(kind, n) == [kind |-> kind, number |-> n, text |-> << >>]
Text(t) == [kind |-> "string", number |-> 0, text |-> t]

Values ==
  [kind : DOMAIN SizeOf \union {"string"}, number : Nat, text : Seq(0..Base - 1)]

\* The raw memory of a number, on a little-endian machine: what is left of the
\* number behind each byte, the bytes, and the number they are.
Rest(kind, n) ==
  LET rest[i \in 0..SizeOf[kind]] == IF i = 0 THEN n ELSE rest[i - 1] \div Base IN rest
Bytes(kind, n) == [i \in 1..SizeOf[kind] |-> Rest(kind, n)[i - 1] % Base]
Value(bytes) ==
  LET value[i \in 0..Len(bytes)] ==
        IF i = 0 THEN 0 ELSE bytes[Len(bytes) - i + 1] + Base * value[i - 1]
  IN value[Len(bytes)]

\* The value is one of its type in the program.
Fits(kind, n) == Rest(kind, n)[SizeOf[kind]] = 0
IsValue(value) ==
  IF value.kind = "string" THEN value.number = 0 /\ Fits("unsigned", Len(value.text))
                           ELSE value.text = << >> /\ Fits(value.kind, value.number)

(***************************************************************************)
(* The serializer: operator<< for a POD and for a string.                  *)
(***************************************************************************)

PutNumber(out, kind, n) == out \o Bytes(kind, n)

\* A bug in the serializer: the size of a string counts its own bytes.
PutTextWithHeader(out, text) ==
  PutNumber(out, "unsigned", SizeOf["unsigned"] + Len(text)) \o text

PutText(out, text) == PutNumber(out, "unsigned", Len(text)) \o text

Put(out, value) ==
  IF value.kind = "string" THEN PutText(out, value.text)
                           ELSE PutNumber(out, value.kind, value.number)

Serialize(values) ==
  LET out[i \in 0..Len(values)] == IF i = 0 THEN << >> ELSE Put(out[i - 1], values[i])
  IN out[Len(values)]

(***************************************************************************)
(* The deserializer: the data, the current position, what has been read    *)
(* so far, and whether an underflow_error has been thrown.                 *)
(***************************************************************************)

Reader(data) == [data |-> data, pos |-> 0, values |-> << >>, failed |-> FALSE]

Underflows(reader, size) == Len(reader.data) < reader.pos + size
Bite(reader, size) == SubSeq(reader.data, reader.pos + 1, reader.pos + size)
Fail(reader) == [reader EXCEPT !.failed = TRUE]
Taken(reader, size, value) ==
  [reader EXCEPT !.pos = @ + size, !.values = Append(@, value)]

GetNumber(reader, kind) ==
  IF Underflows(reader, SizeOf[kind])
    THEN Fail(reader)
    ELSE Taken(reader, SizeOf[kind],
               Number(kind, Value(Bite(reader, SizeOf[kind]))))

\* The header is checked, then the characters; a string whose characters are
\* not there has moved the position behind its header.
GetText(reader) ==
  LET header == GetNumber(reader, "unsigned")
      size == Value(Bite(reader, SizeOf["unsigned"]))
      body == [header EXCEPT !.values = reader.values]
  IN IF header.failed THEN Fail(reader)
     ELSE IF Underflows(body, size) THEN Fail(body)
     ELSE Taken(body, size, Text(Bite(body, size)))

\* One >> of a chain; nothing runs behind an exception.
Get(reader, kind) ==
  IF reader.failed THEN reader
  ELSE IF kind = "string" THEN GetText(reader) ELSE GetNumber(reader, kind)

GetAll(reader, kinds) ==
  LET after[i \in 0..Len(kinds)] == IF i = 0 THEN reader ELSE Get(after[i - 1], kinds[i])
  IN after[Len(kinds)]
===============================================================================
