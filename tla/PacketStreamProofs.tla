-------------------------- MODULE PacketStreamProofs ----------------------------
(***************************************************************************)
(* Proofs about Codec and PacketStream, for any messages, any sizes of the *)
(* types and any number of messages.                                       *)
(*                                                                         *)
(* The codec comes first: what the deserializer reads at the place where   *)
(* the serializer has put a value is that value.                           *)
(*                                                                         *)
(* Then the stream: what is read from a packet is what was put into it,    *)
(* and wherever the stream is cut on its way, the receiver finds the       *)
(* packets in it.                                                          *)
(***************************************************************************)
EXTENDS PacketStream, SequenceTheorems, WellFoundedInduction, TLAPS

Octets == 0..Base - 1

(***************************************************************************)
(* Induction.  The theorems of the library about it take an operator; the  *)
(* minimal element of a set of numbers is a fact about a set.              *)
(***************************************************************************)

\* Of the elements of a set of numbers one is the smallest.
LEMMA SmallestExists ==
  ASSUME NEW S \in SUBSET Nat, S # {}
  PROVE  \E n \in S : \A m \in S : n <= m
<1> DEFINE R == {p \in Nat \X Nat : p[1] < p[2]}
<1>1. IsWellFoundedOn(R, Nat)
  BY NatLessThanWellFounded DEF OpToRel
<1>2. \E n \in S : \A m \in S : ~(<<m, n>> \in R)
  <2> HIDE DEF R
  <2>1. QED
    BY <1>1, WFMin
<1>3. PICK n \in S : \A m \in S : ~(<<m, n>> \in R)
  BY <1>2
<1>4. \A m \in S : n <= m
  <2> SUFFICES ASSUME NEW m \in S, m < n PROVE FALSE
    OBVIOUS
  <2>1. m \in Nat /\ n \in Nat
    OBVIOUS
  <2>2. <<m, n>> \in R
    BY <2>1
  <2>3. QED
    BY <1>3, <2>2
<1>5. QED
  BY <1>4

\* What 0 has, and n + 1 when n has it, every number up to a bound has.
LEMMA Induction ==
  ASSUME NEW N \in Nat, NEW T, 0 \in T, \A n \in 0..N - 1 : n \in T => n + 1 \in T
  PROVE  \A n \in 0..N : n \in T
<1>1. SUFFICES ASSUME NEW k \in 0..N, k \notin T PROVE FALSE
  OBVIOUS
<1> DEFINE S == {n \in 0..N : n \notin T}
<1>2. PICK n \in S : \A m \in S : n <= m
  <2>1. S \in SUBSET Nat /\ S # {}
    BY <1>1
  <2> HIDE DEF S
  <2>2. QED
    BY <2>1, SmallestExists
<1>3. n # 0 /\ n - 1 \in 0..N - 1 /\ n - 1 \in T
  BY <1>2
<1>4. (n - 1) + 1 \in T
  BY <1>3
<1>5. QED
  BY <1>2, <1>3, <1>4

(***************************************************************************)
(* The four functions of the model that are defined by recursion: each is  *)
(* what its equation says.                                                 *)
(***************************************************************************)

IsRest(f, n, size) == f = [i \in 0..size |-> IF i = 0 THEN n ELSE f[i - 1] \div Base]

\* There is such a function.
LEMMA RestExists ==
  ASSUME NEW n, NEW size \in Nat
  PROVE  \E f : IsRest(f, n, size)
<1> DEFINE T == {k \in Nat : \E f : IsRest(f, n, k)}
<1>1. 0 \in T
  <2>1. IsRest([i \in 0..0 |-> n], n, 0)
    BY DEF IsRest
  <2>2. QED
    BY <2>1
<1>2. ASSUME NEW k \in 0..size - 1, k \in T PROVE k + 1 \in T
  <2>1. PICK f : IsRest(f, n, k)
    BY <1>2
  <2> DEFINE g == [i \in 0..k + 1 |-> IF i = k + 1 THEN f[k] \div Base ELSE f[i]]
  <2>2. \A i \in 0..k + 1 : g[i] = IF i = 0 THEN n ELSE g[i - 1] \div Base
    BY <2>1 DEF IsRest
  <2>3. g = [i \in 0..k + 1 |-> IF i = 0 THEN n ELSE g[i - 1] \div Base]
    BY <2>2
  <2>4. IsRest(g, n, k + 1)
    BY <2>3 DEF IsRest
  <2> HIDE DEF g
  <2>5. QED
    BY <2>4
<1>3. size \in T
  <2> HIDE DEF T
  <2>1. QED
    BY <1>1, <1>2, Induction
<1>4. QED
  BY <1>3

\* What is left of a number behind each of its bytes.
LEMMA RestDef ==
  ASSUME NEW kind \in DOMAIN SizeOf, NEW n
  PROVE  IsRest(Rest(kind, n), n, SizeOf[kind])
<1> DEFINE r == CHOOSE f : IsRest(f, n, SizeOf[kind])
<1>1. IsRest(r, n, SizeOf[kind])
  BY RestExists, CodecAssumption
<1>2. Rest(kind, n) = r
  BY DEF Rest, IsRest
<1>3. QED
  BY <1>1, <1>2

\* The rest of a number is a number.
LEMMA RestType ==
  ASSUME NEW kind \in DOMAIN SizeOf, NEW n \in Nat
  PROVE  /\ \A i \in 0..SizeOf[kind] : Rest(kind, n)[i] \in Nat
         /\ Rest(kind, n)[0] = n
         /\ \A i \in 1..SizeOf[kind] : Rest(kind, n)[i] = Rest(kind, n)[i - 1] \div Base
<1>1. SizeOf[kind] \in Nat \ {0} /\ Base \in Nat /\ Base > 1
  BY CodecAssumption
<1>2. /\ Rest(kind, n)[0] = n
      /\ \A i \in 1..SizeOf[kind] : Rest(kind, n)[i] = Rest(kind, n)[i - 1] \div Base
  <2> DEFINE r == Rest(kind, n)
  <2>1. IsRest(r, n, SizeOf[kind])
    BY RestDef
  <2> HIDE DEF r
  <2>2. r[0] = n /\ \A i \in 1..SizeOf[kind] : r[i] = r[i - 1] \div Base
    BY <1>1, <2>1 DEF IsRest
  <2>3. QED
    BY <2>2 DEF r
<1> DEFINE T == {i \in 0..SizeOf[kind] : Rest(kind, n)[i] \in Nat}
<1>3. 0 \in T
  BY <1>1, <1>2
<1>4. ASSUME NEW i \in 0..SizeOf[kind] - 1, i \in T PROVE i + 1 \in T
  <2>1. Rest(kind, n)[i + 1] = Rest(kind, n)[i] \div Base
    BY <1>1, <1>2
  <2>2. \A x \in Nat : x \div Base \in Nat
    BY <1>1
  <2>3. QED
    BY <1>1, <1>4, <2>1, <2>2
<1>5. \A i \in 0..SizeOf[kind] : i \in T
  <2> HIDE DEF T
  <2>1. QED
    BY <1>1, <1>3, <1>4, Induction
<1>6. QED
  BY <1>2, <1>5

\* A number is the remainder of a division and as many times the divisor as the
\* division says.
LEMMA Division ==
  ASSUME NEW x \in Nat
  PROVE  x % Base \in Octets /\ (x % Base) + Base * (x \div Base) = x
<1>1. Base \in Nat /\ Base > 0
  BY CodecAssumption
<1>2. QED
  BY <1>1 DEF Octets

\* Division keeps the order.
LEMMA DivisionGrows ==
  ASSUME NEW x \in Nat, NEW y \in Nat, x <= y
  PROVE  x \div Base \in Nat /\ y \div Base \in Nat /\ x \div Base <= y \div Base
<1>1. Base \in Nat /\ Base > 1
  BY CodecAssumption
<1> DEFINE p == x \div Base  q == y \div Base  s == y % Base
<1>2. p \in Nat /\ q \in Nat /\ s \in 0..Base - 1 /\ y = s + Base * q
  BY <1>1, Division DEF Octets
<1>3. Base * p <= x
  <2>1. x % Base \in Nat /\ (x % Base) + Base * p = x /\ Base * p \in Nat
    BY <1>1, <1>2, Division DEF Octets
  <2> HIDE DEF p
  <2>2. QED
    BY <2>1
<1> HIDE DEF p, q, s
<1>4. ~(q < p)
  <2> SUFFICES ASSUME q < p PROVE FALSE
    OBVIOUS
  <2>1. PICK d \in Nat : p = q + 1 + d
    <3>1. p - q - 1 \in Nat /\ p = q + 1 + (p - q - 1)
      BY <1>2
    <3>2. QED
      BY <3>1
  <2>2. Base * p = Base * q + Base + Base * d /\ Base * d \in Nat /\ Base * q \in Nat
    BY <1>1, <1>2, <2>1
  <2>3. QED
    BY <1>1, <1>2, <1>3, <2>2
<1>5. QED
  BY <1>2, <1>4 DEF p, q

\* A number below one that fits a type fits it, too.
LEMMA SmallerFits ==
  ASSUME NEW kind \in DOMAIN SizeOf, NEW n \in Nat, NEW m \in 0..n, Fits(kind, n)
  PROVE  Fits(kind, m)
<1> DEFINE size == SizeOf[kind]
           small(i) == Rest(kind, m)[i]
           large(i) == Rest(kind, n)[i]
           T == {i \in 0..size : small(i) <= large(i)}
<1>1. size \in Nat /\ m \in Nat
  BY CodecAssumption
<1>2. /\ \A i \in 0..size : small(i) \in Nat
      /\ small(0) = m /\ \A i \in 1..size : small(i) = small(i - 1) \div Base
  BY <1>1, RestType
<1>3. /\ \A i \in 0..size : large(i) \in Nat
      /\ large(0) = n /\ \A i \in 1..size : large(i) = large(i - 1) \div Base
  BY RestType
<1> HIDE DEF small, large, size
<1>4. 0 \in T
  BY <1>1, <1>2, <1>3
<1>5. ASSUME NEW i \in 0..size - 1, i \in T PROVE i + 1 \in T
  <2>1. i + 1 \in 1..size /\ (i + 1) - 1 = i /\ i \in 0..size /\ i + 1 \in 0..size
    BY <1>1
  <2>2. small(i) \div Base <= large(i) \div Base
    BY <1>2, <1>3, <1>5, <2>1, DivisionGrows
  <2>3. QED
    BY <1>2, <1>3, <2>1, <2>2
<1>6. size \in T
  <2> HIDE DEF T
  <2>1. QED
    BY <1>1, <1>4, <1>5, Induction
<1>7. large(size) = 0
  BY DEF Fits, large, size
<1>8. small(size) = 0
  BY <1>1, <1>2, <1>6, <1>7
<1>9. QED
  BY <1>8 DEF Fits, small, size

IsValueOf(f, bytes, size) ==
  f = [i \in 0..size |->
         IF i = 0 THEN 0 ELSE bytes[Len(bytes) - i + 1] + Base * f[i - 1]]

\* There is such a function.
LEMMA ValueExists ==
  ASSUME NEW bytes, NEW size \in Nat
  PROVE  \E f : IsValueOf(f, bytes, size)
<1> DEFINE T == {k \in Nat : \E f : IsValueOf(f, bytes, k)}
           Next(k, x) == bytes[Len(bytes) - k + 1] + Base * x
<1>1. 0 \in T
  <2>1. IsValueOf([i \in 0..0 |-> 0], bytes, 0)
    BY DEF IsValueOf
  <2>2. QED
    BY <2>1
<1>2. ASSUME NEW k \in 0..size - 1, k \in T PROVE k + 1 \in T
  <2>1. PICK f : f = [i \in 0..k |-> IF i = 0 THEN 0 ELSE Next(i, f[i - 1])]
    BY <1>2 DEF IsValueOf
  <2> DEFINE g == [i \in 0..k + 1 |-> IF i = k + 1 THEN Next(k + 1, f[k]) ELSE f[i]]
  <2> HIDE DEF Next
  <2>2. \A i \in 0..k + 1 : g[i] = IF i = 0 THEN 0 ELSE Next(i, g[i - 1])
    BY <2>1
  <2>3. g = [i \in 0..k + 1 |-> IF i = 0 THEN 0 ELSE Next(i, g[i - 1])]
    BY <2>2
  <2> HIDE DEF g
  <2>4. IsValueOf(g, bytes, k + 1)
    BY <2>3 DEF IsValueOf, Next
  <2>5. QED
    BY <2>4
<1>3. size \in T
  <2> HIDE DEF T
  <2>1. QED
    BY <1>1, <1>2, Induction
<1>4. QED
  BY <1>3

\* The value of bytes, from the last of them to the first.
LEMMA ValueDef ==
  ASSUME NEW bytes \in Seq(Octets)
  PROVE  \E f : IsValueOf(f, bytes, Len(bytes)) /\ Value(bytes) = f[Len(bytes)]
<1> DEFINE v == CHOOSE f : IsValueOf(f, bytes, Len(bytes))
<1>1. IsValueOf(v, bytes, Len(bytes))
  BY ValueExists, LenProperties
<1>2. Value(bytes) = v[Len(bytes)]
  BY DEF Value, IsValueOf
<1>3. QED
  BY <1>1, <1>2

\* A number that fits its type is the value of its bytes.
LEMMA NumberBack ==
  ASSUME NEW kind \in DOMAIN SizeOf, NEW n \in Nat
  PROVE  /\ Bytes(kind, n) \in Seq(Octets)
         /\ Len(Bytes(kind, n)) = SizeOf[kind]
         /\ Fits(kind, n) => Value(Bytes(kind, n)) = n
<1> DEFINE size == SizeOf[kind]
           bytes == Bytes(kind, n)
           rest(i) == Rest(kind, n)[i]
<1>1. size \in Nat \ {0}
  BY CodecAssumption
<1>2. /\ \A i \in 0..size : rest(i) \in Nat
      /\ rest(0) = n
      /\ \A i \in 1..size : rest(i) = rest(i - 1) \div Base
  BY RestType
<1> HIDE DEF rest
<1>3. bytes = [i \in 1..size |-> rest(i - 1) % Base]
  BY DEF Bytes, rest
<1> HIDE DEF size, bytes
<1>4. \A i \in 1..size : rest(i - 1) \in Nat /\ rest(i - 1) % Base \in Octets
  <2> SUFFICES ASSUME NEW i \in 1..size PROVE rest(i - 1) \in Nat /\ rest(i - 1) % Base \in Octets
    OBVIOUS
  <2>1. i - 1 \in 0..size
    BY <1>1
  <2>2. rest(i - 1) \in Nat
    BY <1>2, <2>1
  <2>3. QED
    BY <2>2, Division
<1>5. bytes \in Seq(Octets) /\ Len(bytes) = size
  BY <1>1, <1>3, <1>4, IsASeq
<1>6. ASSUME Fits(kind, n) PROVE Value(bytes) = n
  <2>1. rest(size) = 0
    BY <1>6 DEF Fits, rest, size
  <2>2. PICK f : IsValueOf(f, bytes, size) /\ Value(bytes) = f[size]
    BY <1>5, ValueDef
  <2>3. f[0] = 0 /\ \A i \in 1..size : f[i] = bytes[size - i + 1] + Base * f[i - 1]
    BY <1>1, <1>5, <2>2 DEF IsValueOf
  <2> DEFINE T == {i \in 0..size : f[i] = rest(size - i)}
  <2>4. 0 \in T
    BY <1>1, <2>1, <2>3
  <2>5. ASSUME NEW i \in 0..size - 1, i \in T PROVE i + 1 \in T
    <3> DEFINE x == rest(size - i - 1)
    <3>1. /\ i + 1 \in 1..size /\ (i + 1) - 1 = i /\ size - (i + 1) + 1 = size - i
          /\ size - i \in 1..size /\ size - i - 1 \in 0..size /\ size - (i + 1) = size - i - 1
      BY <1>1
    <3>2. f[i + 1] = bytes[size - i] + Base * f[i]
      BY <2>3, <3>1
    <3>3. bytes[size - i] = x % Base /\ f[i] = x \div Base
      BY <1>2, <1>3, <2>5, <3>1
    <3>4. (x % Base) + Base * (x \div Base) = x
      BY <1>2, <3>1, Division
    <3>5. f[i + 1] = x
      <4> HIDE DEF x
      <4>1. QED
        BY <3>2, <3>3, <3>4
    <3>6. QED
      BY <3>1, <3>5
  <2>6. size \in T
    <3> HIDE DEF T
    <3>1. QED
      BY <1>1, <2>4, <2>5, Induction
  <2>7. QED
    BY <1>1, <1>2, <2>2, <2>6
<1>7. QED
  BY <1>5, <1>6 DEF bytes, size

(***************************************************************************)
(* The serializer.                                                         *)
(***************************************************************************)

\* The bytes of one value.
Encoded(value) == Put(<< >>, value)

\* They are bytes, and they are put behind what is there already.
LEMMA PutAppends ==
  ASSUME NEW value \in Values, NEW out \in Seq(Octets)
  PROVE  /\ Encoded(value) \in Seq(Octets)
         /\ Put(out, value) = out \o Encoded(value)
<1>1. "unsigned" \in DOMAIN SizeOf
  BY CodecAssumption
<1>2. << >> \in Seq(Octets)
  BY EmptySeq
<1>3. CASE value.kind = "string"
  <2> DEFINE header == Bytes("unsigned", Len(value.text))
             text == value.text
  <2>1. text \in Seq(Octets) /\ Len(text) \in Nat
    BY LenProperties DEF Values, Octets
  <2>2. header \in Seq(Octets)
    BY <1>1, <2>1, NumberBack
  <2>3. Encoded(value) = (<< >> \o header) \o text /\ Put(out, value) = (out \o header) \o text
    BY <1>3 DEF Encoded, Put, PutText, PutNumber
  <2> HIDE DEF header, text
  <2>4. << >> \o header = header /\ header \o text \in Seq(Octets)
    BY <2>1, <2>2, ConcatProperties, ConcatEmptySeq
  <2>5. (out \o header) \o text = out \o (header \o text)
    BY <2>1, <2>2, ConcatAssociative
  <2>6. QED
    BY <2>3, <2>4, <2>5
<1>4. CASE value.kind # "string"
  <2> DEFINE bytes == Bytes(value.kind, value.number)
  <2>1. bytes \in Seq(Octets)
    BY <1>4, NumberBack DEF Values
  <2>2. Encoded(value) = << >> \o bytes /\ Put(out, value) = out \o bytes
    BY <1>4 DEF Encoded, Put, PutNumber
  <2> HIDE DEF bytes
  <2>3. << >> \o bytes = bytes
    BY <2>1, ConcatEmptySeq
  <2>4. QED
    BY <2>1, <2>2, <2>3
<1>5. QED
  BY <1>3, <1>4

IsOut(f, values, n) ==
  f = [i \in 0..n |-> IF i = 0 THEN << >> ELSE Put(f[i - 1], values[i])]

\* There is such a function.
LEMMA OutExists ==
  ASSUME NEW values, NEW size \in Nat
  PROVE  \E f : IsOut(f, values, size)
<1> DEFINE T == {k \in Nat : \E f : IsOut(f, values, k)}
<1>1. 0 \in T
  <2>1. IsOut([i \in 0..0 |-> << >>], values, 0)
    BY DEF IsOut
  <2>2. QED
    BY <2>1
<1>2. ASSUME NEW k \in 0..size - 1, k \in T PROVE k + 1 \in T
  <2>1. PICK f : IsOut(f, values, k)
    BY <1>2
  <2> DEFINE g == [i \in 0..k + 1 |-> IF i = k + 1 THEN Put(f[k], values[k + 1]) ELSE f[i]]
  <2>2. \A i \in 0..k + 1 : g[i] = IF i = 0 THEN << >> ELSE Put(g[i - 1], values[i])
    BY <2>1 DEF IsOut
  <2>3. g = [i \in 0..k + 1 |-> IF i = 0 THEN << >> ELSE Put(g[i - 1], values[i])]
    BY <2>2
  <2>4. IsOut(g, values, k + 1)
    BY <2>3 DEF IsOut
  <2> HIDE DEF g
  <2>5. QED
    BY <2>4
<1>3. size \in T
  <2> HIDE DEF T
  <2>1. QED
    BY <1>1, <1>2, Induction
<1>4. QED
  BY <1>3

\* What is in the buffer when so many values have been put there.
Out(out, values) ==
  /\ out \in [0..Len(values) -> Seq(Octets)]
  /\ out[0] = << >>
  /\ \A i \in 1..Len(values) : out[i] = out[i - 1] \o Encoded(values[i])

\* A packet is made of the bytes of its values, in their order.
LEMMA SerializeDef ==
  ASSUME NEW values \in Seq(Values)
  PROVE  \E out : Out(out, values) /\ Serialize(values) = out[Len(values)]
<1> DEFINE N == Len(values)
           out == CHOOSE f : IsOut(f, values, N)
<1>1. N \in Nat /\ \A i \in 1..N : values[i] \in Values
  BY LenProperties, ElementOfSeq
<1>2. IsOut(out, values, N)
  BY <1>1, OutExists
<1>3. Serialize(values) = out[N]
  BY DEF Serialize, IsOut
<1> HIDE DEF out
<1>4. /\ out[0] = << >> /\ \A i \in 1..N : out[i] = Put(out[i - 1], values[i])
      /\ DOMAIN out = 0..N /\ out = [i \in 0..N |-> out[i]]
  BY <1>1, <1>2 DEF IsOut
<1> DEFINE T == {i \in 0..N : out[i] \in Seq(Octets)}
<1>5. \A i \in 0..N : i \in T
  <2>1. 0 \in T
    BY <1>1, <1>4, EmptySeq
  <2>2. ASSUME NEW i \in 0..N - 1, i \in T PROVE i + 1 \in T
    <3>1. i + 1 \in 1..N /\ (i + 1) - 1 = i
      BY <1>1
    <3>2. /\ out[i + 1] = out[i] \o Encoded(values[i + 1])
          /\ Encoded(values[i + 1]) \in Seq(Octets)
      BY <1>1, <1>4, <2>2, <3>1, PutAppends
    <3>3. out[i + 1] \in Seq(Octets)
      BY <2>2, <3>2, ConcatProperties
    <3>4. QED
      BY <3>1, <3>3
  <2>3. QED
    <3> HIDE DEF T
    <3>1. QED
      BY <1>1, <2>1, <2>2, Induction
<1>6. \A i \in 1..N : out[i] = out[i - 1] \o Encoded(values[i])
  <2> SUFFICES ASSUME NEW i \in 1..N PROVE out[i] = out[i - 1] \o Encoded(values[i])
    OBVIOUS
  <2>1. i - 1 \in 0..N
    BY <1>1
  <2>2. out[i - 1] \in Seq(Octets)
    BY <1>5, <2>1
  <2>3. QED
    BY <1>1, <1>4, <2>2, PutAppends
<1>7. Out(out, values)
  BY <1>4, <1>5, <1>6 DEF Out
<1>8. QED
  BY <1>3, <1>7

\* What has been put into the buffer stays where it is.
LEMMA OutGrows ==
  ASSUME NEW values \in Seq(Values), NEW out, Out(out, values)
  PROVE  \A i \in 0..Len(values), j \in 0..Len(values) : i <= j =>
           /\ out[i] \in Seq(Octets) /\ Len(out[i]) \in Nat /\ Len(out[i]) <= Len(out[j])
           /\ \A n \in 1..Len(out[i]) : out[j][n] = out[i][n]
<1> DEFINE N == Len(values)
           Kept(i, j) == /\ Len(out[i]) <= Len(out[j])
                         /\ \A n \in 1..Len(out[i]) : out[j][n] = out[i][n]
           T == {j \in 0..N : \A i \in 0..j : Kept(i, j)}
<1>1. N \in Nat /\ \A i \in 0..N : out[i] \in Seq(Octets) /\ Len(out[i]) \in Nat
  BY LenProperties DEF Out
<1>2. \A i \in 0..N : Kept(i, i)
  BY <1>1
<1>3. 0 \in T
  BY <1>1, <1>2
<1>4. ASSUME NEW j \in 0..N - 1, j \in T PROVE j + 1 \in T
  <2>0. j + 1 \in 1..N /\ j + 1 \in 0..N /\ (j + 1) - 1 = j /\ j \in 0..N /\ j \in Nat
    BY <1>1
  <2>1. out[j + 1] = out[j] \o Encoded(values[j + 1])
    BY <2>0 DEF Out
  <2>2. values[j + 1] \in Values
    BY <2>0, ElementOfSeq
  <2>3. Encoded(values[j + 1]) \in Seq(Octets) /\ Len(Encoded(values[j + 1])) \in Nat
    BY <2>2, EmptySeq, PutAppends, LenProperties
  <2>4. Kept(j, j + 1)
    <3>1. out[j] \in Seq(Octets) /\ Len(out[j]) \in Nat
      BY <1>1, <2>0
    <3> DEFINE bytes == Encoded(values[j + 1])
    <3> HIDE DEF bytes
    <3>2. /\ Len(out[j] \o bytes) = Len(out[j]) + Len(bytes)
          /\ \A n \in 1..Len(out[j]) + Len(bytes) :
               (out[j] \o bytes)[n] = IF n <= Len(out[j]) THEN out[j][n] ELSE bytes[n - Len(out[j])]
      BY <2>3, <3>1, ConcatProperties DEF bytes
    <3>3. Len(bytes) \in Nat /\ out[j + 1] = out[j] \o bytes
      BY <2>1, <2>3 DEF bytes
    <3>4. QED
      BY <3>1, <3>2, <3>3
  <2>5. ASSUME NEW i \in 0..j + 1 PROVE Kept(i, j + 1)
    <3>1. CASE i = j + 1
      BY <1>2, <2>0, <3>1
    <3>2. CASE i \in 0..j
      <4>1. Kept(i, j)
        BY <1>4, <3>2
      <4>2. i \in 0..N
        BY <2>0, <3>2
      <4>3. Len(out[i]) \in Nat /\ Len(out[j]) \in Nat /\ Len(out[j + 1]) \in Nat
        BY <1>1, <2>0, <4>2
      <4>4. QED
        BY <2>4, <4>1, <4>3
    <3>3. QED
      BY <2>0, <3>1, <3>2
  <2>6. QED
    <3> HIDE DEF Kept
    <3>1. QED
      BY <2>0, <2>5
<1>5. \A j \in 0..N : j \in T
  <2> HIDE DEF T
  <2>1. QED
    BY <1>1, <1>3, <1>4, Induction
<1>6. QED
  BY <1>1, <1>5

Holds(packet, from, bytes) == \A n \in 1..Len(bytes) : packet[from + n] = bytes[n]

\* A value is in the packet behind those in front of it.
LEMMA WhereValuesAre ==
  ASSUME NEW values \in Seq(Values), NEW out, Out(out, values), NEW i \in 1..Len(values)
  PROVE  /\ out[Len(values)] \in Seq(Octets) /\ Encoded(values[i]) \in Seq(Octets)
         /\ Len(out[i - 1]) \in Nat
         /\ Len(out[i]) = Len(out[i - 1]) + Len(Encoded(values[i]))
         /\ Len(out[i]) <= Len(out[Len(values)])
         /\ Holds(out[Len(values)], Len(out[i - 1]), Encoded(values[i]))
<1> DEFINE N == Len(values)
           from == Len(out[i - 1])
           bytes == Encoded(values[i])
<1>1. N \in Nat /\ i - 1 \in 0..N /\ i \in 0..N /\ N \in 0..N /\ i <= N
  BY LenProperties
<1>2. /\ out[i - 1] \in Seq(Octets) /\ from \in Nat
      /\ out[i] = out[i - 1] \o bytes
      /\ out[N] \in Seq(Octets) /\ Len(out[i]) \in Nat /\ Len(out[i]) <= Len(out[N])
      /\ \A n \in 1..Len(out[i]) : out[N][n] = out[i][n]
  <2>1. out[i - 1] \in Seq(Octets) /\ out[i] = out[i - 1] \o bytes
    BY <1>1 DEF Out
  <2>2. from \in Nat
    BY <2>1, LenProperties
  <2>3. /\ Len(out[i]) \in Nat /\ Len(out[i]) <= Len(out[N])
        /\ \A n \in 1..Len(out[i]) : out[N][n] = out[i][n]
    BY <1>1, OutGrows
  <2>4. out[N] \in Seq(Octets)
    BY <1>1 DEF Out
  <2>5. QED
    BY <2>1, <2>2, <2>3, <2>4
<1>3. bytes \in Seq(Octets) /\ Len(bytes) \in Nat
  BY EmptySeq, ElementOfSeq, PutAppends, LenProperties
<1> HIDE DEF bytes
<1>4. /\ Len(out[i]) = from + Len(bytes)
      /\ \A n \in 1..from + Len(bytes) :
           out[i][n] = IF n <= from THEN out[i - 1][n] ELSE bytes[n - from]
  BY <1>2, <1>3, ConcatProperties
<1>5. ASSUME NEW n \in 1..Len(bytes) PROVE out[N][from + n] = bytes[n]
  <2>1. from + n \in 1..from + Len(bytes) /\ ~(from + n <= from) /\ (from + n) - from = n
    BY <1>2, <1>3
  <2>2. QED
    BY <1>2, <1>4, <2>1
<1>6. Holds(out[N], from, bytes)
  BY <1>5 DEF Holds
<1>7. QED
  BY <1>2, <1>3, <1>4, <1>6 DEF bytes

(***************************************************************************)
(* The deserializer.                                                       *)
(***************************************************************************)

\* What a slice is.
LEMMA Slice ==
  ASSUME NEW T, NEW s \in Seq(T), NEW a \in Nat, NEW b \in Nat, a <= b, b <= Len(s)
  PROVE  /\ SubSeq(s, a + 1, b) \in Seq(T)
         /\ Len(SubSeq(s, a + 1, b)) = b - a
         /\ \A i \in 1..b - a : SubSeq(s, a + 1, b)[i] = s[a + i]
<1>1. \A i \in a + 1 .. b : s[i] \in T
  BY LenProperties
<1>2. /\ SubSeq(s, a + 1, b) \in Seq(T)
      /\ Len(SubSeq(s, a + 1, b)) = IF a + 1 <= b THEN b - (a + 1) + 1 ELSE 0
      /\ \A i \in 1 .. b - (a + 1) + 1 : SubSeq(s, a + 1, b)[i] = s[(a + 1) + i - 1]
  BY <1>1, SubSeqProperties
<1>3. b - (a + 1) + 1 = b - a /\ \A i \in 1..b - a : (a + 1) + i - 1 = a + i
  OBVIOUS
<1>4. \A i \in 1..b - a : SubSeq(s, a + 1, b)[i] = s[a + i]
  BY <1>2, <1>3
<1>5. QED
  BY <1>2, <1>4

\* A number is read where its bytes are.
LEMMA NumberIsThere ==
  ASSUME NEW kind \in DOMAIN SizeOf, NEW n \in Nat, Fits(kind, n),
         NEW data \in Seq(Octets), NEW pos \in Nat, pos + SizeOf[kind] <= Len(data),
         \A i \in 1..SizeOf[kind] : data[pos + i] = Bytes(kind, n)[i]
  PROVE  Value(SubSeq(data, pos + 1, pos + SizeOf[kind])) = n
<1> DEFINE size == SizeOf[kind]
           bytes == Bytes(kind, n)
           bite == SubSeq(data, pos + 1, pos + size)
<1>1. size \in Nat
  BY CodecAssumption
<1>2. bytes \in Seq(Octets) /\ Len(bytes) = size /\ Value(bytes) = n
  BY NumberBack
<1>3. (pos + size) - pos = size /\ pos <= pos + size /\ pos + size \in Nat
  BY <1>1
<1>4. bite \in Seq(Octets) /\ Len(bite) = size /\ \A i \in 1..size : bite[i] = data[pos + i]
  BY <1>3, Slice
<1> HIDE DEF bytes, bite
<1>5. \A i \in 1..size : bite[i] = bytes[i]
  BY <1>4 DEF bytes
<1>6. bite = bytes
  BY <1>2, <1>4, <1>5, SeqEqual
<1>7. QED
  BY <1>2, <1>6 DEF bite

ReaderAt(data, pos, values) ==
  [data |-> data, pos |-> pos, values |-> values, failed |-> FALSE]

Moved(reader, pos, values) == [reader EXCEPT !.pos = pos, !.values = values]

\* What changing two fields of a reader makes of it.
LEMMA ReaderMoved ==
  \A data, pos, values, pos2, values2 :
    Moved(ReaderAt(data, pos, values), pos2, values2) = ReaderAt(data, pos2, values2)
<1> TAKE data, pos, values, pos2, values2
<1> DEFINE fields == {"data", "pos", "values", "failed"}
           x == ReaderAt(data, pos, values)
           y == [x EXCEPT !.pos = pos2, !.values = values2]
<1>1. PICK no : no = FALSE
  OBVIOUS
<1>2. \A p, v : ReaderAt(data, p, v) = [data |-> data, pos |-> p, values |-> v, failed |-> no]
  BY <1>1, Zenon DEF ReaderAt
<1>3. DOMAIN x = fields /\ x.data = data /\ x.failed = no
  BY <1>2
<1> HIDE DEF x
<1>4. y = [i \in fields |-> IF i = "values" THEN values2 ELSE IF i = "pos" THEN pos2 ELSE x[i]]
  BY <1>3
<1> HIDE DEF y
<1>5. y = [data |-> data, pos |-> pos2, values |-> values2, failed |-> no]
  BY <1>3, <1>4
<1>6. QED
  BY <1>2, <1>5, Zenon DEF Moved, x, y

\* What the fields of a reader are.
LEMMA ReaderFields ==
  \A data, pos, values :
    /\ ReaderAt(data, pos, values).data = data /\ ReaderAt(data, pos, values).pos = pos
    /\ ReaderAt(data, pos, values).values = values /\ ~ReaderAt(data, pos, values).failed
BY DEF ReaderAt

\* What its checks say.
LEMMA ReaderUnderflows ==
  \A data, pos, values, size :
    Underflows(ReaderAt(data, pos, values), size) <=> Len(data) < pos + size
BY DEF ReaderAt, Underflows

\* What it reads.
LEMMA ReaderBite ==
  \A data, pos, values, size :
    Bite(ReaderAt(data, pos, values), size) = SubSeq(data, pos + 1, pos + size)
BY DEF ReaderAt, Bite

\* Where it is then.
LEMMA ReaderTaken ==
  \A data, pos, values, size, value :
    Taken(ReaderAt(data, pos, values), size, value)
      = ReaderAt(data, pos + size, Append(values, value))
<1> TAKE data, pos, values, size, value
<1>1. PICK reader : reader = ReaderAt(data, pos, values)
  OBVIOUS
<1>2. Taken(reader, size, value) = Moved(reader, reader.pos + size, Append(reader.values, value))
  BY DEF Taken, Moved
<1>3. reader.pos = pos /\ reader.values = values
  BY <1>1, ReaderFields
<1>4. QED
  BY <1>1, <1>2, <1>3, ReaderMoved

\* One >> reads the value whose bytes are at the position, or throws when the
\* data ends within them.
LEMMA ValueIsRead ==
  ASSUME NEW value \in Values, IsValue(value),
         NEW data \in Seq(Octets), NEW pos \in 0..Len(data), NEW values,
         \A i \in 1..Len(Encoded(value)) :
           pos + i <= Len(data) => data[pos + i] = Encoded(value)[i]
  PROVE  LET reader == Get(ReaderAt(data, pos, values), value.kind)
             end == pos + Len(Encoded(value))
         IN IF end <= Len(data) THEN reader = ReaderAt(data, end, Append(values, value))
                                ELSE reader.failed
<1>1. Len(data) \in Nat /\ pos \in Nat
  BY LenProperties
<1>2. CASE value.kind # "string"
  <2> DEFINE kind == value.kind
             n == value.number
             size == SizeOf[kind]
             start == ReaderAt(data, pos, values)
  <2>1. kind \in DOMAIN SizeOf /\ n \in Nat /\ Fits(kind, n) /\ value = Number(kind, n)
    BY <1>2 DEF Values, IsValue, Number
  <2>2. Encoded(value) = Bytes(kind, n) /\ Len(Encoded(value)) = size /\ size \in Nat
    <3>1. Bytes(kind, n) \in Seq(Octets) /\ Len(Bytes(kind, n)) = size
      BY <2>1, NumberBack
    <3>2. Encoded(value) = << >> \o Bytes(kind, n)
      BY <1>2 DEF Encoded, Put, PutNumber
    <3>3. QED
      BY <2>1, <3>1, <3>2, ConcatEmptySeq, CodecAssumption
  <2>3. Get(start, kind) = GetNumber(start, kind)
    BY <1>2 DEF Get, ReaderAt
  <2>4. CASE pos + size <= Len(data)
    <3>1. Value(SubSeq(data, pos + 1, pos + size)) = n
      <4>1. ASSUME NEW i \in 1..size PROVE data[pos + i] = Bytes(kind, n)[i]
        <5>1. pos + i <= Len(data)
          BY <1>1, <2>2, <2>4
        <5>2. i \in 1..Len(Encoded(value)) /\ Encoded(value)[i] = Bytes(kind, n)[i]
          BY <2>2
        <5>3. QED
          BY <5>1, <5>2
      <4>2. QED
        BY <1>1, <2>1, <2>4, <4>1, NumberIsThere
    <3>2. GetNumber(start, kind) = ReaderAt(data, pos + size, Append(values, Number(kind, n)))
      <4>1. ~Underflows(start, size) /\ Value(Bite(start, size)) = n
        <5>1. ~(Len(data) < pos + size)
          BY <1>1, <2>2, <2>4
        <5>2. Bite(start, size) = SubSeq(data, pos + 1, pos + size)
          BY ReaderBite
        <5>3. QED
          BY <3>1, <5>1, <5>2, ReaderUnderflows
      <4>2. GetNumber(start, kind) = Taken(start, size, Number(kind, n))
        BY <4>1 DEF GetNumber
      <4>3. QED
        BY <4>2, ReaderTaken
    <3>3. QED
      BY <2>1, <2>2, <2>3, <2>4, <3>2
  <2>5. CASE ~(pos + size <= Len(data))
    <3>1. GetNumber(start, kind).failed
      BY <1>1, <2>2, <2>5 DEF GetNumber, Underflows, Fail, ReaderAt
    <3>2. QED
      BY <2>2, <2>3, <2>5, <3>1
  <2>6. QED
    BY <2>4, <2>5
<1>3. CASE value.kind = "string"
  <2> DEFINE text == value.text
             size == SizeOf["unsigned"]
             header == Bytes("unsigned", Len(text))
             start == ReaderAt(data, pos, values)
             counted == GetNumber(start, "unsigned")
             body == ReaderAt(data, pos + size, values)
  <2>1. /\ "unsigned" \in DOMAIN SizeOf /\ size \in Nat
        /\ text \in Seq(Octets) /\ Len(text) \in Nat /\ Fits("unsigned", Len(text))
        /\ value = Text(text)
    BY <1>3, CodecAssumption, LenProperties DEF Values, IsValue, Text, Octets
  <2>2. header \in Seq(Octets) /\ Len(header) = size
    BY <2>1, NumberBack
  <2>3. Encoded(value) = header \o text
    <3>1. Encoded(value) = (<< >> \o header) \o text
      BY <1>3 DEF Encoded, Put, PutText, PutNumber
    <3>2. QED
      BY <2>2, <3>1, ConcatEmptySeq
  <2>4. Get(start, value.kind) = GetText(start)
    BY <1>3 DEF Get, ReaderAt
  <2> HIDE DEF text, size, header
  <2>5. /\ Len(Encoded(value)) = size + Len(text)
        /\ \A i \in 1..size + Len(text) :
             Encoded(value)[i] = IF i <= size THEN header[i] ELSE text[i - size]
    <3>1. /\ Len(header \o text) = Len(header) + Len(text)
          /\ \A i \in 1..Len(header) + Len(text) :
               (header \o text)[i] = IF i <= Len(header) THEN header[i] ELSE text[i - Len(header)]
      BY <2>1, <2>2, ConcatProperties
    <3>2. QED
      BY <2>2, <2>3, <3>1
  <2>6. CASE ~(pos + size <= Len(data))
    <3>1. counted.failed
      BY <1>1, <2>1, <2>6 DEF GetNumber, Underflows, Fail, ReaderAt, size
    <3>2. GetText(start).failed
      BY <3>1 DEF GetText, Fail, ReaderAt
    <3>3. ~(pos + (size + Len(text)) <= Len(data))
      BY <1>1, <2>1, <2>6
    <3>4. QED
      BY <2>4, <2>5, <3>2, <3>3
  <2>7. CASE pos + size <= Len(data)
    <3>1. Value(Bite(start, size)) = Len(text)
      <4>1. \A i \in 1..size : data[pos + i] = header[i]
        <5> SUFFICES ASSUME NEW i \in 1..size PROVE data[pos + i] = header[i]
          OBVIOUS
        <5>1. i \in 1..size + Len(text) /\ i <= size /\ pos + i <= Len(data)
          BY <1>1, <2>1, <2>7
        <5>2. QED
          BY <2>5, <5>1
      <4>2. Value(SubSeq(data, pos + 1, pos + size)) = Len(text)
        BY <1>1, <2>1, <2>7, <4>1, NumberIsThere DEF size, header
      <4>3. QED
        BY <4>2 DEF Bite, ReaderAt
    <3>2. ~counted.failed /\ [counted EXCEPT !.values = start.values] = body
      <4>1. ~Underflows(start, size)
        <5>1. ~(Len(data) < pos + size)
          BY <1>1, <2>1, <2>7
        <5>2. QED
          BY <5>1, ReaderUnderflows
      <4>2. PICK n : counted = Taken(start, size, n)
        BY <4>1 DEF GetNumber, size
      <4>3. counted = ReaderAt(data, pos + size, Append(values, n))
        BY <4>2, ReaderTaken
      <4>4. ~counted.failed /\ start.values = values
        BY <4>3, ReaderFields
      <4>5. \A v : [ReaderAt(data, pos + size, v) EXCEPT !.values = values] = body
        <5> TAKE v
        <5>1. PICK reader : reader = ReaderAt(data, pos + size, v)
          OBVIOUS
        <5>2. reader.pos = pos + size /\ DOMAIN reader = {"data", "pos", "values", "failed"}
          BY <5>1 DEF ReaderAt
        <5>3. [reader EXCEPT !.values = values] = Moved(reader, reader.pos, values)
          BY <5>2 DEF Moved
        <5>4. QED
          BY <5>1, <5>2, <5>3, ReaderMoved
      <4>6. QED
        BY <4>3, <4>4, <4>5, Zenon
    <3>3. GetText(start) = IF Underflows(body, Len(text)) THEN Fail(body)
                           ELSE Taken(body, Len(text), Text(Bite(body, Len(text))))
      BY <3>1, <3>2, Zenon DEF GetText, size
    <3>4. CASE (pos + size) + Len(text) <= Len(data)
      <4>1. pos + size \in Nat /\ ((pos + size) + Len(text)) - (pos + size) = Len(text)
            /\ pos + size <= (pos + size) + Len(text) /\ (pos + size) + Len(text) \in Nat
        BY <1>1, <2>1
      <4> DEFINE bite == SubSeq(data, pos + size + 1, (pos + size) + Len(text))
      <4>2. /\ bite \in Seq(Octets) /\ Len(bite) = Len(text)
            /\ \A i \in 1..Len(text) : bite[i] = data[pos + size + i]
        <5> DEFINE a == pos + size  b == (pos + size) + Len(text)
        <5>1. a \in Nat /\ b \in Nat /\ a <= b /\ b <= Len(data) /\ b - a = Len(text)
          BY <3>4, <4>1
        <5> HIDE DEF a, b
        <5>2. /\ SubSeq(data, a + 1, b) \in Seq(Octets) /\ Len(SubSeq(data, a + 1, b)) = b - a
              /\ \A i \in 1..b - a : SubSeq(data, a + 1, b)[i] = data[a + i]
          BY <5>1, Slice
        <5>3. QED
          BY <5>1, <5>2 DEF a, b
      <4> HIDE DEF bite
      <4>3. ASSUME NEW i \in 1..Len(text) PROVE bite[i] = text[i]
        <5>1. /\ size + i \in 1..size + Len(text) /\ ~(size + i <= size) /\ (size + i) - size = i
              /\ pos + (size + i) = pos + size + i /\ pos + (size + i) <= Len(data)
          BY <1>1, <2>1, <3>4
        <5>2. data[pos + (size + i)] = text[i]
          BY <2>5, <5>1
        <5>3. QED
          BY <4>2, <5>1, <5>2
      <4>4. bite = text
        BY <2>1, <4>2, <4>3, SeqEqual
      <4>5. Bite(body, Len(text)) = text
        BY <4>4 DEF Bite, ReaderAt, bite
      <4>6. GetText(start) = ReaderAt(data, (pos + size) + Len(text), Append(values, Text(text)))
        <5>1. ~Underflows(body, Len(text))
          <6>1. ~(Len(data) < (pos + size) + Len(text))
            BY <1>1, <2>1, <3>4
          <6>2. QED
            BY <6>1, ReaderUnderflows
        <5>2. GetText(start) = Taken(body, Len(text), Text(text))
          BY <3>3, <4>5, <5>1
        <5>3. QED
          BY <5>2, ReaderTaken
      <4>7. (pos + size) + Len(text) = pos + (size + Len(text))
        BY <1>1, <2>1
      <4>8. QED
        BY <2>1, <2>4, <2>5, <3>4, <4>6, <4>7
    <3>5. CASE ~((pos + size) + Len(text) <= Len(data))
      <4>1. Underflows(body, Len(text))
        BY <1>1, <2>1, <3>5 DEF Underflows, ReaderAt
      <4>2. GetText(start).failed
        BY <3>3, <4>1 DEF Fail, ReaderAt
      <4>3. ~(pos + (size + Len(text)) <= Len(data))
        BY <1>1, <2>1, <3>5
      <4>4. QED
        BY <2>4, <2>5, <4>2, <4>3
    <3>6. QED
      BY <3>4, <3>5
  <2>8. QED
    BY <2>6, <2>7
<1>4. QED
  BY <1>2, <1>3

IsAfter(f, reader, kinds, n) ==
  f = [i \in 0..n |-> IF i = 0 THEN reader ELSE Get(f[i - 1], kinds[i])]

\* There is such a function.
LEMMA AfterExists ==
  ASSUME NEW reader, NEW kinds, NEW size \in Nat
  PROVE  \E f : IsAfter(f, reader, kinds, size)
<1> DEFINE T == {k \in Nat : \E f : IsAfter(f, reader, kinds, k)}
<1>1. 0 \in T
  <2>1. IsAfter([i \in 0..0 |-> reader], reader, kinds, 0)
    BY DEF IsAfter
  <2>2. QED
    BY <2>1
<1>2. ASSUME NEW k \in 0..size - 1, k \in T PROVE k + 1 \in T
  <2>1. PICK f : IsAfter(f, reader, kinds, k)
    BY <1>2
  <2> DEFINE g == [i \in 0..k + 1 |-> IF i = k + 1 THEN Get(f[k], kinds[k + 1]) ELSE f[i]]
  <2>2. \A i \in 0..k + 1 : g[i] = IF i = 0 THEN reader ELSE Get(g[i - 1], kinds[i])
    BY <2>1 DEF IsAfter
  <2>3. g = [i \in 0..k + 1 |-> IF i = 0 THEN reader ELSE Get(g[i - 1], kinds[i])]
    BY <2>2
  <2>4. IsAfter(g, reader, kinds, k + 1)
    BY <2>3 DEF IsAfter
  <2> HIDE DEF g
  <2>5. QED
    BY <2>4
<1>3. size \in T
  <2> HIDE DEF T
  <2>1. QED
    BY <1>1, <1>2, Induction
<1>4. QED
  BY <1>3

\* A chain of >> is one >> after another.
LEMMA GetAllDef ==
  ASSUME NEW reader, NEW kinds, Len(kinds) \in Nat
  PROVE  \E after : /\ after[0] = reader /\ GetAll(reader, kinds) = after[Len(kinds)]
                    /\ \A i \in 1..Len(kinds) : after[i] = Get(after[i - 1], kinds[i])
<1> DEFINE N == Len(kinds)
           after == CHOOSE f : IsAfter(f, reader, kinds, N)
<1>1. IsAfter(after, reader, kinds, N)
  BY AfterExists
<1>2. GetAll(reader, kinds) = after[N]
  BY DEF GetAll, IsAfter
<1> HIDE DEF after
<1>3. after[0] = reader /\ \A i \in 1..N : after[i] = Get(after[i - 1], kinds[i])
  BY <1>1 DEF IsAfter
<1>4. QED
  BY <1>2, <1>3

(***************************************************************************)
(* Reading a packet.                                                       *)
(***************************************************************************)

\* The data are those of the packet of the values, as far as they go: some of it
\* may be missing, and there may be more behind it.
Written(values, out, data) ==
  /\ values \in Seq(Values) /\ \A i \in 1..Len(values) : IsValue(values[i])
  /\ Out(out, values)
  /\ data \in Seq(Octets)
  /\ \A n \in 1..Len(out[Len(values)]) : n <= Len(data) => data[n] = out[Len(values)][n]

\* The reader has taken so many values, or has missed bytes of them.
Stands(reader, values, out, data, i) ==
  IF Len(out[i]) <= Len(data) THEN reader = ReaderAt(data, Len(out[i]), SubSeq(values, 1, i))
                              ELSE reader.failed

\* It begins with none.
LEMMA StandsAtStart ==
  ASSUME NEW values, NEW out, NEW data, Written(values, out, data)
  PROVE  Stands(Reader(data), values, out, data, 0)
<1>1. out[0] = << >> /\ Len(<< >>) = 0 /\ Len(data) \in Nat
  BY EmptySeq, LenProperties DEF Written, Out
<1>2. SubSeq(values, 1, 0) = << >>
  BY SubSeqEmpty DEF Written
<1>3. Reader(data) = ReaderAt(data, 0, << >>)
  BY DEF Reader, ReaderAt
<1>4. Len(out[0]) = 0 /\ Len(out[0]) <= Len(data)
  BY <1>1
<1>5. QED
  BY <1>2, <1>3, <1>4, Zenon DEF Stands

\* One >> of the right type takes one value more.
LEMMA StandsAfterGet ==
  ASSUME NEW values, NEW out, NEW data, Written(values, out, data),
         NEW i \in 0..Len(values) - 1, NEW reader, Stands(reader, values, out, data, i)
  PROVE  Stands(Get(reader, values[i + 1].kind), values, out, data, i + 1)
<1> DEFINE value == values[i + 1]
           bytes == Encoded(value)
           from == Len(out[i])
           packet == out[Len(values)]
<1>1. /\ Len(values) \in Nat /\ i + 1 \in 1..Len(values) /\ (i + 1) - 1 = i /\ i \in 0..Len(values)
      /\ Len(data) \in Nat /\ data \in Seq(Octets) /\ values \in Seq(Values)
  BY LenProperties DEF Written
<1>2. value \in Values /\ IsValue(value)
  BY <1>1, ElementOfSeq DEF Written
<1>3. /\ packet \in Seq(Octets) /\ bytes \in Seq(Octets) /\ from \in Nat
      /\ Len(out[i + 1]) = from + Len(bytes) /\ Len(out[i + 1]) <= Len(packet)
      /\ Holds(packet, from, bytes)
  <2>1. Out(out, values)
    BY DEF Written
  <2>2. PICK j \in 1..Len(values) : j = i + 1
    BY <1>1
  <2>3. j - 1 = i
    BY <1>1, <2>2
  <2>4. /\ packet \in Seq(Octets) /\ Encoded(values[j]) \in Seq(Octets) /\ Len(out[j - 1]) \in Nat
        /\ Len(out[j]) = Len(out[j - 1]) + Len(Encoded(values[j])) /\ Len(out[j]) <= Len(packet)
        /\ Holds(packet, Len(out[j - 1]), Encoded(values[j]))
    BY <1>1, <2>1, WhereValuesAre
  <2>5. QED
    BY <2>2, <2>3, <2>4
<1>4. Len(bytes) \in Nat /\ Len(packet) \in Nat
  BY <1>3, LenProperties
<1> HIDE DEF bytes, from, packet
<1>5. CASE from <= Len(data)
  <2>1. reader = ReaderAt(data, from, SubSeq(values, 1, i))
    BY <1>5 DEF Stands, from
  <2>2. ASSUME NEW n \in 1..Len(bytes), from + n <= Len(data) PROVE data[from + n] = bytes[n]
    <3>1. from + n \in 1..Len(packet)
      BY <1>3, <1>4
    <3>2. data[from + n] = packet[from + n]
      BY <2>2, <3>1 DEF Written, packet
    <3>3. QED
      BY <1>3, <3>2 DEF Holds
  <2>3. LET next == Get(reader, value.kind)
            end == from + Len(bytes)
        IN IF end <= Len(data) THEN next = ReaderAt(data, end, Append(SubSeq(values, 1, i), value))
                               ELSE next.failed
    <3>1. from \in 0..Len(data)
      BY <1>1, <1>3, <1>5
    <3> HIDE DEF value
    <3>2. QED
      BY <1>1, <1>2, <2>1, <2>2, <3>1, ValueIsRead DEF bytes
  <2>4. Append(SubSeq(values, 1, i), value) = SubSeq(values, 1, i + 1)
    <3>1. /\ SubSeq(values, 0 + 1, i) \in Seq(Values) /\ Len(SubSeq(values, 0 + 1, i)) = i - 0
          /\ \A k \in 1..i - 0 : SubSeq(values, 0 + 1, i)[k] = values[0 + k]
      BY <1>1, Slice
    <3>2. /\ SubSeq(values, 0 + 1, i + 1) \in Seq(Values) /\ Len(SubSeq(values, 0 + 1, i + 1)) = i + 1 - 0
          /\ \A k \in 1..i + 1 - 0 : SubSeq(values, 0 + 1, i + 1)[k] = values[0 + k]
      BY <1>1, Slice
    <3> DEFINE p == SubSeq(values, 1, i)  q == SubSeq(values, 1, i + 1)
    <3>3. p \in Seq(Values) /\ Len(p) = i /\ \A k \in 1..i : p[k] = values[k]
      BY <3>1
    <3>4. q \in Seq(Values) /\ Len(q) = i + 1 /\ \A k \in 1..i + 1 : q[k] = values[k]
      BY <3>2
    <3> HIDE DEF p, q, value
    <3>5. /\ Append(p, value) \in Seq(Values) /\ Len(Append(p, value)) = i + 1
          /\ \A k \in 1..i : Append(p, value)[k] = p[k]
          /\ Append(p, value)[i + 1] = value
      BY <1>2, <3>3, AppendProperties
    <3>6. \A k \in 1..i + 1 : Append(p, value)[k] = q[k]
      <4> SUFFICES ASSUME NEW k \in 1..i + 1 PROVE Append(p, value)[k] = q[k]
        OBVIOUS
      <4>1. CASE k = i + 1
        BY <3>4, <3>5, <4>1 DEF value
      <4>2. CASE k \in 1..i
        BY <3>3, <3>4, <3>5, <4>2
      <4>3. k = i + 1 \/ k \in 1..i
        OBVIOUS
      <4>4. QED
        BY <4>1, <4>2, <4>3
    <3>7. Append(p, value) = q
      BY <3>4, <3>5, <3>6, SeqEqual
    <3>8. QED
      BY <3>7 DEF p, q
  <2>5. QED
    BY <1>3, <2>3, <2>4, Zenon DEF Stands, from
<1>6. CASE ~(from <= Len(data))
  <2>1. reader.failed
    BY <1>6 DEF Stands, from
  <2>2. Get(reader, value.kind) = reader
    BY <2>1 DEF Get
  <2>3. ~(Len(out[i + 1]) <= Len(data))
    BY <1>1, <1>3, <1>4, <1>6
  <2>4. QED
    BY <2>1, <2>2, <2>3 DEF Stands
<1>7. QED
  BY <1>5, <1>6

\* A chain of >> of the right types takes as many values as it is long.
LEMMA StandsAfterAll ==
  ASSUME NEW values, NEW out, NEW data, Written(values, out, data),
         NEW i \in 0..Len(values), NEW reader, Stands(reader, values, out, data, i),
         NEW kinds, Len(kinds) \in Nat, i + Len(kinds) <= Len(values),
         \A k \in 1..Len(kinds) : kinds[k] = values[i + k].kind
  PROVE  Stands(GetAll(reader, kinds), values, out, data, i + Len(kinds))
<1> DEFINE K == Len(kinds)
<1>1. PICK after : /\ after[0] = reader /\ GetAll(reader, kinds) = after[K]
                   /\ \A k \in 1..K : after[k] = Get(after[k - 1], kinds[k])
  BY GetAllDef
<1>2. Len(values) \in Nat
  BY LenProperties DEF Written
<1> DEFINE T == {k \in 0..K : Stands(after[k], values, out, data, i + k)}
<1>3. 0 \in T
  <2>1. i + 0 = i /\ 0 \in 0..K
    BY <1>2
  <2>2. QED
    BY <1>1, <2>1
<1>4. ASSUME NEW k \in 0..K - 1, k \in T PROVE k + 1 \in T
  <2>1. /\ k + 1 \in 1..K /\ (k + 1) - 1 = k /\ i + k \in 0..Len(values) - 1
        /\ i + (k + 1) = (i + k) + 1 /\ k + 1 \in 0..K
    BY <1>2
  <2>2. after[k + 1] = Get(after[k], values[(i + k) + 1].kind)
    BY <1>1, <2>1
  <2>3. Stands(Get(after[k], values[(i + k) + 1].kind), values, out, data, (i + k) + 1)
    BY <1>4, <2>1, StandsAfterGet
  <2>4. QED
    BY <2>1, <2>2, <2>3
<1>5. K \in T
  <2>1. K \in Nat /\ K \in 0..K
    OBVIOUS
  <2> HIDE DEF T, K
  <2>2. QED
    BY <1>3, <1>4, <2>1, Induction
<1>6. QED
  BY <1>1, <1>5

HeaderSize == SizeOf["unsigned"]
Entries == [message : Messages, complete : BOOLEAN]

(***************************************************************************)
(* Slices: the bytes from a position up to another.                        *)
(***************************************************************************)

\* Bytes put behind bytes are bytes.
LEMMA Joined ==
  \A a, b \in Seq(Octets) : /\ a \o b \in Seq(Octets) /\ Len(a \o b) = Len(a) + Len(b)
                            /\ Len(a) \in Nat /\ Len(b) \in Nat
BY ConcatProperties, LenProperties

\* It does not matter which pieces are joined first.
LEMMA Regrouped ==
  \A a, b, c \in Seq(Octets) : (a \o b) \o c = a \o (b \o c)
BY ConcatAssociative

\* A slice of a slice is a slice, from where the first one begins.
LEMMA SliceOfSlice ==
  ASSUME NEW T, NEW s \in Seq(T), NEW a \in Nat, NEW b \in Nat, a <= b, b <= Len(s),
         NEW c \in Nat, NEW d \in Nat, c <= d, d <= b - a
  PROVE  SubSeq(SubSeq(s, a + 1, b), c + 1, d) = SubSeq(s, a + c + 1, a + d)
<1> DEFINE t == SubSeq(s, a + 1, b)
<1>1. t \in Seq(T) /\ Len(t) = b - a /\ \A i \in 1..b - a : t[i] = s[a + i]
  BY Slice
<1> HIDE DEF t
<1>2. /\ SubSeq(t, c + 1, d) \in Seq(T) /\ Len(SubSeq(t, c + 1, d)) = d - c
      /\ \A i \in 1..d - c : SubSeq(t, c + 1, d)[i] = t[c + i]
  BY <1>1, Slice
<1>3. a + c \in Nat /\ a + d \in Nat /\ a + c <= a + d /\ a + d <= Len(s) /\ (a + d) - (a + c) = d - c
  BY LenProperties
<1>4. /\ SubSeq(s, a + c + 1, a + d) \in Seq(T) /\ Len(SubSeq(s, a + c + 1, a + d)) = d - c
      /\ \A i \in 1..d - c : SubSeq(s, a + c + 1, a + d)[i] = s[a + c + i]
  BY <1>3, Slice
<1>5. \A i \in 1..d - c : SubSeq(t, c + 1, d)[i] = SubSeq(s, a + c + 1, a + d)[i]
  <2> SUFFICES ASSUME NEW i \in 1..d - c
               PROVE  SubSeq(t, c + 1, d)[i] = SubSeq(s, a + c + 1, a + d)[i]
    OBVIOUS
  <2>1. c + i \in 1..b - a /\ a + (c + i) = a + c + i
    OBVIOUS
  <2>2. QED
    BY <1>1, <1>2, <1>4, <2>1
<1>6. SubSeq(t, c + 1, d) = SubSeq(s, a + c + 1, a + d)
  BY <1>2, <1>4, <1>5, SeqEqual
<1>7. QED
  BY <1>6 DEF t

\* What is put behind a sequence does not change its slices.
LEMMA SliceOfLeft ==
  ASSUME NEW T, NEW s \in Seq(T), NEW t \in Seq(T), NEW a \in Nat, NEW b \in Nat,
         a <= b, b <= Len(s)
  PROVE  SubSeq(s \o t, a + 1, b) = SubSeq(s, a + 1, b)
<1>1. s \o t \in Seq(T) /\ Len(s \o t) = Len(s) + Len(t) /\ Len(s) \in Nat /\ Len(t) \in Nat
      /\ \A i \in 1..Len(s) + Len(t) : (s \o t)[i] = IF i <= Len(s) THEN s[i] ELSE t[i - Len(s)]
  BY ConcatProperties, LenProperties
<1>2. b <= Len(s \o t)
  BY <1>1
<1>3. /\ SubSeq(s \o t, a + 1, b) \in Seq(T) /\ Len(SubSeq(s \o t, a + 1, b)) = b - a
      /\ \A i \in 1..b - a : SubSeq(s \o t, a + 1, b)[i] = (s \o t)[a + i]
  BY <1>1, <1>2, Slice
<1>4. /\ SubSeq(s, a + 1, b) \in Seq(T) /\ Len(SubSeq(s, a + 1, b)) = b - a
      /\ \A i \in 1..b - a : SubSeq(s, a + 1, b)[i] = s[a + i]
  BY Slice
<1>5. \A i \in 1..b - a : (s \o t)[a + i] = s[a + i]
  BY <1>1
<1>6. QED
  BY <1>3, <1>4, <1>5, SeqEqual

\* A slice of what is put behind a sequence is a slice of the two, further on.
LEMMA SliceOfRight ==
  ASSUME NEW T, NEW s \in Seq(T), NEW t \in Seq(T), NEW a \in Nat, NEW b \in Nat,
         a <= b, b <= Len(t)
  PROVE  SubSeq(s \o t, Len(s) + a + 1, Len(s) + b) = SubSeq(t, a + 1, b)
<1>1. s \o t \in Seq(T) /\ Len(s \o t) = Len(s) + Len(t) /\ Len(s) \in Nat /\ Len(t) \in Nat
      /\ \A i \in 1..Len(s) + Len(t) : (s \o t)[i] = IF i <= Len(s) THEN s[i] ELSE t[i - Len(s)]
  BY ConcatProperties, LenProperties
<1> DEFINE x == Len(s) + a  y == Len(s) + b
<1>2. x \in Nat /\ y \in Nat /\ x <= y /\ y <= Len(s \o t) /\ y - x = b - a
  BY <1>1
<1>3. /\ SubSeq(s \o t, x + 1, y) \in Seq(T) /\ Len(SubSeq(s \o t, x + 1, y)) = y - x
      /\ \A i \in 1..y - x : SubSeq(s \o t, x + 1, y)[i] = (s \o t)[x + i]
  <2> HIDE DEF x, y
  <2> QED BY <1>1, <1>2, Slice
<1>4. /\ SubSeq(t, a + 1, b) \in Seq(T) /\ Len(SubSeq(t, a + 1, b)) = b - a
      /\ \A i \in 1..b - a : SubSeq(t, a + 1, b)[i] = t[a + i]
  BY Slice
<1>5. \A i \in 1..b - a : (s \o t)[x + i] = t[a + i]
  <2> SUFFICES ASSUME NEW i \in 1..b - a PROVE (s \o t)[x + i] = t[a + i]
    OBVIOUS
  <2>1. x + i \in 1..Len(s) + Len(t) /\ ~(x + i <= Len(s)) /\ (x + i) - Len(s) = a + i
    BY <1>1
  <2>2. QED
    BY <1>1, <2>1
<1>6. SubSeq(s \o t, x + 1, y) = SubSeq(t, a + 1, b)
  <2> DEFINE p == SubSeq(s \o t, x + 1, y)  q == SubSeq(t, a + 1, b)
  <2>1. p \in Seq(T) /\ Len(p) = b - a /\ \A i \in 1..b - a : p[i] = (s \o t)[x + i]
    BY <1>2, <1>3
  <2>2. q \in Seq(T) /\ Len(q) = b - a /\ \A i \in 1..b - a : q[i] = t[a + i]
    BY <1>4
  <2> HIDE DEF p, q, x, y
  <2>3. p = q
    BY <1>5, <2>1, <2>2, SeqEqual
  <2>4. QED
    BY <2>3 DEF p, q
<1>7. QED
  BY <1>6 DEF x, y

\* What is in front of a position and what is behind it.
LEMMA SliceSplit ==
  ASSUME NEW T, NEW s \in Seq(T), NEW n \in Nat, n <= Len(s)
  PROVE  /\ SubSeq(s, 1, n) \in Seq(T) /\ Len(SubSeq(s, 1, n)) = n
         /\ SubSeq(s, n + 1, Len(s)) \in Seq(T) /\ Len(SubSeq(s, n + 1, Len(s))) = Len(s) - n
         /\ SubSeq(s, 1, n) \o SubSeq(s, n + 1, Len(s)) = s
<1>1. Len(s) \in Nat
  BY LenProperties
<1>2. /\ SubSeq(s, 0 + 1, n) \in Seq(T) /\ Len(SubSeq(s, 0 + 1, n)) = n - 0
      /\ \A i \in 1..n - 0 : SubSeq(s, 0 + 1, n)[i] = s[0 + i]
  BY Slice
<1>3. /\ SubSeq(s, n + 1, Len(s)) \in Seq(T) /\ Len(SubSeq(s, n + 1, Len(s))) = Len(s) - n
      /\ \A i \in 1..Len(s) - n : SubSeq(s, n + 1, Len(s))[i] = s[n + i]
  BY <1>1, Slice
<1> DEFINE l == SubSeq(s, 1, n)  r == SubSeq(s, n + 1, Len(s))
<1>4. l \in Seq(T) /\ Len(l) = n /\ \A i \in 1..n : l[i] = s[i]
  BY <1>2
<1> HIDE DEF l
<1>5. r \in Seq(T) /\ Len(r) = Len(s) - n /\ \A i \in 1..Len(s) - n : r[i] = s[n + i]
  BY <1>3
<1> HIDE DEF r
<1>6. l \o r \in Seq(T) /\ Len(l \o r) = Len(s)
      /\ \A i \in 1..Len(s) : (l \o r)[i] = IF i <= n THEN l[i] ELSE r[i - n]
  BY <1>1, <1>4, <1>5, ConcatProperties
<1>7. \A i \in 1..Len(s) : (l \o r)[i] = s[i]
  <2> SUFFICES ASSUME NEW i \in 1..Len(s) PROVE (l \o r)[i] = s[i]
    OBVIOUS
  <2>1. CASE i <= n
    BY <1>4, <1>6, <2>1
  <2>2. CASE ~(i <= n)
    <3>1. i - n \in 1..Len(s) - n /\ n + (i - n) = i
      BY <1>1, <2>2
    <3>2. QED
      BY <1>1, <1>5, <1>6, <2>2, <3>1
  <2>3. QED
    BY <2>1, <2>2
<1>8. l \o r = s
  BY <1>6, <1>7, SeqEqual
<1>9. /\ SubSeq(s, 1, n) \in Seq(T) /\ Len(SubSeq(s, 1, n)) = n
      /\ SubSeq(s, n + 1, Len(s)) \in Seq(T) /\ Len(SubSeq(s, n + 1, Len(s))) = Len(s) - n
  BY <1>4, <1>5 DEF l, r
<1>10. SubSeq(s, 1, n) \o SubSeq(s, n + 1, Len(s)) = s
  BY <1>8 DEF l, r
<1>11. QED
  BY <1>9, <1>10

(***************************************************************************)
(* Messages and the bytes they are sent as.                                *)
(***************************************************************************)

Content(m) == <<Opcode(m)>> \o m.values

\* The opcode and the values of a message are values, of the types its reader takes.
LEMMA ContentType ==
  ASSUME NEW m \in Messages
  PROVE  /\ m = [opcode |-> m.opcode, values |-> m.values]
         /\ m.opcode \in Nat /\ m.values \in Seq(Values) /\ Opcode(m) \in Values
         /\ Content(m) \in Seq(Values) /\ Len(Content(m)) = Len(m.values) + 1
         /\ Content(m)[1] = Opcode(m)
         /\ \A i \in 1..Len(m.values) : Content(m)[i + 1] = m.values[i]
         /\ \A i \in 1..Len(Content(m)) : IsValue(Content(m)[i])
         /\ Len(Fields(m)) = Len(m.values)
         /\ \A i \in 1..Len(m.values) : Fields(m)[i] = m.values[i].kind
<1>1. m \in [opcode : Nat, values : Seq(Values)]
  BY MessagesAssumption
<1>2. /\ m = [opcode |-> m.opcode, values |-> m.values]
      /\ m.opcode \in Nat /\ m.values \in Seq(Values)
  BY <1>1
<1> DEFINE values == m.values
<1>3. values \in Seq(Values) /\ Len(values) \in Nat /\ DOMAIN values = 1..Len(values)
  BY <1>2, LenProperties
<1>4. Opcode(m) \in Values
  <2>1. "byte" \in DOMAIN SizeOf /\ << >> \in Seq(0..Base - 1)
    BY CodecAssumption, EmptySeq
  <2>2. QED
    BY <1>2, <2>1 DEF Opcode, Number, Values
<1> DEFINE first == <<Opcode(m)>>
<1>5. first \in Seq(Values) /\ Len(first) = 1 /\ first[1] = Opcode(m)
  BY <1>4
<1> HIDE DEF values, first
<1>6. /\ first \o values \in Seq(Values) /\ Len(first \o values) = Len(values) + 1
      /\ (first \o values)[1] = Opcode(m)
      /\ \A i \in 1..Len(values) : (first \o values)[i + 1] = values[i]
  <2>1. /\ first \o values \in Seq(Values) /\ Len(first \o values) = Len(first) + Len(values)
        /\ \A i \in 1..Len(first) + Len(values) :
             (first \o values)[i] = IF i <= Len(first) THEN first[i] ELSE values[i - Len(first)]
    BY <1>3, <1>5, ConcatProperties
  <2>2. (first \o values)[1] = Opcode(m)
    BY <1>3, <1>5, <2>1
  <2>3. ASSUME NEW i \in 1..Len(values) PROVE (first \o values)[i + 1] = values[i]
    <3>1. i + 1 \in 1..Len(first) + Len(values) /\ ~(i + 1 <= Len(first)) /\ (i + 1) - Len(first) = i
      BY <1>3, <1>5
    <3>2. QED
      BY <2>1, <3>1
  <2>4. QED
    BY <1>3, <1>5, <2>1, <2>2, <2>3
<1>7. Content(m) = first \o values
  BY DEF Content, first, values
<1>8. \A i \in 1..Len(Content(m)) : IsValue(Content(m)[i])
  <2> SUFFICES ASSUME NEW i \in 1..Len(Content(m)) PROVE IsValue(Content(m)[i])
    OBVIOUS
  <2>1. IsValue(Opcode(m)) /\ \A k \in 1..Len(values) : IsValue(values[k])
    BY <1>3, MessagesAssumption DEF values
  <2>2. CASE i = 1
    BY <1>6, <1>7, <2>1, <2>2
  <2>3. CASE i # 1
    <3>1. PICK k \in 1..Len(values) : i = k + 1
      <4>1. i - 1 \in 1..Len(values) /\ i = (i - 1) + 1
        BY <1>3, <1>6, <1>7, <2>3
      <4>2. QED
        BY <4>1
    <3>2. QED
      BY <1>6, <1>7, <2>1, <3>1
  <2>4. QED
    BY <2>2, <2>3
<1>9. /\ Len(Fields(m)) = Len(values)
      /\ \A i \in 1..Len(values) : Fields(m)[i] = values[i].kind
  <2>1. Fields(m) = [i \in 1..Len(values) |-> values[i].kind]
    BY <1>3, MessagesAssumption DEF values
  <2>2. QED
    BY <1>3, <2>1
<1>10. QED
  BY <1>2, <1>4, <1>6, <1>7, <1>8, <1>9 DEF values

\* A list of characters is a number and a name for each.
LEMMA CharactersType ==
  ASSUME NEW count \in Nat
  PROVE  /\ Len(Characters(count)) = 2 * count
         /\ Characters(count) \in Seq({"unsigned", "string"})
<1>1. 2 * count \in Nat
  OBVIOUS
<1>2. QED
  BY <1>1 DEF Characters

\* What is read from the data of a packet: all its values, or not enough bytes.
LEMMA ReadTakesAll ==
  ASSUME NEW m \in Messages, NEW out, NEW data, Written(Content(m), out, data)
  PROVE  Stands(Read(data), Content(m), out, data, Len(Content(m)))
<1> DEFINE w == Content(m)
           N == Len(w)
           n == Len(m.values)
           start == Get(Reader(data), "byte")
           Stood(reader, i) == Stands(reader, w, out, data, i)
<1>1. /\ m.opcode \in Nat /\ m.values \in Seq(Values) /\ w \in Seq(Values) /\ N = n + 1
      /\ w[1] = Opcode(m) /\ \A i \in 1..n : w[i + 1] = m.values[i]
      /\ Len(Fields(m)) = n /\ \A i \in 1..n : Fields(m)[i] = m.values[i].kind
  BY ContentType
<1>2. n \in Nat /\ Len(data) \in Nat /\ data \in Seq(Octets) /\ Out(out, w)
  BY <1>1, LenProperties DEF Written
<1>3. w[1].kind = "byte" /\ w[1].number = m.opcode
  BY <1>1 DEF Opcode, Number
<1> HIDE DEF w, n, start
<1>4. Stood(start, 1)
  <2>1. Stood(Reader(data), 0)
    BY StandsAtStart DEF w
  <2>2. 0 \in 0..N - 1 /\ 0 + 1 = 1
    BY <1>1, <1>2
  <2>3. QED
    BY <1>3, <2>1, <2>2, StandsAfterGet DEF w, start
\* Nothing of the packet is missing if not even its end is.
<1>5. ASSUME NEW i \in 0..N, ~(Len(out[i]) <= Len(data)) PROVE ~(Len(out[N]) <= Len(data))
  <2>1. N \in 0..N /\ i <= N
    BY <1>1, <1>2
  <2>2. Len(out[i]) \in Nat /\ Len(out[i]) <= Len(out[N]) /\ out[N] \in Seq(Octets)
    BY <1>1, <1>2, <2>1, OutGrows
  <2>3. Len(out[N]) \in Nat
    BY <2>2, LenProperties
  <2>4. QED
    BY <1>2, <1>5, <2>2, <2>3
<1>6. CASE ~(Len(out[1]) <= Len(data))
  <2>1. start.failed
    BY <1>4, <1>6 DEF Stands
  <2>2. Read(data) = start
    BY <2>1 DEF Read, Nothing, start
  <2>3. 1 \in 0..N
    BY <1>1, <1>2
  <2>4. QED
    BY <1>5, <1>6, <2>1, <2>2, <2>3 DEF Stands, w
<1>7. CASE Len(out[1]) <= Len(data)
  <2>1. start = ReaderAt(data, Len(out[1]), SubSeq(w, 1, 1))
    BY <1>4, <1>7 DEF Stands
  <2>2. ~start.failed /\ start.values[1] = w[1]
    <3>1. SubSeq(w, 0 + 1, 1)[1] = w[0 + 1]
      BY <1>1, <1>2, Slice
    <3>2. PICK one : one = SubSeq(w, 1, 1)
      OBVIOUS
    <3>3. start.values = one
      <4>1. start = ReaderAt(data, Len(out[1]), one)
        BY <2>1, <3>2
      <4>2. QED
        BY <4>1, ReaderFields
    <3>4. ~start.failed
      BY <2>1, ReaderFields
    <3>5. QED
      BY <3>1, <3>2, <3>3, <3>4
  <2>3. Read(data) = CASE m.opcode = 1 -> GetAll(start, <<"string", "string">>)
                       [] m.opcode = 2 -> GetAll(start, <<"unsigned", "string">>)
                       [] m.opcode = 3 -> GetList(start)
                       [] OTHER -> start
    BY <1>3, <2>2 DEF Read, start
  <2>4. ASSUME Fields(m) \in {<<"string", "string">>, <<"unsigned", "string">>},
               Read(data) = GetAll(start, Fields(m))
        PROVE  Stood(Read(data), N)
    <3>1. n = 2 /\ N = 3
      BY <1>1, <2>4
    <3>2. \A i \in 1..n : Fields(m)[i] = w[1 + i].kind
      <4>1. \A i \in 1..n : 1 + i = i + 1
        BY <1>2
      <4>2. QED
        BY <1>1, <4>1
    <3>3. 1 \in 0..Len(w) /\ 1 + Len(Fields(m)) <= Len(w) /\ 1 + Len(Fields(m)) = N
      BY <1>1, <3>1
    <3>4. Stands(GetAll(start, Fields(m)), w, out, data, 1 + Len(Fields(m)))
      BY <1>1, <1>2, <1>4, <3>2, <3>3, StandsAfterAll DEF w
    <3>5. QED
      BY <2>4, <3>3, <3>4
  <2>5. CASE m.opcode = 1
    BY <2>3, <2>4, <2>5 DEF Fields, w
  <2>6. CASE m.opcode = 2
    BY <2>3, <2>4, <2>6 DEF Fields, w
  <2>7. CASE m.opcode = 3
    <3> DEFINE count == n \div 2
               kinds == Characters(count)
               counted == Get(start, "size")
    <3>1. count \in Nat
      BY <1>2
    <3>2. Len(kinds) = 2 * count /\ kinds \in Seq({"unsigned", "string"})
      BY <3>1, CharactersType
    <3>3. Fields(m) = <<"size">> \o kinds
      <4>1. Fields(m) = <<"size">> \o Characters(Len(m.values) \div 2)
        <5>1. m.opcode # 1 /\ m.opcode # 2
          BY <2>7
        <5>2. QED
          BY <2>7, <5>1, Zenon DEF Fields
      <4>2. QED
        BY <4>1 DEF n
    <3>4. m.values[1].number = count
      BY <2>7, MessagesAssumption DEF n
    <3> HIDE DEF kinds, count
    <3>5. /\ Fields(m)[1] = "size" /\ n = 2 * count + 1
          /\ \A i \in 1..2 * count : Fields(m)[i + 1] = kinds[i]
      <4> DEFINE S == {"size", "unsigned", "string"}
      <4>1. <<"size">> \in Seq(S) /\ Len(<<"size">>) = 1 /\ <<"size">>[1] = "size"
        OBVIOUS
      <4>2. kinds \in Seq(S)
        <5>1. {"unsigned", "string"} \subseteq S
          OBVIOUS
        <5> HIDE DEF S
        <5>2. QED
          BY <3>2, <5>1, SeqMonotonic
      <4> HIDE DEF S
      <4>3. PICK one \in Seq(S) : one = <<"size">> /\ Len(one) = 1 /\ one[1] = "size"
        BY <4>1
      <4>4. /\ Len(one \o kinds) = 1 + 2 * count
            /\ \A i \in 1..1 + 2 * count : (one \o kinds)[i] = IF i <= 1 THEN one[i] ELSE kinds[i - 1]
        BY <3>2, <4>2, <4>3, ConcatProperties
      <4>5. Fields(m) = one \o kinds
        BY <3>3, <4>3
      <4>6. ASSUME NEW i \in 1..2 * count PROVE (one \o kinds)[i + 1] = kinds[i]
        <5>1. i + 1 \in 1..1 + 2 * count /\ ~(i + 1 <= 1) /\ (i + 1) - 1 = i
          BY <3>1
        <5>2. QED
          BY <4>4, <5>1
      <4>7. (one \o kinds)[1] = "size"
        BY <3>1, <4>3, <4>4
      <4>8. QED
        BY <1>1, <3>1, <4>4, <4>5, <4>6, <4>7
    <3>6. Stood(counted, 2)
      <4>1. 1 \in 0..N - 1 /\ 1 + 1 = 2 /\ 1 \in 1..n
        BY <1>1, <3>1, <3>5
      <4>2. w[1 + 1].kind = "size"
        BY <1>1, <3>5, <4>1
      <4>3. QED
        BY <1>4, <4>1, <4>2, StandsAfterGet DEF w
    <3>7. Read(data) = IF counted.failed THEN counted
                       ELSE GetAll(counted, Characters(Last(counted.values).number))
      BY <2>3, <2>7 DEF GetList
    <3>8. 2 \in 0..N /\ 2 + 2 * count = N /\ 2 \in 1..N
      BY <1>1, <3>1, <3>5
    <3>9. CASE ~(Len(out[2]) <= Len(data))
      <4>1. counted.failed
        BY <3>6, <3>9 DEF Stands
      <4>2. QED
        BY <1>5, <3>7, <3>8, <3>9, <4>1 DEF Stands, w
    <3>10. CASE Len(out[2]) <= Len(data)
      <4>1. counted = ReaderAt(data, Len(out[2]), SubSeq(w, 1, 2))
        BY <3>6, <3>10 DEF Stands
      <4>2. Last(SubSeq(w, 1, 2)) = w[2]
        <5>1. /\ Len(SubSeq(w, 0 + 1, 2)) = 2 - 0
              /\ \A i \in 1..2 - 0 : SubSeq(w, 0 + 1, 2)[i] = w[0 + i]
          BY <1>1, <3>8, Slice
        <5>2. Len(SubSeq(w, 1, 2)) = 2 /\ SubSeq(w, 1, 2)[2] = w[2]
          BY <5>1
        <5>3. QED
          BY <5>2 DEF Last
      <4>3. ~counted.failed /\ Last(counted.values).number = count
        <5>1. w[1 + 1] = m.values[1]
          BY <1>1, <3>1, <3>5
        <5>2. QED
          BY <3>4, <4>1, <4>2, <5>1, ReaderFields
      <4>4. Read(data) = GetAll(counted, kinds)
        BY <3>7, <4>3 DEF kinds
      <4>5. \A i \in 1..Len(kinds) : kinds[i] = w[2 + i].kind
        <5> SUFFICES ASSUME NEW i \in 1..2 * count PROVE kinds[i] = w[2 + i].kind
          BY <3>2
        <5>1. i + 1 \in 1..n /\ (i + 1) + 1 = 2 + i
          BY <1>2, <3>1, <3>5
        <5>2. QED
          BY <1>1, <3>5, <5>1
      <4>6. Stands(GetAll(counted, kinds), w, out, data, 2 + Len(kinds))
        <5>1. Len(kinds) \in Nat /\ 2 + Len(kinds) <= Len(w)
          BY <3>1, <3>2, <3>8
        <5>2. QED
          BY <3>6, <3>8, <4>5, <5>1, StandsAfterAll DEF w
      <4>7. QED
        BY <3>2, <3>8, <4>4, <4>6 DEF w
    <3>11. QED
      BY <3>9, <3>10
  <2>8. CASE m.opcode \notin {1, 2, 3}
    <3>1. Read(data) = start
      BY <2>3, <2>8
    <3>2. Fields(m) = << >>
      BY <2>8 DEF Fields
    <3>3. N = 1
      BY <1>1, <3>2
    <3>4. QED
      BY <1>4, <3>1, <3>3 DEF w
  <2>9. QED
    BY <2>5, <2>6, <2>7, <2>8
<1>8. QED
  BY <1>6, <1>7

\* The bytes of a message are the serialized values, and what reading them takes.
LEMMA PayloadWritten ==
  ASSUME NEW m \in Messages
  PROVE  \E out : /\ Out(out, Content(m)) /\ Payload(m) = out[Len(Content(m))]
                  /\ Payload(m) \in Seq(Octets) /\ Len(Payload(m)) \in Nat
<1>1. Content(m) \in Seq(Values)
  BY ContentType
<1>2. PICK out : Out(out, Content(m)) /\ Serialize(Content(m)) = out[Len(Content(m))]
  BY <1>1, SerializeDef
<1>3. Len(Content(m)) \in 0..Len(Content(m))
  BY <1>1, LenProperties
<1>4. out[Len(Content(m))] \in Seq(Octets)
  BY <1>2, <1>3 DEF Out
<1>5. Payload(m) = out[Len(Content(m))]
  BY <1>2 DEF Payload, Content
<1>6. QED
  BY <1>2, <1>4, <1>5, LenProperties

\* Every message is read back from its packet, whatever is behind it, and the
\* reader of a packet that ends too early throws: no bytes, no number of values
\* and no cut make the serializer and the deserializer disagree.
THEOREM ReadBack ==
  ASSUME NEW m \in Messages
  PROVE  /\ Payload(m) \in Seq(Octets)
         /\ \A redundant \in Seq(Octets) :
              /\ ~Read(Payload(m) \o redundant).failed
              /\ MessageOf(Read(Payload(m) \o redundant)) = m
         /\ \A size \in 0..Len(Payload(m)) - 1 : Read(SubSeq(Payload(m), 1, size)).failed
<1> DEFINE w == Content(m)
           N == Len(w)
           packet == Payload(m)
<1>1. /\ m = [opcode |-> m.opcode, values |-> m.values] /\ m.values \in Seq(Values)
      /\ w \in Seq(Values) /\ N = Len(m.values) + 1
      /\ w[1] = Opcode(m) /\ \A i \in 1..Len(m.values) : w[i + 1] = m.values[i]
      /\ \A i \in 1..N : IsValue(w[i])
  BY ContentType
<1>2. PICK out : /\ Out(out, w) /\ packet = out[N]
                 /\ packet \in Seq(Octets) /\ Len(packet) \in Nat
  BY PayloadWritten
<1> HIDE DEF w, packet
<1>3. ASSUME NEW redundant \in Seq(Octets)
      PROVE  ~Read(packet \o redundant).failed /\ MessageOf(Read(packet \o redundant)) = m
  <2> DEFINE data == packet \o redundant
             reader == Read(data)
  <2>1. /\ data \in Seq(Octets) /\ Len(packet) <= Len(data)
        /\ \A n \in 1..Len(packet) : data[n] = packet[n]
    <3>1. Len(redundant) \in Nat
      BY LenProperties
    <3>2. QED
      BY <1>2, <3>1, ConcatProperties
  <2> HIDE DEF data
  <2>2. Written(w, out, data)
    BY <1>1, <1>2, <2>1 DEF Written
  <2>3. Stands(reader, w, out, data, N)
    BY <2>2, ReadTakesAll DEF w
  <2>4. SubSeq(w, 1, N) = w
    BY <1>1, SubSeqFull
  <2>5. reader = ReaderAt(data, Len(packet), w)
    BY <1>2, <2>1, <2>3, <2>4 DEF Stands
  <2> HIDE DEF reader
  <2>6. ~reader.failed /\ reader.values = w
    BY <2>5, ReaderFields
  <2>7. Head(w).number = m.opcode /\ Tail(w) = m.values
    <3>1. Len(m.values) \in Nat /\ w # << >>
      BY <1>1, EmptySeq, LenProperties
    <3>2. /\ Tail(w) \in Seq(Values) /\ Len(Tail(w)) = Len(m.values)
          /\ \A i \in 1..Len(m.values) : Tail(w)[i] = w[i + 1]
      BY <1>1, <3>1, HeadTailProperties
    <3>3. Tail(w) = m.values
      BY <1>1, <3>2, SeqEqual
    <3>4. Head(w) = w[1]
      BY <1>1, <3>1
    <3>5. QED
      BY <1>1, <3>3, <3>4 DEF Opcode, Number
  <2>8. MessageOf(reader) = m
    BY <1>1, <2>6, <2>7, Zenon DEF MessageOf
  <2>9. QED
    BY <2>6, <2>8 DEF reader, data
<1>4. ASSUME NEW size \in 0..Len(packet) - 1
      PROVE  Read(SubSeq(packet, 1, size)).failed
  <2> DEFINE data == SubSeq(packet, 1, size)
  <2>1. /\ SubSeq(packet, 0 + 1, size) \in Seq(Octets) /\ Len(SubSeq(packet, 0 + 1, size)) = size - 0
        /\ \A i \in 1..size - 0 : SubSeq(packet, 0 + 1, size)[i] = packet[0 + i]
    BY <1>2, Slice
  <2>2. data \in Seq(Octets) /\ Len(data) = size /\ \A i \in 1..size : data[i] = packet[i]
    BY <2>1
  <2> HIDE DEF data
  <2>3. Written(w, out, data)
    BY <1>1, <1>2, <2>2 DEF Written
  <2>4. Stands(Read(data), w, out, data, N)
    BY <2>3, ReadTakesAll DEF w
  <2>5. ~(Len(out[N]) <= Len(data))
    BY <1>2, <2>2
  <2>6. QED
    BY <2>4, <2>5 DEF Stands, data
<1>5. QED
  BY <1>2, <1>3, <1>4 DEF packet

\* So is a length: it fits its type with all the numbers below it.
LEMMA LengthBack ==
  \A n \in 0..BufferSize + 1 :
    Bytes("unsigned", n) \in Seq(Octets) /\ Value(Bytes("unsigned", n)) = n
<1>1. "unsigned" \in DOMAIN SizeOf /\ BufferSize + 1 \in Nat
  BY CodecAssumption
<1>2. ASSUME NEW n \in 0..BufferSize + 1
      PROVE  Bytes("unsigned", n) \in Seq(Octets) /\ Value(Bytes("unsigned", n)) = n
  <2>1. Fits("unsigned", n) /\ n \in Nat
    BY <1>1, SmallerFits, MessagesAssumption
  <2>2. QED
    BY <1>1, <2>1, NumberBack
<1>3. QED
  BY <1>2

(***************************************************************************)
(* Packets in a stream of bytes.                                           *)
(***************************************************************************)

\* The data of a packet is what its sender says it is: the message, or not all
\* of it.
Carries(entry, data) ==
  IF entry.complete THEN ~Read(data).failed /\ MessageOf(Read(data)) = entry.message
                    ELSE Read(data).failed

\* Between two positions of the stream there is one packet: a length, and as
\* many bytes as it says unless no buffer would hold them.
FrameAt(entry, stream, from, to) ==
  \E n \in 0..BufferSize + 1 :
    /\ from + HeaderSize <= to
    /\ SubSeq(stream, from + 1, from + HeaderSize) = Bytes("unsigned", n)
    /\ IF n <= BufferSize
         THEN /\ from + HeaderSize + n = to
              /\ Carries(entry, SubSeq(stream, from + HeaderSize + 1, to))
         ELSE ~entry.complete

\* A length takes as many bytes as its type has, at least one, and is read back.
LEMMA HeaderType ==
  /\ HeaderSize \in Nat \ {0}
  /\ \A n \in 0..BufferSize + 1 : /\ Bytes("unsigned", n) \in Seq(Octets)
                                  /\ Len(Bytes("unsigned", n)) = HeaderSize
                                  /\ Value(Bytes("unsigned", n)) = n
<1>1. SizeOf["unsigned"] \in Nat \ {0}
  BY CodecAssumption
<1>2. \A n \in 0..BufferSize + 1 : Len(Bytes("unsigned", n)) = SizeOf["unsigned"]
  BY <1>1 DEF Bytes
<1>3. QED
  BY <1>1, <1>2, LengthBack DEF HeaderSize

\* A packet is where it is, whatever comes behind it.
LEMMA FrameStays ==
  ASSUME NEW stream \in Seq(Octets), NEW more \in Seq(Octets), NEW entry,
         NEW from \in 0..Len(stream), NEW to \in 0..Len(stream), FrameAt(entry, stream, from, to)
  PROVE  FrameAt(entry, stream \o more, from, to)
<1>1. PICK n \in 0..BufferSize + 1 :
        /\ from + HeaderSize <= to
        /\ SubSeq(stream, from + 1, from + HeaderSize) = Bytes("unsigned", n)
        /\ IF n <= BufferSize
             THEN /\ from + HeaderSize + n = to
                  /\ Carries(entry, SubSeq(stream, from + HeaderSize + 1, to))
             ELSE ~entry.complete
  BY DEF FrameAt
<1>2. /\ from \in Nat /\ to \in Nat /\ from + HeaderSize \in Nat /\ from <= from + HeaderSize
      /\ from + HeaderSize <= Len(stream) /\ to <= Len(stream)
  BY <1>1, HeaderType, LenProperties
<1>3. SubSeq(stream \o more, from + 1, from + HeaderSize) = Bytes("unsigned", n)
  BY <1>1, <1>2, SliceOfLeft
<1>4. SubSeq(stream \o more, from + HeaderSize + 1, to) = SubSeq(stream, from + HeaderSize + 1, to)
  BY <1>1, <1>2, SliceOfLeft
<1>5. QED
  BY <1>1, <1>3, <1>4 DEF FrameAt

\* Put behind a stream, it moves by the length of the stream.
LEMMA FrameMoves ==
  ASSUME NEW stream \in Seq(Octets), NEW bytes \in Seq(Octets), NEW entry,
         FrameAt(entry, bytes, 0, Len(bytes))
  PROVE  FrameAt(entry, stream \o bytes, Len(stream), Len(stream) + Len(bytes))
<1>1. PICK n \in 0..BufferSize + 1 :
        /\ 0 + HeaderSize <= Len(bytes)
        /\ SubSeq(bytes, 0 + 1, 0 + HeaderSize) = Bytes("unsigned", n)
        /\ IF n <= BufferSize
             THEN /\ 0 + HeaderSize + n = Len(bytes)
                  /\ Carries(entry, SubSeq(bytes, 0 + HeaderSize + 1, Len(bytes)))
             ELSE ~entry.complete
  BY DEF FrameAt
<1>2. Len(stream) \in Nat /\ Len(bytes) \in Nat /\ HeaderSize \in Nat
  BY HeaderType, LenProperties
<1>3. SubSeq(stream \o bytes, Len(stream) + 0 + 1, Len(stream) + HeaderSize)
        = SubSeq(bytes, 0 + 1, HeaderSize)
  BY <1>1, <1>2, SliceOfRight
<1>4. SubSeq(stream \o bytes, Len(stream) + HeaderSize + 1, Len(stream) + Len(bytes))
        = SubSeq(bytes, HeaderSize + 1, Len(bytes))
  BY <1>1, <1>2, SliceOfRight
<1>5. /\ Len(stream) + 0 + 1 = Len(stream) + 1 /\ 0 + HeaderSize = HeaderSize
      /\ Len(stream) + HeaderSize <= Len(stream) + Len(bytes)
      /\ (n <= BufferSize => Len(stream) + HeaderSize + n = Len(stream) + Len(bytes))
  BY <1>1, <1>2
<1>6. SubSeq(stream \o bytes, Len(stream) + 1, Len(stream) + HeaderSize) = Bytes("unsigned", n)
  BY <1>1, <1>3, <1>5
<1>7. n <= BufferSize =>
        Carries(entry, SubSeq(stream \o bytes, Len(stream) + HeaderSize + 1, Len(stream) + Len(bytes)))
  BY <1>1, <1>4, <1>5
<1>8. QED
  BY <1>1, <1>5, <1>6, <1>7 DEF FrameAt

\* A length and its data make a packet.
LEMMA FrameWritten ==
  ASSUME NEW n \in 0..BufferSize + 1, NEW data \in Seq(Octets), NEW entry,
         n <= BufferSize => n = Len(data) /\ Carries(entry, data),
         n > BufferSize => ~entry.complete
  PROVE  /\ Bytes("unsigned", n) \o data \in Seq(Octets)
         /\ FrameAt(entry, Bytes("unsigned", n) \o data, 0, Len(Bytes("unsigned", n) \o data))
<1> DEFINE header == Bytes("unsigned", n)
<1>1. header \in Seq(Octets) /\ Len(header) = HeaderSize /\ HeaderSize \in Nat /\ Len(data) \in Nat
  BY HeaderType, LenProperties
<1> HIDE DEF header
<1>2. header \o data \in Seq(Octets) /\ Len(header \o data) = HeaderSize + Len(data)
  BY <1>1, ConcatProperties
<1>3. SubSeq(header \o data, 0 + 1, HeaderSize) = header
  <2>1. SubSeq(header \o data, 0 + 1, HeaderSize) = SubSeq(header, 0 + 1, HeaderSize)
    BY <1>1, SliceOfLeft
  <2>2. SubSeq(header, 1, Len(header)) = header
    BY <1>1, SubSeqFull
  <2>3. QED
    BY <1>1, <2>1, <2>2
<1>4. SubSeq(header \o data, HeaderSize + 1, HeaderSize + Len(data)) = data
  <2>1. SubSeq(header \o data, Len(header) + 0 + 1, Len(header) + Len(data))
          = SubSeq(data, 0 + 1, Len(data))
    BY <1>1, SliceOfRight
  <2>2. SubSeq(data, 1, Len(data)) = data
    BY SubSeqFull
  <2>3. Len(header) + 0 + 1 = HeaderSize + 1 /\ 0 + 1 = 1
    BY <1>1
  <2>4. QED
    BY <1>1, <2>1, <2>2, <2>3
<1>5. /\ 0 + HeaderSize <= HeaderSize + Len(data) /\ 0 + HeaderSize = HeaderSize
      /\ (n <= BufferSize => 0 + HeaderSize + n = HeaderSize + Len(data))
  BY <1>1
<1>6. SubSeq(header \o data, 0 + 1, 0 + HeaderSize) = Bytes("unsigned", n)
  BY <1>3, <1>5 DEF header
<1>7. n <= BufferSize =>
        Carries(entry, SubSeq(header \o data, 0 + HeaderSize + 1, HeaderSize + Len(data)))
  BY <1>4, <1>5
<1>8. ~(n <= BufferSize) => ~entry.complete
  BY CodecAssumption
<1>9. FrameAt(entry, header \o data, 0, HeaderSize + Len(data))
  BY <1>5, <1>6, <1>7, <1>8 DEF FrameAt
<1>10. QED
  BY <1>2, <1>9 DEF header

\* Whatever a program sends is one packet.
LEMMA SendsAreFrames ==
  ASSUME NEW m \in Messages, SendMessage(m) \/ SendTruncated(m) \/ SendOversized(m)
  PROVE  \E complete \in BOOLEAN, bytes \in Seq(Octets) :
           /\ FrameAt([message |-> m, complete |-> complete], bytes, 0, Len(bytes))
           /\ Write(m, bytes, complete)
<1> DEFINE entry(complete) == [message |-> m, complete |-> complete]
<1>1. /\ Payload(m) \in Seq(Octets) /\ Len(Payload(m)) \in Nat /\ Len(Payload(m)) <= BufferSize
      /\ BufferSize \in Nat
  BY CodecAssumption, StreamAssumption, PayloadWritten
<1>2. ASSUME NEW data \in Seq(Octets), Len(data) <= BufferSize, NEW complete \in BOOLEAN,
             Carries(entry(complete), data), Write(m, Frame(data), complete)
      PROVE  \E bytes \in Seq(Octets) :
               FrameAt(entry(complete), bytes, 0, Len(bytes)) /\ Write(m, bytes, complete)
  <2>1. Len(data) \in 0..BufferSize + 1 /\ ~(Len(data) > BufferSize)
    BY <1>1, <1>2, LenProperties
  <2> HIDE DEF entry
  <2>2. /\ Bytes("unsigned", Len(data)) \o data \in Seq(Octets)
        /\ FrameAt(entry(complete), Bytes("unsigned", Len(data)) \o data, 0,
                   Len(Bytes("unsigned", Len(data)) \o data))
    BY <1>2, <2>1, FrameWritten
  <2>3. QED
    BY <1>2, <2>2 DEF Frame
<1>3. CASE SendMessage(m)
  <2>1. PICK redundant \in {<< >>, <<1>>} :
          /\ Len(Payload(m)) + Len(redundant) <= BufferSize
          /\ Write(m, Frame(Payload(m) \o redundant), TRUE)
    BY <1>3 DEF SendMessage
  <2>2. redundant \in Seq(Octets)
    <3>1. 1 \in Octets
      BY CodecAssumption DEF Octets
    <3>2. << >> \in Seq(Octets) /\ <<1>> \in Seq(Octets)
      BY <3>1, EmptySeq
    <3>3. QED
      BY <3>2
  <2>3. /\ Payload(m) \o redundant \in Seq(Octets)
        /\ Len(Payload(m) \o redundant) = Len(Payload(m)) + Len(redundant)
    BY <1>1, <2>2, ConcatProperties
  <2>4. Carries(entry(TRUE), Payload(m) \o redundant)
    BY <2>2, ReadBack DEF Carries
  <2>5. QED
    BY <1>2, <2>1, <2>3, <2>4
<1>4. CASE SendTruncated(m)
  <2>1. PICK size \in 0..Len(Payload(m)) - 1 : Write(m, Frame(SubSeq(Payload(m), 1, size)), FALSE)
    BY <1>4 DEF SendTruncated
  <2>2. SubSeq(Payload(m), 1, size) \in Seq(Octets) /\ Len(SubSeq(Payload(m), 1, size)) = size
    BY <1>1, SliceSplit
  <2>3. Carries(entry(FALSE), SubSeq(Payload(m), 1, size))
    BY ReadBack DEF Carries
  <2>4. size <= BufferSize
    BY <1>1
  <2>5. QED
    BY <1>2, <2>1, <2>2, <2>3, <2>4
<1>5. CASE SendOversized(m)
  <2> DEFINE bytes == Bytes("unsigned", BufferSize + 1) \o Payload(m)
  <2>1. BufferSize + 1 \in 0..BufferSize + 1 /\ ~(BufferSize + 1 <= BufferSize)
    BY <1>1
  <2>2. bytes \in Seq(Octets) /\ FrameAt(entry(FALSE), bytes, 0, Len(bytes))
    <3>1. entry(FALSE).complete = FALSE
      OBVIOUS
    <3> HIDE DEF entry
    <3>2. QED
      BY <1>1, <2>1, <3>1, FrameWritten
  <2>3. Write(m, bytes, FALSE)
    BY <1>5 DEF SendOversized
  <2>4. QED
    BY <2>2, <2>3
<1>6. QED
  BY <1>3, <1>4, <1>5

(***************************************************************************)
(* What has been sent, what is on its way, and where the receiver is.      *)
(***************************************************************************)

\* The stream, with the position at which each packet ends.
Framed(stream, at) ==
  /\ at[Len(sent)] = Len(stream)
  /\ \A i \in 1..Len(sent) : FrameAt(sent[i], stream, at[i - 1], at[i])

\* Where the receiver is in the stream.
Position(at) == at[Len(received)] + (IF expecting = Nothing THEN 0 ELSE HeaderSize)

\* The bytes are in the stream, from position p on.
InStream(bytes, stream, p) ==
  /\ p + Len(bytes) <= Len(stream)
  /\ bytes = SubSeq(stream, p + 1, p + Len(bytes))

\* What has not been read is the stream from there on, to its end unless the
\* connection was lost; the length waited for is that of the packet read next.
Travelling(stream, at) ==
  /\ InStream(arrived \o wire, stream, Position(at))
  /\ link = "up" => Position(at) + Len(arrived \o wire) = Len(stream)
  /\ expecting # Nothing =>
       /\ Len(received) < Len(sent)
       /\ SubSeq(stream, at[Len(received)] + 1, at[Len(received)] + HeaderSize)
            = Bytes("unsigned", expecting)

Ends(stream) == [0..Len(sent) -> 0..Len(stream)]

InFrames ==
  \E stream \in Seq(Octets) : \E at \in Ends(stream) : Framed(stream, at) /\ Travelling(stream, at)

\* The inductive invariant.  ClosedForCause needs to know where the packets are
\* as long as the receiver reads, and afterwards stays as it is.
StreamInv ==
  /\ StreamTypeOK
  /\ received \in Seq(Messages)
  /\ link = "lost" => wire = << >>
  /\ ClosedForCause
  /\ receiver = "open" => InFrames

\* What is behind the first of two sequences is the second.
LEMMA SliceBehind ==
  ASSUME NEW T, NEW l \in Seq(T), NEW r \in Seq(T)
  PROVE  SubSeq(l \o r, Len(l) + 1, Len(l) + Len(r)) = r
<1>1. Len(l) \in Nat /\ Len(r) \in Nat
  BY LenProperties
<1>2. SubSeq(l \o r, Len(l) + 0 + 1, Len(l) + Len(r)) = SubSeq(r, 0 + 1, Len(r))
  BY <1>1, SliceOfRight
<1>3. Len(l) + 0 + 1 = Len(l) + 1 /\ 0 + 1 = 1
  BY <1>1
<1>4. SubSeq(r, 1, Len(r)) = r
  BY SubSeqFull
<1>5. QED
  BY <1>2, <1>3, <1>4

\* What is at the end of a stream grows with it.
LEMMA SliceExtends ==
  ASSUME NEW T, NEW s \in Seq(T), NEW t \in Seq(T), NEW p \in Nat, p <= Len(s)
  PROVE  SubSeq(s \o t, p + 1, Len(s) + Len(t)) = SubSeq(s, p + 1, Len(s)) \o t
<1> DEFINE l == SubSeq(s, 1, p)  r == SubSeq(s, p + 1, Len(s))
<1>1. /\ l \in Seq(T) /\ Len(l) = p /\ r \in Seq(T) /\ Len(r) = Len(s) - p /\ l \o r = s
      /\ Len(s) \in Nat /\ Len(t) \in Nat
  BY SliceSplit, LenProperties
<1> HIDE DEF l, r
<1>2. s \o t = l \o (r \o t)
  <2>1. l \in Seq(T) /\ r \in Seq(T)
    BY <1>1
  <2>2. (l \o r) \o t = l \o (r \o t)
    BY <2>1, ConcatAssociative
  <2>3. QED
    BY <1>1, <2>2
<1>3. r \o t \in Seq(T) /\ Len(r \o t) = Len(r) + Len(t)
  BY <1>1, ConcatProperties
<1>4. SubSeq(l \o (r \o t), Len(l) + 1, Len(l) + Len(r \o t)) = r \o t
  BY <1>1, <1>3, SliceBehind
<1>5. Len(l) + 1 = p + 1 /\ Len(l) + Len(r \o t) = Len(s) + Len(t)
  BY <1>1, <1>3
<1>6. SubSeq(s \o t, p + 1, Len(s) + Len(t)) = r \o t
  BY <1>2, <1>4, <1>5
<1>7. QED
  BY <1>6 DEF r

\* What a read takes from the bytes at a position of the stream ...
LEMMA TakenSlice ==
  ASSUME NEW stream \in Seq(Octets), NEW p \in Nat, NEW a \in Seq(Octets), NEW w \in Seq(Octets),
         InStream(a \o w, stream, p), NEW n \in Nat, n <= Len(a)
  PROVE  SubSeq(a, 1, n) = SubSeq(stream, p + 1, p + n)
<1> DEFINE b == p + Len(a \o w)
<1>1. /\ Len(a \o w) = Len(a) + Len(w) /\ Len(a) \in Nat /\ Len(w) \in Nat
  BY Joined
<1>2. b <= Len(stream) /\ a \o w = SubSeq(stream, p + 1, b)
  BY DEF InStream
<1>3. b \in Nat /\ p <= b /\ n <= b - p /\ 0 \in Nat /\ 0 <= n
  BY <1>1
<1> HIDE DEF b
<1>4. SubSeq(SubSeq(stream, p + 1, b), 0 + 1, n) = SubSeq(stream, p + 0 + 1, p + n)
  BY <1>2, <1>3, SliceOfSlice
<1>5. SubSeq(a \o w, 0 + 1, n) = SubSeq(a, 0 + 1, n)
  BY <1>3, SliceOfLeft
<1>6. 0 + 1 = 1 /\ p + 0 + 1 = p + 1
  OBVIOUS
<1>7. QED
  BY <1>2, <1>4, <1>5, <1>6, Zenon

\* ... and what it leaves.
LEMMA LeftSlice ==
  ASSUME NEW stream \in Seq(Octets), NEW p \in Nat, NEW a \in Seq(Octets), NEW w \in Seq(Octets),
         InStream(a \o w, stream, p), NEW n \in Nat, n <= Len(a),
         NEW r, r = SubSeq(a, n + 1, Len(a))
  PROVE  r \in Seq(Octets) /\ Len(r) = Len(a) - n /\ InStream(r \o w, stream, p + n)
<1>1. PICK l : l = SubSeq(a, 1, n)
  OBVIOUS
<1>2. l \in Seq(Octets) /\ Len(l) = n /\ r \in Seq(Octets) /\ Len(r) = Len(a) - n /\ l \o r = a
  <2>1. SubSeq(a, 1, n) \in Seq(Octets) /\ Len(SubSeq(a, 1, n)) = n
    BY SliceSplit
  <2>2. SubSeq(a, n + 1, Len(a)) \in Seq(Octets) /\ Len(SubSeq(a, n + 1, Len(a))) = Len(a) - n
    BY SliceSplit
  <2>3. SubSeq(a, 1, n) \o SubSeq(a, n + 1, Len(a)) = a
    BY SliceSplit
  <2>4. QED
    BY <1>1, <2>1, <2>2, <2>3, Zenon
<1>3. QED
  <2> SUFFICES ASSUME NEW left \in Seq(Octets), NEW right \in Seq(Octets),
                      Len(left) = n, left \o right = a
               PROVE  InStream(right \o w, stream, p + n)
    BY <1>2, Zenon
  <2> DEFINE rest == right \o w  all == a \o w  b == p + Len(all)
  <2>1. rest \in Seq(Octets) /\ Len(rest) \in Nat
    BY Joined, LenProperties
  <2>2. all = left \o rest
    <3>1. (left \o right) \o w = left \o (right \o w)
      BY Regrouped
    <3>2. QED
      BY <3>1
  <2> HIDE DEF rest
  <2>3. /\ left \o rest \in Seq(Octets) /\ Len(left \o rest) = Len(left) + Len(rest)
        /\ SubSeq(left \o rest, Len(left) + 1, Len(left) + Len(rest)) = rest
    BY <2>1, Joined, SliceBehind
  <2> HIDE DEF all
  <2>4. InStream(all, stream, p)
    BY DEF all
  <2>5. all \in Seq(Octets) /\ Len(all) = n + Len(rest) /\ SubSeq(all, n + 1, Len(all)) = rest
    BY <2>2, <2>3, Zenon
  <2>6. b <= Len(stream) /\ all = SubSeq(stream, p + 1, b)
    BY <2>4 DEF InStream
  <2>7. PICK x, y \in Nat : x = Len(rest) /\ y = Len(all)
    BY <2>1, <2>5, LenProperties
  <2>8. /\ y = n + x /\ b = p + y /\ p + y \in Nat /\ p <= p + y /\ p + y <= Len(stream)
        /\ n <= y /\ y <= (p + y) - p /\ p + n + x = p + y /\ p + n \in Nat
    BY <2>5, <2>6, <2>7
  <2>9. SubSeq(SubSeq(stream, p + 1, p + y), n + 1, y) = SubSeq(stream, p + n + 1, p + y)
    BY <2>8, SliceOfSlice
  <2>10. rest = SubSeq(stream, p + n + 1, p + n + x)
    BY <2>5, <2>6, <2>7, <2>8, <2>9, Zenon
  <2>11. InStream(rest, stream, p + n)
    BY <2>7, <2>8, <2>10, Zenon DEF InStream
  <2>12. QED
    BY <2>11 DEF rest

\* The types of the variables, as the invariant has them.
LEMMA StreamTypes ==
  ASSUME StreamInv
  PROVE  /\ sent \in Seq(Entries) /\ wire \in Seq(Octets) /\ arrived \in Seq(Octets)
         /\ expecting = Nothing \/ expecting \in 0..BufferSize
         /\ received \in Seq(Messages)
         /\ Len(received) \in Nat /\ Len(sent) \in Nat /\ Len(received) <= Len(sent)
         /\ BufferSize \in Nat /\ Nothing \notin 0..BufferSize
BY CodecAssumption, LenProperties DEF StreamInv, StreamTypeOK, Entries, Octets, Nothing

\* The position of the receiver is one in the stream.
LEMMA PositionType ==
  ASSUME StreamInv, NEW stream \in Seq(Octets), NEW at \in Ends(stream)
  PROVE  /\ at[Len(received)] \in 0..Len(stream) /\ Position(at) \in Nat
         /\ Len(stream) \in Nat /\ at[Len(sent)] \in 0..Len(stream)
<1>1. Len(received) \in 0..Len(sent) /\ Len(sent) \in 0..Len(sent)
  BY StreamTypes
<1>2. Len(stream) \in Nat /\ HeaderSize \in Nat
  BY HeaderType, LenProperties
<1>3. QED
  BY <1>1, <1>2 DEF Ends, Position

(***************************************************************************)
(* The steps.                                                              *)
(***************************************************************************)

\* A packet that is written goes to the end of the stream.
LEMMA WriteStep ==
  ASSUME StreamInv, NEW m \in Messages, NEW complete \in BOOLEAN, NEW bytes \in Seq(Octets),
         FrameAt([message |-> m, complete |-> complete], bytes, 0, Len(bytes)),
         Write(m, bytes, complete)
  PROVE  StreamInv'
<1> DEFINE entry == [message |-> m, complete |-> complete]
<1>1. /\ link = "up" /\ wire' = wire \o bytes /\ sent' = Append(sent, entry)
      /\ UNCHANGED <<arrived, expecting, received, receiver, link>>
  BY DEF Write
<1>2. /\ sent \in Seq(Entries) /\ entry \in Entries /\ wire \in Seq(Octets) /\ arrived \in Seq(Octets)
      /\ Len(received) \in Nat /\ Len(sent) \in Nat /\ Len(received) <= Len(sent)
      /\ Len(bytes) \in Nat
  BY StreamTypes, LenProperties DEF Entries
<1> HIDE DEF entry
<1>3. /\ sent' \in Seq(Entries) /\ Len(sent') = Len(sent) + 1 /\ sent'[Len(sent) + 1] = entry
      /\ \A i \in 1..Len(sent) : sent'[i] = sent[i]
  BY <1>1, <1>2, AppendProperties
<1>4. wire' \in Seq(Octets)
  BY <1>1, <1>2, ConcatProperties
<1>5. StreamTypeOK'
  BY <1>1, <1>2, <1>3, <1>4 DEF StreamInv, StreamTypeOK, Entries, Octets
<1>6. ClosedForCause'
  <2> SUFFICES ASSUME receiver' = "closed"
               PROVE  link' = "lost" \/ (Len(received') < Len(sent') /\ ~sent'[Len(received') + 1].complete)
    BY DEF ClosedForCause
  <2>1. Len(received) < Len(sent) /\ ~sent[Len(received) + 1].complete
    BY <1>1 DEF StreamInv, ClosedForCause
  <2>2. Len(received) + 1 \in 1..Len(sent) /\ Len(received) < Len(sent) + 1
    BY <1>2, <2>1
  <2>3. QED
    BY <1>1, <1>3, <2>1, <2>2
<1>7. ASSUME receiver = "open" PROVE InFrames'
  <2>1. PICK stream \in Seq(Octets) : \E at \in Ends(stream) : Framed(stream, at) /\ Travelling(stream, at)
    BY <1>7 DEF StreamInv, InFrames
  <2>2. PICK at \in Ends(stream) : Framed(stream, at) /\ Travelling(stream, at)
    BY <2>1
  <2>0. PICK N \in Nat : N = Len(sent)
    BY <1>2
  <2> DEFINE L == Len(stream)  K == L + Len(bytes)  longer == stream \o bytes
             ends == [i \in 0..N + 1 |-> IF i = N + 1 THEN K ELSE at[i]]
  <2>3. L \in Nat /\ N \in Nat /\ K \in Nat /\ L <= K /\ at[N] = L /\ Len(received) \in 0..N
       /\ Len(bytes) \in Nat
    BY <1>2, <2>0, <2>2, LenProperties DEF Framed
  <2>4. longer \in Seq(Octets) /\ Len(longer) = K
    BY ConcatProperties
  <2>5. /\ ends[N + 1] = K
        /\ \A i \in 0..N : ends[i] = at[i] /\ at[i] \in 0..L
    BY <2>0, <2>2, <2>3 DEF Ends
  <2>6. ends \in [0..N + 1 -> 0..K]
    <3> SUFFICES ASSUME NEW i \in 0..N + 1 PROVE (IF i = N + 1 THEN K ELSE at[i]) \in 0..K
      OBVIOUS
    <3>1. CASE i = N + 1
      BY <2>3, <3>1
    <3>2. CASE i # N + 1
      <4>1. i \in 0..N
        BY <2>3, <3>2
      <4>2. at[i] \in 0..L
        BY <2>5, <4>1
      <4>3. QED
        BY <2>3, <3>2, <4>2
    <3>3. QED
      BY <3>1, <3>2
  <2> HIDE DEF ends, K
  <2>7. \A i \in 1..N + 1 : FrameAt(sent'[i], longer, ends[i - 1], ends[i])
    <3>1. ASSUME NEW i \in 1..N PROVE FrameAt(sent'[i], longer, ends[i - 1], ends[i])
      <4>1. FrameAt(sent[i], stream, at[i - 1], at[i])
        BY <2>0, <2>2 DEF Framed
      <4>2. i \in 0..N /\ i - 1 \in 0..N
        BY <2>3
      <4>3. at[i - 1] \in 0..L /\ at[i] \in 0..L /\ ends[i - 1] = at[i - 1] /\ ends[i] = at[i]
        BY <2>5, <4>2
      <4>4. FrameAt(sent[i], longer, at[i - 1], at[i])
        BY <4>1, <4>3, FrameStays
      <4>5. QED
        BY <1>3, <2>0, <4>3, <4>4
    <3>2. FrameAt(sent'[N + 1], longer, ends[N], ends[N + 1])
      <4>1. FrameAt(entry, longer, L, L + Len(bytes))
        BY FrameMoves DEF entry
      <4>2. ends[N] = L
        BY <2>3, <2>5
      <4>3. QED
        BY <1>3, <2>0, <2>5, <4>1, <4>2 DEF K
    <3>3. \A i \in 1..N + 1 : i \in 1..N \/ (i = N + 1 /\ i - 1 = N)
      BY <2>3
    <3>4. QED
      BY <3>1, <3>2, <3>3
  <2>8. Framed(longer, ends)'
    BY <1>3, <2>0, <2>4, <2>5, <2>7 DEF Framed
  <2> DEFINE p == Position(at)  rest == arrived \o wire
  <2>9. p \in Nat /\ Position(ends)' = p
    BY <1>1, <2>2, <2>3, <2>5, PositionType DEF Position
  <2>10. p + Len(rest) = L /\ rest \in Seq(Octets) /\ Len(rest) \in Nat
    BY <1>1, <1>2, <2>2, Joined, LenProperties DEF Travelling
  <2>11. rest = SubSeq(stream, p + 1, L)
    BY <1>1, <2>2, <2>10 DEF Travelling, InStream
  <2>12. (arrived \o wire)' = rest \o bytes
    <3>1. arrived \o (wire \o bytes) = (arrived \o wire) \o bytes
      BY <1>2, Regrouped
    <3>2. QED
      BY <1>1, <3>1
  <2> HIDE DEF p, rest
  <2>13. Len(rest \o bytes) = Len(rest) + Len(bytes) /\ p + (Len(rest) + Len(bytes)) = K
    <3>1. Len(rest \o bytes) = Len(rest) + Len(bytes)
      BY <2>10, Joined
    <3>2. QED
      BY <2>3, <2>9, <2>10, <3>1 DEF K
  <2>14. rest \o bytes = SubSeq(longer, p + 1, K)
    <3>1. p <= L
      BY <2>3, <2>9, <2>10
    <3>2. SubSeq(stream \o bytes, p + 1, Len(stream) + Len(bytes))
            = SubSeq(stream, p + 1, Len(stream)) \o bytes
      BY <2>9, <3>1, SliceExtends
    <3>3. QED
      BY <2>11, <3>2, Zenon DEF K
  <2>15. expecting # Nothing =>
           /\ Len(received) < N
           /\ SubSeq(longer, at[Len(received)] + 1, at[Len(received)] + HeaderSize)
                = Bytes("unsigned", expecting)
    <3> SUFFICES ASSUME expecting # Nothing
                 PROVE  /\ Len(received) < N
                        /\ SubSeq(longer, at[Len(received)] + 1, at[Len(received)] + HeaderSize)
                             = Bytes("unsigned", expecting)
      OBVIOUS
    <3> DEFINE a == at[Len(received)]
    <3>1. Len(received) < N /\ SubSeq(stream, a + 1, a + HeaderSize) = Bytes("unsigned", expecting)
      BY <2>0, <2>2 DEF Travelling
    <3>2. a \in Nat /\ HeaderSize \in Nat /\ p = a + HeaderSize
      BY <2>3, <2>5, HeaderType DEF Position, p
    <3> HIDE DEF a
    <3>3. a + HeaderSize \in Nat /\ a <= a + HeaderSize /\ a + HeaderSize <= L
      BY <2>3, <2>10, <3>2
    <3>4. SubSeq(longer, a + 1, a + HeaderSize) = SubSeq(stream, a + 1, a + HeaderSize)
      BY <3>2, <3>3, SliceOfLeft
    <3>5. QED
      BY <3>1, <3>4 DEF a
  <2>16. Travelling(longer, ends)'
    <3>1. Position(ends)' + Len((arrived \o wire)') = K
      BY <2>9, <2>12, <2>13
    <3>2. (arrived \o wire)'
            = SubSeq(longer, Position(ends)' + 1, Position(ends)' + Len((arrived \o wire)'))
      BY <2>9, <2>12, <2>14, <3>1, Zenon
    <3>3. ends[Len(received')] = at[Len(received)] /\ N < Len(sent') /\ received' = received
          /\ expecting' = expecting
      BY <1>1, <1>3, <2>0, <2>3, <2>5
    <3>4. K <= K /\ Len(received) <= N /\ Len(received') < Len(sent')
      BY <2>0, <2>3, <3>3, <1>2, <1>3
    <3> HIDE DEF longer
    <3>5. expecting' # Nothing =>
            /\ Len(received') < Len(sent')
            /\ SubSeq(longer, ends[Len(received')] + 1, ends[Len(received')] + HeaderSize)
                 = Bytes("unsigned", expecting')
      BY <2>15, <3>3, <3>4
    <3>6. QED
      BY <2>4, <3>1, <3>2, <3>4, <3>5, Zenon DEF Travelling, InStream
  <2>17. ends \in Ends(longer)'
    BY <1>3, <2>0, <2>4, <2>6 DEF Ends
  <2>18. QED
    BY <2>4, <2>8, <2>16, <2>17 DEF InFrames
<1>8. QED
  BY <1>1, <1>5, <1>6, <1>7 DEF StreamInv

\* Bytes that arrive stay in order.
LEMMA ArriveStep ==
  ASSUME StreamInv, Arrive
  PROVE  StreamInv'
<1>1. PICK n \in {1, Len(wire)} :
        /\ arrived' = arrived \o SubSeq(wire, 1, n)
        /\ wire' = SubSeq(wire, n + 1, Len(wire))
  BY DEF Arrive
<1>2. wire # << >> /\ UNCHANGED <<sent, expecting, received, receiver, link>>
  BY DEF Arrive
<1>3. wire \in Seq(Octets) /\ arrived \in Seq(Octets)
  BY StreamTypes
<1>4. n \in Nat /\ n <= Len(wire)
  BY <1>2, <1>3, EmptySeq
<1>5. /\ SubSeq(wire, 1, n) \in Seq(Octets) /\ SubSeq(wire, n + 1, Len(wire)) \in Seq(Octets)
      /\ SubSeq(wire, 1, n) \o SubSeq(wire, n + 1, Len(wire)) = wire
  BY <1>3, <1>4, SliceSplit
<1>6. arrived' \in Seq(Octets) /\ wire' \in Seq(Octets)
  BY <1>1, <1>3, <1>5, Joined
<1>7. (arrived \o wire)' = arrived \o wire
  <2>1. (arrived \o SubSeq(wire, 1, n)) \o SubSeq(wire, n + 1, Len(wire))
          = arrived \o (SubSeq(wire, 1, n) \o SubSeq(wire, n + 1, Len(wire)))
    BY <1>3, <1>5, Regrouped
  <2>2. QED
    BY <1>1, <1>5, <2>1, Zenon
<1>8. StreamTypeOK'
  BY <1>2, <1>6 DEF StreamInv, StreamTypeOK, Octets
<1>9. link' = "lost" => wire' = << >>
  <2>1. link # "lost"
    BY <1>2 DEF StreamInv
  <2>2. QED
    BY <1>2, <2>1
<1>10. ClosedForCause'
  BY <1>2 DEF StreamInv, ClosedForCause
<1>11. ASSUME receiver = "open" PROVE InFrames'
  <2>1. PICK stream \in Seq(Octets) : \E at \in Ends(stream) : Framed(stream, at) /\ Travelling(stream, at)
    BY <1>11 DEF StreamInv, InFrames
  <2>2. PICK at \in Ends(stream) : Framed(stream, at) /\ Travelling(stream, at)
    BY <2>1
  <2>3. at \in Ends(stream)' /\ Framed(stream, at)' /\ Position(at)' = Position(at)
    BY <1>2, <2>2 DEF Ends, Framed, Position
  <2>4. Travelling(stream, at)'
    BY <1>2, <1>7, <2>2, <2>3, Zenon DEF Travelling
  <2>5. QED
    BY <2>3, <2>4 DEF InFrames
<1>12. QED
  BY <1>2, <1>8, <1>9, <1>10, <1>11 DEF StreamInv

\* When the connection is lost, what has arrived is still a part of the stream.
LEMMA LoseLinkStep ==
  ASSUME StreamInv, LoseLink
  PROVE  StreamInv'
<1>1. /\ link' = "lost" /\ wire' = << >>
      /\ UNCHANGED <<sent, arrived, expecting, received, receiver>>
  BY DEF LoseLink
<1>2. wire \in Seq(Octets) /\ arrived \in Seq(Octets) /\ Len(arrived) \in Nat
  BY StreamTypes, LenProperties
<1>3. StreamTypeOK'
  BY <1>1, EmptySeq DEF StreamInv, StreamTypeOK
<1>4. ClosedForCause'
  BY <1>1 DEF StreamInv, ClosedForCause
<1>5. ASSUME receiver = "open" PROVE InFrames'
  <2>1. PICK stream \in Seq(Octets) : \E at \in Ends(stream) : Framed(stream, at) /\ Travelling(stream, at)
    BY <1>5 DEF StreamInv, InFrames
  <2>2. PICK at \in Ends(stream) : Framed(stream, at) /\ Travelling(stream, at)
    BY <2>1
  <2>3. at \in Ends(stream)' /\ Framed(stream, at)' /\ Position(at)' = Position(at)
    BY <1>1, <2>2 DEF Ends, Framed, Position
  <2> DEFINE p == Position(at)
  <2>4. p \in Nat
    BY PositionType
  <2>5. Len(arrived \o wire) = Len(arrived) + Len(wire) /\ Len(wire) \in Nat
    BY <1>2, Joined
  <2>6. InStream(arrived \o wire, stream, p)
    BY <2>2 DEF Travelling
  <2>7. Len(stream) \in Nat /\ p + Len(arrived) <= Len(stream)
    <3>1. Len(stream) \in Nat
      BY LenProperties
    <3>2. p + (Len(arrived) + Len(wire)) <= Len(stream)
      BY <2>5, <2>6 DEF InStream
    <3> HIDE DEF p
    <3>3. QED
      BY <1>2, <2>4, <2>5, <3>1, <3>2
  <2> HIDE DEF p
  <2>8. SubSeq(arrived, 1, Len(arrived)) = SubSeq(stream, p + 1, p + Len(arrived))
    <3>1. Len(arrived) <= Len(arrived)
      BY <1>2
    <3>2. QED
      BY <1>2, <2>4, <2>6, <3>1, TakenSlice
  <2>9. arrived = SubSeq(stream, p + 1, p + Len(arrived))
    BY <1>2, <2>8, SubSeqFull
  <2>10. (arrived \o wire)' = arrived
    BY <1>1, <1>2, ConcatEmptySeq
  <2>11. expecting # Nothing =>
           /\ Len(received) < Len(sent)
           /\ SubSeq(stream, at[Len(received)] + 1, at[Len(received)] + HeaderSize)
                = Bytes("unsigned", expecting)
    BY <2>2 DEF Travelling
  <2>12. Position(at)' = p
    BY <2>3 DEF p
  <2>13. Travelling(stream, at)'
    <3>1. link' # "up"
      BY <1>1
    <3>2. QED
      BY <1>1, <2>7, <2>9, <2>10, <2>11, <2>12, <3>1, Zenon DEF Travelling, InStream
  <2>14. QED
    BY <2>3, <2>13 DEF InFrames
<1>6. QED
  BY <1>1, <1>3, <1>4, <1>5 DEF StreamInv

\* What a completed read takes out of the stream, and what it leaves on its way.
LEMMA ReadEffect ==
  ASSUME StreamInv, NEW stream \in Seq(Octets), NEW at \in Ends(stream), Travelling(stream, at),
         NEW size \in Nat, AsyncRead(size), wire' = wire,
         NEW p \in Nat, p = Position(at)
  PROVE  /\ p + size <= p + Len(arrived \o wire)
         /\ SubSeq(arrived, 1, size) = SubSeq(stream, p + 1, p + size)
         /\ arrived' \in Seq(Octets)
         /\ p + size + Len((arrived \o wire)') = p + Len(arrived \o wire)
         /\ InStream((arrived \o wire)', stream, p + size)
<1>1. wire \in Seq(Octets) /\ arrived \in Seq(Octets)
  BY StreamTypes
<1>2. size <= Len(arrived) /\ arrived' = SubSeq(arrived, size + 1, Len(arrived))
  BY <1>1, LenProperties DEF AsyncRead
<1>3. InStream(arrived \o wire, stream, p)
  BY DEF Travelling
<1>4. SubSeq(arrived, 1, size) = SubSeq(stream, p + 1, p + size)
  BY <1>1, <1>2, <1>3, TakenSlice
<1>5. /\ arrived' \in Seq(Octets) /\ Len(arrived') = Len(arrived) - size
      /\ InStream(arrived' \o wire, stream, p + size)
  <2>1. PICK r : r = arrived'
    OBVIOUS
  <2>2. size <= Len(arrived) /\ r = SubSeq(arrived, size + 1, Len(arrived))
    BY <1>2, <2>1
  <2>3. InStream(r \o wire, stream, p + size)
    BY <1>1, <1>3, <2>2, LeftSlice
  <2>4. r \in Seq(Octets)
    BY <1>1, <1>3, <2>2, LeftSlice
  <2>5. Len(SubSeq(arrived, size + 1, Len(arrived))) = Len(arrived) - size
    BY <1>1, <1>2, SliceSplit
  <2>6. QED
    BY <2>1, <2>2, <2>3, <2>4, <2>5, Zenon
<1>6. /\ Len(arrived \o wire) = Len(arrived) + Len(wire)
      /\ Len(arrived) \in Nat /\ Len(wire) \in Nat
  BY <1>1, Joined
<1>7. (arrived \o wire)' = arrived' \o wire
  OBVIOUS
<1>8. Len((arrived \o wire)') = (Len(arrived) - size) + Len(wire)
  BY <1>1, <1>5, <1>7, Joined
<1>9. /\ p + size <= p + Len(arrived \o wire)
      /\ p + size + Len((arrived \o wire)') = p + Len(arrived \o wire)
  BY <1>2, <1>6, <1>8
<1>10. InStream((arrived \o wire)', stream, p + size)
  BY <1>5, <1>7, Zenon
<1>11. QED
  BY <1>4, <1>5, <1>9, <1>10, Zenon

\* A length that is read is that of the next packet, and there is one.
LEMMA LengthOfNext ==
  ASSUME StreamInv, ReadLength
  PROVE  \E stream \in Seq(Octets) : \E at \in Ends(stream) : \E n \in 0..BufferSize + 1 :
           /\ Framed(stream, at) /\ Travelling(stream, at)
           /\ Len(received) < Len(sent)
           /\ SubSeq(stream, at[Len(received)] + 1, at[Len(received)] + HeaderSize)
                = Bytes("unsigned", n)
           /\ n > BufferSize => ~sent[Len(received) + 1].complete
           /\ Value(SubSeq(arrived, 1, HeaderSize)) = n
<1>1. receiver = "open" /\ expecting = Nothing /\ AsyncRead(HeaderSize) /\ wire' = wire
  BY DEF ReadLength, LengthIsRead, AsyncRead, HeaderSize
<1>2. PICK stream \in Seq(Octets) : \E at \in Ends(stream) : Framed(stream, at) /\ Travelling(stream, at)
  BY <1>1 DEF StreamInv, InFrames
<1>3. PICK at \in Ends(stream) : Framed(stream, at) /\ Travelling(stream, at)
  BY <1>2
<1>4. PICK p \in Nat : p = Position(at)
  BY PositionType
<1>5. p = at[Len(received)]
  BY <1>1, <1>4, PositionType DEF Position
<1>6. /\ p + HeaderSize <= p + Len(arrived \o wire)
      /\ SubSeq(arrived, 1, HeaderSize) = SubSeq(stream, p + 1, p + HeaderSize)
  BY <1>1, <1>3, <1>4, HeaderType, ReadEffect
<1>7. p + Len(arrived \o wire) <= Len(stream) /\ Len(stream) \in Nat /\ Len(arrived \o wire) \in Nat
  BY <1>3, <1>4, StreamTypes, Joined, LenProperties DEF Travelling, InStream
<1>8. Len(received) < Len(sent)
  <2> SUFFICES ASSUME Len(received) = Len(sent) PROVE FALSE
    BY StreamTypes
  <2>1. p = Len(stream)
    BY <1>3, <1>5 DEF Framed
  <2>2. HeaderSize \in Nat \ {0}
    BY HeaderType
  <2>3. p + HeaderSize <= p + Len(arrived \o wire)
    BY <1>6
  <2>4. QED
    BY <1>7, <2>1, <2>2, <2>3
<1> DEFINE k == Len(received) + 1
<1>9. k \in 1..Len(sent) /\ k - 1 = Len(received)
  BY <1>8, StreamTypes
<1>10. FrameAt(sent[k], stream, p, at[k])
  <2>1. FrameAt(sent[k], stream, at[k - 1], at[k])
    BY <1>3, <1>9, Zenon DEF Framed
  <2>2. QED
    BY <1>5, <1>9, <2>1, Zenon
<1> HIDE DEF k
<1>11. PICK n \in 0..BufferSize + 1 :
         /\ SubSeq(stream, p + 1, p + HeaderSize) = Bytes("unsigned", n)
         /\ ~(n <= BufferSize) => ~sent[k].complete
  BY <1>10 DEF FrameAt
<1>12. n > BufferSize => ~sent[k].complete
  BY <1>11, StreamTypes
<1>13. Value(SubSeq(arrived, 1, HeaderSize)) = n
  <2>1. SubSeq(arrived, 1, HeaderSize) = Bytes("unsigned", n)
    BY <1>6, <1>11, Zenon
  <2>2. QED
    BY <2>1, HeaderType, Zenon
<1>14. QED
  BY <1>3, <1>5, <1>8, <1>11, <1>12, <1>13, Zenon DEF k

\* After the length the receiver is behind it, unless the packet is too big.
LEMMA ReadLengthStep ==
  ASSUME StreamInv, ReadLength
  PROVE  StreamInv'
<1>1. /\ receiver = "open" /\ expecting = Nothing /\ AsyncRead(HeaderSize)
      /\ UNCHANGED <<sent, wire, received, link>>
  BY DEF ReadLength, LengthIsRead, AsyncRead, HeaderSize
<1>2. PICK stream \in Seq(Octets) : \E at \in Ends(stream) : \E n \in 0..BufferSize + 1 :
        /\ Framed(stream, at) /\ Travelling(stream, at)
        /\ Len(received) < Len(sent)
        /\ SubSeq(stream, at[Len(received)] + 1, at[Len(received)] + HeaderSize)
             = Bytes("unsigned", n)
        /\ n > BufferSize => ~sent[Len(received) + 1].complete
        /\ Value(SubSeq(arrived, 1, HeaderSize)) = n
  BY LengthOfNext
<1>3. PICK at \in Ends(stream), n \in 0..BufferSize + 1 :
        /\ Framed(stream, at) /\ Travelling(stream, at)
        /\ Len(received) < Len(sent)
        /\ SubSeq(stream, at[Len(received)] + 1, at[Len(received)] + HeaderSize)
             = Bytes("unsigned", n)
        /\ n > BufferSize => ~sent[Len(received) + 1].complete
        /\ Value(SubSeq(arrived, 1, HeaderSize)) = n
  BY <1>2
<1>4. IF n > BufferSize THEN receiver' = "closed" /\ expecting' = expecting
                        ELSE expecting' = n /\ receiver' = receiver
  BY <1>3 DEF ReadLength, HeaderSize
<1>5. PICK p \in Nat : p = Position(at)
  BY PositionType
<1>6. p = at[Len(received)]
  BY <1>1, <1>5, PositionType DEF Position
<1>7. /\ arrived' \in Seq(Octets)
      /\ p + HeaderSize + Len((arrived \o wire)') = p + Len(arrived \o wire)
      /\ InStream((arrived \o wire)', stream, p + HeaderSize)
  <2>1. AsyncRead(HeaderSize) /\ wire' = wire /\ HeaderSize \in Nat
    BY <1>1, HeaderType
  <2>2. QED
    BY <1>3, <1>5, <2>1, ReadEffect
<1>8. StreamTypeOK'
  BY <1>1, <1>4, <1>7, StreamTypes DEF StreamInv, StreamTypeOK, Octets
<1>9. ClosedForCause'
  BY <1>1, <1>3, <1>4 DEF ClosedForCause
<1>10. ASSUME receiver' = "open" PROVE InFrames'
  <2>1. n \in 0..BufferSize /\ expecting' = n /\ n # Nothing
    BY <1>1, <1>4, <1>10, StreamTypes
  <2>2. at \in Ends(stream)' /\ Framed(stream, at)'
    BY <1>1, <1>3 DEF Ends, Framed
  <2>3. Position(at)' = p + HeaderSize
    BY <1>1, <1>6, <2>1 DEF Position
  <2>4. link = "up" => p + Len(arrived \o wire) = Len(stream)
    BY <1>3, <1>5 DEF Travelling
  <2>5. Travelling(stream, at)'
    <3>1. /\ InStream((arrived \o wire)', stream, Position(at)')
          /\ link' = "up" => Position(at)' + Len((arrived \o wire)') = Len(stream)
      BY <1>1, <1>7, <2>3, <2>4, Zenon
    <3>2. /\ Len(received') < Len(sent')
          /\ SubSeq(stream, at[Len(received')] + 1, at[Len(received')] + HeaderSize)
               = Bytes("unsigned", expecting')
      BY <1>1, <1>3, <2>1, Zenon
    <3>3. QED
      BY <3>1, <3>2, Zenon DEF Travelling
  <2>6. QED
    BY <2>2, <2>5 DEF InFrames
<1>11. QED
  BY <1>1, <1>8, <1>9, <1>10 DEF StreamInv

\* Data that is read is that of the next packet, to its last byte.
LEMMA DataOfNext ==
  ASSUME StreamInv, ReadData
  PROVE  \E stream \in Seq(Octets) : \E at \in Ends(stream) :
           /\ Framed(stream, at) /\ Travelling(stream, at)
           /\ Len(received) < Len(sent)
           /\ at[Len(received) + 1] = Position(at) + expecting
           /\ Carries(sent[Len(received) + 1], SubSeq(arrived, 1, expecting))
<1>1. receiver = "open" /\ expecting # Nothing /\ AsyncRead(expecting) /\ wire' = wire
  BY DEF ReadData, DataIsRead, AsyncRead
<1>2. PICK stream \in Seq(Octets) : \E at \in Ends(stream) : Framed(stream, at) /\ Travelling(stream, at)
  BY <1>1 DEF StreamInv, InFrames
<1>3. PICK at \in Ends(stream) : Framed(stream, at) /\ Travelling(stream, at)
  BY <1>2
<1>4. PICK p \in Nat : p = Position(at)
  BY PositionType
<1>5. PICK size \in 0..BufferSize : size = expecting
  BY <1>1, StreamTypes
<1>6. PICK start \in Nat : start = at[Len(received)]
  BY PositionType
<1>7. p = start + HeaderSize
  BY <1>1, <1>4, <1>6 DEF Position
<1>8. SubSeq(arrived, 1, size) = SubSeq(stream, p + 1, p + size)
  <2>1. AsyncRead(size) /\ size \in Nat
    BY <1>1, <1>5
  <2>2. QED
    BY <1>1, <1>3, <1>4, <2>1, ReadEffect
<1>9. /\ Len(received) < Len(sent)
      /\ SubSeq(stream, start + 1, start + HeaderSize) = Bytes("unsigned", size)
  BY <1>1, <1>3, <1>5, <1>6 DEF Travelling
<1>10. PICK k : k = Len(received) + 1
  OBVIOUS
<1>11. k \in 1..Len(sent) /\ k - 1 = Len(received)
  BY <1>9, <1>10, StreamTypes
<1>12. FrameAt(sent[k], stream, start, at[k])
  <2>1. FrameAt(sent[k], stream, at[k - 1], at[k])
    BY <1>3, <1>11, Zenon DEF Framed
  <2>2. QED
    BY <1>6, <1>11, <2>1, Zenon
<1>13. PICK n \in 0..BufferSize + 1 :
         /\ SubSeq(stream, start + 1, start + HeaderSize) = Bytes("unsigned", n)
         /\ n <= BufferSize =>
              /\ start + HeaderSize + n = at[k]
              /\ Carries(sent[k], SubSeq(stream, start + HeaderSize + 1, at[k]))
  BY <1>12 DEF FrameAt
<1>14. n = size
  <2>1. size \in 0..BufferSize + 1
    BY StreamTypes
  <2>2. Value(Bytes("unsigned", n)) = n /\ Value(Bytes("unsigned", size)) = size
    BY <2>1, HeaderType, Zenon
  <2>3. QED
    BY <1>9, <1>13, <2>2, Zenon
<1>15. /\ start + HeaderSize + size = at[k]
       /\ Carries(sent[k], SubSeq(stream, start + HeaderSize + 1, at[k]))
  BY <1>13, <1>14
<1>16. at[k] = p + size /\ Carries(sent[k], SubSeq(arrived, 1, size))
  BY <1>7, <1>8, <1>15, Zenon
<1>17. QED
  BY <1>3, <1>4, <1>5, <1>9, <1>10, <1>16, Zenon

\* What the handler of a packet reads is what was sent, and if it fails then
\* because not all of it was.
LEMMA DataIsMessage ==
  ASSUME StreamInv, ReadData
  PROVE  /\ Len(received) < Len(sent)
         /\ \/ /\ receiver' = "open" /\ sent[Len(received) + 1].complete
               /\ received' = Append(received, sent[Len(received) + 1].message)
            \/ /\ receiver' = "closed" /\ ~sent[Len(received) + 1].complete
               /\ received' = received
<1> DEFINE next == sent[Len(received) + 1]  data == SubSeq(arrived, 1, expecting)
<1>1. Len(received) < Len(sent) /\ Carries(next, data)
  BY DataOfNext
<1>2. IF Read(data).failed THEN receiver' = "closed" /\ received' = received
      ELSE received' = Append(received, MessageOf(Read(data))) /\ receiver' = "open"
  BY DEF ReadData, DataIsRead, AsyncRead
<1>3. IF next.complete THEN ~Read(data).failed /\ MessageOf(Read(data)) = next.message
                       ELSE Read(data).failed
  BY <1>1 DEF Carries
<1> HIDE DEF next, data
<1>4. QED
  BY <1>1, <1>2, <1>3 DEF next

\* After the data the receiver is at the end of the packet.
LEMMA ReadDataStep ==
  ASSUME StreamInv, ReadData
  PROVE  StreamInv'
<1>1. /\ receiver = "open" /\ expecting # Nothing /\ AsyncRead(expecting) /\ expecting' = Nothing
      /\ UNCHANGED <<sent, wire, link>>
  BY DEF ReadData, DataIsRead, AsyncRead
<1>2. PICK stream \in Seq(Octets) : \E at \in Ends(stream) :
        /\ Framed(stream, at) /\ Travelling(stream, at)
        /\ at[Len(received) + 1] = Position(at) + expecting
  BY DataOfNext
<1>3. PICK at \in Ends(stream) :
        /\ Framed(stream, at) /\ Travelling(stream, at)
        /\ at[Len(received) + 1] = Position(at) + expecting
  BY <1>2
<1>4. PICK p \in Nat : p = Position(at)
  BY PositionType
<1>5. PICK size \in 0..BufferSize : size = expecting
  BY <1>1, StreamTypes
<1>6. /\ arrived' \in Seq(Octets)
      /\ p + size + Len((arrived \o wire)') = p + Len(arrived \o wire)
      /\ InStream((arrived \o wire)', stream, p + size)
  <2>1. AsyncRead(size) /\ wire' = wire /\ size \in Nat
    BY <1>1, <1>5
  <2>2. QED
    BY <1>3, <1>4, <2>1, ReadEffect
<1>7. /\ Len(received) \in Nat /\ Len(sent) \in Nat /\ Len(received) < Len(sent)
      /\ received \in Seq(Messages) /\ sent \in Seq(Entries)
  BY StreamTypes, DataIsMessage
<1>8. sent[Len(received) + 1].message \in Messages
  <2>1. Len(received) + 1 \in 1..Len(sent)
    BY <1>7
  <2>2. sent[Len(received) + 1] \in Entries
    BY <1>7, <2>1, ElementOfSeq
  <2>3. QED
    BY <2>2 DEF Entries
<1>9. /\ received' \in Seq(Messages) /\ Len(received') <= Len(sent')
      /\ receiver' = "open" => Len(received') = Len(received) + 1
  <2>1. CASE receiver' = "open" /\ received' = Append(received, sent[Len(received) + 1].message)
    <3>1. received' \in Seq(Messages) /\ Len(received') = Len(received) + 1
      BY <1>7, <1>8, <2>1, AppendProperties
    <3>2. Len(received) + 1 <= Len(sent') /\ sent' = sent
      BY <1>1, <1>7
    <3>3. QED
      BY <3>1, <3>2
  <2>2. CASE receiver' = "closed" /\ received' = received
    BY <1>1, <1>7, <2>2
  <2>3. QED
    BY <2>1, <2>2, DataIsMessage
<1>10. receiver' \in {"open", "closed"}
  BY DataIsMessage
<1>11. StreamTypeOK'
  BY <1>1, <1>6, <1>9, <1>10 DEF StreamInv, StreamTypeOK, Octets
<1>12. ClosedForCause'
  BY <1>1, DataIsMessage DEF ClosedForCause
<1>13. ASSUME receiver' = "open" PROVE InFrames'
  <2>1. at \in Ends(stream)' /\ Framed(stream, at)'
    BY <1>1, <1>3 DEF Ends, Framed
  <2>2. Position(at)' = p + size
    <3>1. at[Len(received)'] = p + size
      BY <1>3, <1>4, <1>5, <1>9, <1>13
    <3>2. QED
      BY <1>1, <3>1, PositionType DEF Position
  <2>3. link = "up" => p + Len(arrived \o wire) = Len(stream)
    BY <1>3, <1>4 DEF Travelling
  <2>4. Travelling(stream, at)'
    <3>1. /\ InStream((arrived \o wire)', stream, Position(at)')
          /\ link' = "up" => Position(at)' + Len((arrived \o wire)') = Len(stream)
      BY <1>1, <1>6, <2>2, <2>3, Zenon
    <3>2. QED
      BY <1>1, <3>1, Zenon DEF Travelling
  <2>5. QED
    BY <2>1, <2>4 DEF InFrames
<1>14. link' = "lost" => wire' = << >>
  BY <1>1 DEF StreamInv
<1>15. QED
  BY <1>9, <1>11, <1>12, <1>13, <1>14 DEF StreamInv

\* A read that fails closes the socket, because the link is lost.
LEMMA ReadErrorStep ==
  ASSUME StreamInv, ReadError
  PROVE  StreamInv'
BY DEF StreamInv, StreamTypeOK, ClosedForCause, ReadError

\* Every step keeps the invariant.
LEMMA StreamStep == StreamInv /\ [StreamNext]_stream_vars => StreamInv'
<1> SUFFICES ASSUME StreamInv, [StreamNext]_stream_vars PROVE StreamInv'
  OBVIOUS
<1>1. ASSUME NEW m \in Messages, SendMessage(m) \/ SendTruncated(m) \/ SendOversized(m)
      PROVE  StreamInv'
  BY <1>1, SendsAreFrames, WriteStep
<1>2. CASE Arrive
  BY <1>2, ArriveStep
<1>3. CASE LoseLink
  BY <1>3, LoseLinkStep
<1>4. CASE ReadLength
  BY <1>4, ReadLengthStep
<1>5. CASE ReadData
  BY <1>5, ReadDataStep
<1>6. CASE ReadError
  BY <1>6, ReadErrorStep
<1>7. CASE UNCHANGED stream_vars
  BY <1>7 DEF stream_vars, StreamInv, StreamTypeOK, ClosedForCause, InFrames, Ends, Framed,
              Travelling, Position
<1>8. QED
  BY <1>1, <1>2, <1>3, <1>4, <1>5, <1>6, <1>7 DEF StreamNext

\* It holds of a new connection, whose stream is empty.
LEMMA StreamStart == StreamInit => StreamInv
<1> SUFFICES ASSUME StreamInit PROVE StreamInv
  OBVIOUS
<1>1. /\ sent = << >> /\ wire = << >> /\ arrived = << >> /\ received = << >>
      /\ expecting = Nothing /\ receiver = "open" /\ link = "up"
  BY DEF StreamInit
<1>2. StreamTypeOK /\ received \in Seq(Messages)
  BY <1>1, EmptySeq DEF StreamTypeOK
<1>3. InFrames
  <2> DEFINE stream == << >>  at == [i \in 0..0 |-> 0]
  <2>1. stream \in Seq(Octets) /\ Len(stream) = 0 /\ Len(sent) = 0 /\ Len(received) = 0
    BY <1>1, EmptySeq
  <2>2. at \in Ends(stream)
    BY <2>1 DEF Ends
  <2>3. Framed(stream, at)
    BY <2>1 DEF Framed
  <2>4. Position(at) = 0
    BY <1>1, <2>1 DEF Position
  <2>5. arrived \o wire = << >>
    BY <1>1, <2>1, ConcatEmptySeq
  <2>6. SubSeq(stream, 1, 0) = << >>
    BY SubSeqEmpty
  <2>7. Travelling(stream, at)
    BY <1>1, <2>1, <2>4, <2>5, <2>6 DEF Travelling, InStream
  <2>8. QED
    BY <2>1, <2>2, <2>3, <2>7 DEF InFrames
<1>4. QED
  BY <1>1, <1>2, <1>3 DEF StreamInv, ClosedForCause

\* So it always holds.
LEMMA StreamInvKept == StreamSpec => []StreamInv
BY StreamStart, StreamStep, PTL DEF StreamSpec

\* Every variable keeps its type, for any messages and sizes.
THEOREM StreamTypesCorrect == StreamSpec => []StreamTypeOK
BY StreamInvKept, PTL DEF StreamInv

\* The receiver closes a connection only if it was lost or the packet it is at is
\* malformed: no cut of the stream and no redundant data makes it lose count.
THEOREM ClosesForCause == StreamSpec => []ClosedForCause
BY StreamInvKept, PTL DEF StreamInv

(***************************************************************************)
(* What the two users of the connection see of it.                         *)
(***************************************************************************)

\* What has been sent and not received is a queue: it grows with sent and loses
\* its head when a message is received.
LEMMA QueueOf ==
  ASSUME NEW s \in Seq(Entries), NEW n \in Nat, n <= Len(s)
  PROVE  /\ \A e \in Entries : SubSeq(Append(s, e), n + 1, Len(s) + 1)
                                 = Append(SubSeq(s, n + 1, Len(s)), e)
         /\ n < Len(s) => /\ SubSeq(s, n + 1, Len(s)) # << >>
                          /\ Head(SubSeq(s, n + 1, Len(s))) = s[n + 1]
                          /\ Tail(SubSeq(s, n + 1, Len(s))) = SubSeq(s, n + 2, Len(s))
<1>1. Len(s) \in Nat
  BY LenProperties
<1>2. ASSUME NEW e \in Entries
      PROVE  SubSeq(Append(s, e), n + 1, Len(s) + 1) = Append(SubSeq(s, n + 1, Len(s)), e)
  <2>1. <<e>> \in Seq(Entries) /\ Len(<<e>>) = 1
    OBVIOUS
  <2>2. SubSeq(s \o <<e>>, n + 1, Len(s) + Len(<<e>>)) = SubSeq(s, n + 1, Len(s)) \o <<e>>
    BY <2>1, SliceExtends
  <2>3. SubSeq(s, n + 1, Len(s)) \in Seq(Entries)
    BY SliceSplit
  <2>4. /\ Append(s, e) = s \o <<e>>
        /\ Append(SubSeq(s, n + 1, Len(s)), e) = SubSeq(s, n + 1, Len(s)) \o <<e>>
    BY <2>3, AppendIsConcat
  <2>5. QED
    BY <2>1, <2>2, <2>4, Zenon
<1>3. ASSUME n < Len(s)
      PROVE  /\ SubSeq(s, n + 1, Len(s)) # << >>
             /\ Head(SubSeq(s, n + 1, Len(s))) = s[n + 1]
             /\ Tail(SubSeq(s, n + 1, Len(s))) = SubSeq(s, n + 2, Len(s))
  <2>1. n + 1 \in 1..Len(s) /\ Len(s) \in n + 1..Len(s) /\ (n + 1) + 1 = n + 2
    BY <1>1, <1>3
  <2>2. /\ Head(SubSeq(s, n + 1, Len(s))) = s[n + 1]
        /\ Tail(SubSeq(s, n + 1, Len(s))) = SubSeq(s, (n + 1) + 1, Len(s))
    BY <2>1, HeadTailOfSubSeq
  <2>3. PICK q : q = SubSeq(s, n + 1, Len(s))
    OBVIOUS
  <2>4. Len(q) = Len(s) - n
    BY <2>3, SliceSplit
  <2>5. q # << >>
    BY <1>1, <1>3, <2>4
  <2>6. QED
    BY <2>1, <2>2, <2>3, <2>5, Zenon
<1>4. QED
  BY <1>2, <1>3

Queue == SubSeq(sent, Len(received) + 1, Len(sent))

\* Every step of the connection is one of the channel, or one nobody sees.
LEMMA ChannelStep ==
  ASSUME StreamInv, [StreamNext]_stream_vars
  PROVE  [Channel!CNext]_<<Queue, received, receiver = "open">>
<1>1. /\ sent \in Seq(Entries) /\ received \in Seq(Messages)
      /\ Len(received) \in Nat /\ Len(sent) \in Nat /\ Len(received) <= Len(sent)
      /\ receiver \in {"open", "closed"}
  BY StreamTypes DEF StreamInv, StreamTypeOK
<1>2. ASSUME NEW m \in Messages, SendMessage(m) \/ SendTruncated(m) \/ SendOversized(m)
      PROVE  Channel!CNext
  <2>1. PICK complete \in BOOLEAN, bytes \in Seq(Octets) : Write(m, bytes, complete)
    BY <1>2, SendsAreFrames
  <2>2. PICK entry \in Entries : entry = [message |-> m, complete |-> complete]
    BY DEF Entries
  <2>3. sent' = Append(sent, entry) /\ received' = received /\ receiver' = receiver
    BY <2>1, <2>2 DEF Write
  <2>4. Len(sent') = Len(sent) + 1
    BY <1>1, <2>3, AppendProperties
  <2>5. SubSeq(Append(sent, entry), Len(received) + 1, Len(sent) + 1) = Append(Queue, entry)
    BY <1>1, QueueOf DEF Queue
  <2>6. Queue' = Append(Queue, entry)
    BY <2>3, <2>4, <2>5, Zenon DEF Queue
  <2>7. Channel!CSend(entry)
    BY <2>3, <2>6 DEF Channel!CSend, Queue
  <2>8. QED
    BY <2>7 DEF Channel!CNext, Entries
<1>3. CASE Arrive \/ LoseLink \/ UNCHANGED stream_vars
  <2>1. UNCHANGED <<sent, received, receiver>>
    BY <1>3 DEF Arrive, LoseLink, stream_vars
  <2>2. QED
    BY <2>1 DEF Queue
<1>4. CASE ReadLength \/ ReadError
  <2>1. UNCHANGED <<sent, received>> /\ receiver = "open" /\ receiver' \in {"open", "closed"}
    BY <1>4 DEF ReadLength, LengthIsRead, AsyncRead, ReadError
  <2>2. Queue' = Queue
    BY <2>1 DEF Queue
  <2>3. CASE receiver' = "open"
    BY <2>1, <2>2, <2>3
  <2>4. CASE receiver' = "closed"
    BY <2>1, <2>2, <2>4 DEF Channel!CClose, Channel!CNext, Queue
  <2>5. QED
    BY <2>1, <2>3, <2>4
<1>5. CASE ReadData
  <2>1. sent' = sent /\ receiver = "open" /\ Len(received) < Len(sent)
    BY <1>5, DataIsMessage DEF ReadData, DataIsRead, AsyncRead
  <2>2. /\ Queue # << >> /\ Head(Queue) = sent[Len(received) + 1]
        /\ Tail(Queue) = SubSeq(sent, Len(received) + 2, Len(sent))
    BY <1>1, <2>1, QueueOf DEF Queue
  <2>3. CASE /\ receiver' = "open" /\ sent[Len(received) + 1].complete
             /\ received' = Append(received, sent[Len(received) + 1].message)
    <3>1. Len(received') + 1 = Len(received) + 2
      BY <1>1, <2>3
    <3>2. Queue' = Tail(Queue)
      BY <2>1, <2>2, <3>1, Zenon DEF Queue
    <3>3. Channel!CDeliver
      BY <2>1, <2>2, <2>3, <3>2 DEF Channel!CDeliver, Queue
    <3>4. QED
      BY <3>3 DEF Channel!CNext
  <2>4. CASE receiver' = "closed" /\ received' = received
    BY <2>1, <2>4 DEF Channel!CClose, Channel!CNext, Queue
  <2>5. QED
    BY <1>5, <2>3, <2>4, DataIsMessage
<1>6. QED
  BY <1>2, <1>3, <1>4, <1>5 DEF StreamNext

\* PacketStream implements PacketChannel: bytes that arrive in any pieces are
\* messages, whole, unchanged, once each and in order, and nothing behind a
\* malformed packet is read.
THEOREM StreamIsAChannel == StreamSpec => ImplementsChannel
<1>1. StreamInit => Channel!CInit
  <2> SUFFICES ASSUME StreamInit PROVE Channel!CInit
    OBVIOUS
  <2>1. sent = << >> /\ received = << >> /\ receiver = "open"
    BY DEF StreamInit
  <2>2. SubSeq(sent, Len(received) + 1, Len(sent)) = << >>
    <3>1. Len(received) = 0 /\ Len(sent) = 0
      BY <2>1, EmptySeq
    <3>2. QED
      BY <3>1, SubSeqEmpty
  <2>3. QED
    BY <2>1, <2>2 DEF Channel!CInit
<1>2. StreamInv /\ [StreamNext]_stream_vars
        => [Channel!CNext]_<<Queue, received, receiver = "open">>
  BY ChannelStep
<1>3. QED
  BY <1>1, <1>2, StreamInvKept, PTL DEF StreamSpec, ImplementsChannel, Channel!CSpec, Queue
===============================================================================
