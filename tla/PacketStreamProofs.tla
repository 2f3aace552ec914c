------------------------- MODULE PacketStreamProofs -------------------------
(***************************************************************************)
(* Proofs about PacketStream: what is sent is what is understood at the    *)
(* other end, for any number of packets with any names and fields.         *)
(***************************************************************************)
EXTENDS PacketStream, PacketCodecProofs

(***************************************************************************)
(* Streams.  Those from lo + 1 to hi of the contents c are in a stream,    *)
(* each behind its size, when there is something left after each, from the *)
(* whole stream after the first lo to nothing after the first hi.          *)
(***************************************************************************)
Parcel == { c \in Seq(Byte) : Len(c) >= 2 /\ Len(c) + 2 <= MaxNumber }

Sized(c) == WriteNumber(Len(c) + 2) \o c

Leaves(left, c, lo, hi) == \A i \in lo + 1 .. hi : left[i - 1] = Sized(c[i]) \o left[i]

Framed(bytes, c, lo, hi) ==
    \E left \in [lo .. hi -> Seq(Byte)] :
        left[lo] = bytes /\ left[hi] = <<>> /\ Leaves(left, c, lo, hi)

\* The same of a reader that may have read the size of the first already.
Awaited(bytes, need, length, c, lo, hi) ==
    \/ need = "header" /\ Framed(bytes, c, lo, hi)
    \/ /\ need = "data"
       /\ lo < hi
       /\ length = Len(c[lo + 1])
       /\ \E rest \in Seq(Byte) :
            bytes = c[lo + 1] \o rest /\ Framed(rest, c, lo + 1, hi)

(* Two strings put together are the one put behind the other.              *)
LEMMA Grouping ==
    ASSUME NEW a \in Seq(Byte), NEW b \in Seq(Byte), NEW c \in Seq(Byte)
    PROVE  a \o b \o c = a \o (b \o c) /\ a \o b \in Seq(Byte) /\ b \o c \in Seq(Byte)
  OBVIOUS

(* A content and its size are what a reader gets apart again.              *)
LEMMA SizedBytes ==
    ASSUME NEW c \in Parcel, NEW rest \in Seq(Byte)
    PROVE  /\ Sized(c) \in Seq(Byte)
           /\ Sized(c) \o rest \in Seq(Byte)
           /\ ReadNumber(Sized(c) \o rest, 1) = {Result(Len(c) + 2, 3)}
           /\ Rest(Sized(c) \o rest, 2) = c \o rest
  <1> DEFINE n == Len(c) + 2
             w == WriteNumber(n)
  <1>1. c \in Seq(Byte) /\ n \in 0 .. MaxNumber
    BY DEF Parcel
  <1>2. w \in Seq(Byte) /\ Len(w) = 2
    BY <1>1, NumberBytes
  <1>3. Sized(c) = w \o c
    BY DEF Sized
  <1> DEFINE more == c \o rest
             none == <<>>
  <1>4. more \in Seq(Byte) /\ none \in Seq(Byte) /\ Len(none) = 0
    BY <1>1
  <1>5. ReadNumber(none \o w \o more, Len(none) + 1) = {Result(n, Len(none) + 3)}
    BY <1>1, <1>4, NumberRead
  <1> HIDE DEF w, n
  <1>6. w \o c \o rest = w \o more /\ w \o c \in Seq(Byte) /\ w \o c \o rest \in Seq(Byte)
    <2>1. w \o c \o rest = w \o (c \o rest) /\ w \o c \in Seq(Byte)
      BY <1>1, <1>2
    <2> QED
      BY <2>1
  <1>7. none \o w \o more = w \o more
    <2> HIDE DEF more
    <2> QED
      BY <1>2, <1>4
  <1>8. Rest(w \o more, 2) = more
    <2> HIDE DEF more
    <2> QED
      BY <1>2, <1>4, Suffix DEF Rest
  <1> HIDE DEF more, none
  <1>9. ReadNumber(w \o more, 1) = {Result(n, 3)}
    <2>1. Len(none) + 1 = 1 /\ Len(none) + 3 = 3
      BY <1>4
    <2> QED
      BY <1>5, <1>7, <2>1
  <1> QED
    BY <1>3, <1>6, <1>8, <1>9 DEF n, more

(* Of what is read together the first and the rest are found.              *)
LEMMA FirstRest ==
    ASSUME NEW c \in Seq(Byte), NEW rest \in Seq(Byte)
    PROVE  /\ First(c \o rest, Len(c)) = c
           /\ Rest(c \o rest, Len(c)) = rest
           /\ Len(c \o rest) = Len(c) + Len(rest)
  <1>1. << >> \in Seq(Byte) /\ << >> \o c \o rest = c \o rest
        /\ Len(<< >>) + 1 = 1 /\ Len(<< >>) + Len(c) = Len(c)
    OBVIOUS
  <1>2. SubSeq(<< >> \o c \o rest, Len(<< >>) + 1, Len(<< >>) + Len(c)) = c
    BY <1>1, Middle
  <1>3. First(c \o rest, Len(c)) = c
    BY <1>1, <1>2 DEF First
  <1>4. Rest(c \o rest, Len(c)) = rest
    BY Suffix DEF Rest
  <1> QED
    BY <1>3, <1>4, Lengths

(* Nothing is in an empty stream. *)
LEMMA FramedEmpty ==
    ASSUME NEW n \in Nat, NEW c
    PROVE  Framed(<<>>, c, n, n)
  <1> DEFINE none == <<>>
             left == [i \in n .. n |-> none]
  <1>1. none \in Seq(Byte)
    OBVIOUS
  <1> HIDE DEF none
  <1>2. left \in [n .. n -> Seq(Byte)] /\ left[n] = none
    BY <1>1
  <1>3. Leaves(left, c, n, n)
    BY DEF Leaves
  <1> HIDE DEF left
  <1> QED
    BY <1>2, <1>3 DEF Framed, none

(* A stream of other contents that are the same where it counts.           *)
LEMMA FramedSame ==
    ASSUME NEW lo \in Nat, NEW hi \in Nat, NEW c, NEW d, NEW bytes, Framed(bytes, c, lo, hi),
           \A i \in lo + 1 .. hi : d[i] = c[i]
    PROVE  Framed(bytes, d, lo, hi)
  BY DEF Framed, Leaves

(* What is sent goes behind all the stream holds.                          *)
LEMMA FramedAppend ==
    ASSUME NEW lo \in Nat, NEW hi \in Nat, lo <= hi, NEW bytes, NEW c,
           Framed(bytes, c, lo, hi), \A i \in lo + 1 .. hi + 1 : c[i] \in Parcel
    PROVE  Framed(bytes \o Sized(c[hi + 1]), c, lo, hi + 1)
  <1> DEFINE one == Sized(c[hi + 1])
  <1>1. PICK left \in [lo .. hi -> Seq(Byte)] :
          left[lo] = bytes /\ left[hi] = <<>> /\ Leaves(left, c, lo, hi)
    BY DEF Framed
  <1>2. /\ \A i \in lo + 1 .. hi + 1 : Sized(c[i]) \in Seq(Byte)
        /\ one \in Seq(Byte) /\ <<>> \in Seq(Byte)
    BY << >> \in Seq(Byte), SizedBytes
  <1> HIDE DEF one
  <1> DEFINE none == <<>>
             new == [i \in lo .. hi + 1 |-> IF i = hi + 1 THEN none ELSE left[i] \o one]
  <1>3. \A i \in lo .. hi : left[i] \in Seq(Byte) /\ left[i] \o one \in Seq(Byte)
    BY <1>2
  <1>4. none \in Seq(Byte) /\ left[hi] = none /\ none \o one = one
    BY <1>1, <1>2
  <1>5. one \o none = one
    BY <1>2
  <1> HIDE DEF none
  <1>6. new \in [lo .. hi + 1 -> Seq(Byte)] /\ new[lo] = bytes \o one /\ new[hi + 1] = none
    BY <1>1, <1>3, <1>4
  <1>7. ASSUME NEW i \in lo + 1 .. hi + 1
        PROVE  new[i - 1] = Sized(c[i]) \o new[i]
    <2>1. i - 1 \in lo .. hi /\ new[i - 1] = left[i - 1] \o one
      OBVIOUS
    <2>2. CASE i = hi + 1
      <3>1. new[i] = none /\ Sized(c[i]) = one /\ i - 1 = hi
        BY <2>2 DEF one
      <3> HIDE DEF new
      <3> QED
        BY <1>4, <1>5, <2>1, <3>1
    <2>3. CASE i \in lo + 1 .. hi
      <3> DEFINE first == Sized(c[i])
                 more == left[i]
      <3>1. new[i] = more \o one
        BY <2>3
      <3>2. left[i - 1] = first \o more
        BY <1>1, <2>3 DEF Leaves
      <3>3. first \in Seq(Byte) /\ more \in Seq(Byte) /\ one \in Seq(Byte)
        BY <1>2, <1>3, <2>3
      <3> HIDE DEF new, first, more
      <3>4. first \o more \o one = first \o (more \o one)
        BY <3>3
      <3> QED
        BY <2>1, <3>1, <3>2, <3>4 DEF first
    <2>4. i = hi + 1 \/ i \in lo + 1 .. hi
      OBVIOUS
    <2> QED
      BY <2>2, <2>3, <2>4
  <1> HIDE DEF new
  <1> QED
    BY <1>6, <1>7 DEF Framed, Leaves, none, one

(* What is read first is the first content, and the rest is behind it.     *)
LEMMA FramedFirst ==
    ASSUME NEW lo \in Nat, NEW hi \in Nat, lo < hi, NEW bytes, NEW c,
           Framed(bytes, c, lo, hi)
    PROVE  \E rest \in Seq(Byte) :
             bytes = Sized(c[lo + 1]) \o rest /\ Framed(rest, c, lo + 1, hi)
  <1>1. PICK left \in [lo .. hi -> Seq(Byte)] :
          left[lo] = bytes /\ left[hi] = <<>> /\ Leaves(left, c, lo, hi)
    BY DEF Framed
  <1> DEFINE rest == left[lo + 1]
             new == [i \in lo + 1 .. hi |-> left[i]]
  <1>2. rest \in Seq(Byte) /\ lo + 1 \in lo + 1 .. hi /\ (lo + 1) - 1 = lo
    OBVIOUS
  <1>3. bytes = Sized(c[lo + 1]) \o rest
    BY <1>1, <1>2 DEF Leaves
  <1>4. /\ new \in [lo + 1 .. hi -> Seq(Byte)] /\ new[lo + 1] = rest /\ new[hi] = <<>>
        /\ \A i \in lo + 1 .. hi : new[i] = left[i]
    BY <1>1
  <1>5. Leaves(new, c, lo + 1, hi)
    <2> HIDE DEF new
    <2> SUFFICES ASSUME NEW i \in (lo + 1) + 1 .. hi
                 PROVE  new[i - 1] = Sized(c[i]) \o new[i]
      BY DEF Leaves
    <2>1. new[i] = left[i] /\ new[i - 1] = left[i - 1]
      BY <1>4
    <2>2. left[i - 1] = Sized(c[i]) \o left[i]
      <3>1. i \in lo + 1 .. hi
        OBVIOUS
      <3> QED
        BY <1>1, <3>1 DEF Leaves
    <2> QED
      BY <2>1, <2>2
  <1> HIDE DEF new, rest
  <1>6. Framed(rest, c, lo + 1, hi)
    BY <1>4, <1>5 DEF Framed
  <1> QED
    BY <1>2, <1>3, <1>6

(* Where a size can be read there is a packet, and it is its size.         *)
LEMMA HeaderRead ==
    ASSUME NEW lo \in Nat, NEW hi \in Nat, lo <= hi, NEW bytes, NEW c,
           Framed(bytes, c, lo, hi), \A i \in lo + 1 .. hi : c[i] \in Parcel,
           NEW n \in ReadNumber(bytes, 1)
    PROVE  /\ lo < hi /\ n.val = Len(c[lo + 1]) + 2
           /\ Awaited(Rest(bytes, 2), "data", n.val - 2, c, lo, hi)
  <1>1. lo < hi
    <2>1. SUFFICES ASSUME lo = hi PROVE FALSE
      OBVIOUS
    <2>2. bytes = <<>>
      BY <2>1 DEF Framed
    <2> QED
      BY <2>2 DEF ReadNumber
  <1>2. PICK rest \in Seq(Byte) :
          bytes = Sized(c[lo + 1]) \o rest /\ Framed(rest, c, lo + 1, hi)
    BY <1>1, FramedFirst
  <1>3. lo + 1 \in lo + 1 .. hi /\ c[lo + 1] \in Parcel /\ Len(c[lo + 1]) \in Nat
    BY <1>1 DEF Parcel
  <1>4. n = Result(Len(c[lo + 1]) + 2, 3) /\ Rest(bytes, 2) = c[lo + 1] \o rest
    <2> DEFINE one == c[lo + 1]
    <2>1. one \in Parcel /\ bytes = Sized(one) \o rest
      BY <1>2, <1>3
    <2> HIDE DEF one
    <2>2. ReadNumber(bytes, 1) = {Result(Len(one) + 2, 3)} /\ Rest(bytes, 2) = one \o rest
      BY <2>1, SizedBytes
    <2> QED
      BY <2>2 DEF one
  <1>5. n.val = Len(c[lo + 1]) + 2
    BY <1>4 DEF Result
  <1>6. n.val - 2 = Len(c[lo + 1])
    BY <1>3, <1>5
  <1> QED
    BY <1>1, <1>2, <1>4, <1>5, <1>6 DEF Awaited

(* What is awaited is the same among contents that are.                    *)
LEMMA AwaitedSame ==
    ASSUME NEW lo \in Nat, NEW hi \in Nat, lo <= hi, NEW bytes, NEW need, NEW length,
           NEW c, NEW d, Awaited(bytes, need, length, c, lo, hi),
           \A i \in lo + 1 .. hi : d[i] = c[i]
    PROVE  Awaited(bytes, need, length, d, lo, hi)
  <1>1. CASE need = "header"
    BY <1>1, FramedSame DEF Awaited
  <1>2. CASE need = "data"
    <2>1. PICK rest \in Seq(Byte) :
            bytes = c[lo + 1] \o rest /\ Framed(rest, c, lo + 1, hi)
      BY <1>2 DEF Awaited
    <2>2. lo < hi /\ length = Len(c[lo + 1])
      BY <1>2 DEF Awaited
    <2>3. \A i \in (lo + 1) + 1 .. hi : d[i] = c[i]
      OBVIOUS
    <2>4. Framed(rest, d, lo + 1, hi)
      BY <2>1, <2>3, FramedSame
    <2>5. d[lo + 1] = c[lo + 1]
      BY <2>2
    <2> QED
      BY <1>2, <2>1, <2>2, <2>4, <2>5 DEF Awaited
  <1> QED
    BY <1>1, <1>2 DEF Awaited

(* What is sent is behind what is awaited, too.                            *)
LEMMA AwaitedAppend ==
    ASSUME NEW lo \in Nat, NEW hi \in Nat, lo <= hi, NEW bytes, NEW need, NEW length,
           NEW c, Awaited(bytes, need, length, c, lo, hi),
           \A i \in lo + 1 .. hi + 1 : c[i] \in Parcel
    PROVE  Awaited(bytes \o Sized(c[hi + 1]), need, length, c, lo, hi + 1)
  <1> DEFINE one == Sized(c[hi + 1])
  <1>1. CASE need = "header" /\ Framed(bytes, c, lo, hi)
    BY <1>1, FramedAppend DEF Awaited
  <1>2. CASE need = "data"
    <2>1. PICK rest \in Seq(Byte) :
            bytes = c[lo + 1] \o rest /\ Framed(rest, c, lo + 1, hi)
      BY <1>2 DEF Awaited
    <2>2. lo < hi /\ length = Len(c[lo + 1])
      BY <1>2 DEF Awaited
    <2>3. Framed(rest \o one, c, lo + 1, hi + 1)
      BY <2>1, <2>2, FramedAppend
    <2>4. c[lo + 1] \in Seq(Byte) /\ one \in Seq(Byte)
      <3>1. c[lo + 1] \in Parcel /\ c[hi + 1] \in Parcel
        BY <2>2
      <3> QED
        BY <3>1, << >> \in Seq(Byte), SizedBytes DEF Parcel
    <2> HIDE DEF one
    <2>5. rest \o one \in Seq(Byte) /\ bytes \o one = c[lo + 1] \o (rest \o one)
      <3> DEFINE first == c[lo + 1]
      <3>1. first \in Seq(Byte) /\ bytes = first \o rest
        BY <2>1, <2>4
      <3> HIDE DEF first
      <3>2. first \o rest \o one = first \o (rest \o one) /\ rest \o one \in Seq(Byte)
        BY <2>4, <3>1
      <3> QED
        BY <3>1, <3>2 DEF first
    <2> QED
      <3>1. lo < hi + 1
        BY <2>2
      <3> QED
        BY <1>2, <2>2, <2>3, <2>5, <3>1 DEF Awaited, one
  <1> QED
    BY <1>1, <1>2 DEF Awaited

-----------------------------------------------------------------------------
(***************************************************************************)
(* What a reader makes of a packet.                                        *)
(***************************************************************************)

(* A packet under a name is understood by its name and its type.           *)
LEMMA PacketUnderstood ==
    ASSUME NEW name \in Seq(Byte), name # <<>>, Len(name) <= MaxNumber,
           NEW type \in 0 .. MaxNumber, NEW fields \in Seq(Byte)
    PROVE  Understood(Content(name, type, fields)) = {<<name, type, fields>>}
  <1> DEFINE data == Content(name, type, fields)
             at == StringSize(name)
             n == Result(name, at + 1)
             t == Result(type, at + 3)
             From(m, k) == IF m.val = <<>> /\ k.val = SptPlayerList
                           THEN {list.val : list \in ReadPlayers(data, k.next)}
                           ELSE {<<m.val, k.val, Rest(data, k.next - 1)>>}
             Types(m) == {From(m, k) : k \in ReadNumber(data, m.next)}
  <1>1. /\ ReadString(data, 1) = {n} /\ ReadNumber(data, at + 1) = {t}
        /\ SubSeq(data, at + 3, Len(data)) = fields
    BY ContentRead
  <1>2. /\ n.val = name /\ n.next = at + 1
        /\ t.val = type /\ t.next = at + 3 /\ at \in Nat
    BY DEF Result, StringSize
  <1>3. Rest(data, t.next - 1) = fields
    <2>1. (t.next - 1) + 1 = at + 3
      BY <1>2
    <2> HIDE DEF data, t, at
    <2> QED
      BY <1>1, <2>1 DEF Rest
  <1>4. Understood(data) = UNION {UNION Types(m) : m \in ReadString(data, 1)}
    BY DEF Understood
  <1> HIDE DEF data, n, t, at
  <1>5. From(n, t) = {<<name, type, fields>>}
    BY <1>2, <1>3
  <1> HIDE DEF From
  <1>6. Types(n) = {From(n, t)}
    BY <1>1, <1>2
  <1> HIDE DEF Types
  <1>7. UNION Types(n) = From(n, t)
    BY <1>6
  <1>8. Understood(data) = UNION Types(n)
    BY <1>1, <1>4
  <1> QED
    BY <1>5, <1>7, <1>8 DEF data

(* An envelope that fits is a content that does, and its size.             *)
LEMMA EnvelopeSized ==
    ASSUME NEW name \in Seq(Byte), NEW type \in 0 .. MaxNumber, NEW fields \in Seq(Byte),
           Len(Envelope(name, type, fields)) <= MaxNumber
    PROVE  /\ Content(name, type, fields) \in Parcel
           /\ Envelope(name, type, fields) = Sized(Content(name, type, fields))
           /\ Len(name) <= MaxNumber /\ Len(fields) <= MaxNumber
  <1> DEFINE data == Content(name, type, fields)
             packet == Envelope(name, type, fields)
  <1>1. packet = WriteNumber(Len(packet)) \o data /\ Len(packet) = 2 + Len(data)
    BY EnvelopeParts
  <1>2. data \in Seq(Byte) /\ Len(data) = StringSize(name) + 2 + Len(fields)
    BY ContentBytes
  <1>3. StringSize(name) = Len(name) + 2 /\ Len(name) \in Nat /\ Len(fields) \in Nat
    BY DEF StringSize
  <1>4. Len(packet) <= MaxNumber /\ MaxNumber \in Int
    BY BaseAssumption DEF MaxNumber
  <1> HIDE DEF data, packet
  <1>5. /\ Len(data) >= 2 /\ Len(data) + 2 <= MaxNumber /\ Len(packet) = Len(data) + 2
        /\ Len(name) <= MaxNumber /\ Len(fields) <= MaxNumber
    BY <1>1, <1>2, <1>3, <1>4
  <1> QED
    BY <1>1, <1>2, <1>5 DEF Parcel, Sized, data, packet

(* A list of players is understood as the list that was written.           *)
LEMMA ListUnderstood ==
    ASSUME NEW list \in Players
    PROVE  /\ Understood(Content(<<>>, SptPlayerList, WritePlayers(list))) = {list}
           /\ Content(<<>>, SptPlayerList, WritePlayers(list)) \in Parcel
           /\ Envelope(<<>>, SptPlayerList, WritePlayers(list))
                = Sized(Content(<<>>, SptPlayerList, WritePlayers(list)))
  <1> DEFINE none == <<>>
             fields == WritePlayers(list)
             data == Content(none, SptPlayerList, fields)
             at == StringSize(none)
             n == Result(none, at + 1)
             t == Result(SptPlayerList, at + 3)
             read == Result(list, at + 3 + Len(fields))
             From(m, k) == IF m.val = <<>> /\ k.val = SptPlayerList
                           THEN {l.val : l \in ReadPlayers(data, k.next)}
                           ELSE {<<m.val, k.val, Rest(data, k.next - 1)>>}
             Types(m) == {From(m, k) : k \in ReadNumber(data, m.next)}
  <1>1. /\ list \in Seq(Listed) /\ fields \in Seq(Byte)
        /\ none \in Seq(Byte) /\ Len(none) = 0 /\ SptPlayerList \in 0 .. MaxNumber
    <2>1. list \in Seq(Listed)
      BY PlayersAssumption DEF Listed
    <2>2. fields \in Seq(Byte)
      BY <2>1, PlayersBytes
    <2> QED
      BY <2>1, <2>2, TypeAssumption
  <1>2. /\ data \in Parcel /\ Envelope(none, SptPlayerList, fields) = Sized(data)
        /\ Len(fields) <= MaxNumber
    <2>1. Len(Envelope(none, SptPlayerList, fields)) <= MaxNumber
      BY PlayersAssumption
    <2> HIDE DEF none, fields
    <2> QED
      BY <1>1, <2>1, EnvelopeSized
  <1>3. Len(none) <= MaxNumber
    BY <1>1, BaseAssumption DEF MaxNumber
  <1>4. ReadString(data, 1) = {n} /\ ReadNumber(data, at + 1) = {t}
    BY <1>1, <1>3, ContentRead
  <1>5. /\ n.val = <<>> /\ n.next = at + 1
        /\ t.val = SptPlayerList /\ t.next = at + 3 /\ read.val = list
    BY DEF Result
  <1>6. ReadPlayers(data, at + 3) = {read}
    <2> DEFINE before == WriteString(none) \o WriteNumber(SptPlayerList)
    <2>1. /\ WriteString(none) \in Seq(Byte) /\ Len(WriteString(none)) = at
          /\ WriteNumber(SptPlayerList) \in Seq(Byte) /\ Len(WriteNumber(SptPlayerList)) = 2
      BY <1>1, StringBytes, NumberBytes
    <2>2. before \in Seq(Byte) /\ Len(before) = at + 2
      BY <2>1, Lengths
    <2>3. data = before \o fields
      BY DEF Content
    <2>4. at \in Nat
      BY <1>1 DEF StringSize
    <2> HIDE DEF before, at
    <2>5. before \o fields \o none = before \o fields
      BY <1>1, <2>2
    <2>6. ReadPlayers(before \o fields \o none, Len(before) + 1)
            = {Result(list, Len(before) + 1 + Len(fields))}
      BY <1>1, <1>2, <2>2, PlayersRead
    <2>7. Len(before) + 1 = at + 3
      BY <2>2, <2>4
    <2> HIDE DEF data, none, fields
    <2> QED
      BY <2>3, <2>5, <2>6, <2>7
  <1>7. Understood(data) = UNION {UNION Types(m) : m \in ReadString(data, 1)}
    BY DEF Understood
  <1> HIDE DEF data, n, t, at, read, none
  <1>8. From(n, t) = {list}
    BY <1>5, <1>6
  <1> HIDE DEF From
  <1>9. Types(n) = {From(n, t)}
    BY <1>4, <1>5
  <1> HIDE DEF Types
  <1>10. UNION Types(n) = From(n, t)
    BY <1>9
  <1>11. Understood(data) = UNION Types(n)
    BY <1>4, <1>7
  <1> QED
    BY <1>2, <1>8, <1>10, <1>11 DEF data, none

-----------------------------------------------------------------------------
(***************************************************************************)
(* The invariant.  Of the packets sent the server has relayed some, each   *)
(* with what was left in its buffer behind the fields; what it will read   *)
(* is the others.  If all that it relayed fits, the receiver has           *)
(* understood some, and what it will read is the rest of those.            *)
(***************************************************************************)
Leaving == [i \in 1 .. Len(sent) |-> Content(receiver, sent[i][1], sent[i][2])]

\* extra: what the server put behind the fields of each packet it relayed.
Arriving(extra) ==
    [i \in 1 .. Len(extra) + 1 |->
        IF i = 1 THEN Content(<<>>, SptPlayerList, WritePlayers(players))
        ELSE Content(Sender, sent[i - 1][1], sent[i - 1][2] \o extra[i - 1])]

Message(extra, i) ==
    IF i = 1 THEN players
    ELSE <<Sender, sent[i - 1][1], sent[i - 1][2] \o extra[i - 1]>>

Messages == Players \cup (Seq(Byte) \X (0 .. MaxNumber) \X Seq(Byte))

Relays(n) ==
    /\ n <= Len(sent)
    /\ Awaited(toServer, session.need, session.length - 2, Leaving, n, Len(sent))

Understands(extra) ==
    /\ got \in Seq(Messages)
    /\ Len(got) <= Len(extra) + 1
    /\ \A i \in 1 .. Len(got) : got[i] = Message(extra, i)
    /\ \A i \in 1 .. Len(extra) + 1 : Arriving(extra)[i] \in Parcel
    /\ Awaited(toReceiver, client.need, client.length, Arriving(extra),
               Len(got), Len(extra) + 1)

IInv ==
    /\ TypeOK
    /\ \A i \in 1 .. Len(sent) : Leaving[i] \in Parcel
    /\ \E extra \in Seq(Seq(Byte)) :
          Relays(Len(extra)) /\ (Intact => Understands(extra))

(* The constants are what the lemmas ask for.                              *)
LEMMA Constants ==
    /\ Sender \in Seq(Byte) /\ Sender # <<>>
    /\ \A r \in Receivers : r \in Seq(Byte) /\ r # <<>>
    /\ \A f \in Fields : f[1] \in 0 .. MaxNumber /\ f[2] \in Seq(Byte)
    /\ MaxNumber \in Nat /\ 0 \in Byte /\ 0 \in 0 .. MaxNumber
  <1>1. Base * Base \in Nat /\ Base * Base > 0
    BY BaseAssumption
  <1>2. MaxNumber \in Nat
    BY <1>1 DEF MaxNumber
  <1> QED
    BY <1>2, SenderAssumption, ReceiversAssumption, FieldsAssumption, BaseAssumption DEF Byte

(* What the server sends of a packet is bytes of it.                       *)
LEMMA WrittenBytes ==
    ASSUME NEW packet \in Seq(Byte), NEW part \in Written(packet)
    PROVE  part \in Seq(Byte)
  <1>1. CASE part = packet
    BY <1>1
  <1>2. CASE part # packet
    <2>1. PICK k \in Cuts : k < Len(packet) /\ part = First(packet, k)
      BY <1>2 DEF Written
    <2>2. k \in Nat
      BY CutsAssumption
    <2>3. SubSeq(packet, 1, k) \in Seq(Byte)
      BY <2>1, <2>2
    <2> QED
      BY <2>1, <2>3 DEF First
  <1> QED
    BY <1>1, <1>2

(* At first the receiver is to read its list, and the server nothing.      *)
LEMMA InitIInv == Init => IInv
  <1> SUFFICES ASSUME Init PROVE IInv
    OBVIOUS
  <1> DEFINE list == Content(<<>>, SptPlayerList, WritePlayers(players))
             none == <<>>
  <1>1. /\ receiver \in Receivers /\ players \in Players /\ sent = none /\ got = none
        /\ toServer = none /\ oversized = FALSE /\ torn \in BOOLEAN
        /\ session = [need |-> "header", length |-> 0, data |-> none]
        /\ client = [need |-> "header", length |-> 0, size |-> 0]
    BY DEF Init
  <1>2. /\ list \in Parcel /\ toReceiver \in Written(Sized(list))
        /\ Intact => toReceiver = Sized(list)
    <2>1. /\ toReceiver \in Written(Envelope(<<>>, SptPlayerList, WritePlayers(players)))
          /\ torn = (toReceiver # Envelope(<<>>, SptPlayerList, WritePlayers(players)))
      BY DEF Init
    <2>2. list \in Parcel /\ Envelope(<<>>, SptPlayerList, WritePlayers(players)) = Sized(list)
      BY <1>1, ListUnderstood
    <2> HIDE DEF list
    <2> QED
      BY <2>1, <2>2 DEF Intact
  <1> HIDE DEF list
  <1>3. /\ none \in Seq(Byte) /\ none \in Seq(Fields) /\ none \in Seq(Seq(Byte))
        /\ none \in Seq(Messages) /\ Len(none) = 0 /\ none \o Sized(list) = Sized(list)
        /\ toReceiver \in Seq(Byte)
    <2>1. Sized(list) \in Seq(Byte)
      BY <1>2, << >> \in Seq(Byte), SizedBytes
    <2>2. toReceiver \in Seq(Byte)
      BY <1>2, <2>1, WrittenBytes
    <2> QED
      BY <2>1, <2>2
  <1> HIDE DEF none
  <1>4. TypeOK
    BY <1>1, <1>2, <1>3, Constants DEF TypeOK, Next2Read
  <1>5. Relays(0)
    <2>1. Framed(none, Leaving, 0, 0)
      BY FramedEmpty DEF none
    <2> QED
      BY <1>1, <1>3, <2>1 DEF Relays, Awaited
  <1>6. Intact => Understands(none)
    <2> SUFFICES ASSUME Intact PROVE Understands(none)
      OBVIOUS
    <2>1. Arriving(none) = [i \in 1 .. 1 |-> list]
      BY <1>1, <1>3 DEF Arriving, list
    <2>2. \A i \in 1 .. 1 : Arriving(none)[i] \in Parcel
      BY <1>2, <2>1
    <2>3. Framed(none, Arriving(none), 0, 0)
      BY FramedEmpty DEF none
    <2>4. Arriving(none)[0 + 1] = list
      BY <2>1
    <2>5. Framed(none \o Sized(Arriving(none)[0 + 1]), Arriving(none), 0, 0 + 1)
      BY <2>2, <2>3, FramedAppend
    <2> QED
      BY <1>1, <1>2, <1>3, <2>2, <2>4, <2>5 DEF Understands, Awaited
  <1>7. none \in Seq(Seq(Byte)) /\ Relays(Len(none)) /\ (Intact => Understands(none))
    BY <1>3, <1>5, <1>6
  <1>8. \A i \in 1 .. Len(sent) : Leaving[i] \in Parcel
    BY <1>1, <1>3
  <1> QED
    BY <1>4, <1>7, <1>8 DEF IInv

(* What is sent does not disturb what the receiver is to read before it.   *)
LEMMA UnderstandsKept ==
    ASSUME NEW extra \in Seq(Seq(Byte)), Understands(extra), Len(extra) <= Len(sent),
           UNCHANGED <<players, got, client, toReceiver>>,
           \A i \in 1 .. Len(extra) : sent'[i] = sent[i]
    PROVE  Understands(extra)'
  <1>1. Len(extra) \in Nat
    OBVIOUS
  <1>2. Arriving(extra)' = Arriving(extra)
    <2>1. \A i \in 1 .. Len(extra) + 1 : i # 1 => sent'[i - 1] = sent[i - 1]
      BY <1>1
    <2> QED
      BY <2>1 DEF Arriving
  <1>3. ASSUME NEW i \in 1 .. Len(got)
        PROVE  Message(extra, i)' = Message(extra, i)
    <2>1. Len(got) \in Nat /\ Len(got) <= Len(extra) + 1
      BY DEF Understands
    <2>2. i # 1 => i - 1 \in 1 .. Len(extra)
      BY <1>1, <2>1
    <2> QED
      BY <2>2 DEF Message
  <1> QED
    BY <1>2, <1>3 DEF Understands

(* The sending player: one more packet is behind what the server awaits.   *)
LEMMA SendStep ==
    ASSUME IInv, NEW f \in Fields, SendPacket(f)
    PROVE  IInv'
  <1> DEFINE packet == Envelope(receiver, f[1], f[2])
             data == Content(receiver, f[1], f[2])
             n == Len(sent)
  <1>1. /\ TypeOK /\ sent \in Seq(Fields) /\ toServer \in Seq(Byte)
        /\ \A i \in 1 .. n : Leaving[i] \in Parcel
        /\ n \in Nat
    BY DEF IInv, TypeOK
  <1>2. PICK extra \in Seq(Seq(Byte)) :
          Relays(Len(extra)) /\ (Intact => Understands(extra))
    BY DEF IInv
  <1>3. /\ sent' = Append(sent, f) /\ toServer' = toServer \o packet /\ Len(packet) <= MaxNumber
        /\ UNCHANGED <<receiver, players, session, clientVars, damage>>
    BY DEF SendPacket
  <1>4. data \in Parcel /\ packet = Sized(data) /\ Sized(data) \in Seq(Byte)
    <2>1. receiver \in Seq(Byte) /\ f[1] \in 0 .. MaxNumber /\ f[2] \in Seq(Byte)
      BY <1>1, Constants DEF TypeOK
    <2>2. data \in Parcel /\ packet = Sized(data)
      BY <1>3, <2>1, EnvelopeSized
    <2> HIDE DEF data
    <2> QED
      BY <2>2, << >> \in Seq(Byte), SizedBytes
  <1>5. /\ sent' \in Seq(Fields) /\ Len(sent') = n + 1
        /\ (\A i \in 1 .. n : sent'[i] = sent[i]) /\ sent'[n + 1] = f
    BY <1>1, <1>3
  <1>6. /\ \A i \in 1 .. n : Leaving'[i] = Leaving[i]
        /\ Leaving'[n + 1] = data
    BY <1>1, <1>3, <1>5 DEF Leaving
  <1>7. \A i \in 1 .. Len(sent') : Leaving'[i] \in Parcel
    <2>1. \A i \in 1 .. n + 1 : i \in 1 .. n \/ i = n + 1
      BY <1>1
    <2> HIDE DEF data, n
    <2> QED
      BY <1>1, <1>4, <1>5, <1>6, <2>1
  <1> HIDE DEF packet, data
  <1>8. TypeOK'
    <2>1. toServer \o packet \in Seq(Byte)
      BY <1>1, <1>4
    <2> QED
      BY <1>1, <1>3, <1>5, <2>1 DEF TypeOK, clientVars, damage
  <1>9. Relays(Len(extra))'
    <2> DEFINE k == Len(extra)
    <2>1. k \in Nat /\ k <= n
      BY <1>2 DEF Relays
    <2>2. Awaited(toServer, session.need, session.length - 2, Leaving, k, n)
      BY <1>2 DEF Relays
    <2>3. Awaited(toServer, session.need, session.length - 2, Leaving', k, n)
      <3>1. \A i \in k + 1 .. n : Leaving'[i] = Leaving[i]
        BY <1>1, <1>6, <2>1
      <3> HIDE DEF k, n
      <3> QED
        BY <1>1, <2>1, <2>2, <3>1, AwaitedSame
    <2>4. \A i \in k + 1 .. n + 1 : Leaving'[i] \in Parcel
      BY <1>1, <1>5, <1>7, <2>1
    <2> HIDE DEF k, n
    <2>5. Awaited(toServer \o Sized(Leaving'[n + 1]), session.need, session.length - 2,
                  Leaving', k, n + 1)
      BY <1>1, <2>1, <2>3, <2>4, AwaitedAppend
    <2> QED
      BY <1>1, <1>3, <1>4, <1>5, <1>6, <2>1, <2>5 DEF Relays, k
  <1>10. Intact' => Understands(extra)'
    <2>1. Len(extra) <= n /\ Len(extra) \in Nat
      BY <1>2 DEF Relays
    <2> HIDE DEF n
    <2>2. \A i \in 1 .. Len(extra) : sent'[i] = sent[i]
      BY <1>1, <1>5, <2>1
    <2> QED
      BY <1>2, <1>3, <2>1, <2>2, UnderstandsKept DEF clientVars, damage, Intact, n
  <1> QED
    BY <1>2, <1>7, <1>8, <1>9, <1>10 DEF IInv

(* A buffer of another size holds bytes still.                             *)
LEMMA ResizedBytes ==
    ASSUME NEW data \in Seq(Byte), NEW n \in Nat
    PROVE  Resized(data, n) \in Seq(Byte)
  <1> DEFINE f == [i \in 1 .. n |-> IF i <= Len(data) THEN data[i] ELSE 0]
  <1>1. ASSUME NEW i \in 1 .. n
        PROVE  (IF i <= Len(data) THEN data[i] ELSE 0) \in Byte
    <2>1. i <= Len(data) => i \in 1 .. Len(data)
      OBVIOUS
    <2> QED
      BY <2>1, Constants
  <1>2. f \in [1 .. n -> Byte]
    BY <1>1
  <1> HIDE DEF f
  <1>3. f \in Seq(Byte)
    BY <1>2
  <1> QED
    BY <1>3 DEF Resized, f

(* The server reads a size, and waits for as many bytes as come.           *)
LEMMA ServerHeaderStep ==
    ASSUME IInv, ServerHeader
    PROVE  IInv'
  <1>1. /\ TypeOK /\ sent \in Seq(Fields) /\ toServer \in Seq(Byte)
        /\ \A i \in 1 .. Len(sent) : Leaving[i] \in Parcel
        /\ Len(sent) \in Nat
    BY DEF IInv, TypeOK
  <1>2. PICK extra \in Seq(Seq(Byte)) :
          Relays(Len(extra)) /\ (Intact => Understands(extra))
    BY DEF IInv
  <1>3. PICK n \in ReadNumber(toServer, 1) :
          session' = [need |-> "data", length |-> n.val, data |-> Resized(session.data, n.val)]
    BY DEF ServerHeader
  <1>4. /\ session.need = "header" /\ toServer' = Rest(toServer, 2)
        /\ UNCHANGED <<receiver, players, sent, clientVars, damage>>
    BY DEF ServerHeader
  <1> DEFINE k == Len(extra)
             c == Leaving
  <1>5. k \in Nat /\ k <= Len(sent) /\ Framed(toServer, c, k, Len(sent))
        /\ \A i \in k + 1 .. Len(sent) : c[i] \in Parcel
    BY <1>1, <1>2, <1>4 DEF Relays, Awaited
  <1> HIDE DEF k, c
  <1>6. /\ k < Len(sent) /\ n.val = Len(c[k + 1]) + 2
        /\ Awaited(Rest(toServer, 2), "data", n.val - 2, c, k, Len(sent))
    BY <1>1, <1>5, HeaderRead
  <1>7. n.val \in 0 .. MaxNumber /\ toServer' \in Seq(Byte)
    <2>1. k + 1 \in k + 1 .. Len(sent)
      BY <1>1, <1>5, <1>6
    <2>2. c[k + 1] \in Parcel
      BY <1>5, <2>1
    <2>3. n.val \in 0 .. MaxNumber
      BY <1>6, <2>2 DEF Parcel
    <2>4. PICK rest \in Seq(Byte) : Rest(toServer, 2) = c[k + 1] \o rest
      BY <1>6 DEF Awaited
    <2>5. c[k + 1] \in Seq(Byte)
      BY <2>2 DEF Parcel
    <2>6. c[k + 1] \o rest \in Seq(Byte)
      BY <2>5
    <2> QED
      BY <1>4, <2>3, <2>4, <2>6
  <1>8. Resized(session.data, n.val) \in Seq(Byte)
    <2> DEFINE data == session.data
               m == n.val
    <2>1. data \in Seq(Byte) /\ m \in Nat
      BY <1>1, <1>7, Constants DEF TypeOK
    <2> HIDE DEF data, m
    <2>2. Resized(data, m) \in Seq(Byte)
      BY <2>1, ResizedBytes
    <2> QED
      BY <2>2 DEF data, m
  <1>9. TypeOK'
    BY <1>1, <1>3, <1>4, <1>7, <1>8 DEF TypeOK, clientVars, damage, Next2Read
  <1>10. Leaving' = Leaving
    BY <1>4 DEF Leaving
  <1>11. Relays(k)'
    BY <1>3, <1>4, <1>5, <1>6, <1>10 DEF Relays, c
  <1>12. Intact' => Understands(extra)'
    <2>1. Len(extra) <= Len(sent)
      BY <1>5 DEF k
    <2> QED
      BY <1>2, <1>4, <2>1, UnderstandsKept DEF clientVars, damage, Intact
  <1> QED
    BY <1>1, <1>2, <1>4, <1>9, <1>10, <1>11, <1>12 DEF IInv, k

(* What is left of a buffer, and what is sent of one, are bytes.           *)
LEMMA RestBytes ==
    ASSUME NEW s \in Seq(Byte), NEW n \in Nat
    PROVE  Rest(s, n) \in Seq(Byte)
  <1>1. SubSeq(s, n + 1, Len(s)) \in Seq(Byte)
    OBVIOUS
  <1> QED
    BY <1>1 DEF Rest

(* A packet is made of bytes.                                              *)
LEMMA EnvelopeBytes ==
    ASSUME NEW name \in Seq(Byte), NEW type \in 0 .. MaxNumber, NEW fields \in Seq(Byte)
    PROVE  Envelope(name, type, fields) \in Seq(Byte)
  <1> DEFINE packet == Envelope(name, type, fields)
             data == Content(name, type, fields)
             w == WriteNumber(Len(packet))
  <1>1. data \in Seq(Byte) /\ packet = w \o data /\ Len(packet) = 2 + Len(data)
    BY ContentBytes, EnvelopeParts
  <1> HIDE DEF packet, data
  <1>2. Len(packet) \in Nat
    BY <1>1
  <1>3. w \in Seq(Byte)
    BY <1>2, AnyNumberBytes
  <1> HIDE DEF w
  <1>4. w \o data \in Seq(Byte)
    BY <1>1, <1>3
  <1> QED
    BY <1>1, <1>4 DEF packet

(* A packet is for the same whatever is behind its fields in the buffer.   *)
IsFor(data, name) == {m.val : m \in ReadString(data, 1)} = {name}

(* A packet is for the player whose name it begins with.                   *)
LEMMA Addressee ==
    ASSUME NEW name \in Seq(Byte), Len(name) <= MaxNumber, NEW type \in 0 .. MaxNumber,
           NEW fields \in Seq(Byte), NEW stale \in Seq(Byte)
    PROVE  IsFor(Content(name, type, fields) \o stale, name)
  <1> DEFINE a == WriteString(name)
             b == WriteNumber(type)
             all == fields \o stale
             data == Content(name, type, fields) \o stale
  <1>1. a \in Seq(Byte) /\ b \in Seq(Byte) /\ all \in Seq(Byte)
    BY StringBytes, NumberBytes
  <1>2. data = Content(name, type, all)
    <2> HIDE DEF a, b
    <2> DEFINE ab == a \o b
    <2>1. ab \in Seq(Byte)
      BY <1>1
    <2> HIDE DEF ab
    <2>2. ab \o fields \o stale = ab \o (fields \o stale)
      BY <2>1
    <2> QED
      BY <2>2 DEF Content, a, b, ab
  <1> HIDE DEF data, all
  <1>3. ReadString(data, 1) = {Result(name, StringSize(name) + 1)}
    BY <1>1, <1>2, ContentRead
  <1>4. Result(name, StringSize(name) + 1).val = name
    BY DEF Result
  <1>5. {m.val : m \in ReadString(data, 1)} = {name}
    BY <1>3, <1>4
  <1> QED
    BY <1>5 DEF data, IsFor

(* A packet that fits and is relayed is one more the receiver will read.   *)
LEMMA UnderstandsMore ==
    ASSUME NEW extra \in Seq(Seq(Byte)), Understands(extra), NEW stale \in Seq(Byte),
           TypeOK, Len(extra) < Len(sent),
           UNCHANGED <<players, sent, got, client>>,
           Len(Envelope(Sender, sent[Len(extra) + 1][1],
                        sent[Len(extra) + 1][2] \o stale)) <= MaxNumber,
           toReceiver' = toReceiver \o Envelope(Sender, sent[Len(extra) + 1][1],
                                                sent[Len(extra) + 1][2] \o stale)
    PROVE  Understands(Append(extra, stale))'
  <1> DEFINE k == Len(extra)
             more == Append(extra, stale)
             type == sent[k + 1][1]
             fields == sent[k + 1][2] \o stale
             data == Content(Sender, type, fields)
             c == Arriving(extra)
             d == Arriving(more)
             g == Len(got)
  <1>1. k \in Nat /\ k < Len(sent) /\ sent \in Seq(Fields) /\ Len(sent) \in Nat
    BY DEF TypeOK
  <1>2. sent[k + 1] \in Fields
    <2>1. k + 1 \in 1 .. Len(sent)
      BY <1>1
    <2> QED
      BY <1>1, <2>1
  <1>3. type \in 0 .. MaxNumber /\ fields \in Seq(Byte) /\ Sender \in Seq(Byte)
    BY <1>2, Constants
  <1>4. data \in Parcel /\ toReceiver' = toReceiver \o Sized(data)
    <2> HIDE DEF type, fields
    <2>1. Len(Envelope(Sender, type, fields)) <= MaxNumber
      BY DEF type, fields
    <2>2. data \in Parcel /\ Envelope(Sender, type, fields) = Sized(data)
      BY <1>3, <2>1, EnvelopeSized
    <2> QED
      BY <2>2 DEF type, fields
  <1>5. /\ more \in Seq(Seq(Byte)) /\ Len(more) = k + 1 /\ more[k + 1] = stale
        /\ \A i \in 1 .. k : more[i] = extra[i]
    OBVIOUS
  <1> HIDE DEF more
  <1>6. \A i \in 1 .. k + 1 : d[i] = c[i] /\ Message(more, i) = Message(extra, i)
    <2> SUFFICES ASSUME NEW i \in 1 .. k + 1
                 PROVE  d[i] = c[i] /\ Message(more, i) = Message(extra, i)
      OBVIOUS
    <2>1. i # 1 => i - 1 \in 1 .. k
      BY <1>1
    <2>2. i # 1 => more[i - 1] = extra[i - 1]
      BY <1>5, <2>1
    <2>3. i \in 1 .. Len(more) + 1
      BY <1>1, <1>5
    <2> QED
      BY <2>2, <2>3 DEF Arriving, Message
  <1>7. d[k + 2] = data
    <2>1. k + 2 \in 1 .. Len(more) + 1 /\ k + 2 # 1 /\ (k + 2) - 1 = k + 1
      BY <1>1, <1>5
    <2>2. d[k + 2] = Content(Sender, sent[k + 1][1], sent[k + 1][2] \o more[k + 1])
      BY <2>1 DEF Arriving
    <2> QED
      BY <1>5, <2>2
  <1> HIDE DEF c, d, data, type, fields
  <1>8. /\ got \in Seq(Messages) /\ g \in Nat /\ g <= k + 1
        /\ \A i \in 1 .. g : got[i] = Message(extra, i)
        /\ \A i \in 1 .. k + 1 : c[i] \in Parcel
        /\ Awaited(toReceiver, client.need, client.length, c, g, k + 1)
    BY DEF Understands, c
  <1> HIDE DEF k, g
  <1>9. \A i \in 1 .. k + 2 : d[i] \in Parcel
    <2> SUFFICES ASSUME NEW i \in 1 .. k + 2 PROVE d[i] \in Parcel
      OBVIOUS
    <2>1. i \in 1 .. k + 1 \/ i = k + 2
      BY <1>1
    <2> QED
      BY <1>4, <1>6, <1>7, <1>8, <2>1
  <1>10. Awaited(toReceiver, client.need, client.length, d, g, k + 1)
    <2>1. \A i \in g + 1 .. k + 1 : d[i] = c[i]
      BY <1>1, <1>6, <1>8
    <2> QED
      BY <1>1, <1>8, <2>1, AwaitedSame
  <1>11. Awaited(toReceiver \o Sized(d[k + 2]), client.need, client.length, d, g, k + 2)
    <2>1. \A i \in g + 1 .. (k + 1) + 1 : d[i] \in Parcel
      BY <1>1, <1>8, <1>9
    <2>2. k + 1 \in Nat /\ (k + 1) + 1 = k + 2
      BY <1>1
    <2>3. Awaited(toReceiver \o Sized(d[(k + 1) + 1]), client.need, client.length, d, g,
                  (k + 1) + 1)
      BY <1>8, <1>10, <2>1, <2>2, AwaitedAppend
    <2> QED
      BY <2>2, <2>3
  <1>12. \A i \in 1 .. g : got[i] = Message(more, i)
    BY <1>1, <1>6, <1>8
  <1>13. /\ Arriving(more)' = d
         /\ \A i \in 1 .. g : Message(more, i)' = Message(more, i)
    BY DEF Arriving, Message, d
  <1>14. Len(more) + 1 = k + 2
    BY <1>1, <1>5
  <1>15. Understands(more)'
    <2>1. g' = g /\ g <= k + 2
      BY <1>1, <1>8 DEF g
    <2> QED
      BY <1>4, <1>7, <1>8, <1>9, <1>11, <1>12, <1>13, <1>14, <2>1 DEF Understands, g
  <1> QED
    BY <1>15 DEF more

(* The server relays a packet: of those it has not, the first is its.      *)
LEMMA ServerDataStep ==
    ASSUME IInv, ServerData
    PROVE  IInv'
  <1>1. /\ TypeOK /\ sent \in Seq(Fields) /\ toServer \in Seq(Byte)
        /\ session.data \in Seq(Byte)
        /\ session \in [need : Next2Read, length : 0 .. MaxNumber, data : Seq(Byte)]
        /\ \A i \in 1 .. Len(sent) : Leaving[i] \in Parcel
        /\ Len(sent) \in Nat
    BY DEF IInv, TypeOK
  <1>2. PICK extra \in Seq(Seq(Byte)) :
          Relays(Len(extra)) /\ (Intact => Understands(extra))
    BY DEF IInv
  <1> DEFINE k == Len(extra)
             n == Len(sent)
             c == Leaving
             length == session.length - 2
             data == First(toServer, length) \o Rest(session.data, length)
             names == {m.val : m \in ReadString(data, 1)}
             packet == Envelope2(Sender, data, StringSize(receiver))
             kind == sent[k + 1][1]
             items == sent[k + 1][2]
  <1>3. /\ session.need = "data" /\ toServer' = Rest(toServer, length)
        /\ session' = [session EXCEPT !.data = data,
                         !.need = IF names = {} THEN "down" ELSE "header"]
        /\ receiver \in names =>
             \E part \in Written(packet) :
                /\ toReceiver' = toReceiver \o part
                /\ oversized' = (oversized \/ Len(packet) > MaxNumber)
                /\ torn' = (torn \/ part # packet)
        /\ UNCHANGED <<receiver, players, sent, client, got>>
    BY DEF ServerData
  <1>4. /\ k \in Nat /\ k < n /\ length = Len(c[k + 1])
        /\ \E rest \in Seq(Byte) : toServer = c[k + 1] \o rest /\ Framed(rest, c, k + 1, n)
    <2>1. k \in Nat
      OBVIOUS
    <2>2. Awaited(toServer, session.need, length, c, k, n)
      BY <1>2 DEF Relays
    <2> HIDE DEF k, n, c, length
    <2> QED
      BY <1>3, <2>1, <2>2 DEF Awaited
  <1>5. PICK rest \in Seq(Byte) : toServer = c[k + 1] \o rest /\ Framed(rest, c, k + 1, n)
    BY <1>4
  <1>6. k + 1 \in 1 .. n /\ c[k + 1] \in Parcel /\ sent[k + 1] \in Fields
    <2>1. k + 1 \in 1 .. n
      BY <1>1, <1>4
    <2> QED
      BY <1>1, <2>1
  <1>7. /\ receiver \in Seq(Byte) /\ kind \in 0 .. MaxNumber /\ items \in Seq(Byte)
        /\ Sender \in Seq(Byte)
    BY <1>1, <1>6, Constants DEF TypeOK
  <1>8. c[k + 1] = Content(receiver, kind, items)
    BY <1>6 DEF Leaving
  <1>9. Len(receiver) <= MaxNumber
    <2>1. Len(Content(receiver, kind, items)) <= MaxNumber /\ MaxNumber \in Nat
      BY <1>6, <1>8, Constants DEF Parcel
    <2> HIDE DEF kind, items
    <2>2. Len(Content(receiver, kind, items)) = Len(receiver) + 2 + 2 + Len(items)
      BY <1>7, ContentBytes DEF StringSize
    <2>3. Len(receiver) \in Nat /\ Len(items) \in Nat
      BY <1>7
    <2> QED
      BY <2>1, <2>2, <2>3
  <1>10. /\ First(toServer, length) = c[k + 1] /\ Rest(toServer, length) = rest
         /\ length \in Nat /\ Rest(session.data, length) \in Seq(Byte)
    <2> DEFINE one == c[k + 1]
    <2>1. one \in Seq(Byte) /\ length = Len(one) /\ toServer = one \o rest
      BY <1>4, <1>5, <1>6 DEF Parcel
    <2> HIDE DEF one, length
    <2>2. First(toServer, length) = one /\ Rest(toServer, length) = rest /\ length \in Nat
      BY <2>1, FirstRest
    <2>3. Rest(session.data, length) \in Seq(Byte)
      BY <1>1, <2>2, RestBytes
    <2> QED
      BY <2>2, <2>3 DEF one
  <1> HIDE DEF kind, items, c, k, n
  <1>11. PICK stale \in Seq(Byte) : stale = Rest(session.data, length)
    BY <1>10
  <1>12. data = Content(receiver, kind, items) \o stale
    BY <1>8, <1>10, <1>11
  <1> HIDE DEF length
  <1>13. items \o stale \in Seq(Byte) /\ data \in Seq(Byte)
    <2> DEFINE first == Content(receiver, kind, items)
    <2>1. first \in Seq(Byte)
      BY <1>7, ContentBytes
    <2> HIDE DEF first
    <2>2. first \o stale \in Seq(Byte) /\ items \o stale \in Seq(Byte)
      BY <1>7, <1>11, <2>1
    <2> QED
      BY <1>12, <2>2 DEF first
  <1>14. names = {receiver}
    <2>1. IsFor(Content(receiver, kind, items) \o stale, receiver)
      BY <1>7, <1>9, Addressee
    <2> QED
      BY <1>12, <2>1 DEF IsFor
  <1>15. packet = Envelope(Sender, kind, items \o stale) /\ packet \in Seq(Byte)
    <2>1. Envelope2(Sender, Content(receiver, kind, items) \o stale, StringSize(receiver))
            = Envelope(Sender, kind, items \o stale)
      BY <1>7, <1>11, Readdressed
    <2>2. packet = Envelope(Sender, kind, items \o stale)
      BY <1>12, <2>1
    <2> HIDE DEF data
    <2> HIDE DEF packet
    <2> QED
      BY <1>7, <1>13, <2>2, EnvelopeBytes
  <1> HIDE DEF data, names, packet
  <1>16. /\ session'.need = "header"
         /\ session' = [session EXCEPT !.data = data, !.need = "header"]
    BY <1>1, <1>3, <1>14
  <1>17. PICK part \in Written(packet) :
           /\ toReceiver' = toReceiver \o part
           /\ oversized' = (oversized \/ Len(packet) > MaxNumber)
           /\ torn' = (torn \/ part # packet)
    BY <1>3, <1>14
  <1>18. TypeOK'
    <2>1. toReceiver \o part \in Seq(Byte)
      <3>1. part \in Seq(Byte) /\ toReceiver \in Seq(Byte)
        BY <1>1, <1>15, WrittenBytes DEF TypeOK
      <3> QED
        BY <3>1
    <2>2. toServer' \in Seq(Byte)
      BY <1>3, <1>10
    <2>3. session' \in [need : Next2Read, length : 0 .. MaxNumber, data : Seq(Byte)]
      BY <1>1, <1>13, <1>16 DEF Next2Read
    <2>4. oversized' \in BOOLEAN /\ torn' \in BOOLEAN
      BY <1>1, <1>17 DEF TypeOK
    <2> QED
      BY <1>1, <1>3, <1>16, <1>17, <2>1, <2>2, <2>3, <2>4 DEF TypeOK
  <1>19. Leaving' = Leaving
    BY <1>3 DEF Leaving
  <1> DEFINE more == Append(extra, stale)
  <1>20. more \in Seq(Seq(Byte)) /\ Len(more) = k + 1
    BY DEF k
  <1>21. Relays(k + 1)'
    <2>1. k + 1 <= n /\ k + 1 \in Nat
      BY <1>1, <1>4 DEF n
    <2> QED
      BY <1>3, <1>5, <1>10, <1>16, <1>19, <2>1 DEF Relays, Awaited, c, n
  <1>22. Intact' => Understands(more)'
    <2> SUFFICES ASSUME Intact' PROVE Understands(more)'
      OBVIOUS
    <2>1. Intact /\ ~(Len(packet) > MaxNumber) /\ part = packet
      BY <1>17 DEF Intact
    <2>2. Len(packet) <= MaxNumber
      <3>1. Len(packet) \in Nat
        BY <1>15
      <3> QED
        BY <2>1, <3>1, Constants
    <2>3. Len(Envelope(Sender, kind, items \o stale)) <= MaxNumber
      BY <1>15, <2>2
    <2>4. toReceiver' = toReceiver \o Envelope(Sender, kind, items \o stale)
      BY <1>15, <1>17, <2>1
    <2> HIDE DEF more
    <2>5. Understands(extra) /\ Len(extra) < Len(sent)
      BY <1>2, <1>4, <2>1 DEF k, n
    <2>6. /\ Len(Envelope(Sender, sent[Len(extra) + 1][1],
                           sent[Len(extra) + 1][2] \o stale)) <= MaxNumber
          /\ toReceiver' = toReceiver \o Envelope(Sender, sent[Len(extra) + 1][1],
                                                  sent[Len(extra) + 1][2] \o stale)
      BY <2>3, <2>4 DEF k, kind, items
    <2>7. UNCHANGED <<players, sent, got, client>>
      BY <1>3
    <2> QED
      BY <1>1, <2>5, <2>6, <2>7, UnderstandsMore DEF more
  <1> HIDE DEF more
  <1>23. (\A i \in 1 .. Len(sent) : Leaving[i] \in Parcel)'
    <2>1. sent' = sent
      BY <1>3
    <2> QED
      BY <1>1, <1>19, <2>1
  <1>24. Relays(Len(more))'
    BY <1>20, <1>21
  <1> QED
    BY <1>18, <1>20, <1>22, <1>23, <1>24 DEF IInv

(* A size that is cast is a number that fits, and one that fits stays.     *)
LEMMA Cast ==
    ASSUME NEW n \in Int
    PROVE  Uint16(n) \in 0 .. MaxNumber /\ (n \in 0 .. MaxNumber => Uint16(n) = n)
  <1> DEFINE m == Base * Base
  <1>1. m \in Nat /\ m > 0
    BY BaseAssumption
  <1> HIDE DEF m
  <1>2. n % m \in 0 .. m - 1 /\ (n \in 0 .. m - 1 => n % m = n)
    BY <1>1
  <1> QED
    BY <1>2 DEF Uint16, MaxNumber, m

(* A number that is read is one of two bytes.                              *)
LEMMA NumberFound ==
    ASSUME NEW bytes \in Seq(Byte), NEW n \in ReadNumber(bytes, 1)
    PROVE  n.val \in Int
  <1>1. 1 + 1 <= Len(bytes) /\ n = Result(bytes[1] + Base * bytes[1 + 1], 1 + 2)
    BY DEF ReadNumber
  <1>2. bytes[1] \in Byte /\ bytes[1 + 1] \in Byte
    BY <1>1
  <1>3. bytes[1] \in Int /\ bytes[1 + 1] \in Int /\ Base \in Int
    BY <1>2, BaseAssumption DEF Byte
  <1>4. bytes[1] + Base * bytes[1 + 1] \in Int
    BY <1>3
  <1> QED
    BY <1>1, <1>4 DEF Result

(* The server has relayed what it had: the receiver changes nothing there. *)
LEMMA RelaysKept ==
    ASSUME NEW n, Relays(n), UNCHANGED <<receiver, sent, toServer, session>>
    PROVE  Relays(n)'
  BY DEF Relays, Leaving

(* The receiver reads a size, and waits for as many bytes as come.         *)
LEMMA ClientHeaderStep ==
    ASSUME IInv, ClientHeader
    PROVE  IInv'
  <1>1. /\ TypeOK /\ toReceiver \in Seq(Byte)
        /\ \A i \in 1 .. Len(sent) : Leaving[i] \in Parcel
        /\ client \in [need : Next2Read, length : 0 .. MaxNumber, size : Nat]
    BY DEF IInv, TypeOK
  <1>2. PICK extra \in Seq(Seq(Byte)) :
          Relays(Len(extra)) /\ (Intact => Understands(extra))
    BY DEF IInv
  <1>3. PICK n \in ReadNumber(toReceiver, 1) :
          client' = IF Uint16(n.val - 2) < 2
                    THEN [client EXCEPT !.need = "down", !.length = Uint16(n.val - 2)]
                    ELSE [need |-> "data", length |-> Uint16(n.val - 2),
                          size |-> Uint16(n.val - 2) - 2]
    BY DEF ClientHeader
  <1>4. /\ client.need = "header" /\ toReceiver' = Rest(toReceiver, 2)
        /\ UNCHANGED <<receiver, players, sent, serverVars, got, damage>>
    BY DEF ClientHeader
  <1> DEFINE tail == Uint16(n.val - 2)
  <1>5. tail \in 0 .. MaxNumber /\ MaxNumber \in Nat
    <2>1. n.val - 2 \in Int
      BY <1>1, NumberFound
    <2> QED
      BY <2>1, Cast, Constants
  <1> HIDE DEF tail
  <1>6. TypeOK'
    <2>1. toReceiver' \in Seq(Byte)
      BY <1>1, <1>4, RestBytes
    <2>2. client' = IF tail < 2
                    THEN [client EXCEPT !.need = "down", !.length = tail]
                    ELSE [need |-> "data", length |-> tail, size |-> tail - 2]
      BY <1>3 DEF tail
    <2>3. client' \in [need : Next2Read, length : 0 .. MaxNumber, size : Nat]
      <3>1. CASE tail < 2
        BY <1>1, <1>5, <2>2, <3>1 DEF Next2Read
      <3>2. CASE ~(tail < 2)
        <4>1. tail - 2 \in Nat
          BY <1>5, <3>2
        <4> QED
          BY <1>5, <2>2, <3>2, <4>1 DEF Next2Read
      <3> QED
        BY <3>1, <3>2
    <2> QED
      BY <1>1, <1>4, <2>1, <2>3 DEF TypeOK, serverVars, damage
  <1>7. Relays(Len(extra))'
    BY <1>2, <1>4, RelaysKept DEF serverVars
  <1>8. Intact' => Understands(extra)'
    <2> SUFFICES ASSUME Intact' PROVE Understands(extra)'
      OBVIOUS
    <2> DEFINE g == Len(got)
               k == Len(extra)
               d == Arriving(extra)
    <2>1. Understands(extra) /\ k \in Nat
      BY <1>2, <1>4 DEF damage, Intact
    <2>2. /\ g \in Nat /\ g <= k + 1
          /\ \A i \in g + 1 .. k + 1 : d[i] \in Parcel
          /\ Framed(toReceiver, d, g, k + 1)
      <3>1. /\ g \in Nat /\ g <= k + 1
            /\ \A i \in 1 .. k + 1 : d[i] \in Parcel
            /\ Awaited(toReceiver, client.need, client.length, d, g, k + 1)
        BY <2>1 DEF Understands
      <3> HIDE DEF g, k, d
      <3>2. Framed(toReceiver, d, g, k + 1)
        BY <1>4, <3>1 DEF Awaited
      <3> QED
        BY <2>1, <3>1, <3>2
    <2> HIDE DEF g, k, d
    <2>3. /\ g < k + 1 /\ n.val = Len(d[g + 1]) + 2
          /\ Awaited(Rest(toReceiver, 2), "data", n.val - 2, d, g, k + 1)
      <3>1. k + 1 \in Nat
        BY <2>1
      <3> QED
        BY <2>2, <3>1, HeaderRead
    <2>4. tail = n.val - 2 /\ tail >= 2
      <3>1. g + 1 \in g + 1 .. k + 1
        BY <2>1, <2>2, <2>3
      <3>2. d[g + 1] \in Parcel
        BY <2>2, <3>1
      <3>3. /\ Len(d[g + 1]) \in Nat /\ Len(d[g + 1]) >= 2 /\ Len(d[g + 1]) + 2 <= MaxNumber
        BY <3>2 DEF Parcel
      <3>4. n.val - 2 \in 0 .. MaxNumber /\ n.val - 2 >= 2
        BY <1>5, <2>3, <3>3
      <3> QED
        BY <3>4, Cast DEF tail
    <2>5. client'.need = "data" /\ client'.length = n.val - 2
      <3>1. ~(tail < 2)
        BY <1>5, <2>4
      <3>2. client' = [need |-> "data", length |-> tail, size |-> tail - 2]
        BY <1>3, <3>1 DEF tail
      <3> QED
        BY <2>4, <3>2
    <2>6. Arriving(extra)' = d /\ \A i \in 1 .. g : Message(extra, i)' = Message(extra, i)
      BY <1>4 DEF Arriving, Message, d
    <2>7. Awaited(toReceiver', client'.need, client'.length, d, g, k + 1)
      BY <1>4, <2>3, <2>5
    <2> QED
      BY <1>4, <2>1, <2>6, <2>7 DEF Understands, g, k, d
  <1>9. (\A i \in 1 .. Len(sent) : Leaving[i] \in Parcel)'
    BY <1>1, <1>4 DEF Leaving
  <1> QED
    BY <1>2, <1>6, <1>7, <1>8, <1>9 DEF IInv

(* What is on its way to the receiver is understood as what was sent.      *)
LEMMA ArrivingUnderstood ==
    ASSUME TypeOK, NEW extra \in Seq(Seq(Byte)), Len(extra) <= Len(sent),
           NEW i \in 1 .. Len(extra) + 1, Arriving(extra)[i] \in Parcel
    PROVE  /\ Understood(Arriving(extra)[i]) = {Message(extra, i)}
           /\ Message(extra, i) \in Messages
  <1>1. CASE i = 1
    <2>1. players \in Players
      BY DEF TypeOK
    <2>2. Arriving(extra)[i] = Content(<<>>, SptPlayerList, WritePlayers(players))
      BY <1>1 DEF Arriving
    <2>3. Understood(Arriving(extra)[i]) = {players}
      BY <2>1, <2>2, ListUnderstood
    <2> QED
      BY <1>1, <2>1, <2>3 DEF Message, Messages
  <1>2. CASE i # 1
    <2> DEFINE type == sent[i - 1][1]
               tail == extra[i - 1]
               fields == sent[i - 1][2] \o tail
               data == Arriving(extra)[i]
    <2>1. i - 1 \in 1 .. Len(extra) /\ i - 1 \in 1 .. Len(sent)
      BY <1>2 DEF TypeOK
    <2>2. sent[i - 1] \in Fields /\ tail \in Seq(Byte)
      BY <2>1 DEF TypeOK
    <2>3. sent[i - 1][2] \in Seq(Byte) /\ type \in 0 .. MaxNumber
      BY <2>2, Constants
    <2>4. fields \in Seq(Byte) /\ Sender \in Seq(Byte) /\ Sender # <<>>
      <3> HIDE DEF tail
      <3> QED
        BY <2>2, <2>3, Constants
    <2>5. data = Content(Sender, type, fields)
      BY <1>2 DEF Arriving
    <2>6. Message(extra, i) = <<Sender, type, fields>>
      BY <1>2 DEF Message
    <2> HIDE DEF type, fields, data
    <2>7. Len(Sender) <= MaxNumber
      <3>1. Len(data) <= MaxNumber /\ MaxNumber \in Nat
        BY Constants DEF Parcel, data
      <3>2. Len(data) = Len(Sender) + 2 + 2 + Len(fields)
        BY <2>3, <2>4, <2>5, ContentBytes DEF StringSize
      <3>3. Len(Sender) \in Nat /\ Len(fields) \in Nat
        BY <2>4
      <3> QED
        BY <3>1, <3>2, <3>3
    <2>8. Understood(data) = {<<Sender, type, fields>>}
      BY <2>3, <2>4, <2>5, <2>7, PacketUnderstood
    <2>9. <<Sender, type, fields>> \in Messages
      BY <2>3, <2>4 DEF Messages
    <2> QED
      BY <2>6, <2>8, <2>9 DEF data
  <1> QED
    BY <1>1, <1>2

(* The receiver reads a packet, and understands it.                        *)
LEMMA ClientDataStep ==
    ASSUME IInv, ClientData
    PROVE  IInv'
  <1>1. /\ TypeOK /\ toReceiver \in Seq(Byte)
        /\ \A i \in 1 .. Len(sent) : Leaving[i] \in Parcel
        /\ client \in [need : Next2Read, length : 0 .. MaxNumber, size : Nat]
    BY DEF IInv, TypeOK
  <1>2. PICK extra \in Seq(Seq(Byte)) :
          Relays(Len(extra)) /\ (Intact => Understands(extra))
    BY DEF IInv
  <1> DEFINE seen == Understood(First(toReceiver, client.length))
  <1>3. /\ client.need = "data" /\ toReceiver' = Rest(toReceiver, client.length)
        /\ client' = [client EXCEPT !.need = IF seen = {} THEN "down" ELSE "header"]
        /\ seen # {} => \E packet \in seen : got' = Append(got, packet)
        /\ UNCHANGED <<receiver, players, sent, serverVars, damage>>
    BY DEF ClientData
  <1> HIDE DEF seen
  <1>4. TypeOK'
    <2>1. toReceiver' \in Seq(Byte)
      <3>1. client.length \in Nat
        BY <1>1, Constants
      <3> QED
        BY <1>1, <1>3, <3>1, RestBytes
    <2>2. client' \in [need : Next2Read, length : 0 .. MaxNumber, size : Nat]
      BY <1>1, <1>3 DEF Next2Read
    <2> QED
      BY <1>1, <1>3, <2>1, <2>2 DEF TypeOK, serverVars, damage
  <1>5. Relays(Len(extra))'
    BY <1>2, <1>3, RelaysKept DEF serverVars
  <1>6. Intact' => Understands(extra)'
    <2> SUFFICES ASSUME Intact' PROVE Understands(extra)'
      OBVIOUS
    <2> DEFINE g == Len(got)
               k == Len(extra)
               d == Arriving(extra)
               packet == Message(extra, g + 1)
    <2>1. Understands(extra) /\ k \in Nat /\ k <= Len(sent)
      BY <1>2, <1>3 DEF Relays, damage, Intact
    <2>2. /\ got \in Seq(Messages) /\ g \in Nat /\ g <= k + 1
          /\ \A i \in 1 .. g : got[i] = Message(extra, i)
          /\ \A i \in 1 .. k + 1 : d[i] \in Parcel
          /\ Awaited(toReceiver, client.need, client.length, d, g, k + 1)
      BY <2>1 DEF Understands
    <2> HIDE DEF g, k, d
    <2>3. PICK rest \in Seq(Byte) :
            toReceiver = d[g + 1] \o rest /\ Framed(rest, d, g + 1, k + 1)
      BY <1>3, <2>2 DEF Awaited
    <2>4. g < k + 1 /\ client.length = Len(d[g + 1])
      BY <1>3, <2>2 DEF Awaited
    <2>5. g + 1 \in 1 .. k + 1 /\ d[g + 1] \in Parcel
      <3>1. g + 1 \in 1 .. k + 1
        BY <2>1, <2>2, <2>4
      <3> QED
        BY <2>2, <3>1
    <2>6. First(toReceiver, client.length) = d[g + 1] /\ toReceiver' = rest
      <3> DEFINE one == d[g + 1]
      <3>1. one \in Seq(Byte) /\ client.length = Len(one) /\ toReceiver = one \o rest
        BY <2>3, <2>4, <2>5 DEF Parcel
      <3> HIDE DEF one
      <3>2. First(toReceiver, client.length) = one /\ Rest(toReceiver, client.length) = rest
        BY <3>1, FirstRest
      <3> QED
        BY <1>3, <3>2 DEF one
    <2>7. seen = {packet} /\ packet \in Messages
      <3>1. g + 1 \in 1 .. Len(extra) + 1 /\ Arriving(extra)[g + 1] \in Parcel
        BY <2>5 DEF k, d
      <3>2. Understood(d[g + 1]) = {packet} /\ packet \in Messages
        BY <1>1, <2>1, <3>1, ArrivingUnderstood DEF k, d
      <3> QED
        BY <2>6, <3>2 DEF seen
    <2> HIDE DEF packet
    <2>8. got' = Append(got, packet) /\ client'.need = "header"
      BY <1>1, <1>3, <2>7
    <2>9. /\ got' \in Seq(Messages) /\ Len(got') = g + 1 /\ got'[g + 1] = packet
          /\ \A i \in 1 .. g : got'[i] = got[i]
      <3> DEFINE S == Messages
      <3>1. got \in Seq(S) /\ packet \in S
        BY <2>2, <2>7
      <3> HIDE DEF S
      <3>2. /\ Append(got, packet) \in Seq(S) /\ Len(Append(got, packet)) = Len(got) + 1
            /\ Append(got, packet)[Len(got) + 1] = packet
            /\ \A i \in 1 .. Len(got) : Append(got, packet)[i] = got[i]
        BY <3>1
      <3> QED
        BY <2>8, <3>2 DEF S, g
    <2>10. /\ Arriving(extra)' = d /\ Messages' = Messages
           /\ \A i \in 1 .. g + 1 : Message(extra, i)' = Message(extra, i)
      BY <1>3 DEF Arriving, Message, Messages, d
    <2>11. \A i \in 1 .. g + 1 : got'[i] = Message(extra, i)
      <3> SUFFICES ASSUME NEW i \in 1 .. g + 1 PROVE got'[i] = Message(extra, i)
        OBVIOUS
      <3>1. i \in 1 .. g \/ i = g + 1
        BY <2>2
      <3> QED
        BY <2>2, <2>9, <3>1 DEF packet
    <2>12. Awaited(toReceiver', client'.need, client'.length, d, g + 1, k + 1)
      BY <2>3, <2>6, <2>8 DEF Awaited
    <2>13. g + 1 <= k + 1
      BY <2>5
    <2> QED
      BY <2>2, <2>9, <2>10, <2>11, <2>12, <2>13 DEF Understands, k, d
  <1>7. (\A i \in 1 .. Len(sent) : Leaving[i] \in Parcel)'
    BY <1>1, <1>3 DEF Leaving
  <1> QED
    BY <1>2, <1>4, <1>5, <1>6, <1>7 DEF IInv

(* Every step keeps the inductive invariant.                               *)
LEMMA NextIInv ==
    ASSUME IInv, [Next]_vars
    PROVE  IInv'
  <1>1. ASSUME NEW f \in Fields, SendPacket(f) PROVE IInv'
    BY <1>1, SendStep
  <1>2. CASE ServerHeader
    BY <1>2, ServerHeaderStep
  <1>3. CASE ServerData
    BY <1>3, ServerDataStep
  <1>4. CASE ClientHeader
    BY <1>4, ClientHeaderStep
  <1>5. CASE ClientData
    BY <1>5, ClientDataStep
  <1>6. CASE UNCHANGED vars
    <2>1. PICK extra \in Seq(Seq(Byte)) :
            Relays(Len(extra)) /\ (Intact => Understands(extra))
      BY DEF IInv
    <2>2. /\ UNCHANGED <<receiver, players, sent, toServer, session>>
          /\ UNCHANGED <<toReceiver, client, got, oversized, torn>>
      BY <1>6 DEF vars, serverVars, clientVars, damage
    <2>3. TypeOK'
      BY <2>2 DEF IInv, TypeOK
    <2>4. (\A i \in 1 .. Len(sent) : Leaving[i] \in Parcel)'
      BY <2>2 DEF IInv, Leaving
    <2>5. Relays(Len(extra))'
      BY <2>1, <2>2, RelaysKept
    <2>6. Intact' => Understands(extra)'
      BY <2>1, <2>2 DEF Intact, Understands, Arriving, Message, Messages
    <2> QED
      BY <2>1, <2>3, <2>4, <2>5, <2>6 DEF IInv
  <1> QED
    BY <1>1, <1>2, <1>3, <1>4, <1>5, <1>6 DEF Next

(* The inductive invariant holds in every reachable state.                 *)
LEMMA AlwaysIInv == Spec => []IInv
  <1>1. IInv /\ [Next]_vars => IInv'
    BY NextIInv
  <1> QED
    BY InitIInv, <1>1, PTL DEF Spec

-----------------------------------------------------------------------------
(* The sessions and the client stay what they are declared as: m_dataLength *)
(* is a uint16_t, and the buffers hold bytes.                               *)
THEOREM StreamTypeCorrect == Spec => []TypeOK
  <1>1. IInv => TypeOK
    BY DEF IInv
  <1> QED
    BY AlwaysIInv, <1>1, PTL

(* No read of the server's session throws (doReadPacketHeader,             *)
(* readPacketData), whatever names and fields are sent; nor does one of    *)
(* the receiver, or refuse to go on (onReadPacketHeader), as long as the   *)
(* server's async_send has sent whole packets and each fits its size.      *)
THEOREM NothingThrownHolds == Spec => []NothingThrown
  <1>1. IInv => NothingThrown
    <2> SUFFICES ASSUME IInv
                 PROVE  session.need # "down" /\ (Intact => client.need # "down")
      BY DEF NothingThrown
    <2>1. PICK extra \in Seq(Seq(Byte)) :
            Relays(Len(extra)) /\ (Intact => Understands(extra))
      BY DEF IInv
    <2>2. session.need = "header" \/ session.need = "data"
      BY <2>1 DEF Relays, Awaited
    <2>3. Intact => client.need = "header" \/ client.need = "data"
      BY <2>1 DEF Understands, Awaited
    <2> QED
      BY <2>2, <2>3
  <1> QED
    BY AlwaysIInv, <1>1, PTL

(* onPacketReceived of the receiver is given the list as it was written,   *)
(* then each packet under its sender's name with its type and its fields,  *)
(* in the order they were sent, though the server sends on more than that, *)
(* as long as it has sent whole packets and each fits its size.            *)
THEOREM RelayFaithfulHolds == Spec => []RelayFaithful
  <1>1. IInv => RelayFaithful
    <2> SUFFICES ASSUME IInv, Intact, NEW i \in DOMAIN got
                 PROVE  IF i = 1 THEN got[i] = players
                        ELSE /\ got[i][1] = Sender
                             /\ got[i][2] = sent[i - 1][1]
                             /\ IsPrefix(sent[i - 1][2], got[i][3])
      BY DEF RelayFaithful
    <2>1. PICK extra \in Seq(Seq(Byte)) : Relays(Len(extra)) /\ Understands(extra)
      BY DEF IInv
    <2>2. i \in 1 .. Len(got) /\ got[i] = Message(extra, i)
      BY <2>1 DEF Understands
    <2>3. CASE i = 1
      BY <2>2, <2>3 DEF Message
    <2>4. CASE i # 1
      <3> DEFINE fields == sent[i - 1][2]
                 tail == extra[i - 1]
      <3>1. i - 1 \in 1 .. Len(extra) /\ i - 1 \in 1 .. Len(sent)
        <4>1. /\ Len(got) \in Nat /\ Len(got) <= Len(extra) + 1
              /\ Len(extra) \in Nat /\ Len(extra) <= Len(sent)
          BY <2>1 DEF Understands, Relays
        <4>2. Len(sent) \in Nat
          BY DEF IInv, TypeOK
        <4> QED
          BY <2>2, <2>4, <4>1, <4>2
      <3>2. fields \in Seq(Byte) /\ tail \in Seq(Byte)
        <4>1. sent[i - 1] \in Fields /\ tail \in Seq(Byte)
          BY <3>1 DEF IInv, TypeOK
        <4> QED
          BY <4>1, Constants
      <3>3. got[i] = <<Sender, sent[i - 1][1], fields \o tail>>
        BY <2>2, <2>4 DEF Message
      <3> HIDE DEF fields, tail
      <3>4. IsPrefix(fields, fields \o tail)
        BY <3>2 DEF IsPrefix
      <3> QED
        BY <2>4, <3>3, <3>4 DEF fields
    <2> QED
      BY <2>3, <2>4
  <1> QED
    BY AlwaysIInv, <1>1, PTL

-----------------------------------------------------------------------------
(***************************************************************************)
(* The channel.  As long as the stream is intact, what has been received   *)
(* is the first part of what was entrusted, so that a step can only add to *)
(* the one or to the other.                                                *)
(***************************************************************************)
(* The bytes put behind a packet's fields are what is left out of it.      *)
LEMMA FieldsFirst ==
    ASSUME NEW a \in Seq(Byte), NEW b \in Seq(Byte)
    PROVE  First(a \o b, Len(a)) = a
  BY DEF First

(* What is sent is entrusted behind the list.                              *)
LEMMA EntrustedSeq ==
    ASSUME TypeOK
    PROVE  /\ Entrusted \in Seq(Messages) /\ Len(Entrusted) = Len(sent) + 1
           /\ Entrusted[1] = players
           /\ \A i \in 1 .. Len(sent) : Entrusted[i + 1] = <<Sender, sent[i][1], sent[i][2]>>
  <1> DEFINE packets == [i \in DOMAIN sent |-> <<Sender, sent[i][1], sent[i][2]>>]
  <1>1. sent \in Seq(Fields) /\ Len(sent) \in Nat /\ players \in Messages
    BY DEF TypeOK, Messages
  <1>2. ASSUME NEW i \in DOMAIN sent
        PROVE  <<Sender, sent[i][1], sent[i][2]>> \in Messages
    <2>1. sent[i] \in Fields
      BY <1>1
    <2> QED
      BY <2>1, Constants DEF Messages
  <1>3. packets \in Seq(Messages) /\ Len(packets) = Len(sent)
    BY <1>1, <1>2
  <1>4. \A i \in 1 .. Len(sent) : packets[i] = <<Sender, sent[i][1], sent[i][2]>>
    BY <1>1
  <1>5. Entrusted = <<players>> \o packets
    BY DEF Entrusted
  <1> HIDE DEF packets
  <1>6. <<players>> \in Seq(Messages) /\ Len(<<players>>) = 1
    BY <1>1
  <1> QED
    BY <1>1, <1>3, <1>4, <1>5, <1>6

(* What has been received is the beginning of it.                          *)
LEMMA ReceivedFirst ==
    ASSUME IInv, Intact
    PROVE  /\ got \in Seq(Messages) /\ Len(got) <= Len(Entrusted)
           /\ Received = SubSeq(Entrusted, 1, Len(got))
  <1>1. PICK extra \in Seq(Seq(Byte)) : Relays(Len(extra)) /\ Understands(extra)
    BY DEF IInv
  <1>2. /\ Len(got) \in Nat /\ Len(got) <= Len(extra) + 1 /\ got \in Seq(Messages)
        /\ Len(extra) \in Nat /\ Len(extra) <= Len(sent) /\ Len(sent) \in Nat
    BY <1>1 DEF Understands, Relays, IInv, TypeOK
  <1>3. Len(Entrusted) = Len(sent) + 1 /\ Entrusted \in Seq(Messages)
    BY EntrustedSeq DEF IInv
  <1>4. ASSUME NEW i \in 1 .. Len(got)
        PROVE  Received[i] = Entrusted[i]
    <2>1. got[i] = Message(extra, i)
      BY <1>1 DEF Understands
    <2>2. Received[i] = IF i = 1 THEN got[i]
                        ELSE <<got[i][1], got[i][2], First(got[i][3], Len(sent[i - 1][2]))>>
      <3>1. i \in DOMAIN got
        BY <1>2
      <3> QED
        BY <3>1, Zenon DEF Received
    <2>3. CASE i = 1
      BY <2>1, <2>2, <2>3, EntrustedSeq DEF Message, IInv
    <2>4. CASE i # 1
      <3> DEFINE fields == sent[i - 1][2]
                 tail == extra[i - 1]
      <3>1. i - 1 \in 1 .. Len(extra) /\ i - 1 \in 1 .. Len(sent) /\ (i - 1) + 1 = i
        BY <1>2, <2>4
      <3>2. fields \in Seq(Byte) /\ tail \in Seq(Byte)
        <4>1. sent[i - 1] \in Fields /\ tail \in Seq(Byte)
          BY <3>1 DEF IInv, TypeOK
        <4> QED
          BY <4>1, Constants
      <3>3. Entrusted[i] = <<Sender, sent[i - 1][1], fields>>
        <4>1. Entrusted[(i - 1) + 1] = <<Sender, sent[i - 1][1], sent[i - 1][2]>>
          BY <3>1, EntrustedSeq DEF IInv
        <4> QED
          BY <3>1, <4>1
      <3>4. got[i] = <<Sender, sent[i - 1][1], fields \o tail>>
        BY <2>1, <2>4 DEF Message
      <3>5. First(fields \o tail, Len(fields)) = fields
        BY <3>2, FieldsFirst
      <3>6. Received[i] = <<got[i][1], got[i][2], First(got[i][3], Len(fields))>>
        BY <2>2, <2>4
      <3> HIDE DEF fields, tail
      <3> QED
        BY <3>3, <3>4, <3>5, <3>6
    <2> QED
      BY <2>3, <2>4
  <1>5. DOMAIN Received = 1 .. Len(got) /\ Received = [i \in 1 .. Len(got) |-> Received[i]]
    BY <1>2 DEF Received
  <1> DEFINE first == SubSeq(Entrusted, 1, Len(got))
  <1>6. first = [i \in 1 .. Len(got) |-> Entrusted[i]]
    BY <1>2, <1>3
  <1> QED
    BY <1>2, <1>3, <1>4, <1>5, <1>6

(* One more message received is the next of those entrusted.               *)
LEMMA NextReceived ==
    ASSUME NEW S, NEW all \in Seq(S), NEW n \in Nat, n + 1 <= Len(all)
    PROVE  SubSeq(all, 1, n + 1) = Append(SubSeq(all, 1, n), all[n + 1])
  OBVIOUS

(* The same of the state after a step.                                     *)
LEMMA ReceivedNext ==
    (IInv /\ Intact)' => (/\ got \in Seq(Messages) /\ Len(got) <= Len(Entrusted)
                          /\ Received = SubSeq(Entrusted, 1, Len(got)))'
  <1>1. IInv /\ Intact => /\ got \in Seq(Messages) /\ Len(got) <= Len(Entrusted)
                          /\ Received = SubSeq(Entrusted, 1, Len(got))
    BY ReceivedFirst
  <1> QED
    BY <1>1, PTL

(* The beginning of what was entrusted stays when more is.                 *)
LEMMA FirstOfMore ==
    ASSUME NEW S, NEW all \in Seq(S), NEW x \in S, NEW n \in 0 .. Len(all)
    PROVE  SubSeq(Append(all, x), 1, n) = SubSeq(all, 1, n)
  OBVIOUS

(* A packet sent is one more entrusted.                                    *)
LEMMA EntrustedMore ==
    ASSUME TypeOK, NEW f \in Fields, sent' = Append(sent, f), players' = players
    PROVE  Entrusted' = Append(Entrusted, <<Sender, f[1], f[2]>>)
  <1> DEFINE Packets(s) == [i \in DOMAIN s |-> <<Sender, s[i][1], s[i][2]>>]
             packet == <<Sender, f[1], f[2]>>
  <1>1. sent \in Seq(Fields) /\ players \in Messages
    BY DEF TypeOK, Messages
  <1>2. packet \in Messages
    BY Constants DEF Messages
  <1>3. Packets(sent) \in Seq(Messages)
    <2>1. ASSUME NEW i \in DOMAIN sent PROVE <<Sender, sent[i][1], sent[i][2]>> \in Messages
      <3>1. sent[i] \in Fields
        BY <1>1
      <3> QED
        BY <3>1, Constants DEF Messages
    <2> QED
      BY <1>1, <2>1
  <1>4. Packets(Append(sent, f)) = Append(Packets(sent), packet)
    <2> DEFINE more == Append(sent, f)
               n == Len(sent)
    <2>1. /\ n \in Nat /\ DOMAIN sent = 1 .. n /\ DOMAIN more = 1 .. n + 1 /\ more[n + 1] = f
          /\ \A i \in 1 .. n : more[i] = sent[i]
      BY <1>1
    <2>2. DOMAIN Packets(sent) = 1 .. n /\ Len(Packets(sent)) = n
      BY <2>1
    <2>3. Append(Packets(sent), packet) =
            [i \in 1 .. n + 1 |-> IF i = n + 1 THEN packet ELSE Packets(sent)[i]]
      BY <1>2, <1>3, <2>2
    <2>4. \A i \in 1 .. n + 1 :
            <<Sender, more[i][1], more[i][2]>> = IF i = n + 1 THEN packet ELSE Packets(sent)[i]
      BY <2>1
    <2> QED
      BY <2>1, <2>3, <2>4
  <1>5. Entrusted = <<players>> \o Packets(sent)
    BY DEF Entrusted
  <1>6. Entrusted' = <<players>> \o Packets(Append(sent, f))
    BY DEF Entrusted
  <1> HIDE DEF Packets, packet
  <1>7. <<players>> \o Append(Packets(sent), packet) = Append(<<players>> \o Packets(sent), packet)
    BY <1>1, <1>2, <1>3
  <1> QED
    BY <1>4, <1>5, <1>6, <1>7 DEF packet

(* Every step is one of the channel, or none.                              *)
LEMMA ChannelStep ==
    ASSUME IInv, IInv', [Next]_vars
    PROVE  [Channel!CNext]_(Channel!cvars)
  <1>0. Intact \in BOOLEAN /\ Intact' \in BOOLEAN
    BY DEF Intact
  <1>1. CASE Intact = FALSE /\ Intact' = FALSE
    BY <1>1 DEF Channel!cvars
  <1>2. CASE Intact = TRUE /\ Intact' = FALSE
    BY <1>2 DEF Channel!CNext, Channel!Break
  <1>3. CASE Intact = FALSE /\ Intact' = TRUE
    <2>1. (oversized => oversized') /\ (torn => torn')
      <3>1. CASE UNCHANGED damage
        BY <3>1 DEF damage
      <3>2. CASE ServerData
        BY <3>2, Zenon DEF ServerData, damage
      <3> QED
        BY <3>1, <3>2 DEF Next, SendPacket, ServerHeader, ClientHeader, ClientData, vars
    <2> QED
      BY <1>3, <2>1 DEF Intact
  <1>4. CASE Intact = TRUE /\ Intact' = TRUE
    <2>0. Intact = TRUE /\ Intact' = TRUE
      BY <1>4
    <2>1. /\ got \in Seq(Messages) /\ Len(got) \in Nat /\ Len(got) <= Len(Entrusted)
          /\ Received = SubSeq(Entrusted, 1, Len(got))
      BY <1>4, ReceivedFirst
    <2>2. /\ Len(got') <= Len(Entrusted')
          /\ Received' = SubSeq(Entrusted', 1, Len(got'))
      BY <1>4, ReceivedNext
    <2>3. Entrusted \in Seq(Messages) /\ Len(Entrusted) \in Nat
      BY EntrustedSeq DEF IInv
    <2>4. UNCHANGED <<players, sent, got>> => UNCHANGED Channel!cvars
      <3> SUFFICES ASSUME UNCHANGED <<players, sent, got>> PROVE UNCHANGED Channel!cvars
        OBVIOUS
      <3>1. Entrusted' = Entrusted
        BY DEF Entrusted
      <3>2. Received' = Received
        BY DEF Received
      <3> QED
        BY <2>0, <3>1, <3>2 DEF Channel!cvars
    <2>5. ASSUME NEW f \in Fields, SendPacket(f)
          PROVE  Channel!CNext
      <3> DEFINE packet == <<Sender, f[1], f[2]>>
      <3>1. sent' = Append(sent, f) /\ players' = players /\ got' = got
        BY <2>5 DEF SendPacket, clientVars
      <3>2. Entrusted' = Append(Entrusted, packet)
        BY <3>1, EntrustedMore DEF IInv
      <3>3. packet \in Messages
        BY Constants DEF Messages
      <3> HIDE DEF packet
      <3>4. SubSeq(Append(Entrusted, packet), 1, Len(got)) = SubSeq(Entrusted, 1, Len(got))
        BY <2>1, <2>3, <3>3, FirstOfMore
      <3>5. Received' = Received
        BY <2>1, <2>2, <3>1, <3>2, <3>4
      <3>6. Channel!Send(packet)
        BY <2>0, <3>2, <3>5 DEF Channel!Send
      <3>7. packet \in {<<Sender, g[1], g[2]>> : g \in Fields}
        BY DEF packet
      <3> QED
        BY <3>6, <3>7, Zenon DEF Channel!CNext
    <2>6. CASE ClientData
      <3> DEFINE n == Len(got)
      <3>1. sent' = sent /\ players' = players
        BY <2>6 DEF ClientData
      <3>2. got' = got \/ \E packet : got' = Append(got, packet)
        BY <2>6 DEF ClientData
      <3>3. CASE got' = got
        BY <2>4, <3>1, <3>3
      <3>4. CASE \E packet : got' = Append(got, packet)
        <4>1. Len(got') = n + 1
          BY <2>1, <3>4
        <4>2. Entrusted' = Entrusted
          BY <3>1 DEF Entrusted
        <4>3. n \in Nat /\ n + 1 <= Len(Entrusted)
          BY <2>1, <2>2, <4>1, <4>2
        <4> HIDE DEF n
        <4>4. Received' = SubSeq(Entrusted, 1, n + 1)
          BY <2>2, <4>1, <4>2
        <4>5. Received = SubSeq(Entrusted, 1, n)
          BY <2>1 DEF n
        <4>6. Received' = Append(Received, Entrusted[n + 1])
          BY <2>3, <4>3, <4>4, <4>5, NextReceived
        <4>7. Len(Received) = n
          BY <2>3, <4>3, <4>5
        <4>8. Channel!Deliver
          <5>1. Len(Received) < Len(Entrusted) /\ Received' = Append(Received, Entrusted[Len(Received) + 1])
            BY <2>3, <4>3, <4>6, <4>7
          <5> QED
            BY <2>0, <4>2, <5>1 DEF Channel!Deliver
        <4> QED
          BY <4>8 DEF Channel!CNext
      <3> QED
        BY <3>2, <3>3, <3>4
    <2> QED
      BY <2>4, <2>5, <2>6
      DEF Next, ServerHeader, ServerData, ClientHeader, vars, serverVars, clientVars
  <1> QED
    BY <1>0, <1>1, <1>2, <1>3, <1>4

(* SendPacket, doReadPacketHeader, readPacketData and the reads of the     *)
(* receiver make a first-in first-out channel of the two streams of bytes, *)
(* which only a packet sent in part or too large to be relayed can break.  *)
THEOREM ChannelRefined == Spec => ChannelSpec
  <1>1. Init => Channel!CInit
    <2> SUFFICES ASSUME Init PROVE Channel!CInit
      OBVIOUS
    <2>1. players \in Players /\ sent = <<>> /\ got = <<>>
      BY DEF Init
    <2> DEFINE none == [i \in DOMAIN sent |-> <<Sender, sent[i][1], sent[i][2]>>]
    <2>2. none = <<>>
      BY <2>1
    <2>3. Entrusted = <<players>> \o none
      BY DEF Entrusted
    <2> HIDE DEF none
    <2>4. Entrusted = <<players>>
      BY <2>2, <2>3
    <2>5. Received = <<>>
      BY <2>1 DEF Received
    <2>6. Intact \in BOOLEAN
      BY DEF Intact
    <2>7. CASE Intact = TRUE
      BY <2>1, <2>4, <2>5, <2>7 DEF Channel!CInit
    <2>8. CASE Intact = FALSE
      BY <2>8 DEF Channel!CInit
    <2> QED
      BY <2>6, <2>7, <2>8
  <1>2. IInv /\ IInv' /\ [Next]_vars => [Channel!CNext]_(Channel!cvars)
    BY ChannelStep
  <1> QED
    BY <1>1, <1>2, AlwaysIInv, PTL DEF Spec, ChannelSpec, Channel!CSpec
=============================================================================
