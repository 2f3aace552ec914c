------------------------- MODULE PacketCodecProofs -------------------------
(***************************************************************************)
(* Proofs about PacketCodec: PacketReader finds what PacketWriter wrote,   *)
(* and a packet relayed under another name is otherwise the packet sent.   *)
(***************************************************************************)
EXTENDS PacketCodec, SequenceTheorems, NumberInduction, TLAPS

(* The length of a concatenation.                                          *)
LEMMA Lengths ==
    ASSUME NEW S, NEW a \in Seq(S), NEW b \in Seq(S)
    PROVE  a \o b \in Seq(S) /\ Len(a \o b) = Len(a) + Len(b)
  OBVIOUS

(* Where the elements of three sequences are in their concatenation.       *)
LEMMA Parts ==
    ASSUME NEW S, NEW a \in Seq(S), NEW b \in Seq(S), NEW c \in Seq(S)
    PROVE  /\ a \o b \o c \in Seq(S)
           /\ Len(a \o b \o c) = Len(a) + Len(b) + Len(c)
           /\ \A i \in 1 .. Len(b) : (a \o b \o c)[Len(a) + i] = b[i]
           /\ \A i \in 1 .. Len(c) : (a \o b \o c)[Len(a) + Len(b) + i] = c[i]
           /\ a \o b \o c = a \o (b \o c)
  <1>1. a \o b \in Seq(S) /\ Len(a \o b) = Len(a) + Len(b)
    OBVIOUS
  <1>2. \A i \in 1 .. Len(b) : (a \o b)[Len(a) + i] = b[i]
    OBVIOUS
  <1>3. \A i \in 1 .. Len(a \o b) : (a \o b \o c)[i] = (a \o b)[i]
    BY <1>1
  <1>4. \A i \in 1 .. Len(c) : (a \o b \o c)[Len(a \o b) + i] = c[i]
    BY <1>1
  <1> QED
    BY <1>1, <1>2, <1>3, <1>4

(* The middle part of three is found between its two ends.                 *)
LEMMA Middle ==
    ASSUME NEW S, NEW a \in Seq(S), NEW b \in Seq(S), NEW c \in Seq(S)
    PROVE  SubSeq(a \o b \o c, Len(a) + 1, Len(a) + Len(b)) = b
  <1> DEFINE abc == a \o b \o c
             mid == SubSeq(abc, Len(a) + 1, Len(a) + Len(b))
  <1>1. /\ abc \in Seq(S)
        /\ Len(abc) = Len(a) + Len(b) + Len(c)
        /\ \A i \in 1 .. Len(b) : abc[Len(a) + i] = b[i]
    BY Parts
  <1>2. Len(a) \in Nat /\ Len(b) \in Nat /\ Len(c) \in Nat
    OBVIOUS
  <1> HIDE DEF abc
  <1>3. \A i \in Len(a) + 1 .. Len(a) + Len(b) : abc[i] \in S
    BY <1>1, <1>2
  <1>4. /\ mid \in Seq(S)
        /\ Len(mid) = Len(b)
        /\ \A i \in 1 .. Len(b) : mid[i] = abc[Len(a) + i]
    BY <1>1, <1>2, <1>3, SubSeqProperties
  <1> HIDE DEF mid
  <1>5. mid = b
    BY <1>1, <1>4
  <1> QED
    BY <1>5 DEF mid, abc

(* A number of Base * Base values is taken apart into two bytes.           *)
LEMMA TwoBytes ==
    ASSUME NEW n \in 0 .. MaxNumber
    PROVE  /\ Uint16(n) = n
           /\ n % Base \in Byte
           /\ n \div Base \in Byte
           /\ (n % Base) + Base * (n \div Base) = n
  <1>1. n \in Nat /\ n < Base * Base /\ Base * Base \in Nat
    BY BaseAssumption DEF MaxNumber
  <1>2. Uint16(n) = n
    BY <1>1 DEF Uint16
  <1>3. /\ n % Base \in 0 .. Base - 1
        /\ n \div Base \in Nat
        /\ n = Base * (n \div Base) + (n % Base)
    BY <1>1, BaseAssumption
  <1>4. ASSUME NEW q \in Nat, NEW r \in Nat, n = Base * q + r
        PROVE  q < Base
    <2>1. CASE q >= Base
      <3>1. PICK k \in Nat : q = Base + k
        BY <2>1, BaseAssumption, q - Base \in Nat, q = Base + (q - Base)
      <3>2. Base * q = Base * Base + Base * k
        BY <3>1, BaseAssumption
      <3>3. Base * k \in Nat
        BY BaseAssumption
      <3> QED
        BY <1>1, <1>4, <3>2, <3>3
    <2> QED
      BY <2>1, BaseAssumption
  <1>5. n \div Base < Base
    BY <1>3, <1>4, BaseAssumption
  <1> QED
    BY <1>2, <1>3, <1>5, BaseAssumption DEF Byte

(* What PacketWriter::write( uint16_t ) appends is two bytes.              *)
LEMMA NumberBytes ==
    ASSUME NEW n \in 0 .. MaxNumber
    PROVE  /\ WriteNumber(n) \in Seq(Byte)
           /\ Len(WriteNumber(n)) = 2
           /\ WriteNumber(n)[1] + Base * WriteNumber(n)[2] = n
  BY TwoBytes DEF WriteNumber

(* Wherever a number has been written, that number is read.                *)
THEOREM NumberRead ==
    ASSUME NEW before \in Seq(Byte), NEW after \in Seq(Byte),
           NEW n \in 0 .. MaxNumber
    PROVE  ReadNumber(before \o WriteNumber(n) \o after, Len(before) + 1)
             = {Result(n, Len(before) + 3)}
  <1> DEFINE buf == before \o WriteNumber(n) \o after
             at  == Len(before) + 1
  <1>1. Len(before) \in Nat /\ Len(after) \in Nat
    OBVIOUS
  <1>2. /\ Len(buf) = Len(before) + 2 + Len(after)
        /\ buf[at] = WriteNumber(n)[1]
        /\ buf[at + 1] = WriteNumber(n)[2]
    <2> DEFINE w == WriteNumber(n)
    <2>1. w \in Seq(Byte) /\ buf = before \o w \o after
      BY NumberBytes
    <2>2. Len(w) = 2
      BY NumberBytes
    <2>3. at = Len(before) + 1 /\ at + 1 = Len(before) + 2
      BY <1>1
    <2> HIDE DEF buf, at, w
    <2>4. /\ Len(buf) = Len(before) + Len(w) + Len(after)
          /\ \A i \in 1 .. Len(w) : buf[Len(before) + i] = w[i]
      BY <2>1, Parts
    <2>5. /\ Len(buf) = Len(before) + 2 + Len(after)
          /\ buf[at] = w[1]
          /\ buf[at + 1] = w[2]
      BY <2>2, <2>3, <2>4
    <2> QED
      BY <2>5 DEF w
  <1>3. buf[at] + Base * buf[at + 1] = n
    BY <1>2, NumberBytes
  <1>4. ~(at + 1 > Len(buf)) /\ at + 2 = Len(before) + 3
    BY <1>1, <1>2
  <1> HIDE DEF buf, at
  <1>5. ReadNumber(buf, at) = {Result(n, Len(before) + 3)}
    BY <1>3, <1>4 DEF ReadNumber
  <1> QED
    BY <1>5 DEF buf, at

(* A number that does not fit is written in two bytes all the same.        *)
LEMMA AnyNumberBytes ==
    ASSUME NEW n \in Nat
    PROVE  WriteNumber(n) \in Seq(Byte) /\ Len(WriteNumber(n)) = 2
  <1>1. Base * Base \in Nat /\ Base * Base > 0
    BY BaseAssumption
  <1>2. Uint16(n) \in 0 .. MaxNumber
    BY <1>1 DEF Uint16, MaxNumber
  <1>3. Uint16(Uint16(n)) = Uint16(n)
    BY <1>2, TwoBytes
  <1>4. WriteNumber(n) = WriteNumber(Uint16(n))
    BY <1>3 DEF WriteNumber
  <1> QED
    BY <1>2, <1>4, NumberBytes

(* A string is written in two bytes more than it has.                      *)
LEMMA StringBytes ==
    ASSUME NEW s \in Seq(Byte)
    PROVE  /\ WriteString(s) \in Seq(Byte)
           /\ Len(WriteString(s)) = StringSize(s)
  <1> DEFINE size == WriteNumber(Len(s))
  <1>1. size \in Seq(Byte) /\ Len(size) = 2
    BY AnyNumberBytes
  <1> HIDE DEF size
  <1>2. size \o s \in Seq(Byte) /\ Len(size \o s) = 2 + Len(s)
    BY <1>1, Lengths
  <1> QED
    BY <1>2 DEF WriteString, StringSize, size

(* Wherever a string has been written, that string is read.                *)
THEOREM StringRead ==
    ASSUME NEW before \in Seq(Byte), NEW after \in Seq(Byte),
           NEW s \in Seq(Byte), Len(s) <= MaxNumber
    PROVE  ReadString(before \o WriteString(s) \o after, Len(before) + 1)
             = {Result(s, Len(before) + 1 + StringSize(s))}
  <1> DEFINE size == WriteNumber(Len(s))
             head == before \o size
             buf  == before \o WriteString(s) \o after
  <1>1. Len(s) \in 0 .. MaxNumber
    BY BaseAssumption DEF MaxNumber
  <1>2. size \in Seq(Byte) /\ Len(size) = 2
    BY <1>1, NumberBytes
  <1>3. buf = before \o size \o (s \o after)
    <2> HIDE DEF size
    <2>1. before \o (size \o s) \o after = before \o size \o (s \o after)
      BY <1>2
    <2> QED
      BY <2>1 DEF WriteString, size
  <1>4. ReadNumber(buf, Len(before) + 1) = {Result(Len(s), Len(before) + 3)}
    <2>1. s \o after \in Seq(Byte)
      OBVIOUS
    <2> QED
      BY <1>1, <1>3, <2>1, NumberRead
  <1>5. /\ head \in Seq(Byte) /\ Len(head) = Len(before) + 2
        /\ buf = head \o s \o after
    <2> HIDE DEF size, buf
    <2>1. head \in Seq(Byte) /\ Len(head) = Len(before) + 2
      BY <1>2, Lengths
    <2> HIDE DEF head
    <2>2. head \in Seq(Byte)
      BY <2>1
    <2>3. head \o s \o after = head \o (s \o after)
      BY <2>2, SMTT(30)
    <2> QED
      BY <1>3, <2>1, <2>3 DEF head
  <1> HIDE DEF size, head, buf
  <1>6. Len(buf) = Len(before) + 2 + Len(s) + Len(after)
    <2>1. head \o s \in Seq(Byte) /\ Len(head \o s) = Len(head) + Len(s)
      BY <1>5, Lengths
    <2>2. Len(head \o s \o after) = Len(head \o s) + Len(after)
      BY <2>1, Lengths
    <2> QED
      BY <1>5, <2>1, <2>2
  <1>7. SubSeq(buf, Len(before) + 3, Len(before) + 2 + Len(s)) = s
    <2>1. SubSeq(buf, Len(head) + 1, Len(head) + Len(s)) = s
      BY <1>5, Middle
    <2>2. Len(before) \in Nat
      OBVIOUS
    <2> QED
      BY <1>5, <2>1, <2>2
  <1>8. ReadString(buf, Len(before) + 1) = {Result(s, Len(before) + 3 + Len(s))}
    <2>1. Len(before) \in Nat /\ Len(s) \in Nat /\ Len(after) \in Nat
      OBVIOUS
    <2> DEFINE m == Result(Len(s), Len(before) + 3)
    <2>2. m.val = Len(s) /\ m.next = Len(before) + 3
      BY DEF Result
    <2> HIDE DEF m
    <2>3. m.next + m.val - 1 = Len(before) + 2 + Len(s) /\ m.next + m.val - 1 <= Len(buf)
      BY <1>6, <2>1, <2>2
    <2>4. ReadNumber(buf, Len(before) + 1) = {m}
      BY <1>4 DEF m
    <2>5. ReadString(buf, Len(before) + 1)
            = {Result(SubSeq(buf, m.next, m.next + m.val - 1), m.next + m.val)}
      BY <2>3, <2>4 DEF ReadString
    <2> QED
      BY <1>7, <2>1, <2>2, <2>3, <2>5
  <1>9. Len(before) + 3 + Len(s) = Len(before) + 1 + StringSize(s)
    BY DEF StringSize
  <1> QED
    BY <1>8, <1>9 DEF buf

(* The content of a packet is as long as PacketSize says.                  *)
LEMMA ContentBytes ==
    ASSUME NEW name \in Seq(Byte), NEW type \in 0 .. MaxNumber,
           NEW fields \in Seq(Byte)
    PROVE  /\ Content(name, type, fields) \in Seq(Byte)
           /\ Len(Content(name, type, fields)) = StringSize(name) + 2 + Len(fields)
           /\ Content(name, type, fields)
                = WriteString(name) \o (WriteNumber(type) \o fields)
  <1> DEFINE s == WriteString(name)
             t == WriteNumber(type)
  <1>1. s \in Seq(Byte) /\ t \in Seq(Byte)
    BY StringBytes, NumberBytes
  <1>2. Len(s) = StringSize(name) /\ Len(t) = 2
    BY StringBytes, NumberBytes
  <1> HIDE DEF s, t
  <1>3. /\ s \o t \o fields \in Seq(Byte)
        /\ Len(s \o t \o fields) = Len(s) + Len(t) + Len(fields)
        /\ s \o t \o fields = s \o (t \o fields)
    BY <1>1, Parts
  <1>4. Len(s \o t \o fields) = StringSize(name) + 2 + Len(fields)
    BY <1>2, <1>3
  <1> QED
    BY <1>3, <1>4 DEF Content, s, t

(* createEnvelope: a size, and what it is the size of.                     *)
LEMMA EnvelopeParts ==
    ASSUME NEW name \in Seq(Byte), NEW type \in 0 .. MaxNumber,
           NEW fields \in Seq(Byte)
    PROVE  LET packet  == Envelope(name, type, fields)
               content == Content(name, type, fields)
           IN  /\ packet = WriteNumber(Len(packet)) \o content
               /\ Len(packet) = 2 + Len(content)
  <1> DEFINE size == 2 + StringSize(name) + 2 + Len(fields)
             w == WriteNumber(size)
             content == Content(name, type, fields)
             packet == Envelope(name, type, fields)
  <1>1. size \in Nat
    BY DEF StringSize
  <1>2. w \in Seq(Byte) /\ Len(w) = 2
    BY <1>1, AnyNumberBytes
  <1>3. content \in Seq(Byte) /\ Len(content) = StringSize(name) + 2 + Len(fields)
    BY ContentBytes
  <1>4. packet = w \o content
    BY DEF Envelope
  <1> HIDE DEF w, content, packet
  <1>5. Len(w \o content) = Len(w) + Len(content)
    BY <1>2, <1>3, Lengths
  <1>6. Len(packet) = 2 + Len(content)
    BY <1>2, <1>4, <1>5
  <1>7. Len(packet) = size
    <2>1. Len(fields) \in Nat /\ StringSize(name) \in Nat
      BY DEF StringSize
    <2> QED
      BY <1>3, <1>6, <2>1
  <1> QED
    BY <1>4, <1>6, <1>7 DEF w, content, packet

(* What is left behind the first of two parts is the second.               *)
LEMMA Suffix ==
    ASSUME NEW S, NEW a \in Seq(S), NEW b \in Seq(S)
    PROVE  SubSeq(a \o b, Len(a) + 1, Len(a \o b)) = b
  <1>1. << >> \in Seq(S) /\ a \o b \o << >> = a \o b
    OBVIOUS
  <1>2. SubSeq(a \o b \o << >>, Len(a) + 1, Len(a) + Len(b)) = b
    BY <1>1, Middle
  <1> QED
    BY <1>1, <1>2, Lengths

(* A packet is its size and its content, and the size is read first, if it *)
(* fits a uint16_t.                                                        *)
THEOREM EnvelopeRead ==
    ASSUME NEW name \in Seq(Byte), NEW type \in 0 .. MaxNumber,
           NEW fields \in Seq(Byte),
           Len(Envelope(name, type, fields)) <= MaxNumber
    PROVE  LET packet == Envelope(name, type, fields)
           IN  /\ ReadNumber(packet, 1) = {Result(Len(packet), 3)}
               /\ SubSeq(packet, 3, Len(packet)) = Content(name, type, fields)
  <1> DEFINE packet == Envelope(name, type, fields)
             content == Content(name, type, fields)
             size == Len(packet)
             w == WriteNumber(size)
  <1>1. packet = w \o content /\ size = 2 + Len(content)
    BY EnvelopeParts
  <1>2. content \in Seq(Byte)
    BY ContentBytes
  <1>3. size \in 0 .. MaxNumber
    <2> HIDE DEF content
    <2>1. Len(content) \in Nat
      BY <1>2
    <2> QED
      BY <1>1, <2>1, BaseAssumption DEF MaxNumber
  <1>4. w \in Seq(Byte) /\ << >> \in Seq(Byte)
    BY <1>3, NumberBytes
  <1>5. Len(w) = 2
    BY <1>3, NumberBytes
  <1>6. ReadNumber(packet, 1) = {Result(size, 3)}
    <2>1. ReadNumber(<< >> \o w \o content, Len(<< >>) + 1)
            = {Result(size, Len(<< >>) + 3)}
      BY <1>2, <1>3, <1>4, NumberRead
    <2> HIDE DEF w, content, packet, size
    <2>2. << >> \o w \o content = packet /\ Len(<< >>) = 0
      BY <1>1, <1>2, <1>4
    <2>3. Len(<< >>) + 1 = 1 /\ Len(<< >>) + 3 = 3
      BY <2>2
    <2> QED
      BY <2>1, <2>2, <2>3, Zenon
  <1>7. SubSeq(packet, 3, size) = content
    <2> HIDE DEF w, content, packet
    <2>1. SubSeq(w \o content, Len(w) + 1, Len(w \o content)) = content
      BY <1>2, <1>4, Suffix
    <2> QED
      BY <1>1, <1>5, <2>1
  <1> QED
    BY <1>6, <1>7

(* Of the content the name is read, then the type, and the fields are left. *)
THEOREM ContentRead ==
    ASSUME NEW name \in Seq(Byte), Len(name) <= MaxNumber,
           NEW type \in 0 .. MaxNumber, NEW fields \in Seq(Byte)
    PROVE  LET content == Content(name, type, fields)
               at == StringSize(name)
           IN  /\ ReadString(content, 1) = {Result(name, at + 1)}
               /\ ReadNumber(content, at + 1) = {Result(type, at + 3)}
               /\ SubSeq(content, at + 3, Len(content)) = fields
  <1> DEFINE s == WriteString(name)
             t == WriteNumber(type)
             content == Content(name, type, fields)
             at == StringSize(name)
  <1>1. s \in Seq(Byte) /\ t \in Seq(Byte) /\ << >> \in Seq(Byte)
    BY StringBytes, NumberBytes
  <1>2. Len(s) = at /\ Len(t) = 2 /\ at \in Nat
    BY StringBytes, NumberBytes DEF StringSize
  <1>3. t \o fields \in Seq(Byte) /\ content = s \o (t \o fields)
        /\ content = s \o t \o fields
    <2>1. content = s \o (t \o fields) /\ content = s \o t \o fields
      BY ContentBytes DEF Content
    <2> HIDE DEF s, t
    <2> QED
      BY <1>1, <2>1, Lengths
  <1>4. ReadString(content, 1) = {Result(name, at + 1)}
    <2>1. << >> \o s \o (t \o fields) = content /\ Len(<< >>) + 1 = 1
      <3> HIDE DEF s, t
      <3> QED
        BY <1>1, <1>3
    <2>2. ReadString(<< >> \o s \o (t \o fields), Len(<< >>) + 1)
            = {Result(name, Len(<< >>) + 1 + at)}
      BY <1>1, <1>3, StringRead
    <2>3. Len(<< >>) + 1 + at = at + 1
      BY <1>2
    <2> HIDE DEF s, t, content, at
    <2> QED
      BY <2>1, <2>2, <2>3
  <1>5. ReadNumber(content, at + 1) = {Result(type, at + 3)}
    <2>1. ReadNumber(s \o t \o fields, Len(s) + 1) = {Result(type, Len(s) + 3)}
      BY <1>1, NumberRead
    <2> QED
      BY <1>2, <1>3, <2>1
  <1>6. SubSeq(content, at + 3, Len(content)) = fields
    <2> HIDE DEF s, t, content
    <2>1. s \o t \in Seq(Byte) /\ Len(s \o t) = Len(s) + Len(t)
      BY <1>1, Lengths
    <2>2. SubSeq(s \o t \o fields, Len(s \o t) + 1, Len(s \o t \o fields)) = fields
      BY <2>1, Suffix
    <2>3. Len(s \o t) + 1 = at + 3
      BY <1>2, <2>1
    <2> QED
      BY <1>3, <2>2, <2>3
  <1> QED
    BY <1>4, <1>5, <1>6

(* The relay: whatever stale bytes follow what was read, the packet sent   *)
(* on is the one received under the name of its sender, with those bytes   *)
(* behind its fields.                                                      *)
THEOREM Readdressed ==
    ASSUME NEW receiver \in Seq(Byte), NEW sender \in Seq(Byte),
           NEW type \in 0 .. MaxNumber,
           NEW fields \in Seq(Byte), NEW stale \in Seq(Byte)
    PROVE  Envelope2(sender, Content(receiver, type, fields) \o stale,
                     StringSize(receiver))
             = Envelope(sender, type, fields \o stale)
  <1> DEFINE r == WriteString(receiver)
             t == WriteNumber(type)
             s == WriteString(sender)
             data == Content(receiver, type, fields) \o stale
             kept == t \o (fields \o stale)
             size == 2 + StringSize(sender) + 2 + Len(fields \o stale)
             w == WriteNumber(size)
  <1>1. r \in Seq(Byte) /\ t \in Seq(Byte) /\ s \in Seq(Byte)
    BY StringBytes, NumberBytes
  <1>2. Len(r) = StringSize(receiver) /\ Len(t) = 2
    BY StringBytes, NumberBytes
  <1>3. fields \o stale \in Seq(Byte) /\ Len(fields \o stale) \in Nat
    OBVIOUS
  <1>4. kept \in Seq(Byte) /\ Len(kept) = 2 + Len(fields \o stale)
    <2> HIDE DEF t
    <2> QED
      BY <1>1, <1>2, <1>3, Lengths
  <1>5. data = r \o kept
    <2>1. data = r \o t \o fields \o stale
      BY DEF Content
    <2> HIDE DEF r, t, data
    <2> QED
      BY <1>1, <2>1, SMTT(30)
  <1>6. SubSeq(data, StringSize(receiver) + 1, Len(data)) = kept
    <2> HIDE DEF r, kept, data
    <2>1. SubSeq(r \o kept, Len(r) + 1, Len(r \o kept)) = kept
      BY <1>1, <1>4, Suffix
    <2> QED
      BY <1>2, <1>5, <2>1
  <1>7. 2 + StringSize(sender) + Len(data) - StringSize(receiver) = size
    <2> HIDE DEF r, kept, data
    <2>1. Len(r \o kept) = Len(r) + Len(kept)
      BY <1>1, <1>4, Lengths
    <2>2. StringSize(sender) \in Nat /\ StringSize(receiver) \in Nat
      BY DEF StringSize
    <2> QED
      BY <1>2, <1>3, <1>4, <1>5, <2>1, <2>2
  <1>8. w \in Seq(Byte)
    BY <1>3, AnyNumberBytes DEF StringSize
  <1>9. Envelope2(sender, data, StringSize(receiver)) = w \o s \o kept
    <2> HIDE DEF r, kept, data, size
    <2> QED
      BY <1>6, <1>7 DEF Envelope2
  <1>10. Envelope(sender, type, fields \o stale) = w \o (s \o t \o (fields \o stale))
    BY DEF Envelope, Content
  <1>11. w \o (s \o t \o (fields \o stale)) = w \o s \o kept
    <2> DEFINE e == fields \o stale
    <2> HIDE DEF w, s, t, e
    <2>1. e \in Seq(Byte) /\ s \in Seq(Byte) /\ t \in Seq(Byte) /\ w \in Seq(Byte)
      BY <1>1, <1>3, <1>8 DEF e
    <2>2. kept = t \o e
      BY DEF e
    <2>3. s \o t \o e = s \o (t \o e)
      BY <2>1
    <2>4. kept \in Seq(Byte)
      BY <1>4
    <2> HIDE DEF kept
    <2>5. w \o s \o kept = w \o (s \o kept)
      BY <2>1, <2>4
    <2> QED
      BY <2>2, <2>3, <2>5, Zenon DEF e
  <1> HIDE DEF r, t, s, data, kept, size, w
  <1>12. Envelope2(sender, Content(receiver, type, fields) \o stale,
                   StringSize(receiver)) = w \o s \o kept
    BY <1>9, Zenon DEF data
  <1>13. Envelope(sender, type, fields \o stale) = w \o s \o kept
    BY <1>10, <1>11, Zenon
  <1> QED
    BY <1>12, <1>13, Zenon

-----------------------------------------------------------------------------
(***************************************************************************)
(* Lists of players, which are written and read one after the other.       *)
(***************************************************************************)
Listed == [name : Seq(Byte), status : 0 .. MaxNumber]

\* w grows by the items, one after the other.
Grows(w, item, n) == \A i \in 1 .. n : w[i] = w[i - 1] \o item[i]

(* What is written grows by one item after the other.                      *)
LEMMA GrowingExists ==
    ASSUME NEW n \in Nat, NEW first \in Seq(Byte), NEW item \in [1 .. n -> Seq(Byte)]
    PROVE  \E w \in [0 .. n -> Seq(Byte)] :
             w[0] = first /\ Grows(w, item, n)
  <1> USE DEF Grows
  <1> DEFINE Begins(w, k) == w[0] = first /\ Grows(w, item, k)
             Written(k) == \E w \in [0 .. k -> Seq(Byte)] : Begins(w, k)
             T == { k \in Nat : k <= n => Written(k) }
  <1>1. 0 \in T
    <2>1. [i \in 0 .. 0 |-> first] \in [0 .. 0 -> Seq(Byte)]
          /\ Begins([i \in 0 .. 0 |-> first], 0)
      OBVIOUS
    <2> QED
      BY <2>1
  <1>2. ASSUME NEW k \in Nat, k \in T
        PROVE  k + 1 \in T
    <2>1. SUFFICES ASSUME k + 1 <= n PROVE Written(k + 1)
      <3> HIDE DEF Written
      <3> QED
        OBVIOUS
    <2>2. Written(k)
      <3> HIDE DEF Written
      <3> QED
        BY <1>2, <2>1
    <2>3. PICK w \in [0 .. k -> Seq(Byte)] : Begins(w, k)
      BY <2>2
    <2> DEFINE longer == [i \in 0 .. k + 1 |-> IF i = k + 1 THEN w[k] \o item[k + 1] ELSE w[i]]
    <2>4. longer \in [0 .. k + 1 -> Seq(Byte)]
      BY <2>1
    <2>5. longer[0] = first
      BY <2>3
    <2>6. ASSUME NEW i \in 1 .. k + 1
          PROVE  longer[i] = longer[i - 1] \o item[i]
      <3>1. i - 1 \in 0 .. k /\ longer[i - 1] = w[i - 1]
        OBVIOUS
      <3>2. CASE i = k + 1
        <4>1. longer[i] = w[k] \o item[i] /\ i - 1 = k
          BY <3>2
        <4> HIDE DEF longer
        <4> QED
          BY <3>1, <4>1
      <3>3. CASE i \in 1 .. k
        <4>1. longer[i] = w[i]
          BY <3>3
        <4>2. w[i] = w[i - 1] \o item[i]
          BY <2>3, <3>3
        <4> HIDE DEF longer
        <4> QED
          BY <3>1, <4>1, <4>2
      <3>4. i = k + 1 \/ i \in 1 .. k
        OBVIOUS
      <3> QED
        BY <3>2, <3>3, <3>4
    <2>7. Begins(longer, k + 1)
      BY <2>5, <2>6
    <2> HIDE DEF longer
    <2> QED
      BY <2>4, <2>7
  <1> HIDE DEF T
  <1>3. Nat \subseteq T
    BY <1>1, <1>2, SetInduction
  <1>4. n \in T
    BY <1>3
  <1>5. Written(n)
    <2> HIDE DEF Written
    <2> QED
      BY <1>4 DEF T
  <1> QED
    BY <1>5

(* At any moment what has been written is the beginning of the whole.      *)
LEMMA GrowingPrefix ==
    ASSUME NEW n \in Nat, NEW w \in [0 .. n -> Seq(Byte)], NEW item \in [1 .. n -> Seq(Byte)],
           Grows(w, item, n), NEW j \in 0 .. n
    PROVE  \E rest \in Seq(Byte) : w[n] = w[j] \o rest
  <1> DEFINE Begun(k) == \E rest \in Seq(Byte) : w[j + k] = w[j] \o rest
             T == { k \in Nat : j + k <= n => Begun(k) }
  <1>1. 0 \in T
    <2>1. w[j] \in Seq(Byte) /\ j + 0 = j
      OBVIOUS
    <2>2. w[j] = w[j] \o << >> /\ << >> \in Seq(Byte)
      BY <2>1
    <2>3. w[j + 0] = w[j] \o << >>
      BY <2>1, <2>2
    <2>4. Begun(0)
      BY <2>2, <2>3
    <2> QED
      BY <2>4
  <1>2. ASSUME NEW k \in Nat, k \in T
        PROVE  k + 1 \in T
    <2>1. SUFFICES ASSUME j + (k + 1) <= n PROVE Begun(k + 1)
      <3> HIDE DEF Begun
      <3> QED
        OBVIOUS
    <2>2. Begun(k) /\ j + k <= n
      <3> HIDE DEF Begun
      <3> QED
        BY <1>2, <2>1
    <2>3. PICK rest \in Seq(Byte) : w[j + k] = w[j] \o rest
      BY <2>2
    <2>4. w[j + (k + 1)] = w[j + k] \o item[j + (k + 1)]
      <3>1. j + (k + 1) \in 1 .. n /\ (j + (k + 1)) - 1 = j + k
        BY <2>1
      <3> QED
        BY <3>1 DEF Grows
    <2> DEFINE one == item[j + (k + 1)]
    <2>5. one \in Seq(Byte) /\ w[j] \in Seq(Byte)
      BY <2>1
    <2> HIDE DEF one
    <2>6. (w[j] \o rest) \o one = w[j] \o (rest \o one) /\ rest \o one \in Seq(Byte)
      BY <2>5
    <2> QED
      BY <2>3, <2>4, <2>6 DEF one
  <1> HIDE DEF T
  <1>3. Nat \subseteq T
    BY <1>1, <1>2, SetInduction
  <1>4. n - j \in T /\ j + (n - j) = n
    BY <1>3
  <1>5. Begun(n - j)
    <2> HIDE DEF Begun
    <2> QED
      BY <1>4 DEF T
  <1> QED
    BY <1>4, <1>5

(* A player is written in the bytes of its name and a few more.            *)
LEMMA StatusBytes ==
    ASSUME NEW player \in Listed
    PROVE  LET w == WriteStatus(player.name, player.status)
           IN  w \in Seq(Byte) /\ Len(w) = Len(player.name) + 4
  <1> DEFINE s == WriteString(player.name)
             t == WriteNumber(player.status)
  <1>1. player.name \in Seq(Byte) /\ player.status \in 0 .. MaxNumber
    BY DEF Listed
  <1>2. /\ s \in Seq(Byte) /\ Len(s) = StringSize(player.name)
        /\ t \in Seq(Byte) /\ Len(t) = 2
    BY <1>1, StringBytes, NumberBytes
  <1>3. WriteStatus(player.name, player.status) = s \o t
    BY DEF WriteStatus
  <1> HIDE DEF s, t
  <1>4. s \o t \in Seq(Byte) /\ Len(s \o t) = Len(s) + 2
    BY <1>2, Lengths
  <1>5. Len(s) + 2 = Len(player.name) + 4
    BY <1>1, <1>2 DEF StringSize
  <1> QED
    BY <1>3, <1>4, <1>5

(* Wherever a name and a status have been written, both are read.          *)
LEMMA StatusRead ==
    ASSUME NEW before \in Seq(Byte), NEW after \in Seq(Byte), NEW player \in Listed,
           Len(player.name) <= MaxNumber
    PROVE  LET w == WriteStatus(player.name, player.status)
           IN  ReadStatus(before \o w \o after, Len(before) + 1)
                 = {Result(player, Len(before) + 1 + Len(w))}
  <1> DEFINE s == WriteString(player.name)
             t == WriteNumber(player.status)
             at == Len(before) + 1
             behind == at + Len(s)
  <1>1. /\ player.name \in Seq(Byte) /\ Len(player.name) <= MaxNumber
        /\ player.status \in 0 .. MaxNumber
        /\ [name |-> player.name, status |-> player.status] = player
    BY DEF Listed
  <1>2. /\ s \in Seq(Byte) /\ Len(s) = StringSize(player.name)
        /\ t \in Seq(Byte) /\ Len(t) = 2
    BY <1>1, StringBytes, NumberBytes
  <1>3. /\ WriteStatus(player.name, player.status) = s \o t
        /\ Len(s) \in Nat /\ Len(before) \in Nat
    BY <1>1, <1>2 DEF WriteStatus, StringSize
  <1>4. /\ s \o t \in Seq(Byte) /\ Len(s \o t) = Len(s) + 2
        /\ t \o after \in Seq(Byte) /\ before \o s \in Seq(Byte)
        /\ Len(before \o s) = Len(before) + Len(s)
    <2> HIDE DEF s, t
    <2> QED
      BY <1>2, Lengths
  <1> DEFINE buf == before \o (s \o t) \o after
  <1>5. buf = before \o s \o (t \o after) /\ buf = (before \o s) \o t \o after
    <2>1. s \in Seq(Byte) /\ t \in Seq(Byte) /\ before \o s \in Seq(Byte)
      BY <1>2, <1>4
    <2> HIDE DEF s, t
    <2>2. before \o (s \o t) = before \o s \o t
      BY <2>1
    <2> DEFINE start == before \o s
    <2> HIDE DEF start
    <2>3. start \o t \o after = start \o (t \o after)
      BY <2>1 DEF start
    <2> QED
      BY <2>2, <2>3 DEF start
  <1>6. ReadString(buf, at) = {Result(player.name, behind)}
    <2> DEFINE rest == t \o after
    <2>1. rest \in Seq(Byte)
      BY <1>4
    <2> HIDE DEF rest
    <2>2. ReadString(before \o s \o rest, at)
            = {Result(player.name, at + StringSize(player.name))}
      BY <1>1, <2>1, StringRead
    <2> QED
      BY <1>2, <1>5, <2>2 DEF rest
  <1>7. ReadNumber(buf, behind) = {Result(player.status, behind + 2)}
    <2>1. ReadNumber((before \o s) \o t \o after, Len(before \o s) + 1)
            = {Result(player.status, Len(before \o s) + 3)}
      BY <1>1, <1>4, NumberRead
    <2>2. Len(before \o s) + 1 = behind /\ Len(before \o s) + 3 = behind + 2
      BY <1>3, <1>4
    <2> HIDE DEF buf, behind
    <2> QED
      BY <1>5, <2>1, <2>2
  <1>8. ReadStatus(buf, at) = {Result(player, behind + 2)}
    <2> DEFINE name == Result(player.name, behind)
               status == Result(player.status, behind + 2)
    <2>1. /\ name.val = player.name /\ name.next = behind
          /\ status.val = player.status /\ status.next = behind + 2
      BY DEF Result
    <2>2. ReadString(buf, at) = {name} /\ ReadNumber(buf, name.next) = {status}
      BY <1>6, <1>7, <2>1
    <2> DEFINE Found(m) == { Result([name |-> m.val, status |-> k.val], k.next) :
                               k \in ReadNumber(buf, m.next) }
    <2> HIDE DEF buf, at, behind, name, status
    <2>3. Found(name)
            = {Result([name |-> name.val, status |-> status.val], status.next)}
      BY <2>2
    <2>4. ReadStatus(buf, at) = UNION { Found(m) : m \in ReadString(buf, at) }
      BY DEF ReadStatus
    <2> HIDE DEF Found
    <2>5. ReadStatus(buf, at) = Found(name)
      BY <2>2, <2>4
    <2> QED
      BY <1>1, <2>1, <2>3, <2>5
  <1>9. behind + 2 = Len(before) + 1 + Len(s \o t)
    BY <1>3, <1>4
  <1> HIDE DEF s, t
  <1> QED
    BY <1>3, <1>4, <1>8, <1>9

\* The players of a list as they are written.
Items(players) ==
    [i \in 1 .. Len(players) |-> WriteStatus(players[i].name, players[i].status)]

(* Every player is written in the bytes of its name and four more.          *)
LEMMA ItemBytes ==
    ASSUME NEW players \in Seq(Listed)
    PROVE  /\ Items(players) \in [1 .. Len(players) -> Seq(Byte)]
           /\ \A i \in 1 .. Len(players) :
                /\ Len(Items(players)[i]) = Len(players[i].name) + 4
                /\ players[i].name \in Seq(Byte)
  <1> SUFFICES ASSUME NEW i \in 1 .. Len(players)
               PROVE  /\ Items(players)[i] \in Seq(Byte)
                      /\ Len(Items(players)[i]) = Len(players[i].name) + 4
                      /\ players[i].name \in Seq(Byte)
    BY DEF Items
  <1>1. players[i] \in Listed
    OBVIOUS
  <1>2. Items(players)[i] = WriteStatus(players[i].name, players[i].status)
    BY DEF Items
  <1> QED
    BY <1>1, <1>2, StatusBytes DEF Listed

(* What grows from the same by the same is the same.                       *)
LEMMA GrowingUnique ==
    ASSUME NEW n \in Nat, NEW item, NEW w, NEW v,
           Grows(w, item, n), Grows(v, item, n), w[0] = v[0]
    PROVE  w[n] = v[n]
  <1> DEFINE T == { k \in Nat : k <= n => w[k] = v[k] }
  <1>1. 0 \in T
    OBVIOUS
  <1>2. ASSUME NEW k \in Nat, k \in T, k + 1 <= n
        PROVE  w[k + 1] = v[k + 1]
    <2>1. k + 1 \in 1 .. n /\ (k + 1) - 1 = k /\ w[k] = v[k]
      BY <1>2
    <2> QED
      BY <2>1 DEF Grows
  <1>3. \A k \in Nat : k \in T => k + 1 \in T
    BY <1>2
  <1> HIDE DEF T
  <1>4. n \in T
    BY <1>1, <1>3, SetInduction
  <1> QED
    BY <1>4 DEF T

(* How a list grows as PacketWriter writes it: its size, then every player. *)
LEMMA PlayersWritten ==
    ASSUME NEW players \in Seq(Listed)
    PROVE  \E w \in [0 .. Len(players) -> Seq(Byte)] :
             /\ w[0] = WriteNumber(Len(players))
             /\ Grows(w, Items(players), Len(players))
             /\ WritePlayers(players) = w[Len(players)]
  <1> DEFINE n == Len(players)
             first == WriteNumber(n)
             item == Items(players)
             Item(i) == WriteStatus(players[i].name, players[i].status)
             write == CHOOSE write : write = [i \in 0 .. Len(players) |->
                        IF i = 0 THEN WriteNumber(Len(players))
                        ELSE write[i - 1] \o WriteStatus(players[i].name, players[i].status)]
  <1>1. n \in Nat /\ first \in Seq(Byte) /\ item \in [1 .. n -> Seq(Byte)]
    BY AnyNumberBytes, ItemBytes
  <1>2. \A i \in 1 .. n : item[i] = Item(i)
    BY DEF Items
  <1>3. PICK w \in [0 .. n -> Seq(Byte)] : w[0] = first /\ Grows(w, item, n)
    <2> HIDE DEF n, first, item
    <2> QED
      BY <1>1, GrowingExists
  <1>4. w = [i \in 0 .. n |-> IF i = 0 THEN first ELSE w[i - 1] \o Item(i)]
    <2> HIDE DEF first, Item, n, item
    <2>1. ASSUME NEW i \in 0 .. n, i # 0
          PROVE  w[i] = w[i - 1] \o Item(i)
      <3>1. i \in 1 .. n
        BY <1>1, <2>1
      <3>2. w[i] = w[i - 1] \o item[i]
        BY <1>3, <3>1 DEF Grows
      <3> QED
        BY <1>2, <3>1, <3>2
    <2> QED
      BY <1>3, <2>1
  <1>5. WritePlayers(players) = write[n]
    BY DEF WritePlayers
  <1>6. write[0] = first /\ Grows(write, item, n)
    <2> DEFINE g == [i \in 0 .. n |-> IF i = 0 THEN first ELSE write[i - 1] \o Item(i)]
    <2>1. write = g
      BY <1>4
    <2> HIDE DEF write, first, Item, n, item
    <2>2. n \in Nat
      BY <1>1
    <2>3. g[0] = first /\ \A i \in 1 .. n : g[i] = write[i - 1] \o Item(i)
      <3>1. g[0] = first
        BY <2>2
      <3>2. ASSUME NEW i \in 1 .. n
            PROVE  g[i] = write[i - 1] \o Item(i)
        <4>1. i \in 0 .. n /\ i # 0
          BY <2>2
        <4> QED
          BY <4>1
      <3> QED
        BY <3>1, <3>2
    <2> HIDE DEF g
    <2>4. ASSUME NEW i \in 1 .. n
          PROVE  write[i] = write[i - 1] \o item[i]
      <3>1. write[i] = g[i] /\ g[i] = write[i - 1] \o Item(i) /\ item[i] = Item(i)
        BY <1>2, <2>1, <2>3
      <3> QED
        BY <3>1
    <2> QED
      BY <2>1, <2>3, <2>4 DEF Grows
  <1> HIDE DEF write, first, item, n
  <1>7. write[n] = w[n]
    BY <1>1, <1>3, <1>6, GrowingUnique
  <1> QED
    BY <1>3, <1>5, <1>7 DEF n, first, item

(* A list is written in bytes.                                             *)
LEMMA PlayersBytes ==
    ASSUME NEW players \in Seq(Listed)
    PROVE  WritePlayers(players) \in Seq(Byte)
  BY PlayersWritten

(* The whole is as long as each of its items, and has a byte for each.      *)
LEMMA GrowingLength ==
    ASSUME NEW n \in Nat, NEW w \in [0 .. n -> Seq(Byte)], NEW item \in [1 .. n -> Seq(Byte)],
           Grows(w, item, n), \A i \in 1 .. n : Len(item[i]) > 0
    PROVE  n <= Len(w[n]) /\ \A i \in 1 .. n : Len(item[i]) <= Len(w[n])
  <1>1. ASSUME NEW i \in 1 .. n
        PROVE  /\ w[i] \in Seq(Byte) /\ Len(w[i - 1]) \in Nat
               /\ Len(item[i]) \in Nat /\ Len(item[i]) > 0
               /\ Len(w[i]) = Len(w[i - 1]) + Len(item[i])
    <2> DEFINE old == w[i - 1]
               one == item[i]
    <2>1. old \in Seq(Byte) /\ one \in Seq(Byte) /\ w[i] = old \o one /\ Len(one) > 0
      BY DEF Grows
    <2> HIDE DEF old, one
    <2>2. old \o one \in Seq(Byte) /\ Len(old \o one) = Len(old) + Len(one)
          /\ Len(old) \in Nat /\ Len(one) \in Nat
      BY <2>1, Lengths
    <2> QED
      BY <2>1, <2>2 DEF old, one
  <1> DEFINE T == { k \in Nat : k <= n => k <= Len(w[k]) }
  <1>2. 0 \in T
    <2>1. w[0] \in Seq(Byte)
      OBVIOUS
    <2> QED
      BY <2>1
  <1>3. ASSUME NEW k \in Nat, k \in T, k + 1 <= n
        PROVE  k + 1 <= Len(w[k + 1])
    <2>1. k + 1 \in 1 .. n /\ (k + 1) - 1 = k /\ k <= Len(w[k])
      BY <1>3
    <2>2. /\ Len(w[k]) \in Nat /\ Len(item[k + 1]) \in Nat /\ Len(item[k + 1]) > 0
          /\ Len(w[k + 1]) = Len(w[k]) + Len(item[k + 1])
      BY <1>1, <2>1
    <2> DEFINE a == Len(w[k])
               b == Len(item[k + 1])
               c == Len(w[k + 1])
    <2>3. a \in Nat /\ b \in Nat /\ b > 0 /\ c = a + b /\ k <= a
      BY <2>1, <2>2
    <2> HIDE DEF a, b, c
    <2>4. k + 1 <= c
      BY <2>3
    <2> QED
      BY <2>4 DEF c
  <1>4. \A k \in Nat : k \in T => k + 1 \in T
    BY <1>3
  <1> HIDE DEF T
  <1>5. n \in T
    BY <1>2, <1>4, SetInduction
  <1>6. ASSUME NEW i \in 1 .. n
        PROVE  Len(item[i]) <= Len(w[n])
    <2>1. i \in 0 .. n
      OBVIOUS
    <2>2. PICK rest \in Seq(Byte) : w[n] = w[i] \o rest
      BY <2>1, GrowingPrefix
    <2>3. Len(w[n]) = Len(w[i]) + Len(rest) /\ Len(rest) \in Nat
      BY <1>1, <2>2, Lengths
    <2> QED
      BY <1>1, <2>3
  <1> QED
    BY <1>5, <1>6 DEF T

(* Wherever a list of players has been written, that list is read.         *)
THEOREM PlayersRead ==
    ASSUME NEW before \in Seq(Byte), NEW after \in Seq(Byte), NEW players \in Seq(Listed),
           Len(WritePlayers(players)) <= MaxNumber
    PROVE  LET w == WritePlayers(players)
           IN  /\ w \in Seq(Byte)
               /\ ReadPlayers(before \o w \o after, Len(before) + 1)
                    = {Result(players, Len(before) + 1 + Len(w))}
  <1> DEFINE n == Len(players)
             item == Items(players)
             all == WritePlayers(players)
             buf == before \o all \o after
             at == Len(before) + 1
  <1>1. PICK w \in [0 .. n -> Seq(Byte)] :
          /\ w[0] = WriteNumber(n)
          /\ Grows(w, item, n)
          /\ all = w[n]
    BY PlayersWritten
  <1>2. /\ n \in Nat /\ item \in [1 .. n -> Seq(Byte)] /\ all \in Seq(Byte)
        /\ \A i \in 1 .. n : /\ Len(item[i]) = Len(players[i].name) + 4
                             /\ Len(players[i].name) \in Nat
    BY <1>1, ItemBytes
  <1>3. n \in 0 .. MaxNumber /\ \A i \in 1 .. n : Len(players[i].name) <= MaxNumber
    <2>1. Len(all) <= MaxNumber /\ MaxNumber \in Int /\ Len(all) \in Nat
      BY <1>2, BaseAssumption DEF MaxNumber
    <2> HIDE DEF n, item, all
    <2>2. ASSUME NEW i \in 1 .. n
          PROVE  Len(item[i]) > 0
      <3>1. Len(item[i]) = Len(players[i].name) + 4 /\ Len(players[i].name) \in Nat
        BY <1>2
      <3> QED
        BY <3>1
    <2>3. n <= Len(w[n]) /\ \A i \in 1 .. n : Len(item[i]) <= Len(w[n])
      BY <1>1, <1>2, <2>2, GrowingLength
    <2> QED
      <3>1. w[n] = all
        BY <1>1
      <3>2. n <= Len(all) /\ \A i \in 1 .. n : Len(item[i]) <= Len(all)
        BY <2>3, <3>1
      <3>3. ASSUME NEW i \in 1 .. n
            PROVE  Len(players[i].name) <= MaxNumber
        <4>1. /\ Len(item[i]) = Len(players[i].name) + 4 /\ Len(players[i].name) \in Nat
              /\ Len(item[i]) <= Len(all)
          BY <1>2, <3>2
        <4> QED
          BY <2>1, <4>1
      <3> QED
        BY <1>2, <2>1, <3>2, <3>3
  <1>4. ReadNumber(buf, at) = {Result(n, at + 2)}
    <2>1. 0 \in 0 .. n /\ Len(before) \in Nat
      BY <1>2
    <2> DEFINE first == WriteNumber(n)
    <2>2. first \in Seq(Byte)
      BY <1>3, NumberBytes
    <2>3. PICK rest \in Seq(Byte) : all = first \o rest
      <3> HIDE DEF n, item, all
      <3> QED
        BY <1>1, <1>2, <2>1, GrowingPrefix
    <2> HIDE DEF n, first, all
    <2>4. before \o (first \o rest) \o after = before \o first \o (rest \o after)
          /\ rest \o after \in Seq(Byte)
      <3>1. before \o (first \o rest) = before \o first \o rest
        BY <2>2
      <3> DEFINE start == before \o first
      <3>2. start \in Seq(Byte) /\ rest \o after \in Seq(Byte)
        BY <2>2
      <3> HIDE DEF start
      <3>3. start \o rest \o after = start \o (rest \o after)
        BY <3>2
      <3> QED
        BY <3>1, <3>2, <3>3 DEF start
    <2> DEFINE more == rest \o after
    <2> HIDE DEF more
    <2>5. ReadNumber(before \o first \o more, at) = {Result(n, Len(before) + 3)}
      BY <1>3, <2>4, NumberRead DEF first, more
    <2>6. Len(before) + 3 = at + 2
      BY <2>1
    <2> QED
      BY <2>3, <2>4, <2>5, <2>6 DEF more
  <1>5. ASSUME NEW i \in 1 .. n
        PROVE  ReadStatus(buf, at + Len(w[i - 1])) = {Result(players[i], at + Len(w[i]))}
    <2> DEFINE old == w[i - 1]
               one == WriteStatus(players[i].name, players[i].status)
               start == before \o old
    <2>1. i \in 0 .. n /\ i - 1 \in 0 .. n /\ players[i] \in Listed
          /\ Len(players[i].name) <= MaxNumber
      BY <1>2, <1>3
    <2>2. one \in Seq(Byte) /\ item[i] = one
      BY <2>1, StatusBytes DEF Items
    <2>3. PICK rest \in Seq(Byte) : all = w[i] \o rest
      <3> HIDE DEF n, item, all
      <3> QED
        BY <1>1, <1>2, <2>1, GrowingPrefix
    <2>4. old \in Seq(Byte) /\ w[i] = old \o one
      <3> HIDE DEF n, item, all, one
      <3> QED
        BY <1>1, <2>1, <2>2 DEF Grows
    <2> HIDE DEF n, item, all, old, one
    <2>5. /\ start \in Seq(Byte) /\ Len(start) = Len(before) + Len(old)
          /\ Len(w[i]) = Len(old) + Len(one)
          /\ Len(before) \in Nat /\ Len(old) \in Nat /\ Len(one) \in Nat
      BY <2>2, <2>4, Lengths
    <2> DEFINE more == rest \o after
    <2>6. more \in Seq(Byte)
      OBVIOUS
    <2>7. buf = start \o one \o more
      <3> DEFINE both == old \o one
      <3>1. both \in Seq(Byte)
        BY <2>2, <2>4
      <3>2. before \o old \o one = before \o (old \o one)
        <4>1. old \in Seq(Byte) /\ one \in Seq(Byte)
          BY <2>2, <2>4
        <4> HIDE DEF both
        <4> QED
          BY <4>1
      <3> HIDE DEF both
      <3>3. before \o (both \o rest) = before \o both \o rest
            /\ before \o both \in Seq(Byte)
        BY <3>1
      <3> DEFINE begun == before \o both
      <3>4. begun \o rest \o after = begun \o (rest \o after)
        <4>1. begun \in Seq(Byte)
          BY <3>3
        <4> HIDE DEF begun
        <4> QED
          BY <4>1
      <3> HIDE DEF begun
      <3>5. start \o one = begun
        BY <3>2 DEF begun, both
      <3>6. buf = begun \o rest \o after
        <4>1. all = both \o rest
          BY <2>3, <2>4 DEF both
        <4>2. buf = before \o (both \o rest) \o after
          BY <4>1
        <4> HIDE DEF buf
        <4> QED
          BY <3>3, <4>2 DEF begun
      <3> HIDE DEF start, buf
      <3> QED
        BY <3>4, <3>5, <3>6
    <2> HIDE DEF start, more, buf
    <2>8. ReadStatus(start \o one \o more, Len(start) + 1)
            = {Result(players[i], Len(start) + 1 + Len(one))}
      BY <2>1, <2>5, <2>6, StatusRead DEF one
    <2>9. Len(start) + 1 = at + Len(old) /\ Len(start) + 1 + Len(one) = at + Len(w[i])
      BY <2>5
    <2> QED
      BY <2>7, <2>8, <2>9 DEF old
  <1> DEFINE count == Result(n, at + 2)
             More(past) == { Result(Append(past.val, player.val), player.next) :
                               player \in ReadStatus(buf, past.next) }
             read == CHOOSE read : read = [i \in 0 .. count.val |->
                       IF i = 0 THEN {Result(<<>>, count.next)}
                       ELSE UNION {More(past) : past \in read[i - 1]}]
             Start(i) == SubSeq(players, 1, i)
             Found(i) == {Result(Start(i), at + Len(w[i]))}
             found == [i \in 0 .. n |-> Found(i)]
  <1>6. ASSUME NEW i \in 1 .. n
        PROVE  UNION {More(past) : past \in Found(i - 1)} = Found(i)
    <2> DEFINE past == Result(Start(i - 1), at + Len(w[i - 1]))
               player == Result(players[i], at + Len(w[i]))
    <2>1. Append(Start(i - 1), players[i]) = Start(i)
      <3>1. n \in Nat /\ i - 1 \in 0 .. n - 1 /\ (i - 1) + 1 = i
        BY <1>2
      <3> QED
        BY <3>1
    <2>2. /\ past.val = Start(i - 1) /\ past.next = at + Len(w[i - 1])
          /\ player.val = players[i] /\ player.next = at + Len(w[i])
      BY DEF Result
    <2>3. ReadStatus(buf, past.next) = {player}
      BY <1>5, <2>2
    <2>4. Found(i - 1) = {past}
      OBVIOUS
    <2> HIDE DEF past, player, buf, Start, at
    <2>5. More(past) = {Result(Start(i), at + Len(w[i]))}
      BY <2>1, <2>2, <2>3
    <2> HIDE DEF More
    <2> QED
      BY <2>4, <2>5
  <1>7. found = [i \in 0 .. n |-> IF i = 0 THEN {Result(<<>>, at + 2)}
                                  ELSE UNION {More(past) : past \in found[i - 1]}]
    <2>1. Found(0) = {Result(<<>>, at + 2)}
      <3>1. Start(0) = <<>>
        OBVIOUS
      <3>2. Len(w[0]) = 2
        BY <1>1, <1>3, NumberBytes
      <3> HIDE DEF Start, at
      <3> QED
        BY <3>1, <3>2
    <2> HIDE DEF Found, More
    <2>2. ASSUME NEW i \in 0 .. n
          PROVE  found[i] = IF i = 0 THEN {Result(<<>>, at + 2)}
                            ELSE UNION {More(past) : past \in found[i - 1]}
      <3>1. CASE i = 0
        BY <2>1, <3>1
      <3>2. CASE i # 0
        <4>1. i \in 1 .. n /\ i - 1 \in 0 .. n
          BY <1>2, <3>2
        <4>2. found[i] = Found(i) /\ found[i - 1] = Found(i - 1)
          BY <4>1
        <4> HIDE DEF found
        <4> QED
          BY <1>6, <3>2, <4>1, <4>2
      <3> QED
        BY <3>1, <3>2
    <2> QED
      BY <2>2
  <1>8. ReadPlayers(buf, at) = read[n]
    <2> DEFINE Counted(m) ==
          LET got[i \in 0 .. m.val] ==
                IF i = 0 THEN {Result(<<>>, m.next)}
                ELSE UNION {More(past) : past \in got[i - 1]}
          IN  got[m.val]
    <2>1. ReadPlayers(buf, at) = UNION {Counted(m) : m \in ReadNumber(buf, at)}
      BY DEF ReadPlayers
    <2>2. Counted(count) = read[n]
      BY DEF Result
    <2> HIDE DEF Counted, read, More, buf, at, n
    <2>3. ReadNumber(buf, at) = {count}
      BY <1>4
    <2> HIDE DEF count
    <2> QED
      BY <2>1, <2>2, <2>3
  <1>9. read = [i \in 0 .. n |-> IF i = 0 THEN {Result(<<>>, at + 2)}
                                 ELSE UNION {More(past) : past \in read[i - 1]}]
    <2>1. count.val = n /\ count.next = at + 2
      BY DEF Result
    <2> HIDE DEF n, count, Found, found, at, More
    <2>2. found = [i \in 0 .. count.val |-> IF i = 0 THEN {Result(<<>>, count.next)}
                                            ELSE UNION {More(past) : past \in found[i - 1]}]
      BY <1>7, <2>1
    <2>3. read = [i \in 0 .. count.val |-> IF i = 0 THEN {Result(<<>>, count.next)}
                                           ELSE UNION {More(past) : past \in read[i - 1]}]
      BY <2>2
    <2> HIDE DEF read
    <2> QED
      BY <2>1, <2>3
  <1>10. /\ read[0] = {Result(<<>>, at + 2)}
         /\ \A i \in 1 .. n : read[i] = UNION {More(past) : past \in read[i - 1]}
    <2> DEFINE g == [i \in 0 .. n |-> IF i = 0 THEN {Result(<<>>, at + 2)}
                                      ELSE UNION {More(past) : past \in read[i - 1]}]
    <2>1. read = g
      BY <1>9
    <2>2. n \in Nat
      BY <1>2
    <2> HIDE DEF read, More, at, n
    <2>3. g[0] = {Result(<<>>, at + 2)}
      BY <2>2
    <2>4. ASSUME NEW i \in 1 .. n
          PROVE  g[i] = UNION {More(past) : past \in read[i - 1]}
      <3>1. i \in 0 .. n /\ i # 0
        BY <2>2
      <3> QED
        BY <3>1
    <2> HIDE DEF g
    <2> QED
      BY <2>1, <2>3, <2>4
  <1>11. read[n] = Found(n)
    <2> DEFINE T == { k \in Nat : k <= n => read[k] = Found(k) }
    <2> HIDE DEF read, More
    <2>1. 0 \in T
      <3>1. Found(0) = {Result(<<>>, at + 2)}
        <4>1. Start(0) = <<>>
          OBVIOUS
        <4>2. Len(w[0]) = 2
          BY <1>1, <1>3, NumberBytes
        <4> HIDE DEF Start, at
        <4> QED
          BY <4>1, <4>2
      <3> HIDE DEF Found, at
      <3> QED
        BY <1>10, <3>1
    <2> HIDE DEF Found, n
    <2>2. ASSUME NEW k \in Nat, k \in T, k + 1 <= n
          PROVE  read[k + 1] = Found(k + 1)
      <3>1. k + 1 \in 1 .. n /\ (k + 1) - 1 = k /\ read[k] = Found(k)
        BY <1>2, <2>2
      <3> QED
        BY <1>6, <1>10, <3>1
    <2>3. \A k \in Nat : k \in T => k + 1 \in T
      BY <2>2
    <2> HIDE DEF T
    <2>4. n \in T
      BY <1>2, <2>1, <2>3, SetInduction
    <2> QED
      BY <1>2, <2>4 DEF T
  <1>12. Found(n) = {Result(players, at + Len(all))}
    <2>1. Start(n) = players
      OBVIOUS
    <2>2. w[n] = all
      BY <1>1
    <2> HIDE DEF Start, at, n, all
    <2> QED
      BY <2>1, <2>2
  <1> HIDE DEF read, Found, buf, at
  <1> QED
    BY <1>2, <1>8, <1>11, <1>12 DEF buf, at
=============================================================================
