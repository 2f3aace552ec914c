---------------------------- MODULE LexerProofs -----------------------------
(***************************************************************************)
(* Proofs about Lexer, for any text.                                       *)
(***************************************************************************)
EXTENDS Lexer, SequenceTheorems, NumberInduction, TLAPS

(* The texts have a length: they are strings.                              *)
LengthsAreNumbers == \A t \in Texts : Len(t) \in Nat

OperatorTokens == {Operators[word] : word \in DOMAIN Operators}

TokenTypes ==
    {"Begin", "EndOfFile", "StringLiteral", "Int", "Float", "Identifier",
     "IdentifierWithScope"}
    \cup {Keywords[word] : word \in DOMAIN Keywords}
    \cup OperatorTokens
    \cup {type \o "Right" : type \in OperatorTokens}
    \cup {type \o "Left" : type \in OperatorTokens}

Tokens == [type : TokenTypes, from : Int, upto : Int]

\* What t accounts for: its lexeme, its quotes, the character behind a number.
Covers(t, p) ==
    \/ p \in t.from .. t.upto
    \/ t.type = "StringLiteral" /\ p \in {t.from - 1, t.upto + 1}
    \/ t.type \in {"Int", "Float"} /\ t.upto = p - 1

Accounted(p) ==
    \/ \E i \in DOMAIN tokens : Covers(tokens[i], p)
    \/ Char(p) \in Blanks
    \/ InComment(p)

\* The state between two iterations.
LexTypeOK ==
    /\ Len(text) \in Nat
    /\ ptr \in Nat \ {0}
    /\ tokens \in Seq(Tokens) /\ tokens # <<>>

\* Every token is of what has been read, and that is accounted for.
LexInv ==
    /\ LexTypeOK
    /\ \A i \in DOMAIN tokens : tokens[i].from <= ptr /\ tokens[i].upto < ptr
    /\ lexing = "on" => \A p \in 1 .. ptr - 1 : p <= Len(text) => Accounted(p)

(* What the invariant accounts for is what NothingLost asks for.           *)
LEMMA InvLosesNothing == LexInv => NothingLost
  <1> SUFFICES ASSUME LexInv, lexing = "on",
                      NEW p \in 1 .. (IF ptr <= Len(text) THEN ptr - 1 ELSE Len(text))
               PROVE  \/ InToken(p)
                      \/ Char(p) \in Blanks
                      \/ InComment(p)
                      \/ \E i \in DOMAIN tokens :
                            \/ /\ tokens[i].type = "StringLiteral"
                               /\ p \in {tokens[i].from - 1, tokens[i].upto + 1}
                            \/ tokens[i].type \in {"Int", "Float"} /\ tokens[i].upto = p - 1
    BY Zenon DEF NothingLost
  <1>1. p \in 1 .. ptr - 1 /\ p <= Len(text)
    BY DEF LexInv, LexTypeOK
  <1>2. Accounted(p)
    BY <1>1 DEF LexInv
  <1> QED
    BY <1>2, Zenon DEF Accounted, Covers, InToken

(* Nothing has been read at first.                                         *)
LEMMA LexInitInv == LengthsAreNumbers /\ LexInit => LexInv
  <1> SUFFICES ASSUME LengthsAreNumbers, LexInit PROVE LexInv
    OBVIOUS
  <1>1. [type |-> "Begin", from |-> 0, upto |-> 0] \in Tokens
    BY DEF Tokens, TokenTypes
  <1> QED
    BY <1>1 DEF LexInit, LengthsAreNumbers, LexInv, LexTypeOK

-----------------------------------------------------------------------------
(* What is accounted for stays so while the tokens that do so are kept. *)
LEMMA AccountedStays ==
    ASSUME NEW p, UNCHANGED text, Accounted(p),
           \A i \in DOMAIN tokens : Covers(tokens[i], p)
              => \E j \in DOMAIN tokens' : Covers(tokens'[j], p)
    PROVE  Accounted(p)'
  <1>1. Char(p)' = Char(p) /\ (InComment(p) => InComment(p)')
    BY DEF Char, InComment
  <1> QED
    BY <1>1, Zenon DEF Accounted, Covers

(* A new token accounts for what it covers. *)
LEMMA EmitKeeps ==
    ASSUME NEW type \in TokenTypes, NEW from \in Int, NEW upto \in Int, NEW next \in Int,
           LexInv, lexing = "on", Emit(type, from, upto, next),
           ptr <= next, from <= next, upto < next,
           \A p \in ptr .. next - 1 :
              Covers([type |-> type, from |-> from, upto |-> upto], p)
    PROVE  LexInv'
  <1> DEFINE t == [type |-> type, from |-> from, upto |-> upto]
             n == Len(tokens) + 1
  <1>1. t \in Tokens /\ t.from = from /\ t.upto = upto
    BY DEF Tokens
  <1>2. tokens' = Append(tokens, t) /\ ptr' = next /\ UNCHANGED <<text, lexing>>
    BY DEF Emit
  <1> HIDE DEF t
  <1>3. /\ tokens' \in Seq(Tokens) /\ tokens' # <<>> /\ Len(tokens) \in Nat
        /\ DOMAIN tokens = 1 .. Len(tokens) /\ DOMAIN tokens' = 1 .. n
        /\ tokens'[n] = t /\ \A i \in 1 .. Len(tokens) : tokens'[i] = tokens[i]
    BY <1>1, <1>2, AppendProperties DEF LexInv, LexTypeOK
  <1>4. LexTypeOK'
    BY <1>2, <1>3 DEF LexInv, LexTypeOK
  <1>5. ASSUME NEW i \in DOMAIN tokens'
        PROVE  tokens'[i].from <= ptr' /\ tokens'[i].upto < ptr'
    <2>1. CASE i = n
      BY <1>1, <1>2, <1>3, <2>1
    <2>2. CASE i \in DOMAIN tokens
      <3>1. tokens[i] \in Tokens
        BY <1>3, <2>2 DEF LexInv, LexTypeOK
      <3>2. /\ tokens[i].from \in Int /\ tokens[i].upto \in Int
            /\ tokens[i].from <= ptr /\ tokens[i].upto < ptr
        BY <2>2, <3>1 DEF LexInv, Tokens
      <3> QED
        BY <1>2, <1>3, <2>2, <3>2 DEF LexInv, LexTypeOK
    <2> QED
      BY <1>3, <2>1, <2>2
  <1>6. ASSUME NEW p \in 1 .. ptr' - 1, p <= Len(text)
        PROVE  Accounted(p)'
    <2>1. CASE p \in 1 .. ptr - 1
      <3>1. Accounted(p)
        BY <1>6, <2>1 DEF LexInv
      <3> QED
        BY <1>2, <1>3, <3>1, AccountedStays
    <2>2. CASE p \in ptr .. next - 1
      <3>1. Covers(tokens'[n], p)
        BY <1>3, <2>2 DEF t
      <3>2. n \in DOMAIN tokens'
        BY <1>3
      <3> HIDE DEF n
      <3> QED
        BY <3>1, <3>2 DEF Accounted, Covers
    <2> QED
      BY <1>2, <2>1, <2>2 DEF LexInv, LexTypeOK
  <1> QED
    BY <1>2, <1>4, <1>5, <1>6 DEF LexInv

(* A name that grows accounts for what it did, and for what it grows by. *)
LEMMA GrowKeeps ==
    ASSUME NEW type \in TokenTypes, NEW upto \in Int,
           LexInv, lexing = "on", Grow(type, upto), ptr - 1 <= upto,
           LastType \in {"Identifier", "IdentifierWithScope"}
    PROVE  LexInv'
  <1> DEFINE n == Len(tokens)
             old == tokens[n]
             new == [old EXCEPT !.type = type, !.upto = upto]
  <1>1. n \in Nat /\ n # 0 /\ DOMAIN tokens = 1 .. n /\ n \in DOMAIN tokens
    BY DEF LexInv, LexTypeOK
  <1>2. /\ old \in Tokens /\ old.from <= ptr /\ old.upto < ptr
        /\ \A i \in DOMAIN tokens : tokens[i] \in Tokens
    BY <1>1 DEF LexInv, LexTypeOK
  <1>3. new \in Tokens /\ new.from = old.from /\ new.upto = upto
    BY <1>2 DEF Tokens
  <1>4. tokens' = [tokens EXCEPT ![n] = new] /\ ptr' = upto + 1 /\ UNCHANGED <<text, lexing>>
    BY DEF Grow
  <1> HIDE DEF new, old
  <1>5. /\ tokens' \in Seq(Tokens) /\ tokens' # <<>> /\ DOMAIN tokens' = DOMAIN tokens
        /\ tokens'[n] = new /\ \A i \in 1 .. n : i # n => tokens'[i] = tokens[i]
    <2>1. tokens \in Seq(Tokens) /\ tokens' = [tokens EXCEPT ![n] = new]
      BY <1>4 DEF LexInv, LexTypeOK
    <2>2. n \in 1 .. Len(tokens)
      BY <1>1
    <2> HIDE DEF n
    <2>3. /\ tokens' \in Seq(Tokens) /\ Len(tokens') = Len(tokens)
          /\ tokens'[n] = new /\ \A i \in 1 .. Len(tokens) : i # n => tokens'[i] = tokens[i]
      BY <1>3, <2>1, <2>2, ExceptSeq
    <2>4. DOMAIN tokens' = 1 .. Len(tokens') /\ Len(tokens) = n
      BY <2>3 DEF n
    <2>5. tokens' # <<>>
      BY <1>1, <2>3, <2>4
    <2> QED
      BY <1>1, <2>3, <2>4, <2>5
  <1>6. LexTypeOK'
    BY <1>4, <1>5 DEF LexInv, LexTypeOK
  <1>7. old.from \in Int /\ old.upto \in Int
    BY <1>2 DEF Tokens
  <1>8. ASSUME NEW i \in DOMAIN tokens'
        PROVE  tokens'[i].from <= ptr' /\ tokens'[i].upto < ptr'
    <2>1. CASE i = n
      BY <1>2, <1>3, <1>4, <1>5, <1>7, <2>1 DEF LexInv, LexTypeOK
    <2>2. CASE i # n
      <3>1. tokens[i] \in Tokens /\ tokens'[i] = tokens[i]
        BY <1>1, <1>2, <1>5, <2>2
      <3>2. /\ tokens[i].from \in Int /\ tokens[i].upto \in Int
            /\ tokens[i].from <= ptr /\ tokens[i].upto < ptr
        BY <1>5, <3>1 DEF LexInv, Tokens
      <3> QED
        BY <1>4, <3>1, <3>2 DEF LexInv, LexTypeOK
    <2> QED
      BY <2>1, <2>2
  <1>9. ASSUME NEW p \in 1 .. ptr' - 1, p <= Len(text)
        PROVE  Accounted(p)'
    <2>1. CASE p \in 1 .. ptr - 1
      <3>1. Accounted(p)
        BY <1>9, <2>1 DEF LexInv
      <3>2. Covers(old, p) => Covers(new, p)
        <4>1. old.type \in {"Identifier", "IdentifierWithScope"}
          BY DEF LastType, old
        <4> QED
          BY <1>2, <1>3, <1>7, <2>1, <4>1 DEF Covers, LexInv, LexTypeOK
      <3>3. ASSUME NEW i \in DOMAIN tokens, Covers(tokens[i], p)
            PROVE  Covers(tokens'[i], p)
        <4>1. CASE i = n
          BY <1>5, <3>2, <3>3, <4>1 DEF old
        <4>2. CASE i # n
          BY <1>1, <1>5, <3>3, <4>2
        <4> QED
          BY <4>1, <4>2
      <3> QED
        BY <1>4, <1>5, <3>1, <3>3, AccountedStays
    <2>2. CASE p \in ptr .. upto
      <3>1. Covers(tokens'[n], p)
        BY <1>2, <1>3, <1>5, <1>7, <2>2 DEF Covers, LexInv, LexTypeOK
      <3> QED
        BY <1>1, <1>5, <3>1, Zenon DEF Accounted, Covers
    <2> QED
      BY <1>4, <2>1, <2>2 DEF LexInv, LexTypeOK
  <1> QED
    BY <1>4, <1>6, <1>8, <1>9 DEF LexInv

-----------------------------------------------------------------------------
(***************************************************************************)
(* What the lexer reads at once.                                           *)
(***************************************************************************)

\* What Char is where there is no text.
Outside == ""

(* There is no character where there is no text.                           *)
LEMMA CharOutside ==
    ASSUME NEW p, p \notin 1 .. Len(text)
    PROVE  Char(p) = Outside
  BY Zenon DEF Char, Outside

\* It is no character the lexer looks for.
LEMMA NoCharacter ==
    Outside \notin Digits \cup Letters \cup Quotes \cup {".", "\\", "$"}
  BY Zenon DEF Outside, Digits, Letters, Quotes

(* A run of characters has an end, in the text. *)
LEMMA SpanInText ==
    ASSUME NEW p \in Nat \ {0}, NEW S, LexTypeOK, p <= Len(text) + 1, Outside \notin S
    PROVE  SpanEnd(p, S) \in p - 1 .. Len(text)
  <1> DEFINE Stops == {i \in Nat : p <= i /\ Char(i) \notin S}
  <1>1. Len(text) + 1 \in Stops
    <2>1. Len(text) + 1 \in Nat /\ Len(text) + 1 \notin 1 .. Len(text)
      BY DEF LexTypeOK
    <2>2. Char(Len(text) + 1) = Outside
      BY <2>1, CharOutside
    <2> QED
      BY <2>1, <2>2
  <1>2. PICK m \in Stops : \A i \in Stops : m <= i
    BY <1>1, Least
  <1>3. m \in Nat /\ p <= m /\ Char(m) \notin S /\ m <= Len(text) + 1
    BY <1>1, <1>2
  <1>4. ASSUME NEW i \in p .. m - 1
        PROVE  Char(i) \in S
    <2>1. i \in Nat /\ p <= i /\ ~(m <= i)
      BY <1>3
    <2> QED
      BY <1>2, <2>1
  <1> HIDE DEF Stops
  <1>5. m - 1 \in p - 1 .. Len(text) /\ (m - 1) + 1 = m
    BY <1>3 DEF LexTypeOK
  <1>6. \E q \in p - 1 .. Len(text) : (\A i \in p .. q : Char(i) \in S) /\ Char(q + 1) \notin S
    BY <1>3, <1>4, <1>5
  <1> QED
    BY <1>6 DEF SpanEnd

(* An operator is read up to its last character. *)
LEMMA OperatorInText ==
    ASSUME LexTypeOK, Char(ptr) \in DOMAIN Operators, ptr <= Len(text)
    PROVE  /\ OperatorEnd \in ptr .. ptr + 2 /\ OperatorEnd <= Len(text)
           /\ SubSeq(text, ptr, OperatorEnd) \in DOMAIN Operators
  <1> DEFINE Word(q) == SubSeq(text, ptr, q) \in DOMAIN Operators
             ends == {q \in ptr .. ptr + 2 : q <= Len(text) /\ Word(q)}
             Last(q) == \A r \in ends : r <= q
  <1>1. ptr \in ends
    <2>1. ptr \in 1 .. Len(text) /\ ptr \in ptr .. ptr + 2 /\ ptr <= Len(text)
      BY DEF LexTypeOK
    <2>2. Char(ptr) = SubSeq(text, ptr, ptr)
      BY <2>1, Zenon DEF Char
    <2>3. Word(ptr)
      BY <2>2
    <2> HIDE DEF Word
    <2> QED
      BY <2>1, <2>3
  <1> HIDE DEF Word
  <1>2. \E q \in ends : Last(q)
    <2>1. ends \subseteq {ptr, ptr + 1, ptr + 2}
      BY DEF LexTypeOK
    <2>2. CASE ptr + 2 \in ends
      BY <2>1, <2>2 DEF LexTypeOK
    <2>3. CASE ptr + 2 \notin ends /\ ptr + 1 \in ends
      BY <2>1, <2>3 DEF LexTypeOK
    <2>4. CASE ptr + 2 \notin ends /\ ptr + 1 \notin ends
      BY <1>1, <2>1, <2>4 DEF LexTypeOK
    <2> QED
      BY <2>2, <2>3, <2>4
  <1>3. OperatorEnd = CHOOSE q \in ends : Last(q)
    BY DEF OperatorEnd, Word
  <1> HIDE DEF Last
  <1>4. OperatorEnd \in ends
    BY <1>2, <1>3
  <1> QED
    BY <1>4 DEF Word

-----------------------------------------------------------------------------
(***************************************************************************)
(* String literals.  Where a literal ends is found from the end of the     *)
(* text backwards.                                                         *)
(***************************************************************************)
\* The last character that belongs to the one at p.
Hidden(p) ==
    LET escaped == IF Char(p) = "\\" THEN p + 1 ELSE p
    IN  IF Char(escaped) = "$" THEN escaped + 1 ELSE escaped

EndFrom(end, quote, p) ==
    IF p > Len(text) \/ Char(p) = quote THEN p
    ELSE IF Hidden(p) > Len(text) THEN 0
    ELSE end[Hidden(p) + 1]

EndsFrom(end, quote, p) == \A i \in p .. Len(text) + 1 : end[i] = EndFrom(end, quote, i)

(* An escape hides at most two characters.                                 *)
LEMMA HiddenAhead ==
    ASSUME NEW p \in Nat
    PROVE  Hidden(p) \in p .. p + 2
  BY DEF Hidden

(* Where a literal ends depends on the places behind only.                 *)
LEMMA EndFromLater ==
    ASSUME NEW f, NEW g, NEW quote, NEW p \in 1 .. Len(text) + 1, Len(text) \in Nat,
           \A i \in p + 1 .. Len(text) + 1 : f[i] = g[i]
    PROVE  EndFrom(f, quote, p) = EndFrom(g, quote, p)
  <1>1. p \in Nat /\ Hidden(p) \in p .. p + 2
    BY HiddenAhead
  <1>2. Hidden(p) <= Len(text) => Hidden(p) + 1 \in p + 1 .. Len(text) + 1
    BY <1>1
  <1>3. Hidden(p) <= Len(text) => f[Hidden(p) + 1] = g[Hidden(p) + 1]
    BY <1>2
  <1> QED
    BY <1>1, <1>3 DEF EndFrom

(* For every place of the text there is a place where its literal ends. *)
LEMMA EndsExist ==
    ASSUME NEW quote, Len(text) \in Nat
    PROVE  \E end : /\ end = [p \in 1 .. Len(text) + 1 |-> EndFrom(end, quote, p)]
  <1> DEFINE L == Len(text)
             There(k) == \E f : /\ f = [i \in L + 1 - k .. L + 1 |-> f[i]]
                                /\ EndsFrom(f, quote, L + 1 - k)
             T == {k \in Nat : k <= L => There(k)}
  <1>1. 0 \in T
    <2> DEFINE f == [i \in L + 1 .. L + 1 |-> i]
    <2>1. f = [i \in L + 1 - 0 .. L + 1 |-> f[i]]
      OBVIOUS
    <2>2. EndsFrom(f, quote, L + 1 - 0)
      <3>1. L + 1 - 0 = L + 1 /\ L + 1 \in L + 1 .. L + 1 /\ L + 1 > L
        OBVIOUS
      <3> QED
        BY <3>1 DEF EndsFrom, EndFrom
    <2> HIDE DEF f
    <2>3. There(0)
      BY <2>1, <2>2
    <2> HIDE DEF There
    <2> QED
      BY <2>3
  <1>2. ASSUME NEW k \in Nat, k \in T
        PROVE  k + 1 \in T
    <2> DEFINE p == L + 1 - (k + 1)
    <2> SUFFICES ASSUME k + 1 <= L PROVE There(k + 1)
      BY <1>2
    <2>1. p \in 1 .. L /\ L + 1 - k = p + 1
      BY <1>2
    <2>2. There(k)
      BY <1>2
    <2> HIDE DEF p
    <2>3. PICK f : f = [i \in p + 1 .. L + 1 |-> f[i]] /\ EndsFrom(f, quote, p + 1)
      BY <2>1, <2>2
    <2> DEFINE g == [i \in p .. L + 1 |-> IF i = p THEN EndFrom(f, quote, p) ELSE f[i]]
    <2>4. g[p] = EndFrom(f, quote, p) /\ \A i \in p + 1 .. L + 1 : g[i] = f[i]
      BY <2>1
    <2>5. g = [i \in p .. L + 1 |-> g[i]]
      OBVIOUS
    <2> HIDE DEF g
    <2>6. ASSUME NEW i \in p .. L + 1
          PROVE  g[i] = EndFrom(g, quote, i)
      <3>1. i \in 1 .. L + 1 /\ \A j \in i + 1 .. L + 1 : f[j] = g[j]
        BY <2>1, <2>4
      <3>2. EndFrom(f, quote, i) = EndFrom(g, quote, i)
        BY <3>1, EndFromLater
      <3>3. CASE i = p
        BY <2>4, <3>2, <3>3
      <3>4. CASE i \in p + 1 .. L + 1
        <4>1. f[i] = EndFrom(f, quote, i)
          BY <2>3, <3>4 DEF EndsFrom
        <4> QED
          BY <2>4, <3>2, <3>4, <4>1
      <3> QED
        BY <2>1, <3>3, <3>4
    <2>7. EndsFrom(g, quote, p)
      BY <2>6 DEF EndsFrom
    <2> QED
      BY <2>5, <2>7 DEF p
  <1> HIDE DEF T
  <1>3. L \in T
    BY <1>1, <1>2, SetInduction
  <1> HIDE DEF There
  <1>4. There(L)
    BY <1>3 DEF T
  <1>5. PICK f : f = [i \in 1 .. L + 1 |-> f[i]] /\ EndsFrom(f, quote, 1)
    <2>1. L + 1 - L = 1
      OBVIOUS
    <2> QED
      BY <1>4, <2>1 DEF There
  <1>6. \A i \in 1 .. L + 1 : f[i] = EndFrom(f, quote, i)
    BY <1>5 DEF EndsFrom
  <1>7. f = [i \in 1 .. L + 1 |-> EndFrom(f, quote, i)]
    BY <1>5, <1>6
  <1> QED
    BY <1>7

(* A literal ends behind its first quote and not beyond the end of the text, *)
(* or that end is not found.                                               *)
LEMMA LiteralInText ==
    ASSUME NEW quote, NEW p \in 1 .. Len(text) + 1, Len(text) \in Nat
    PROVE  LiteralEnd(quote)[p] \in {0} \cup (p .. Len(text) + 1)
  <1> DEFINE L == Len(text)
             IsEnd(end) == end = [i \in 1 .. L + 1 |-> EndFrom(end, quote, i)]
             end == CHOOSE end : IsEnd(end)
             Good(i) == end[i] \in {0} \cup (i .. L + 1)
             Bads == {k \in Nat : k <= L /\ ~Good(L + 1 - k)}
  <1>1. LiteralEnd(quote) = end
    BY DEF LiteralEnd, EndFrom, Hidden
  <1>2. IsEnd(end)
    <2>1. \E f : IsEnd(f)
      BY EndsExist
    <2> HIDE DEF IsEnd
    <2> QED
      BY <2>1
  <1> HIDE DEF end
  <1>3. \A i \in 1 .. L + 1 : end[i] = EndFrom(end, quote, i)
    BY <1>2
  <1>4. ASSUME Bads # {}
        PROVE  FALSE
    <2>1. PICK k \in Bads : \A m \in Bads : k <= m
      BY <1>4, Least
    <2> DEFINE i == L + 1 - k
    <2>2. i \in 1 .. L + 1 /\ ~Good(i)
      BY <2>1
    <2>3. ASSUME NEW j \in i + 1 .. L + 1
          PROVE  Good(j)
      <3>1. L + 1 - j \in Nat /\ L + 1 - j <= L /\ L + 1 - j < k /\ L + 1 - (L + 1 - j) = j
        BY <2>1, <2>2
      <3> HIDE DEF Good
      <3> QED
        BY <2>1, <3>1
    <2> HIDE DEF i
    <2>4. Hidden(i) \in i .. i + 2
      BY <2>2, HiddenAhead
    <2>5. CASE i > L \/ Char(i) = quote
      BY <1>3, <2>2, <2>5 DEF EndFrom
    <2>6. CASE ~(i > L \/ Char(i) = quote) /\ Hidden(i) > L
      BY <1>3, <2>2, <2>6 DEF EndFrom
    <2>7. CASE ~(i > L \/ Char(i) = quote) /\ ~(Hidden(i) > L)
      <3>1. end[i] = end[Hidden(i) + 1]
        BY <1>3, <2>2, <2>7 DEF EndFrom
      <3>2. Good(Hidden(i) + 1)
        BY <2>2, <2>3, <2>4, <2>7
      <3> QED
        BY <2>2, <2>4, <2>7, <3>1, <3>2
    <2> QED
      BY <2>5, <2>6, <2>7
  <1>5. Good(p)
    <2>1. L + 1 - p \in Nat /\ L + 1 - p <= L /\ L + 1 - (L + 1 - p) = p
      OBVIOUS
    <2> HIDE DEF Good
    <2> QED
      BY <1>4, <2>1
  <1> QED
    BY <1>1, <1>5

-----------------------------------------------------------------------------
(***************************************************************************)
(* One iteration of the loop.                                              *)
(***************************************************************************)
\* The invariant gives what every iteration starts from.
Begins == LexInv /\ lexing = "on" /\ ptr <= Len(text)

(* A blank is passed over.                                                 *)
LEMMA BlankStep ==
    ASSUME Begins, SkipBlank
    PROVE  LexInv'
  <1>1. ptr' = ptr + 1 /\ UNCHANGED <<text, tokens, lexing>> /\ Char(ptr) \in Blanks
    BY DEF SkipBlank
  <1>2. LexTypeOK /\ LexTypeOK'
    BY <1>1 DEF Begins, LexInv, LexTypeOK
  <1>3. ASSUME NEW i \in DOMAIN tokens'
        PROVE  tokens'[i].from <= ptr' /\ tokens'[i].upto < ptr'
    <2>1. tokens[i] \in Tokens
      BY <1>1, <1>2, <1>3 DEF LexTypeOK
    <2>2. /\ tokens[i].from \in Int /\ tokens[i].upto \in Int
          /\ tokens[i].from <= ptr /\ tokens[i].upto < ptr
      BY <1>1, <1>3, <2>1 DEF Begins, LexInv, Tokens
    <2> QED
      BY <1>1, <1>2, <2>2 DEF LexTypeOK
  <1>4. ASSUME NEW p \in 1 .. ptr' - 1, p <= Len(text)
        PROVE  Accounted(p)'
    <2>1. Accounted(p)
      <3>1. CASE p = ptr
        BY <1>1, <3>1 DEF Accounted
      <3>2. CASE p \in 1 .. ptr - 1
        BY <1>4, <3>2 DEF Begins, LexInv
      <3> QED
        BY <1>1, <1>2, <3>1, <3>2 DEF LexTypeOK
    <2> QED
      BY <1>1, <2>1, AccountedStays
  <1> QED
    BY <1>1, <1>2, <1>3, <1>4 DEF LexInv

(* A comment is passed over to the end of its line. *)
LEMMA CommentStep ==
    ASSUME Begins, LexComment
    PROVE  LexInv'
  <1> DEFINE Ends(q) == Char(q) \in {"\n", "\r"}
             eol == {q \in ptr .. Len(text) : Ends(q)}
             First(q) == \A r \in eol : q <= r
             q == CHOOSE q \in eol : First(q)
  <1>1. LexTypeOK
    BY DEF Begins, LexInv
  <1>2. CASE eol = {}
    <2>1. lexing' = "overrun" /\ UNCHANGED <<text, ptr, tokens>>
      BY <1>2 DEF LexComment, LexFail
    <2> QED
      BY <1>1, <2>1 DEF Begins, LexInv, LexTypeOK
  <1>3. CASE eol # {}
    <2>1. ptr' = 1 + q /\ UNCHANGED <<text, tokens, lexing>>
      BY <1>3 DEF LexComment
    <2>2. q \in eol /\ First(q)
      <3>1. eol \in SUBSET Nat
        BY <1>1 DEF LexTypeOK
      <3>2. \E r \in eol : First(r)
        BY <1>3, <3>1, Least
      <3> HIDE DEF First, eol
      <3> QED
        BY <3>2
    <2> HIDE DEF q
    <2>3. q \in Nat /\ ptr <= q /\ q <= Len(text)
      BY <1>1, <2>2 DEF LexTypeOK
    <2>4. \A i \in ptr .. q - 1 : ~Ends(i)
      <3>1. ASSUME NEW i \in ptr .. q - 1, Ends(i)
            PROVE  FALSE
        <4>1. i \in eol /\ ~(q <= i)
          BY <1>1, <2>3, <3>1 DEF LexTypeOK
        <4> QED
          BY <2>2, <4>1
      <3> QED
        BY <3>1
    <2>5. LexTypeOK'
      BY <1>1, <2>1, <2>3 DEF LexTypeOK
    <2>6. ASSUME NEW i \in DOMAIN tokens'
          PROVE  tokens'[i].from <= ptr' /\ tokens'[i].upto < ptr'
      <3>1. tokens[i] \in Tokens
        BY <1>1, <2>1, <2>6 DEF LexTypeOK
      <3>2. /\ tokens[i].from \in Int /\ tokens[i].upto \in Int
            /\ tokens[i].from <= ptr /\ tokens[i].upto < ptr
        BY <2>1, <2>6, <3>1 DEF Begins, LexInv, Tokens
      <3> QED
        BY <1>1, <2>1, <2>3, <3>2 DEF LexTypeOK
    <2>7. ASSUME NEW p \in 1 .. ptr' - 1, p <= Len(text)
          PROVE  Accounted(p)'
      <3>1. CASE p \in ptr .. q
        <4>1. ptr \in 1 .. p /\ Char(ptr) \o Char(ptr + 1) = "//"
          BY <1>1, <3>1 DEF LexTypeOK, LexComment, TwoChars
        <4>2. \A i \in ptr .. p - 1 : Char(i) \notin {"\n", "\r"}
          BY <1>1, <2>3, <2>4, <3>1 DEF LexTypeOK
        <4> HIDE DEF Ends
        <4>3. InComment(p)
          BY <4>1, <4>2, Zenon DEF InComment
        <4> QED
          BY <2>1, <4>3, AccountedStays DEF Accounted
      <3>2. CASE p \in 1 .. ptr - 1
        <4>1. Accounted(p)
          BY <2>7, <3>2 DEF Begins, LexInv
        <4> QED
          BY <2>1, <4>1, AccountedStays
      <3> QED
        BY <1>1, <2>1, <2>3, <3>1, <3>2 DEF LexTypeOK
    <2> QED
      BY <2>1, <2>5, <2>6, <2>7 DEF LexInv
  <1> QED
    BY <1>2, <1>3

(* An operator is covered by its token.                                    *)
LEMMA OperatorStep ==
    ASSUME Begins, LexOperator
    PROVE  LexInv'
  <1> DEFINE word == SubSeq(text, ptr, OperatorEnd)
             type == SideOf(Operators[word])
  <1>1. LexTypeOK /\ OperatorEnd \in ptr .. ptr + 2 /\ word \in DOMAIN Operators
    BY OperatorInText DEF Begins, LexInv, LexOperator
  <1>2. Emit(type, ptr, OperatorEnd, OperatorEnd + 1)
    BY DEF LexOperator
  <1>3. type \in TokenTypes
    <2>1. Operators[word] \in OperatorTokens
      BY <1>1, Zenon DEF OperatorTokens
    <2>2. ASSUME NEW t \in OperatorTokens
          PROVE  SideOf(t) \in TokenTypes
      <3>1. \/ SideOf(t) = t
            \/ SideOf(t) = t \o "Right"
            \/ SideOf(t) = t \o "Left"
        BY Zenon DEF SideOf
      <3> QED
        BY <3>1, Zenon DEF TokenTypes
    <2> QED
      BY <2>1, <2>2
  <1> HIDE DEF type
  <1>4. /\ ptr \in Int /\ OperatorEnd \in Int /\ OperatorEnd + 1 \in Int
        /\ ptr <= OperatorEnd + 1 /\ OperatorEnd < OperatorEnd + 1
        /\ \A p \in ptr .. (OperatorEnd + 1) - 1 : p \in ptr .. OperatorEnd
    BY <1>1 DEF LexTypeOK
  <1>5. \A p \in ptr .. (OperatorEnd + 1) - 1 :
           Covers([type |-> type, from |-> ptr, upto |-> OperatorEnd], p)
    BY <1>4 DEF Covers
  <1> QED
    BY <1>2, <1>3, <1>4, <1>5, EmitKeeps DEF Begins

(* "::" is covered by the name it belongs to, or by a token of its own.    *)
LEMMA ScopeStep ==
    ASSUME Begins, LexScope
    PROVE  LexInv'
  <1>1. LexTypeOK /\ "IdentifierWithScope" \in TokenTypes
    BY DEF Begins, LexInv, TokenTypes
  <1>2. /\ ptr \in Int /\ ptr + 1 \in Int /\ ptr + 2 \in Int /\ ptr <= ptr + 2
        /\ ptr + 1 < ptr + 2 /\ ptr - 1 <= ptr + 1
        /\ \A p \in ptr .. (ptr + 2) - 1 : p \in ptr .. ptr + 1
    BY <1>1 DEF LexTypeOK
  <1>3. CASE LastType \in {"Identifier", "IdentifierWithScope"}
    <2>1. Grow("IdentifierWithScope", ptr + 1)
      BY <1>3 DEF LexScope
    <2> QED
      BY <1>1, <1>2, <1>3, <2>1, GrowKeeps DEF Begins
  <1>4. CASE LastType \notin {"Identifier", "IdentifierWithScope"}
    <2>1. Emit("IdentifierWithScope", ptr, ptr + 1, ptr + 2)
      BY <1>4 DEF LexScope
    <2>2. \A p \in ptr .. (ptr + 2) - 1 :
             Covers([type |-> "IdentifierWithScope", from |-> ptr, upto |-> ptr + 1], p)
      BY <1>2 DEF Covers
    <2> QED
      BY <1>1, <1>2, <2>1, <2>2, EmitKeeps DEF Begins
  <1> QED
    BY <1>3, <1>4

(* A literal is covered with the quotes around it. *)
LEMMA StringStep ==
    ASSUME Begins, LexString
    PROVE  LexInv'
  <1> DEFINE end == LiteralEnd(Char(ptr))[ptr + 1]
  <1>1. LexTypeOK /\ "StringLiteral" \in TokenTypes
    BY DEF Begins, LexInv, TokenTypes
  <1>2. end \in {0} \cup (ptr + 1 .. Len(text) + 1)
    <2>1. ptr + 1 \in 1 .. Len(text) + 1 /\ Len(text) \in Nat
      BY <1>1 DEF Begins, LexTypeOK
    <2> QED
      BY <2>1, LiteralInText
  <1>3. IF end = 0 THEN LexFail("thrown")
        ELSE Emit("StringLiteral", ptr + 1, end - 1, end + 1)
    BY DEF LexString
  <1> HIDE DEF end
  <1>4. CASE end = 0
    BY <1>1, <1>3, <1>4 DEF LexFail, Begins, LexInv, LexTypeOK
  <1>5. CASE end # 0
    <2>1. /\ ptr + 1 \in Int /\ end - 1 \in Int /\ end + 1 \in Int
          /\ ptr <= end + 1 /\ ptr + 1 <= end + 1 /\ end - 1 < end + 1
          /\ (ptr + 1) - 1 = ptr /\ (end - 1) + 1 = end
          /\ \A p \in ptr .. (end + 1) - 1 : p \in {ptr, end} \/ p \in ptr + 1 .. end - 1
      BY <1>1, <1>2, <1>5 DEF LexTypeOK
    <2>2. \A p \in ptr .. (end + 1) - 1 :
             Covers([type |-> "StringLiteral", from |-> ptr + 1, upto |-> end - 1], p)
      BY <2>1 DEF Covers
    <2> QED
      BY <1>1, <1>3, <1>5, <2>1, <2>2, EmitKeeps DEF Begins
  <1> QED
    BY <1>4, <1>5

(* A number is covered with the one character behind it. *)
LEMMA NumberStep ==
    ASSUME Begins, LexNumber
    PROVE  LexInv'
  <1> DEFINE whole == SpanEnd(ptr, Digits)
             fraction == SpanEnd(whole + 2, Digits)
  <1>1. LexTypeOK /\ "Int" \in TokenTypes /\ "Float" \in TokenTypes
    BY DEF Begins, LexInv, TokenTypes
  <1>2. Outside \notin Digits /\ Outside # "."
    BY NoCharacter, Zenon
  <1>3. ptr \in Nat \ {0} /\ ptr <= Len(text) /\ Len(text) \in Nat
    BY <1>1 DEF Begins, LexTypeOK
  <1>4. whole \in ptr - 1 .. Len(text)
    BY <1>1, <1>2, <1>3, SpanInText
  <1> HIDE DEF whole
  <1>5. ASSUME NEW type \in {"Int", "Float"}, NEW upto \in ptr - 1 .. Len(text),
               Emit(type, ptr, upto, upto + 2)
        PROVE  LexInv'
    <2>1. /\ ptr \in Int /\ upto \in Int /\ upto + 2 \in Int
          /\ ptr <= upto + 2 /\ upto < upto + 2
          /\ \A p \in ptr .. (upto + 2) - 1 : p \in ptr .. upto \/ upto = p - 1
      BY <1>3, <1>5
    <2>2. \A p \in ptr .. (upto + 2) - 1 :
             Covers([type |-> type, from |-> ptr, upto |-> upto], p)
      BY <2>1 DEF Covers
    <2>3. type \in TokenTypes
      BY <1>1
    <2> QED
      BY <1>5, <2>1, <2>2, <2>3, EmitKeeps DEF Begins
  <1>6. CASE Char(whole + 1) = "."
    <2>1. whole + 1 \in 1 .. Len(text)
      BY <1>2, <1>6, CharOutside
    <2>2. whole + 2 \in Nat \ {0} /\ whole + 2 <= Len(text) + 1
      BY <1>3, <1>4, <2>1
    <2>3. fraction \in (whole + 2) - 1 .. Len(text)
      BY <1>1, <1>2, <2>2, SpanInText
    <2>4. Emit("Float", ptr, fraction, fraction + 2)
      BY <1>6 DEF LexNumber, whole
    <2> HIDE DEF fraction
    <2>5. fraction \in ptr - 1 .. Len(text)
      BY <1>3, <1>4, <2>3
    <2> QED
      BY <1>5, <2>4, <2>5
  <1>7. CASE Char(whole + 1) # "."
    <2>1. Emit("Int", ptr, whole, whole + 2)
      BY <1>7 DEF LexNumber, whole
    <2> QED
      BY <1>4, <1>5, <2>1
  <1> QED
    BY <1>6, <1>7

(* A name or a keyword is covered by its token, or by the one that grows.  *)
LEMMA NameStep ==
    ASSUME Begins, LexName
    PROVE  LexInv'
  <1> DEFINE upto == SpanEnd(ptr, Letters \cup Digits)
             word == SubSeq(text, ptr, upto)
  <1>1. LexTypeOK /\ "Identifier" \in TokenTypes /\ "IdentifierWithScope" \in TokenTypes
    BY DEF Begins, LexInv, TokenTypes
  <1>2. ptr \in Nat \ {0} /\ ptr <= Len(text) /\ Len(text) \in Nat
    BY <1>1 DEF Begins, LexTypeOK
  <1>3. upto \in ptr - 1 .. Len(text)
    <2>1. Outside \notin Letters \cup Digits
      BY NoCharacter, Zenon
    <2> QED
      BY <1>1, <1>2, <2>1, SpanInText
  <1>4. IF word \in DOMAIN Keywords THEN Emit(Keywords[word], ptr, upto, upto + 1)
        ELSE IF LastType = "IdentifierWithScope" THEN Grow(LastType, upto)
        ELSE Emit("Identifier", ptr, upto, upto + 1)
    BY DEF LexName
  <1>5. word \in DOMAIN Keywords => Keywords[word] \in TokenTypes
    BY Zenon DEF TokenTypes
  <1> HIDE DEF upto, word
  <1>6. ASSUME NEW type \in TokenTypes, Emit(type, ptr, upto, upto + 1)
        PROVE  LexInv'
    <2>1. /\ ptr \in Int /\ upto \in Int /\ upto + 1 \in Int
          /\ ptr <= upto + 1 /\ upto < upto + 1
          /\ \A p \in ptr .. (upto + 1) - 1 : p \in ptr .. upto
      BY <1>2, <1>3
    <2>2. \A p \in ptr .. (upto + 1) - 1 :
             Covers([type |-> type, from |-> ptr, upto |-> upto], p)
      BY <2>1 DEF Covers
    <2> QED
      BY <1>6, <2>1, <2>2, EmitKeeps DEF Begins
  <1>7. CASE word \in DOMAIN Keywords
    BY <1>4, <1>5, <1>6, <1>7
  <1>8. CASE word \notin DOMAIN Keywords /\ LastType = "IdentifierWithScope"
    <2>1. Grow("IdentifierWithScope", upto) /\ upto \in Int /\ ptr - 1 <= upto
      BY <1>2, <1>3, <1>4, <1>8
    <2> QED
      BY <1>1, <1>8, <2>1, GrowKeeps DEF Begins
  <1>9. CASE word \notin DOMAIN Keywords /\ LastType # "IdentifierWithScope"
    BY <1>1, <1>4, <1>6, <1>9
  <1> QED
    BY <1>7, <1>8, <1>9

(* The last token is of nothing, and nothing more is read. *)
LEMMA EndOfTextStep ==
    ASSUME LexInv, LexEnd
    PROVE  LexInv'
  <1> DEFINE t == [type |-> "EndOfFile", from |-> ptr, upto |-> ptr - 1]
             n == Len(tokens) + 1
  <1>1. tokens' = Append(tokens, t) /\ lexing' = "done" /\ UNCHANGED <<text, ptr>>
    BY DEF LexEnd
  <1>2. t \in Tokens /\ t.from = ptr /\ t.upto = ptr - 1
    BY DEF Tokens, TokenTypes, LexInv, LexTypeOK
  <1> HIDE DEF t
  <1>3. /\ tokens' \in Seq(Tokens) /\ tokens' # <<>> /\ Len(tokens) \in Nat
        /\ DOMAIN tokens = 1 .. Len(tokens) /\ DOMAIN tokens' = 1 .. n
        /\ tokens'[n] = t /\ \A i \in 1 .. Len(tokens) : tokens'[i] = tokens[i]
    BY <1>1, <1>2, AppendProperties DEF LexInv, LexTypeOK
  <1>4. ASSUME NEW i \in DOMAIN tokens'
        PROVE  tokens'[i].from <= ptr' /\ tokens'[i].upto < ptr'
    <2>1. CASE i = n
      BY <1>1, <1>2, <1>3, <2>1 DEF LexInv, LexTypeOK
    <2>2. CASE i \in DOMAIN tokens
      BY <1>1, <1>3, <2>2 DEF LexInv
    <2> QED
      BY <1>3, <2>1, <2>2
  <1> QED
    BY <1>1, <1>3, <1>4 DEF LexInv, LexTypeOK

(* Every iteration of the loop keeps the invariant.                        *)
LEMMA LexStep ==
    ASSUME LexInv, [LexNext]_lexVars
    PROVE  LexInv'
  <1>1. CASE UNCHANGED lexVars
    <2>1. LexInv
      OBVIOUS
    <2> QED
      BY <1>1, <2>1 DEF lexVars, LexInv, LexTypeOK, Accounted, Covers, InComment, Char
  <1>2. CASE LexNext /\ LexEnd
    BY <1>2, EndOfTextStep
  <1>3. CASE LexNext /\ LexUnknown
    <2>1. lexing' = "thrown" /\ UNCHANGED <<text, ptr, tokens>>
      BY <1>3 DEF LexUnknown, LexFail
    <2> QED
      BY <2>1 DEF LexInv, LexTypeOK
  <1>4. CASE LexNext /\ ~LexEnd /\ ~LexUnknown
    <2>1. Begins
      BY <1>4 DEF LexNext, Begins
    <2> QED
      BY <1>4, <2>1, BlankStep, OperatorStep, ScopeStep, CommentStep, StringStep,
         NumberStep, NameStep DEF LexNext
  <1> QED
    BY <1>1, <1>2, <1>3, <1>4

(* No character of a text is lost to the tokens, whatever the text, but for *)
(* blanks, comments, quotes and the one behind a number (run,              *)
(* handleNumber): however names and scopes grow together, literals hide     *)
(* their quotes and operators overlap.                                     *)
THEOREM NothingLostHolds ==
    ASSUME LengthsAreNumbers
    PROVE  LexSpec => []NothingLost
  <1>1. LexInit => LexInv
    BY LexInitInv
  <1>2. ASSUME LexInv, [LexNext]_lexVars
        PROVE  LexInv'
    BY <1>2, LexStep
  <1> QED
    BY <1>1, <1>2, InvLosesNothing, PTL DEF LexSpec

-----------------------------------------------------------------------------
(***************************************************************************)
(* What the parser relies on: the last of the tokens ends the text, and a  *)
(* name is a part of it.                                                   *)
(***************************************************************************)
\* A part of a string is a string.
TextsAreStrings ==
    \A t \in Texts :
        /\ Len(t) \in Nat
        /\ \A p, q \in Int : 1 <= p /\ q <= Len(t) => SubSeq(t, p, q) \in STRING

NameInText(t) == t.type = "Identifier" => 1 <= t.from /\ t.upto <= Len(text)

ReadInv ==
    /\ text \in Texts
    /\ lexing = "done" => LastType = "EndOfFile"
    /\ \A i \in DOMAIN tokens : NameInText(tokens[i])

(* A new token has its place in the text if it is a name.                  *)
LEMMA EmitReads ==
    ASSUME NEW type, NEW from, NEW upto, NEW next,
           LexTypeOK, ReadInv, lexing = "on", Emit(type, from, upto, next),
           type = "Identifier" => 1 <= from /\ upto <= Len(text)
    PROVE  ReadInv'
  <1> DEFINE t == [type |-> type, from |-> from, upto |-> upto]
             n == Len(tokens) + 1
  <1>1. t.type = type /\ t.from = from /\ t.upto = upto
    OBVIOUS
  <1>2. tokens' = Append(tokens, t) /\ UNCHANGED <<text, lexing>>
    BY DEF Emit
  <1> HIDE DEF t
  <1>3. /\ DOMAIN tokens = 1 .. Len(tokens) /\ DOMAIN tokens' = 1 .. n /\ Len(tokens) \in Nat
        /\ tokens'[n] = t /\ \A i \in 1 .. Len(tokens) : tokens'[i] = tokens[i]
    BY <1>2 DEF LexTypeOK
  <1>4. ASSUME NEW i \in DOMAIN tokens'
        PROVE  NameInText(tokens[i])'
    <2>1. CASE i = n
      BY <1>1, <1>2, <1>3, <2>1 DEF NameInText
    <2>2. CASE i \in DOMAIN tokens
      BY <1>2, <1>3, <2>2 DEF ReadInv, NameInText
    <2> QED
      BY <1>3, <2>1, <2>2
  <1> QED
    BY <1>2, <1>4 DEF ReadInv, NameInText

(* A name that grows becomes one with a scope.                             *)
LEMMA GrowReads ==
    ASSUME NEW type, NEW upto, LexTypeOK, ReadInv, lexing = "on", Grow(type, upto),
           type = "IdentifierWithScope"
    PROVE  ReadInv'
  <1> DEFINE n == Len(tokens)
             old == tokens[n]
             new == [old EXCEPT !.type = type, !.upto = upto]
  <1>1. n \in DOMAIN tokens /\ old \in Tokens
    BY DEF LexTypeOK
  <1>2. new.type = type
    BY <1>1 DEF Tokens
  <1>3. tokens' = [tokens EXCEPT ![n] = new] /\ UNCHANGED <<text, lexing>>
    BY DEF Grow
  <1> HIDE DEF new, old
  <1>4. /\ DOMAIN tokens' = DOMAIN tokens /\ tokens'[n] = new
        /\ \A i \in DOMAIN tokens : i # n => tokens'[i] = tokens[i]
    BY <1>1, <1>3
  <1>5. ASSUME NEW i \in DOMAIN tokens'
        PROVE  NameInText(tokens[i])'
    <2>1. CASE i = n
      BY <1>2, <1>3, <1>4, <2>1 DEF NameInText
    <2>2. CASE i # n
      BY <1>3, <1>4, <2>2 DEF ReadInv, NameInText
    <2> QED
      BY <2>1, <2>2
  <1> QED
    BY <1>3, <1>5 DEF ReadInv, NameInText

(* Every iteration keeps this.                                             *)
LEMMA ReadStep ==
    ASSUME LexInv, ReadInv, [LexNext]_lexVars
    PROVE  ReadInv'
  <1>1. LexTypeOK
    BY DEF LexInv
  <1>2. CASE lexing = lexing' /\ UNCHANGED <<text, tokens>>
    BY <1>2 DEF ReadInv, LastType, NameInText
  <1>3. CASE LexNext /\ LexEnd
    <2> DEFINE t == [type |-> "EndOfFile", from |-> ptr, upto |-> ptr - 1]
               n == Len(tokens) + 1
    <2>1. tokens' = Append(tokens, t) /\ UNCHANGED text /\ t.type = "EndOfFile"
      BY <1>3 DEF LexEnd
    <2> HIDE DEF t
    <2>2. /\ DOMAIN tokens = 1 .. Len(tokens) /\ DOMAIN tokens' = 1 .. n /\ Len(tokens) \in Nat
          /\ Len(tokens') = n
          /\ tokens'[n] = t /\ \A i \in 1 .. Len(tokens) : tokens'[i] = tokens[i]
      BY <1>1, <2>1 DEF LexTypeOK
    <2>3. ASSUME NEW i \in DOMAIN tokens'
          PROVE  NameInText(tokens[i])'
      <3>1. CASE i = n
        BY <2>1, <2>2, <3>1 DEF NameInText
      <3>2. CASE i \in DOMAIN tokens
        BY <2>1, <2>2, <3>2 DEF ReadInv, NameInText
      <3> QED
        BY <2>2, <3>1, <3>2
    <2> QED
      BY <2>1, <2>2, <2>3 DEF ReadInv, LastType, NameInText
  <1>4. ASSUME NEW how, LexFail(how), how # "done"
        PROVE  ReadInv'
    BY <1>4 DEF LexFail, ReadInv, NameInText
  <1>5. CASE LexNext /\ ptr <= Len(text)
    <2>1. lexing = "on" /\ ptr \in Nat \ {0} /\ Len(text) \in Nat
      BY <1>1, <1>5 DEF LexNext, LexTypeOK
    <2>2. SkipBlank => ReadInv'
      BY <1>2 DEF SkipBlank
    <2>3. LexOperator => ReadInv'
      <3>1. SUFFICES ASSUME LexOperator PROVE ReadInv'
        OBVIOUS
      <3>2. OperatorEnd <= Len(text)
        BY <1>1, <1>5, <3>1, OperatorInText DEF LexOperator
      <3>3. Emit(SideOf(Operators[SubSeq(text, ptr, OperatorEnd)]), ptr, OperatorEnd, OperatorEnd + 1)
        BY <3>1 DEF LexOperator
      <3> QED
        BY <1>1, <2>1, <3>2, <3>3, EmitReads
    <2>4. LexScope => ReadInv'
      BY <1>1, <2>1, EmitReads, GrowReads DEF LexScope
    <2>5. LexComment => ReadInv'
      <3>1. SUFFICES ASSUME LexComment PROVE ReadInv'
        OBVIOUS
      <3>2. LexFail("overrun") \/ UNCHANGED <<text, tokens, lexing>>
        BY <3>1 DEF LexComment
      <3> QED
        BY <1>2, <1>4, <3>2
    <2>6. LexString => ReadInv'
      BY <1>1, <1>4, <2>1, EmitReads DEF LexString
    <2>7. LexNumber => ReadInv'
      BY <1>1, <2>1, EmitReads DEF LexNumber
    <2>8. LexName => ReadInv'
      <3>1. SUFFICES ASSUME LexName PROVE ReadInv'
        OBVIOUS
      <3> DEFINE upto == SpanEnd(ptr, Letters \cup Digits)
      <3>2. upto \in ptr - 1 .. Len(text)
        <4>1. Outside \notin Letters \cup Digits
          BY NoCharacter, Zenon
        <4> QED
          BY <1>1, <1>5, <2>1, <4>1, SpanInText
      <3>3. \/ LastType = "IdentifierWithScope" /\ Grow(LastType, upto)
            \/ \E type : Emit(type, ptr, upto, upto + 1)
        BY <3>1 DEF LexName
      <3> HIDE DEF upto
      <3> QED
        BY <1>1, <2>1, <3>2, <3>3, EmitReads, GrowReads
    <2>9. LexUnknown => ReadInv'
      BY <1>4 DEF LexUnknown
    <2>10. LexEnd => ReadInv'
      BY <1>3, <1>5
    <2> QED
      BY <1>5, <2>2, <2>3, <2>4, <2>5, <2>6, <2>7, <2>8, <2>9, <2>10 DEF LexNext
  <1>6. UNCHANGED lexVars => lexing = lexing' /\ UNCHANGED <<text, tokens>>
    BY DEF lexVars
  <1> QED
    BY <1>2, <1>3, <1>5, <1>6 DEF LexNext
=============================================================================
