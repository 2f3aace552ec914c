------------------------------- MODULE Lexer --------------------------------
(***************************************************************************)
(* The lexer of the interpreter (Interpreter/Lexer.h): run turns the text  *)
(* of a program into tokens.  One action is one iteration of its loop; ptr *)
(* is m_ptr at the head of the loop.  A lexeme is a view of the text, so a *)
(* token keeps the places of its first and last character.                 *)
(***************************************************************************)
EXTENDS Integers, Sequences, TLC

CONSTANT Texts   \* the programs that may be read

VARIABLES
    text,      \* the program, a string
    ptr,       \* the place of the next character to handle, from 1
    tokens,    \* m_tokens
    lexing     \* "on", "done", "thrown" (an exception) or "overrun" (read
               \* beyond the end of the text)

lexVars == <<text, ptr, tokens, lexing>>

Digits == {"0", "1", "2", "3", "4", "5", "6", "7", "8", "9"}

Letters ==
    {"a", "b", "c", "d", "e", "f", "g", "h", "i", "j", "k", "l", "m", "n",
     "o", "p", "q", "r", "s", "t", "u", "v", "w", "x", "y", "z",
     "A", "B", "C", "D", "E", "F", "G", "H", "I", "J", "K", "L", "M", "N",
     "O", "P", "Q", "R", "S", "T", "U", "V", "W", "X", "Y", "Z", "_"}

Blanks == {" ", "\t", "\r", "\n"}

Quotes == {"\"", "'"}

\* The words that are no identifiers (typeOf).
Keywords ==
    "namespace" :> "NamespaceKw" @@ "class" :> "ClassKw" @@ "private" :> "Private"
    @@ "var" :> "Var" @@ "weak_ptr" :> "WeakPtr" @@ "if" :> "If" @@ "for" :> "For"
    @@ "return" :> "Return" @@ "print" :> "Print" @@ "func" :> "Func"

\* What run tells by the first character and ifNext.  "++" and "--" have two
\* types each, told apart by the token before them.  Nothing reads the lexeme
\* of an operator, and a few are not the text ("<todo|>").
Operators ==
    "(" :> "LeftParen" @@ ")" :> "RightParen" @@ "{" :> "LeftBrace"
    @@ "}" :> "RightBrace" @@ "[" :> "LeftSqBracket" @@ "]" :> "RightSqBracket"
    @@ "," :> "Comma" @@ "." :> "Dot" @@ ":" :> "Colon" @@ ";" :> "Semicolon"
    @@ "-" :> "Minus" @@ "-=" :> "MinusEqual" @@ "--" :> "MinusMinus"
    @@ "+" :> "Plus" @@ "+=" :> "PlusEqual" @@ "++" :> "PlusPlus"
    @@ "*" :> "Star" @@ "**" :> "DoubleStar" @@ "*=" :> "StarEqual"
    @@ "/" :> "Slash" @@ "/=" :> "SlashEqual" @@ "%" :> "Mod" @@ "%=" :> "ModEqual"
    @@ "|" :> "BitOr" @@ "|=" :> "OrEqual" @@ "||" :> "Or"
    @@ "&" :> "BitAnd" @@ "&=" :> "AndEqual" @@ "&&" :> "And"
    @@ "^" :> "Xor" @@ "^=" :> "XorEqual" @@ "~" :> "Tilde"
    @@ "!" :> "Not" @@ "!=" :> "NotEqual" @@ "=" :> "Assignment" @@ "==" :> "EqualEqual"
    @@ "<" :> "Less" @@ "<<" :> "LeftShift" @@ "<<=" :> "LeftShiftEqual"
    @@ "<=" :> "LessEqual" @@ ">" :> "Greater" @@ ">>" :> "RightShift"
    @@ ">>=" :> "RightShiftEqual" @@ ">=" :> "GreaterEqual"

-----------------------------------------------------------------------------
\* The empty string outside the text.
Char(p) == IF p \in 1 .. Len(text) THEN SubSeq(text, p, p) ELSE ""

Lexeme(t) == SubSeq(text, t.from, t.upto)

LastType == tokens[Len(tokens)].type

\* The last place of the run of characters of S that starts at p.
SpanEnd(p, S) ==
    CHOOSE q \in p - 1 .. Len(text) :
        /\ \A i \in p .. q : Char(i) \in S
        /\ Char(q + 1) \notin S

\* addToken; next is where the loop goes on after its m_ptr++.
Emit(type, from, upto, next) ==
    /\ tokens' = Append(tokens, [type |-> type, from |-> from, upto |-> upto])
    /\ ptr' = next
    /\ UNCHANGED <<text, lexing>>

\* The last token grows to what has just been read.
Grow(type, upto) ==
    /\ tokens' = [tokens EXCEPT ![Len(tokens)] = [@ EXCEPT !.type = type, !.upto = upto]]
    /\ ptr' = upto + 1
    /\ UNCHANGED <<text, lexing>>

LexFail(how) == lexing' = how /\ UNCHANGED <<text, ptr, tokens>>

LexInit ==
    /\ text \in Texts
    /\ ptr = 1
    /\ tokens = <<[type |-> "Begin", from |-> 0, upto |-> 0]>>
    /\ lexing = "on"

SkipBlank ==
    /\ Char(ptr) \in Blanks
    /\ ptr' = ptr + 1
    /\ UNCHANGED <<text, tokens, lexing>>

\* The longest operator that the text goes on with.
OperatorEnd ==
    LET ends == {q \in ptr .. ptr + 2 : q <= Len(text) /\ SubSeq(text, ptr, q) \in DOMAIN Operators}
    IN  CHOOSE q \in ends : \A r \in ends : r <= q

\* "++" after a name is a postfix, anywhere else a prefix.
SideOf(type) ==
    IF type \notin {"PlusPlus", "MinusMinus"} THEN type
    ELSE type \o (IF LastType = "Identifier" THEN "Right" ELSE "Left")

TwoChars == Char(ptr) \o Char(ptr + 1)

LexOperator ==
    /\ Char(ptr) \in DOMAIN Operators
    /\ TwoChars \notin {"::", "//"}
    /\ Emit(SideOf(Operators[SubSeq(text, ptr, OperatorEnd)]), ptr, OperatorEnd, OperatorEnd + 1)

\* "::" belongs to the name before it, whatever stands between them.
LexScope ==
    /\ TwoChars = "::"
    /\ IF LastType \in {"Identifier", "IdentifierWithScope"}
       THEN Grow("IdentifierWithScope", ptr + 1)
       ELSE Emit("IdentifierWithScope", ptr, ptr + 1, ptr + 2)

\* A comment ends with its line; its loop does not look for the end of the text.
LexComment ==
    /\ TwoChars = "//"
    /\ LET eol == {q \in ptr .. Len(text) : Char(q) \in {"\n", "\r"}}
       IN  IF eol = {} THEN LexFail("overrun")
           ELSE /\ ptr' = 1 + CHOOSE q \in eol : \A r \in eol : q <= r
                /\ UNCHANGED <<text, tokens, lexing>>

\* Where the string literal with this quote ends, looking from each place on:
\* at its quote, at the end of the text, or nowhere (0) when that end comes
\* after a '\' or a '$', which hide the character that follows.
LiteralEnd(quote) ==
    LET end[p \in 1 .. Len(text) + 1] ==
            IF p > Len(text) \/ Char(p) = quote THEN p
            ELSE LET escaped == IF Char(p) = "\\" THEN p + 1 ELSE p
                     last == IF Char(escaped) = "$" THEN escaped + 1 ELSE escaped
                 IN  IF last > Len(text) THEN 0 ELSE end[last + 1]
    IN  end

LexString ==
    /\ Char(ptr) \in Quotes
    /\ LET end == LiteralEnd(Char(ptr))[ptr + 1]
       IN  IF end = 0 THEN LexFail("thrown")
           ELSE Emit("StringLiteral", ptr + 1, end - 1, end + 1)

\* The loop goes on behind the character that ended the number.
LexNumber ==
    /\ Char(ptr) \in Digits
    /\ LET whole == SpanEnd(ptr, Digits)
       IN  IF Char(whole + 1) = "."
           THEN LET upto == SpanEnd(whole + 2, Digits) IN Emit("Float", ptr, upto, upto + 2)
           ELSE Emit("Int", ptr, whole, whole + 2)

\* Faulty: no m_ptr-- at the end of handleIdentifier.
LexNameFar ==
    /\ Char(ptr) \in Letters
    /\ LET upto == SpanEnd(ptr, Letters \cup Digits)
           word == SubSeq(text, ptr, upto)
       IN  IF word \in DOMAIN Keywords THEN Emit(Keywords[word], ptr, upto, upto + 1)
           ELSE IF LastType = "IdentifierWithScope"
           THEN Grow(LastType, upto)
           ELSE Emit("Identifier", ptr, upto, upto + 2)

\* A name right after one that ends with a scope is its last part.
LexName ==
    /\ Char(ptr) \in Letters
    /\ LET upto == SpanEnd(ptr, Letters \cup Digits)
           word == SubSeq(text, ptr, upto)
       IN  IF word \in DOMAIN Keywords THEN Emit(Keywords[word], ptr, upto, upto + 1)
           ELSE IF LastType = "IdentifierWithScope"
           THEN Grow(LastType, upto)
           ELSE Emit("Identifier", ptr, upto, upto + 1)

LexUnknown ==
    /\ Char(ptr) \notin DOMAIN Operators \cup Blanks \cup Quotes \cup Letters \cup Digits
    /\ LexFail("thrown")

\* The loop is over: EndOfFile.
LexEnd ==
    /\ ptr > Len(text)
    /\ tokens' = Append(tokens, [type |-> "EndOfFile", from |-> ptr, upto |-> ptr - 1])
    /\ lexing' = "done"
    /\ UNCHANGED <<text, ptr>>

LexNext ==
    /\ lexing = "on"
    /\ \/ LexEnd
       \/ /\ ptr <= Len(text)
          /\ \/ SkipBlank \/ LexOperator \/ LexScope \/ LexComment
             \/ LexString \/ LexNumber \/ LexName \/ LexUnknown

LexSpec == LexInit /\ [][LexNext]_lexVars

-----------------------------------------------------------------------------
InToken(p) == \E i \in DOMAIN tokens : p \in tokens[i].from .. tokens[i].upto

InComment(p) ==
    \E q \in 1 .. p : /\ Char(q) \o Char(q + 1) = "//"
                      /\ \A i \in q .. p - 1 : Char(i) \notin {"\n", "\r"}

(* No character is lost: every one that has been read belongs to a token,  *)
(* but for blanks, comments, the quotes of a literal, and the one behind a *)
(* number, that handleNumber leaves the loop to step over.                 *)
NothingLost ==
    lexing = "on" => \A p \in 1 .. (IF ptr <= Len(text) THEN ptr - 1 ELSE Len(text)) :
        \/ InToken(p)
        \/ Char(p) \in Blanks
        \/ InComment(p)
        \/ \E i \in DOMAIN tokens :
              \/ /\ tokens[i].type = "StringLiteral"
                 /\ p \in {tokens[i].from - 1, tokens[i].upto + 1}
              \/ tokens[i].type \in {"Int", "Float"} /\ tokens[i].upto = p - 1
=============================================================================
