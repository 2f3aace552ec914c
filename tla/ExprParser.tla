----------------------------- MODULE ExprParser -----------------------------
(***************************************************************************)
(* The expressions of the interpreter (Interpreter/Parser.h): parseExpr    *)
(* turns tokens into a tree in the two passes of a shunting yard.          *)
(*                                                                         *)
(* A node of a tree is its kind, the place of its token, and its operands  *)
(* in the order of the text: those of a binary operator are m_expr2 and    *)
(* m_expr.                                                                 *)
(***************************************************************************)
EXTENDS Lexer, SequencesExt

Literals == {"Int", "Float", "StringLiteral"}

NameTypes == {"Identifier", "IdentifierWithScope"}

\* operatorTokenTable; a type that is not in it has 0 there.
Precedence ==
    "LeftParen" :> 100 @@ "Identifier" :> 100 @@ "IdentifierWithScope" :> 0
    @@ "Dot" :> 1 @@ "PlusPlusRight" :> 2 @@ "MinusMinusRight" :> 2
    @@ "PlusPlusLeft" :> 3 @@ "MinusMinusLeft" :> 3 @@ "Not" :> 3 @@ "Tilde" :> 3
    @@ "Star" :> 5 @@ "Slash" :> 5 @@ "Mod" :> 5 @@ "Plus" :> 6 @@ "Minus" :> 6
    @@ "LeftShift" :> 6 @@ "RightShift" :> 6 @@ "Less" :> 9 @@ "LessEqual" :> 9
    @@ "Greater" :> 9 @@ "GreaterEqual" :> 9 @@ "EqualEqual" :> 10
    @@ "NotEqual" :> 10 @@ "BitAnd" :> 11 @@ "Xor" :> 11 @@ "BitOr" :> 13
    @@ "And" :> 14 @@ "Or" :> 15 @@ "Comma" :> 17

\* What doParseExpr looks up there: the other types have cases of their own.
OperatorTypes == DOMAIN Precedence \ (NameTypes \cup {"LeftParen", "Comma"})

\* unariOperatorTokenTable
Unary == {"Not", "PlusPlusRight", "PlusPlusLeft", "MinusMinusRight", "MinusMinusLeft"}

\* An element of m_operationStack or m_output, before its operands are known.
Element(kind, at) == [kind |-> kind, tok |-> at, params |-> 0]

Null == [kind |-> "null", tok |-> 0, args |-> <<>>]

-----------------------------------------------------------------------------
(***************************************************************************)
(* First pass.  st has the place of the next token, m_operationStack,      *)
(* m_output, and whether the loop goes on, has returned, or has run into   *)
(* assert(0).                                                              *)
(***************************************************************************)
Output(st, e) == [st EXCEPT !.out = Append(@, e)]

Push(st, e) == [st EXCEPT !.ops = Append(@, e)]

\* Moves to the output the elements of the stack above the last that stays.
Move(st, staying) ==
    LET kept == CHOOSE n \in staying \cup {0} : \A i \in staying : i <= n
    IN  [st EXCEPT !.ops = SubSeq(@, 1, kept),
                   !.out = @ \o Reverse(SubSeq(st.ops, kept + 1, Len(st.ops)))]

\* The places on the stack that no operator of an argument or parenthesis passes.
Brackets(st) == {i \in DOMAIN st.ops : st.ops[i].kind \in {"paren", "call"}}

Stop(st) == [st EXCEPT !.how = "stop"]

\* The parts of a name between its "::" (parseIdentifierWithScope).
SplitName(name) ==
    LET parts[from \in 1 .. Len(name) + 1] ==
            LET scopes == {i \in from .. Len(name) - 1 : SubSeq(name, i, i + 1) = "::"}
                first == CHOOSE i \in scopes : \A j \in scopes : i <= j
            IN  IF scopes = {} THEN <<SubSeq(name, from, Len(name))>>
                ELSE <<SubSeq(name, from, first - 1)>> \o parts[first + 2]
    IN  parts[1]

\* Its assertions: no blank in it, and no two "::" in a row.
IsName(name) ==
    LET parts == SplitName(name) IN
    /\ \A i \in DOMAIN parts : \A j \in 1 .. Len(parts[i]) :
           SubSeq(parts[i], j, j) \in Letters \cup Digits
    /\ \A i \in 2 .. Len(parts) - 1 : parts[i] # ""

\* An identifier with '(' behind it is a call, and the '(' is skipped.
OnName(st) ==
    IF ~IsName(Lexeme(tokens[st.at])) THEN [st EXCEPT !.how = "aborted"]
    ELSE IF tokens[st.at + 1].type = "LeftParen"
    THEN [Push(st, Element("call", st.at)) EXCEPT !.at = @ + 1]
    ELSE Output(st, Element("leaf", st.at))

\* One more argument of the call, if that is what the last element is.
CountArgument(st) ==
    IF Last(st.ops).kind = "call" THEN [st EXCEPT !.ops[Len(st.ops)].params = @ + 1] ELSE st

OnComma(st) ==
    LET argument == Move(st, Brackets(st))
    IN  IF argument.ops = <<>> THEN Stop(argument) ELSE CountArgument(argument)

\* The last element, a parenthesis or a call, is complete.
CloseBracket(st, more) ==
    LET open == Last(st.ops)
        closed == [st EXCEPT !.ops = Front(@)]
    IN  IF open.kind = "paren" THEN closed
        ELSE Output(closed, [open EXCEPT !.params = @ + more])

\* A call gets one parameter more, unless it has been "()" all along.
OnRightParen(st) ==
    LET argument == Move(st, Brackets(st))
        more == IF tokens[st.at - 1].type = "LeftParen" THEN 0 ELSE 1
    IN  IF argument.ops = <<>> THEN Stop(argument) ELSE CloseBracket(argument, more)

\* Faulty: an operator of the same precedence stays on the stack.
OnOperatorRight(st) ==
    LET type == tokens[st.at].type
        moved == Move(st, {i \in DOMAIN st.ops : Precedence[tokens[st.ops[i].tok].type] >= Precedence[type]})
    IN  Push(moved, Element(IF type \in Unary THEN "unary" ELSE "binary", st.at))

\* The token of a parenthesis is '(', that of a call its name.
OnOperator(st) ==
    LET type == tokens[st.at].type
        moved == Move(st, {i \in DOMAIN st.ops : Precedence[tokens[st.ops[i].tok].type] > Precedence[type]})
    IN  Push(moved, Element(IF type \in Unary THEN "unary" ELSE "binary", st.at))

\* One iteration of doParseExpr, without the step to the next token.
OnToken(st) ==
    LET type == tokens[st.at].type IN
    CASE type \in Literals -> Output(st, Element("leaf", st.at))
      [] type \in NameTypes -> OnName(st)
      [] type = "Comma" -> OnComma(st)
      [] type = "RightParen" -> OnRightParen(st)
      [] type = "LeftParen" -> Push(st, Element("paren", st.at))
      [] type \in {"LeftSqBracket", "RightSqBracket"} -> [st EXCEPT !.how = "aborted"]
      [] type \in OperatorTypes -> OnOperator(st)
      [] OTHER -> Stop(st)

Step(st) == IF st.how = "on" THEN [st EXCEPT !.at = @ + 1] ELSE st

\* The loop of doParseExpr from a place on; it ends with the tokens at the latest.
DoParse(start) ==
    LET after[n \in 0 .. Len(tokens)] ==
            IF n = 0 THEN [at |-> start, ops |-> <<>>, out |-> <<>>, how |-> "on"]
            ELSE LET st == after[n - 1] IN IF st.how = "on" THEN Step(OnToken(st)) ELSE st
    IN  after[Len(tokens)]

-----------------------------------------------------------------------------
(***************************************************************************)
(* Second pass.  The tree is made of the last element of the output that   *)
(* is left and of the operands before it, which come off last to first: a  *)
(* result is the tree, how many elements are left of the output, and       *)
(* whether an operator lacked an operand.                                  *)
(***************************************************************************)
OperandCount(e) ==
    CASE e.kind = "leaf" -> 0
      [] e.kind = "unary" -> 1
      [] e.kind = "binary" -> 2
      [] OTHER -> e.params

Construct(out) ==
    LET built[n \in 0 .. Len(out)] ==
            LET e == out[n]
                taken[k \in 0 .. OperandCount(e)] ==
                    LET others == taken[k - 1]
                        last == built[others.left]
                    IN  IF k = 0 THEN [trees |-> <<>>, left |-> n - 1, bad |-> FALSE]
                        ELSE [trees |-> <<last.tree>> \o others.trees, left |-> last.left,
                              bad |-> others.bad \/ last.bad]
                operands == taken[OperandCount(e)]
            IN  IF n = 0 THEN [tree |-> Null, left |-> 0, bad |-> FALSE]
                ELSE [tree |-> [kind |-> e.kind, tok |-> e.tok, args |-> operands.trees],
                      left |-> operands.left,
                      bad |-> operands.bad \/ (e.kind # "call" /\ Null \in Range(operands.trees))]
    IN  built[Len(out)]

\* Faulty: operands that nothing has taken are no error.
Incomplete(built) == built.bad

\* An operator lacks an operand, or something is left.
Malformed(built) == built.bad \/ built.left # 0

\* A '(' that is still open at the end is dropped.
Flushed(st) == st.out \o Reverse(SelectSeq(st.ops, LAMBDA e : e.kind # "paren"))

Parsed(st, built) ==
    [tree  |-> built.tree,
     nodes |-> Flushed(st),
     at    |-> st.at,
     how   |-> IF st.how = "aborted" THEN "aborted"
               ELSE IF Malformed(built) THEN "rejected" ELSE "ok"]

\* parseExpr from the token at a place: the tree, its nodes as m_output has
\* them, the place of the token that ended it, and "ok", "rejected" (a syntax
\* error) or "aborted" (an assertion).
ParseExpr(at) ==
    LET read == DoParse(at) IN Parsed(read, Construct(Flushed(read)))
=============================================================================
