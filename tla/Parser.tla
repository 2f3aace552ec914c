------------------------------- MODULE Parser -------------------------------
(***************************************************************************)
(* The statements and declarations of the interpreter                      *)
(* (Interpreter/Parser.h).  One action is one statement or member, or the  *)
(* beginning or the end of a namespace, a class or a function: the calls   *)
(* of parseNamespace, parseClass and parseFuncDef in progress are blocks.  *)
(* Of a body only the kinds of its statements are kept.  The expressions   *)
(* inside a printed literal are left out.                                  *)
(***************************************************************************)
EXTENDS ExprParser, Namespaces

VARIABLES
    at,         \* the place of m_tokenIt
    blocks,     \* what is being parsed around it, the innermost last
    program,    \* m_program
    parsing     \* "on", "done", "rejected" (a syntax error), "aborted" (an
                \* assertion) or "overrun" (moved beyond the last token)

parseVars == <<treeVars, at, blocks, program, parsing>>

ParseInit ==
    /\ EmptyTree
    /\ at = 2
    /\ blocks = <<>>
    /\ program = <<>>
    /\ parsing = "on"

Type(i) == tokens[i].type

Word(i) == Lexeme(tokens[i])

\* _shiftToNextTokenIf, when m_tokenIt is moved to i.
Expect(i, type) ==
    IF i > Len(tokens) THEN "overrun"
    ELSE IF Type(i) = type THEN "ok" ELSE "rejected"

Within(kind) == blocks # <<>> /\ Last(blocks).kind = kind

\* The namespaces being parsed (m_namespaceStack), by their places in blocks.
Opened == {n \in DOMAIN blocks : blocks[n].kind = "namespace"}

\* Faulty: declarations go to the outermost namespace.
CurrentOutermost == IF Opened = {} THEN Top ELSE blocks[Min(Opened)].space

\* Where declarations that are not members go (currentNamespace).
Current == IF Opened = {} THEN Top ELSE blocks[Max(Opened)].space

Refuse(how) ==
    parsing' = how /\ UNCHANGED <<treeVars, at, blocks, program>>

\* blocks after the caller, if it is a function body, has got a statement; a
\* nested definition is null there.
Noted(around, kind) ==
    IF around # <<>> /\ Last(around).kind = "func"
    THEN [around EXCEPT ![Len(around)].body = Append(@, kind)]
    ELSE around

\* A statement that parseStatement returns: kept by parseProgram and by a
\* function, dropped by a namespace.
Statement(kind, next) ==
    /\ at' = next
    /\ program' = IF blocks = <<>> THEN Append(program, kind) ELSE program
    /\ blocks' = Noted(blocks, kind)
    /\ UNCHANGED <<treeVars, parsing>>

AfterSemicolon(i) == IF Type(i) = "Semicolon" THEN i + 1 ELSE i

-----------------------------------------------------------------------------
(* Variables. *)

\* The name at a place, with its scope, of a variable or of a call.
NameAt(i, kind) ==
    LET parts == SplitName(Word(i))
    IN  [kind |-> kind, spec |-> Front(parts), name |-> Last(parts), path |-> <<>>]

Arithmetic == {"Plus", "Minus", "Slash", "Star"}

\* A '.' between a name, or the member of one, and a name.
IsMember(left, right) ==
    /\ Len(left) = 1 /\ left[1].kind = "name"
    /\ Len(right) = 1 /\ right[1].kind = "name" /\ right[1].path = <<>>

\* What executing a node comes to, the last first, when it has come to these
\* at its operands: the operands that are names, with the members of them, and
\* the operators, of which those that are not arithmetic lose their result
\* ("????").  What comes of a '.' on anything else, of a unary operator and of a
\* call is not looked at.
Comes(e, operands) ==
    LET type == Type(e.tok)
        left == operands[1]
        right == operands[2]
    IN  CASE e.kind = "leaf" /\ type \in Literals -> <<>>
          [] e.kind = "leaf" /\ type \in NameTypes -> <<NameAt(e.tok, "name")>>
          [] e.kind = "binary" /\ type # "Dot" ->
                 <<[kind |-> IF type \in Arithmetic THEN "number" ELSE "lost"]>> \o left \o right
          [] e.kind = "binary" /\ type = "Dot" /\ IsMember(left, right) ->
                 <<[left[1] EXCEPT !.path = Append(@, right[1].name)]>>
          [] OTHER -> <<[kind |-> "other"]>>

\* What executing a tree of operators comes to, in order: the right operand
\* of each before the left one.
Reads(nodes) ==
    LET comes[n \in 0 .. Len(nodes)] ==
            LET before == comes[n - 1]
                others == Len(before) - OperandCount(nodes[n])
            IN  IF n = 0 THEN <<>>
                ELSE Append(SubSeq(before, 1, others),
                            Comes(nodes[n], SubSeq(before, others + 1, Len(before))))
    IN  Reverse(Last(comes[Len(nodes)]))

\* What the runtime does with an initial value, by its type.
InitOf(value) ==
    LET tree == value.tree IN
    CASE tree.kind = "null" -> [kind |-> "none"]
      [] tree.kind = "leaf" /\ Type(tree.tok) \in Literals -> [kind |-> "literal"]
      [] tree.kind = "leaf" /\ Type(tree.tok) \in NameTypes -> NameAt(tree.tok, "name")
      [] tree.kind = "call" -> NameAt(tree.tok, "call")
      [] tree.kind = "binary" /\ Type(tree.tok) = "Dot" -> [kind |-> "dot"]
      [] tree.kind = "binary" /\ Type(tree.tok) # "Dot" ->
             [kind |-> "operator", reads |-> Reads(value.nodes)]
      [] OTHER -> [kind |-> "unary"]

\* The initial value from i on, if there is one.
InitAt(i) ==
    IF Type(i) = "Assignment" THEN ParseExpr(i + 1)
    ELSE [tree |-> Null, nodes |-> <<>>, at |-> i, how |-> "ok"]

\* parseVar, with the name at i, the keyword's kind of reference and the
\* initial value behind the name and the type.
VarWith(i, ref, typed, value) ==
    IF Expect(i, "Identifier") # "ok" THEN [how |-> "rejected"]
    ELSE IF typed /\ Type(i + 2) \notin NameTypes THEN [how |-> "rejected"]
    ELSE IF value.how # "ok" THEN [how |-> value.how]
    ELSE [how |-> "ok", name |-> Word(i), next |-> AfterSemicolon(value.at),
          decl |-> [ref |-> ref, type |-> IF typed THEN SplitName(Word(i + 2)) ELSE <<>>,
                    init |-> InitOf(value)]]

VarAt(i, ref) ==
    LET typed == Type(i + 1) = "Colon"
    IN  VarWith(i, ref, typed, InitAt(IF typed THEN i + 3 ELSE i + 1))

RefOf(keyword) == IF keyword = "Var" THEN "shared" ELSE "weak"

GlobalVar ==
    /\ Type(at) \in {"Var", "WeakPtr"}
    /\ ~Within("class") /\ ~Within("func")
    /\ LET v == VarAt(at + 1, RefOf(Type(at))) IN
       IF v.how # "ok" THEN Refuse(v.how)
       ELSE IF <<Current, v.name>> \in DOMAIN varDecls THEN Refuse("rejected")
       ELSE /\ varDecls' = With(varDecls, <<Current, v.name>>, v.decl)
            /\ at' = v.next
            /\ UNCHANGED <<spaces, funcs, blocks, program, parsing>>

LocalVar ==
    /\ Type(at) \in {"Var", "WeakPtr"}
    /\ Within("func")
    /\ LET v == VarAt(at + 1, RefOf(Type(at))) IN
       IF v.how # "ok" THEN Refuse(v.how) ELSE Statement("var", v.next)

\* Past the keyword "private" of a member.
Keyword == IF Type(at) = "Private" THEN at + 1 ELSE at

\* m_tokenIt is on the name when its type is compared with Var: always weak.
\* A member of the same name is replaced.
MemberVar ==
    /\ Within("class") /\ Type(Keyword) \in {"Var", "WeakPtr"}
    /\ LET v == VarAt(Keyword + 1, RefOf("Identifier")) IN
       IF v.how # "ok" THEN Refuse(v.how)
       ELSE /\ blocks' = [blocks EXCEPT ![Len(blocks)].vars = With(@, v.name, v.decl)]
            /\ at' = v.next
            /\ UNCHANGED <<treeVars, program, parsing>>

-----------------------------------------------------------------------------
(* Statements. *)

\* print expects the ';' where its ')' is.
PrintStatement ==
    /\ Type(at) = "Print" /\ ~Within("class")
    /\ LET ok == /\ Expect(at + 1, "LeftParen") = "ok"
                 /\ Expect(at + 2, "StringLiteral") = "ok"
                 /\ Expect(at + 3, "Semicolon") = "ok"
       IN  IF ok THEN Statement("print", at + 4) ELSE Refuse("rejected")

ReturnStatement ==
    /\ Type(at) = "Return" /\ ~Within("class")
    /\ LET value == ParseExpr(at + 1) IN
       IF value.how # "ok" THEN Refuse(value.how)
       ELSE Statement("return", AfterSemicolon(value.at))

\* An expression, up to ';', or an assignment.
ExprStatement ==
    /\ Type(at) \in NameTypes /\ ~Within("class")
    /\ LET left == ParseExpr(at)
           right == ParseExpr(left.at + 1)
       IN  IF left.how # "ok" THEN Refuse(left.how)
           ELSE IF Type(left.at) = "Semicolon" THEN Statement("expr", left.at + 1)
           ELSE IF Type(left.at) # "Assignment" THEN Refuse("rejected")
           ELSE IF right.how # "ok" THEN Refuse(right.how)
           ELSE Statement("assign", AfterSemicolon(right.at))

-----------------------------------------------------------------------------
(* Blocks. *)

OpenNamespace ==
    /\ Type(at) = "NamespaceKw" /\ ~Within("class") /\ ~Within("func")
    /\ LET ok == Expect(at + 1, "Identifier") = "ok" /\ Expect(at + 2, "LeftBrace") = "ok"
           path == Append(Current, Word(at + 1))
           known == path \in DOMAIN spaces
       IN  IF ~ok \/ (known /\ spaces[path]) THEN Refuse("rejected")
           ELSE /\ spaces' = IF known THEN spaces ELSE With(spaces, path, FALSE)
                /\ blocks' = Append(blocks, [kind |-> "namespace", space |-> path])
                /\ at' = at + 3
                /\ UNCHANGED <<varDecls, funcs, program, parsing>>

CloseNamespace ==
    /\ Within("namespace") /\ Type(at) = "RightBrace"
    /\ blocks' = Front(blocks)
    /\ at' = at + 1
    /\ UNCHANGED <<treeVars, program, parsing>>

\* Each base class has a name, after "private" or not; commas are between them.
Bases(first, last) ==
    /\ first <= last /\ Type(first) # "Comma" /\ Type(last) = "Identifier"
    /\ \A i \in first .. last - 1 :
          \/ Type(i) \in {"Private", "Comma"} /\ Type(i + 1) = "Identifier"
          \/ Type(i) = "Comma" /\ Type(i + 1) = "Private"
          \/ Type(i) = "Identifier" /\ Type(i + 1) = "Comma"

\* The '{' of a class, if any, whose name is at a place.
Brace(name) == {i \in name + 1 .. Len(tokens) : Type(i) = "LeftBrace"}

ClassHeader(name) ==
    /\ Expect(name, "Identifier") = "ok"
    /\ Brace(name) # {}
    /\ \/ Type(name + 1) = "LeftBrace"
       \/ Type(name + 1) = "Colon" /\ Bases(name + 2, Min(Brace(name)) - 1)

OpenClass ==
    /\ Type(Keyword) = "ClassKw"
    /\ Within("class") \/ Keyword = at
    /\ LET name == Keyword + 1
           path == Append(Current, Word(name))
       IN  IF ~ClassHeader(name) \/ path \in DOMAIN spaces THEN Refuse("rejected")
           ELSE /\ blocks' = Append(blocks, [kind |-> "class", vars |-> <<>>, funcs |-> <<>>,
                                             space |-> path])
                /\ at' = Min(Brace(name)) + 1
                /\ UNCHANGED <<treeVars, program, parsing>>

\* Faulty: under the class's own name alone.
UnderLast(path, members) ==
    [key \in {<<Last(path)>>} \X DOMAIN members |-> members[key[2]]]

\* The members of a class, put under its path.
Under(path, members) ==
    [key \in {path} \X DOMAIN members |-> members[key[2]]]

\* The class enters the tree with its members; one inside a class is dropped.
CloseClass ==
    /\ Within("class") /\ Type(at) = "RightBrace"
    /\ LET class == Last(blocks)
           around == Front(blocks)
           dropped == around # <<>> /\ Last(around).kind = "class"
       IN  IF ~dropped /\ class.space \in DOMAIN spaces THEN Refuse("rejected")
           ELSE /\ blocks' = Noted(around, "none")
                /\ at' = at + 1
                /\ IF dropped THEN UNCHANGED treeVars
                   ELSE /\ spaces' = With(spaces, class.space, TRUE)
                        /\ varDecls' = Over(Under(class.space, class.vars), varDecls)
                        /\ funcs' = Over(Under(class.space, class.funcs), funcs)
                /\ UNCHANGED <<program, parsing>>

\* A parameter; its type must be a literal (tokenMustBeType).
IsParam(i) ==
    Type(i) = "Identifier" /\ Type(i + 1) = "Colon" /\ Type(i + 2) \in Literals

\* The parameters from a place on: their names and where the list ends.  Four
\* tokens make a parameter with the comma behind it, and a comma may be the last.
Params(first) ==
    LET places == {i \in first .. Len(tokens) : (i - first) % 4 = 0}
        last == Min({i \in places : ~(IsParam(i) /\ Type(i + 3) = "Comma")})
        names(n) == [k \in 1 .. n |-> Word(first + 4 * (k - 1))]
        count == (last - first) \div 4
    IN  IF Type(last) = "RightParen" THEN [how |-> "ok", names |-> names(count), end |-> last]
        ELSE IF IsParam(last) THEN [how |-> "ok", names |-> names(count + 1), end |-> last + 3]
        ELSE [how |-> "rejected"]

\* Any token will do as the name, and as the end of a list of parameters.
FuncHeader(name) ==
    LET params == Params(name + 2)
        paren == Expect(name + 1, "LeftParen")
        brace == Expect(params.end + 1, "LeftBrace")
    IN  IF <<Current, Word(name)>> \in DOMAIN funcs THEN [how |-> "rejected"]
        ELSE IF paren # "ok" THEN [how |-> paren]
        ELSE IF params.how # "ok" THEN [how |-> params.how]
        ELSE IF brace # "ok" THEN [how |-> brace]
        ELSE [how |-> "ok", params |-> params.names, next |-> params.end + 2]

OpenFunc ==
    /\ Type(Keyword) = "Func"
    /\ Within("class") \/ Keyword = at
    /\ LET header == FuncHeader(Keyword + 1) IN
       IF header.how # "ok" THEN Refuse(header.how)
       ELSE /\ blocks' = Append(blocks, [kind |-> "func", name |-> Word(Keyword + 1),
                                         params |-> header.params, body |-> <<>>])
            /\ at' = header.next
            /\ UNCHANGED <<treeVars, program, parsing>>

\* The function is added where it stands; only a method replaces another one.
CloseFunc ==
    /\ Within("func") /\ Type(at) = "RightBrace"
    /\ LET func == Last(blocks)
           around == Front(blocks)
           def == [params |-> func.params, body |-> func.body, space |-> Current]
       IN  IF around # <<>> /\ Last(around).kind = "class"
           THEN /\ blocks' = [around EXCEPT ![Len(around)].funcs = With(@, func.name, def)]
                /\ at' = at + 1
                /\ UNCHANGED <<treeVars, program, parsing>>
           ELSE IF <<Current, func.name>> \in DOMAIN funcs THEN Refuse("rejected")
           ELSE /\ funcs' = With(funcs, <<Current, func.name>>, def)
                /\ blocks' = Noted(around, "none")
                /\ at' = at + 1
                /\ UNCHANGED <<spaces, varDecls, program, parsing>>

-----------------------------------------------------------------------------
ParseEnd ==
    /\ Type(at) = "EndOfFile"
    /\ IF blocks = <<>>
       THEN parsing' = "done" /\ UNCHANGED <<treeVars, at, blocks, program>>
       ELSE Refuse("rejected")

\* Every other token is a syntax error; "for" is an assertion.
ParseOther ==
    /\ \/ /\ Within("class")
          /\ Type(Keyword) \notin {"Var", "WeakPtr", "Func", "ClassKw"}
          /\ Keyword # at \/ Type(at) \notin {"RightBrace", "EndOfFile"}
       \/ /\ ~Within("class")
          /\ Type(at) \notin {"Var", "WeakPtr", "Func", "ClassKw", "Print", "Return",
                              "EndOfFile"} \cup NameTypes
          /\ Type(at) = "NamespaceKw" => Within("func")
          /\ Type(at) = "RightBrace" => blocks = <<>>
    /\ Refuse(IF Type(at) = "For" /\ ~Within("class") THEN "aborted" ELSE "rejected")

ParseNext ==
    /\ parsing = "on"
    /\ \/ GlobalVar \/ LocalVar \/ MemberVar
       \/ PrintStatement \/ ReturnStatement \/ ExprStatement
       \/ OpenNamespace \/ CloseNamespace \/ OpenClass \/ CloseClass
       \/ OpenFunc \/ CloseFunc \/ ParseEnd \/ ParseOther
=============================================================================
