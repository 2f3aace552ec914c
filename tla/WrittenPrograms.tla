-------------------------- MODULE WrittenPrograms ---------------------------
(***************************************************************************)
(* What the author of a program means, against which the lexer and the     *)
(* parser of the interpreter are checked: expressions as trees, and        *)
(* declarations as nested lists, each with the words that write it down.   *)
(*                                                                         *)
(* An expression is <<"leaf", word>>, <<"prefix", op, e>>,                 *)
(* <<"postfix", op, e>>, <<"binary", op, left, right>> or                  *)
(* <<"call", name, arguments>>; a declaration is <<"var", name>>,          *)
(* <<"func", name>>, <<"class", name, members>> or                         *)
(* <<"namespace", name, declarations>>.                                    *)
(***************************************************************************)
EXTENDS Parser, ExprValue

VARIABLE written   \* [kind, expr or items, words]; never changes

-----------------------------------------------------------------------------
(* Expressions. *)

Level(e) ==
    CASE e[1] = "prefix" -> Precedence["Not"]
      [] e[1] = "postfix" -> Precedence["PlusPlusRight"]
      [] e[1] = "binary" -> Precedence[Operators[e[2]]]
      [] OTHER -> 0

RECURSIVE Words(_), Operand(_, _), Arguments(_)

\* A blank follows a number; no two prefix operators follow one another.
Words(e) ==
    CASE e[1] = "leaf" -> <<IF SubSeq(e[2], 1, 1) \in Digits THEN e[2] \o " " ELSE e[2]>>
      [] e[1] = "prefix" -> <<e[2]>> \o Operand(e[3], Level(e) - 1)
      [] e[1] = "postfix" -> Operand(e[3], Level(e)) \o <<e[2]>>
      [] e[1] = "binary" -> Operand(e[3], Level(e)) \o <<e[2]>> \o Operand(e[4], Level(e) - 1)
      [] e[1] = "call" -> <<e[2], "(">> \o Arguments(e[3]) \o <<")">>

\* In parentheses when it binds weaker than this.
Operand(e, level) ==
    IF Level(e) <= level THEN Words(e) ELSE <<"(">> \o Words(e) \o <<")">>

Arguments(es) ==
    IF es = <<>> THEN <<>>
    ELSE IF Len(es) = 1 THEN Words(es[1])
    ELSE Words(es[1]) \o <<",">> \o Arguments(Tail(es))

\* The value of an expression of numbers.
RECURSIVE Meaning(_)
Meaning(e) ==
    CASE e[1] = "leaf" /\ SubSeq(e[2], 1, 1) \in Digits -> Decimal(e[2]) % IntSize
      [] e[1] = "binary" -> Apply(Operators[e[2]], Meaning(e[3]), Meaning(e[4]))
      [] OTHER -> NoValue

\* A tree of the parser as such an expression.
RECURSIVE Shape(_)
Shape(tree) ==
    LET word == Lexeme(tokens[tree.tok])
        side == IF Type(tree.tok) \in {"PlusPlusRight", "MinusMinusRight"}
                THEN "postfix" ELSE "prefix"
        shapes == [n \in DOMAIN tree.args |-> Shape(tree.args[n])]
    IN  CASE tree.kind = "null" -> <<"null">>
          [] tree.kind = "leaf" -> <<"leaf", word>>
          [] tree.kind = "unary" -> <<side, word, shapes[1]>>
          [] tree.kind = "binary" -> <<"binary", word, shapes[1], shapes[2]>>
          [] tree.kind = "call" -> <<"call", word, shapes>>

\* The places of the operands and calls of a tree, as they are written.
RECURSIVE Places(_)
Places(tree) ==
    LET parts == [n \in DOMAIN tree.args |-> Places(tree.args[n])]
    IN  CASE tree.kind = "call" -> <<tree.tok>> \o FlattenSeq(parts)
          [] tree.kind = "leaf" -> <<tree.tok>>
          [] OTHER -> FlattenSeq(parts)

\* The program "var v = <expression>;" has its expression from the fifth token.
Written == ParseExpr(5)

Finished == lexing = "done" /\ parsing \notin {"on"}

(* An expression is accepted, and becomes the tree that its author meant:  *)
(* the parentheses left out are those that the table of precedences makes  *)
(* superfluous, every operator takes the operands on its left first, and a *)
(* call has the arguments between its own parentheses (doParseExpr,        *)
(* moveOpToOutput and constructExpr).                                      *)
ParsesAsWritten ==
    Finished /\ written.kind = "expr" =>
        parsing = "done" /\ Shape(Written.tree) = written.expr

(* An expression with a word missing is refused, or else no operand of it  *)
(* is lost, used twice, or moved behind another one (the checks of         *)
(* parseExpr and constructExpr on what the output holds).                  *)
OperandsKept ==
    parsing = "done" /\ written.kind = "cut" =>
        Places(Written.tree) =
            SelectSeq([n \in 1 .. Written.at - 1 |-> n],
                      LAMBDA n : n >= 5 /\ Type(n) \in Literals \cup NameTypes)

(* The value of an expression of numbers is that of the text: the left     *)
(* operand of an operator is the one that is written on its left, where    *)
(* printExpr (Expr.h) prints it.                                           *)
ValueAsPrinted ==
    parsing = "done" /\ written.kind = "expr" => Evaluate(Written.tree) = Meaning(written.expr)

-----------------------------------------------------------------------------
(* Declarations. *)

RECURSIVE ItemWords(_)
ItemWords(items) ==
    FlattenSeq([n \in DOMAIN items |->
        LET item == items[n] IN
        CASE item[1] = "var" -> <<"var ", item[2], ";">>
          [] item[1] = "func" -> <<"func ", item[2], "(){}">>
          [] OTHER -> <<item[1], " ", item[2], "{">> \o ItemWords(item[3]) \o <<"}">>])

\* Every declaration of a list, in the order of the text, with the space it is
\* made in and the namespace around that.
RECURSIVE Uses(_, _, _)
Uses(items, space, around) ==
    FlattenSeq([n \in DOMAIN items |->
        LET item == items[n]
            own == Append(space, item[2])
        IN  <<[kind |-> item[1], name |-> item[2], space |-> space, around |-> around]>>
            \o CASE item[1] = "class" -> Uses(item[3], own, around)
                 [] item[1] = "namespace" -> Uses(item[3], own, own)
                 [] OTHER -> <<>>])

\* What makes a later declaration an error.  In a class only a function does,
\* by the name of one of the namespace around.
Clash(early, late) ==
    /\ early.name = late.name
    /\ \/ /\ early.kind = "var" /\ late.kind = "var"
          /\ early.space = late.space /\ late.space = late.around
       \/ /\ early.kind = "func" /\ late.kind = "func"
          /\ early.space = late.around
       \/ /\ early.space = late.space
          /\ early.kind \in {"class", "namespace"} /\ late.kind \in {"class", "namespace"}
          /\ "class" \in {early.kind, late.kind}

(* A program is accepted when no declaration of it clashes with an earlier *)
(* one, and then every declaration is found at the path of the namespaces  *)
(* and classes around it, and nothing else is (parseNamespace, parseClass, *)
(* parseFuncDef and the maps of ClassOrNamespace).                         *)
DeclaresAsWritten ==
    Finished /\ written.kind = "items" =>
        LET uses == Uses(written.items, Top, Top)
            Of(kind) == {uses[n] : n \in {m \in DOMAIN uses : uses[m].kind = kind}}
            Keys(kind) == {<<u.space, u.name>> : u \in Of(kind)}
            Paths(kind) == {Append(u.space, u.name) : u \in Of(kind)}
            sound == \A m, n \in DOMAIN uses : m < n => ~Clash(uses[m], uses[n])
        IN  IF ~sound THEN parsing = "rejected"
            ELSE /\ parsing = "done"
                 /\ DOMAIN varDecls = Keys("var")
                 /\ DOMAIN funcs = Keys("func")
                 /\ DOMAIN spaces = {Top} \cup Paths("namespace") \cup Paths("class")
                 /\ \A path \in DOMAIN spaces : spaces[path] <=> path \in Paths("class")
=============================================================================
