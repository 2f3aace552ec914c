--------------------------- MODULE MCInterpreter ----------------------------
(***************************************************************************)
(* The programs that TLC reads: expressions of up to three operands and    *)
(* calls, those of two with a word missing, nested declarations, variables *)
(* initialised from one another, texts at the edges of the lexer and the   *)
(* parser, and one program whose functions then execute any of             *)
(* MCStatements.                                                           *)
(***************************************************************************)
EXTENDS Interpreter, WrittenPrograms

CONSTANTS
    Kinds,        \* the kinds of programs to read
    LeafWords,    \* the names and numbers in expressions
    BinaryOps,    \* the binary operators in them
    OtherOps      \* the others: ".", "!", "++" and "f", a call

AnyText == STRING

NamesInOrder == <<"A", "C", "D", "N", "a", "b", "e", "k", "m", "p", "ptr", "q", "w", "x">>

RECURSIVE Joined(_)
Joined(words) == IF words = <<>> THEN "" ELSE Head(words) \o Joined(Tail(words))

-----------------------------------------------------------------------------
(* Expressions. *)

One == {<<"leaf", w>> : w \in LeafWords}

Binary(lefts, rights) ==
    {<<"binary", op, l, r>> : op \in BinaryOps, l \in lefts, r \in rights}

Around1(es) ==
    LET names == {<<"leaf", "a">>} \cup {e \in es : e[1] = "binary" /\ e[2] = "."}
    IN  {<<"prefix", op, e>> : op \in OtherOps \cap {"!"}, e \in es}
        \cup {<<"postfix", op, e>> : op \in OtherOps \cap {"++"}, e \in names}
        \cup {<<"binary", op, e, <<"leaf", "a">>>> : op \in OtherOps \cap {"."}, e \in es}
        \cup {<<"call", op, <<e>>>> : op \in OtherOps \cap {"f"}, e \in es}

Around2(es, fs) ==
    Binary(es, fs)
    \cup {<<"call", op, <<e, f>>>> : op \in OtherOps \cap {"f"}, e \in es, f \in fs}

Two == Around1(One) \cup Around2(One, One)

Three == Around1(Two) \cup Around2(Two, One) \cup Around2(One, Two)

ExprProgram(e) ==
    [kind |-> "expr", expr |-> e, words |-> <<"var v=">> \o Words(e) \o <<";">>]

\* Its words with blanks between them, but for the n-th.
CutProgram(e, n) ==
    LET kept == RemoveAt(Words(e), n)
    IN  [kind |-> "cut",
         words |-> <<"var v=">> \o [i \in DOMAIN kept |-> kept[i] \o " "] \o <<";">>]

-----------------------------------------------------------------------------
(* Declarations. *)

Simple == {<<kind, name>> : kind \in {"var", "func"}, name \in {"a", "b"}}

Nested(members) == {<<kind, "a", m>> : kind \in {"class", "namespace"}, m \in members}

UpTo2(items) == {<<>>} \cup {<<i>> : i \in items} \cup {<<i, j>> : i \in items, j \in items}

Lists == {<<i, j>> : i \in Nested(UpTo2(Simple)) \cup Simple,
                     j \in Nested({<<>>} \cup {<<i>> : i \in Simple}) \cup Simple}
         \cup {<<<<"namespace", "b", <<i, j>>>>>> :
                   i \in Nested({<<s>> : s \in Simple}) \cup Simple,
                   j \in Nested({<<s>> : s \in Simple}) \cup Simple}

ItemProgram(items) == [kind |-> "items", items |-> items, words |-> ItemWords(items)]

-----------------------------------------------------------------------------
(* Texts at the edges. *)

Odd == {
    "// a \nvar b;", "a; // b", "'a\\'b' \"\\$1\"", "\"a", "'a\\", "a # b",
    "f(1,2);", "f(1 ,2 );", "a=N::v\nb=1 ;", "a=1.5 +N::v;", "::a;", "a::::b;", "++a--;",
    "print(\"a\");", "print(\"a\";", "return a;", "return", "for", "if", "a=b[1 ];", "a b;",
    "f(,a);", "f(a", "((a;", "a);", "a,b;", "a>>=b;",
    "var a:1 ;", "var a=);", "weak_ptr a:N::k;", "var", "namespace a{", "namespace 1 {}",
    "}", "class a:private b,c{private var d;private func e(f:\"I\",g:'x'){}}",
    "class a:{}", "class a{for}", "class a{private for}", "class a{class b{var c;}var d;}",
    "class a{", "class a{var=}", "func", "func a", "func a(", "func a(b:c){}", "func a(b:\"I\"",
    "func a(){print(\"b\";return;var c;weak_ptr d;a=b;f(a);class g{}func h(){}}",
    "func a(){namespace b{}}", "func a(){return);}", "func a(){var b=);a=);a);for}" }

OddProgram(t) == [kind |-> "odd", words |-> <<t>>]

-----------------------------------------------------------------------------
(* Variables initialised from one another. *)

Inits == {"", "=1 ", "=a", "=b", "=N::a", "=1 +b", "=::b+a", ":N=b+1 "}

Order(i, j, k, l) ==
    [kind |-> "order",
     words |-> <<"var a", i, ";var b", j, ";namespace N{var a", k, ";}", l, "func main(){}">>]

MemberInits ==
    {"=C", "=1 *a.m", "=b.k.m-1 ", "=D.m+a.k", "=(a-1 ).m+1 ", "=a.(b.m)+1 ", "=a.m", "=a.m<1 "}

\* With objects whose members are operands.
MemberOrder(i, j, k) ==
    [kind |-> "order",
     words |-> <<"class C{var k=D;var m=1 ;}class D{var m=1 +2 ;}var a", i, ";var b", j,
                 ";namespace N{var e", k, ";}var ptr;func main(){}">>]

-----------------------------------------------------------------------------
(* The program that is executed. *)

Executed ==
    [kind |-> "run",
     words |-> <<"class A{var m=C;}class C{var k;}var a=A;var e;weak_ptr w;var ptr;var x;",
                 "namespace N{func f(p:\"I\",q:\"I\"){}}func g(){}func main(){}">>]

Name(name) == [kind |-> "name", spec |-> <<>>, name |-> name, path |-> <<>>]

Path(name, path) == [Name(name) EXCEPT !.path = path]

Lit == [kind |-> "literal"]

CallOf(spec, name, args) == [kind |-> "call", spec |-> spec, name |-> name, args |-> args]

Declaring(name, ref, init) ==
    [kind |-> "var", name |-> name, decl |-> [ref |-> ref, type |-> <<>>, init |-> init]]

NameInit(name) == [kind |-> "name", spec |-> <<>>, name |-> name]

Setting(left, right) == [kind |-> "assign", left |-> left, right |-> right]

MCStatements == {
    Setting(Path("a", <<"m">>), Name("a")), Setting(Name("w"), Name("a")),
    Setting(Name("a"), Name("e")), Setting(Path("w", <<"m">>), Name("e")),
    Setting(Path("a", <<"m", "k">>), Name("a")), Setting(Name("x"), Name("w")),
    Setting(Name("p"), Lit), Setting(Name("C"), Name("a")), Setting(Name("a"), Name("C")),
    Declaring("x", "shared", NameInit("C")),
    CallOf(<<>>, "g", <<>>), CallOf(<<"N">>, "f", <<Name("x"), Name("C")>>),
    CallOf(<<"N">>, "f", <<CallOf(<<"">>, "g", <<>>)>>), CallOf(<<"N">>, "f", <<Lit, Lit>>), CallOf(<<>>, "h", <<>>),
    [kind |-> "return", value |-> [kind |-> "none"]], [kind |-> "return", value |-> Name("C")],
    [kind |-> "return", value |-> Name("x")] }

-----------------------------------------------------------------------------
Given(p) == written = p /\ text = Joined(p.words)

MCInit ==
    /\ \/ "expr" \in Kinds /\ \E e \in One \cup Two \cup Three : Given(ExprProgram(e))
       \/ "cut" \in Kinds /\ \E e \in Two : \E n \in DOMAIN Words(e) : Given(CutProgram(e, n))
       \/ "items" \in Kinds /\ \E items \in Lists : Given(ItemProgram(items))
       \/ "odd" \in Kinds /\ \E t \in Odd : Given(OddProgram(t))
       \/ "order" \in Kinds /\ \E i, j, k \in Inits, l \in {"", "var ptr;"} : Given(Order(i, j, k, l))
       \/ "order" \in Kinds /\ \E i, j, k \in MemberInits : Given(MemberOrder(i, j, k))
       \/ "run" \in Kinds /\ Given(Executed)
    /\ Init

MCNext == Next /\ UNCHANGED written

MCSpec == MCInit /\ [][MCNext]_<<vars, written>>
=============================================================================
