------------------------- MODULE InterpreterProofs --------------------------
(***************************************************************************)
(* Proofs about Interpreter, for any texts: the parser leaves a tree that  *)
(* the runtime relies on, whatever it reads, and what is proved of the     *)
(* lexer and of the runtime holds of the whole program.                    *)
(***************************************************************************)
EXTENDS Interpreter, LexerProofs, RuntimeProofs

-----------------------------------------------------------------------------
(***************************************************************************)
(* The first pass of parseExpr.                                            *)
(***************************************************************************)
\* A state of doParseExpr as far as its place goes.
IsState(st) == DOMAIN st = {"at", "ops", "out", "how"} /\ st.at \in Nat \ {0}

(* Output, push, move and stop keep it a place.                            *)
LEMMA PlaceKept ==
    ASSUME NEW st, IsState(st), NEW e, NEW staying
    PROVE  /\ IsState(Output(st, e)) /\ IsState(Push(st, e)) /\ IsState(Stop(st))
           /\ IsState(Move(st, staying))
           /\ IsState([st EXCEPT !.how = e]) /\ IsState([st EXCEPT !.ops = e])
           /\ IsState([st EXCEPT !.at = @ + 1])
  BY DEF IsState, Output, Push, Stop, Move

(* So do a comma, and the end of a bracket;                                *)
LEMMA BracketKept ==
    ASSUME NEW st, IsState(st)
    PROVE  IsState(OnComma(st)) /\ IsState(OnRightParen(st))
  <1>1. ASSUME NEW argument, IsState(argument), NEW more
        PROVE  IsState(CountArgument(argument)) /\ IsState(CloseBracket(argument, more))
    <2>1. \A x : IsState([argument EXCEPT !.ops = x])
      BY <1>1, PlaceKept
    <2>2. IsState(CountArgument(argument))
      BY <1>1 DEF CountArgument, IsState
    <2>3. IsState(CloseBracket(argument, more))
      BY <2>1, PlaceKept DEF CloseBracket
    <2> QED
      BY <2>2, <2>3
  <1> QED
    BY <1>1, PlaceKept DEF OnComma, OnRightParen

(* a name with a '(' behind it moves it on by one.                         *)
LEMMA NameKept ==
    ASSUME NEW st, IsState(st)
    PROVE  IsState(OnName(st))
  <1>1. \A e : IsState([Push(st, e) EXCEPT !.at = @ + 1])
    <2> SUFFICES ASSUME NEW e PROVE IsState([Push(st, e) EXCEPT !.at = @ + 1])
      OBVIOUS
    <2> DEFINE pushed == Push(st, e)
    <2>1. IsState(pushed)
      BY PlaceKept
    <2> HIDE DEF pushed
    <2> QED
      BY <2>1, PlaceKept
  <1> QED
    BY <1>1, PlaceKept DEF OnName

(* No token takes the loop before the beginning.                           *)
LEMMA TokenKept ==
    ASSUME NEW st, IsState(st)
    PROVE  IsState(Step(OnToken(st)))
  <1>1. IsState(OnOperator(st))
    BY PlaceKept DEF OnOperator
  <1>2. IsState(OnToken(st))
    <2>1. \/ \E e : OnToken(st) = Output(st, e)
          \/ \E e : OnToken(st) = Push(st, e)
          \/ OnToken(st) \in {OnName(st), OnComma(st), OnRightParen(st), OnOperator(st)}
          \/ OnToken(st) \in {[st EXCEPT !.how = "aborted"], Stop(st)}
      BY DEF OnToken
    <2>2. \A e : IsState(Output(st, e)) /\ IsState(Push(st, e)) /\ IsState([st EXCEPT !.how = e])
      BY PlaceKept
    <2>3. IsState(Stop(st)) /\ IsState(OnName(st)) /\ IsState(OnComma(st)) /\ IsState(OnRightParen(st))
      BY PlaceKept, BracketKept, NameKept
    <2> QED
      BY <1>1, <2>1, <2>2, <2>3
  <1> DEFINE next == OnToken(st)
  <1> HIDE DEF next
  <1>3. IsState(Step(next))
    BY <1>2, PlaceKept DEF Step, next
  <1> QED
    BY <1>3 DEF next

\* The loop of doParseExpr, one token after another.
NextState(st) == IF st.how = "on" THEN Step(OnToken(st)) ELSE st

FirstState(start) == [at |-> start, ops |-> <<>>, out |-> <<>>, how |-> "on"]

StateFrom(after, start, n) == IF n = 0 THEN FirstState(start) ELSE NextState(after[n - 1])

IsLoop(after, start, size) == after = [n \in 0 .. size |-> StateFrom(after, start, n)]

(* Its states are defined, each by the one before.                         *)
LEMMA LoopExists ==
    ASSUME NEW start, NEW size \in Nat
    PROVE  \E after : IsLoop(after, start, size)
  <1> DEFINE There(n) == \E after : IsLoop(after, start, n)
             T == {n \in Nat : There(n)}
  <1>1. 0 \in T
    <2> DEFINE after == [n \in 0 .. 0 |-> FirstState(start)]
    <2>1. \A n \in 0 .. 0 : n = 0
      OBVIOUS
    <2>2. [n \in 0 .. 0 |-> StateFrom(after, start, n)] = after
      BY <2>1 DEF StateFrom
    <2> QED
      BY <2>2 DEF IsLoop
  <1>2. ASSUME NEW n \in Nat, n \in T
        PROVE  n + 1 \in T
    <2>1. PICK after : IsLoop(after, start, n)
      BY <1>2
    <2> DEFINE longer == [i \in 0 .. n + 1 |-> StateFrom(after, start, i)]
    <2>2. \A i \in 0 .. n : after[i] = StateFrom(after, start, i)
      BY <2>1 DEF IsLoop
    <2>3. \A i \in 0 .. n : longer[i] = after[i]
      BY <2>2
    <2>4. ASSUME NEW i \in 0 .. n + 1
          PROVE  longer[i] = StateFrom(longer, start, i)
      <3>1. longer[i] = StateFrom(after, start, i)
        OBVIOUS
      <3>2. i # 0 => i - 1 \in 0 .. n
        OBVIOUS
      <3>3. i # 0 => longer[i - 1] = after[i - 1]
        BY <2>3, <3>2
      <3> HIDE DEF longer
      <3> QED
        BY <3>1, <3>3 DEF StateFrom
    <2>5. DOMAIN longer = 0 .. n + 1 /\ longer = [i \in 0 .. n + 1 |-> longer[i]]
      OBVIOUS
    <2> HIDE DEF longer
    <2>6. longer = [i \in 0 .. n + 1 |-> StateFrom(longer, start, i)]
      BY <2>4, <2>5
    <2> QED
      BY <2>6 DEF IsLoop
  <1> HIDE DEF T
  <1>3. size \in T
    BY <1>1, <1>2, SetInduction
  <1> QED
    BY <1>3 DEF T

(* An expression ends at a place.                                          *)
LEMMA ParsedPlace ==
    ASSUME NEW start \in Nat \ {0}, Len(tokens) \in Nat
    PROVE  ParseExpr(start).at \in Nat \ {0}
  <1> DEFINE Loop(after) == IsLoop(after, start, Len(tokens))
             after == CHOOSE after : Loop(after)
  <1>1. DoParse(start) = after[Len(tokens)]
    BY DEF DoParse, IsLoop, StateFrom, NextState, FirstState
  <1>2. Loop(after)
    <2>1. \E f : Loop(f)
      BY LoopExists
    <2> HIDE DEF Loop
    <2> QED
      BY <2>1
  <1> HIDE DEF after
  <1>3. \A n \in 0 .. Len(tokens) : after[n] = StateFrom(after, start, n)
    BY <1>2 DEF IsLoop
  <1> DEFINE States == {st \in {after[n] : n \in 0 .. Len(tokens)} : IsState(st)}
  <1>4. after[0] \in States
    <2>1. IsState(FirstState(start)) /\ 0 \in 0 .. Len(tokens)
      BY DEF IsState, FirstState
    <2> QED
      BY <1>3, <2>1 DEF StateFrom
  <1>5. ASSUME NEW n \in 1 .. Len(tokens), after[n - 1] \in States
        PROVE  after[n] \in States
    <2>1. n \in 0 .. Len(tokens) /\ n # 0 /\ IsState(after[n - 1])
      BY <1>5
    <2>2. after[n] = NextState(after[n - 1])
      BY <1>3, <2>1 DEF StateFrom
    <2>3. IsState(NextState(after[n - 1]))
      BY <2>1, TokenKept DEF NextState
    <2> QED
      BY <2>1, <2>2, <2>3
  <1> HIDE DEF States
  <1>6. after[Len(tokens)] \in States
    <2> DEFINE size == Len(tokens)
    <2>1. size \in Nat /\ size \in 0 .. size
      OBVIOUS
    <2>2. \A n \in 1 .. size : after[n - 1] \in States => after[n] \in States
      BY <1>5
    <2> HIDE DEF size
    <2>3. after[size] \in States
      BY <1>4, <2>1, <2>2, RemainsInside
    <2> QED
      BY <2>3 DEF size
  <1>7. DoParse(start).at \in Nat \ {0}
    BY <1>1, <1>6 DEF States, IsState
  <1> QED
    BY <1>7 DEF ParseExpr, Parsed

-----------------------------------------------------------------------------
(***************************************************************************)
(* The declaration of a variable.                                          *)
(***************************************************************************)
\* The lexer is done with a text that is a string.
Read == TextsAreStrings /\ LexInv /\ ReadInv /\ lexing = "done"

\* What the runtime relies on in a declaration.
DeclOK(decl) ==
    /\ decl.ref \in {"shared", "weak"}
    /\ decl.init.kind = "operator" => DOMAIN decl.init.reads \subseteq Nat

(* A name is a string.                                                     *)
LEMMA WordIsString ==
    ASSUME Read, NEW i \in Nat \ {0}, Expect(i, "Identifier") = "ok"
    PROVE  Word(i) \in STRING
  <1>1. i \in DOMAIN tokens /\ tokens[i] \in Tokens /\ tokens[i].type = "Identifier"
    BY DEF Read, LexInv, LexTypeOK, Expect, Type
  <1>2. /\ tokens[i].from \in Int /\ tokens[i].upto \in Int
        /\ 1 <= tokens[i].from /\ tokens[i].upto <= Len(text)
    BY <1>1 DEF Tokens, Read, ReadInv, NameInText
  <1>3. \A p, q \in Int : 1 <= p /\ q <= Len(text) => SubSeq(text, p, q) \in STRING
    BY DEF Read, ReadInv, TextsAreStrings
  <1> QED
    BY <1>2, <1>3 DEF Word, Lexeme

(* The operands of an operator are numbered.                               *)
LEMMA ReadsNumbered ==
    ASSUME NEW nodes
    PROVE  DOMAIN Reads(nodes) \subseteq Nat
  <1>1. PICK comes : Reads(nodes) = Reverse(comes)
    BY DEF Reads
  <1>2. DOMAIN Reverse(comes) = 1 .. Len(comes)
    BY DEF Reverse
  <1>3. 1 .. Len(comes) \subseteq Nat
    OBVIOUS
  <1> QED
    BY <1>1, <1>2, <1>3

(* An initial value is of one of the kinds of expressions.                 *)
LEMMA InitKinds ==
    ASSUME NEW value
    PROVE  InitOf(value).kind = "operator" => DOMAIN InitOf(value).reads \subseteq Nat
  <1>1. \/ InitOf(value) \in {[kind |-> "none"], [kind |-> "literal"], [kind |-> "dot"], [kind |-> "unary"]}
        \/ \E i : InitOf(value) \in {NameAt(i, "name"), NameAt(i, "call")}
        \/ InitOf(value) = [kind |-> "operator", reads |-> Reads(value.nodes)]
    BY DEF InitOf
  <1>2. \A i, kind : NameAt(i, kind).kind = kind
    BY DEF NameAt
  <1> QED
    BY <1>1, <1>2, ReadsNumbered

(* A variable that is accepted has a name, a declaration, and ends at a place. *)
LEMMA VarSound ==
    ASSUME Read, NEW i \in Nat \ {0}, NEW ref \in {"shared", "weak"}, VarAt(i, ref).how = "ok"
    PROVE  LET v == VarAt(i, ref)
           IN  v.name \in STRING /\ DeclOK(v.decl) /\ v.next \in Nat \ {0}
  <1> DEFINE typed == Type(i + 1) = "Colon"
             value == InitAt(IF typed THEN i + 3 ELSE i + 1)
             v == VarWith(i, ref, typed, value)
             type == IF typed THEN SplitName(Word(i + 2)) ELSE <<>>
  <1>1. VarAt(i, ref) = v
    BY DEF VarAt
  <1>2. value.at \in Nat \ {0}
    <2>1. Len(tokens) \in Nat
      BY DEF Read, LexInv, LexTypeOK
    <2>2. \A j \in Nat \ {0} : InitAt(j).at \in Nat \ {0}
      BY <2>1, ParsedPlace DEF InitAt
    <2> QED
      BY <2>2
  <1> HIDE DEF value, typed
  <1>3. v = [how |-> "ok", name |-> Word(i), next |-> AfterSemicolon(value.at),
             decl |-> [ref |-> ref, type |-> type, init |-> InitOf(value)]]
    BY <1>1 DEF VarWith
  <1>4. Expect(i, "Identifier") = "ok"
    BY <1>1 DEF VarWith
  <1> HIDE DEF v, type
  <1>5. v.name = Word(i) /\ v.next = AfterSemicolon(value.at)
        /\ v.decl.ref = ref /\ v.decl.init = InitOf(value)
    BY <1>3
  <1>6. AfterSemicolon(value.at) \in Nat \ {0}
    BY <1>2 DEF AfterSemicolon
  <1> QED
    BY <1>1, <1>4, <1>5, <1>6, WordIsString, InitKinds DEF DeclOK

-----------------------------------------------------------------------------
(***************************************************************************)
(* Headers.                                                                *)
(***************************************************************************)
(* The least of some numbers is one of them.                               *)
LEMMA MinInside ==
    ASSUME NEW S \in SUBSET Nat, S # {}
    PROVE  Min(S) \in S
  <1>1. \E n \in S : \A m \in S : n <= m
    BY Least
  <1> QED
    BY <1>1, Zenon DEF Min

(* So is the greatest, when there is a bound.                              *)
LEMMA MaxInside ==
    ASSUME NEW size \in Nat, NEW S \in SUBSET (1 .. size), S # {}
    PROVE  Max(S) \in S
  <1> DEFINE gaps == {k \in Nat : k <= size /\ size - k \in S}
  <1>1. gaps # {}
    <2>1. PICK n \in S : TRUE
      OBVIOUS
    <2>2. size - n \in gaps
      BY <2>1, size - (size - n) = n
    <2> QED
      BY <2>2
  <1>2. PICK k \in gaps : \A m \in gaps : k <= m
    BY <1>1, Least
  <1>3. ASSUME NEW m \in S
        PROVE  m <= size - k
    <2>1. size - m \in gaps
      BY <1>3, size - (size - m) = m
    <2>2. k <= size - m /\ m \in Int /\ k \in Int
      BY <1>2, <1>3, <2>1
    <2> QED
      BY <2>2
  <1>4. size - k \in S /\ size - k \in Int /\ S \subseteq Int
    BY <1>2
  <1>5. \E n \in S : \A m \in S : n >= m
    BY <1>3, <1>4
  <1> QED
    BY <1>5, Zenon DEF Max

(* A token that is not the last one has another one behind it.             *)
LEMMA TokenBehind ==
    ASSUME Read, NEW i \in 1 .. Len(tokens), Type(i) # "EndOfFile"
    PROVE  i + 1 \in 1 .. Len(tokens)
  <1>1. Len(tokens) \in Nat /\ Type(Len(tokens)) = "EndOfFile"
    BY DEF Read, LexInv, LexTypeOK, ReadInv, LastType, Type
  <1> QED
    BY <1>1

(* A list of parameters ends: each is followed by another token.           *)
LEMMA ParamsEnd ==
    ASSUME Read, NEW first \in 1 .. Len(tokens), Params(first).how = "ok"
    PROVE  Params(first).end \in Nat
  <1> DEFINE places == {i \in first .. Len(tokens) : (i - first) % 4 = 0}
             More(i) == IsParam(i) /\ Type(i + 3) = "Comma"
             ends == {i \in places : ~More(i)}
             T == {k \in Nat : first + 4 * k \in 1 .. Len(tokens)}
  <1>1. Len(tokens) \in Nat /\ first \in Nat
    BY DEF Read, LexInv, LexTypeOK
  <1>2. ASSUME NEW i \in 1 .. Len(tokens), More(i)
        PROVE  i + 4 \in 1 .. Len(tokens)
    <2>1. i + 1 \in 1 .. Len(tokens)
      BY <1>2, TokenBehind DEF IsParam
    <2>2. (i + 1) + 1 = i + 2 /\ (i + 2) + 1 = i + 3 /\ (i + 3) + 1 = i + 4
      BY <1>1
    <2>3. i + 2 \in 1 .. Len(tokens)
      BY <1>2, <2>1, <2>2, TokenBehind DEF IsParam
    <2>4. i + 3 \in 1 .. Len(tokens)
      BY <1>2, <2>2, <2>3, TokenBehind DEF IsParam, Literals
    <2> QED
      BY <1>2, <2>2, <2>4, TokenBehind
  <1>3. ends # {}
    <2> SUFFICES ASSUME ends = {} PROVE FALSE
      OBVIOUS
    <2>1. 0 \in T
      BY <1>1
    <2>2. ASSUME NEW k \in Nat, k \in T
          PROVE  k + 1 \in T
      <3> DEFINE i == first + 4 * k
      <3>1. i \in first .. Len(tokens) /\ i \in 1 .. Len(tokens)
        BY <1>1, <2>2
      <3>2. (i - first) % 4 = 0
        BY <1>1
      <3>3. first + 4 * (k + 1) = i + 4
        BY <1>1
      <3> HIDE DEF i
      <3>4. More(i)
        BY <3>1, <3>2
      <3>5. i + 4 \in 1 .. Len(tokens)
        BY <1>2, <3>1, <3>4
      <3> QED
        BY <3>3, <3>5
    <2> HIDE DEF T
    <2>3. Nat \subseteq T
      BY <2>1, <2>2, SetInduction
    <2>4. Len(tokens) \in T
      BY <1>1, <2>3
    <2> QED
      BY <1>1, <2>4 DEF T
  <1>4. Min(ends) \in Nat
    <2>1. ends \in SUBSET Nat
      BY <1>1
    <2> HIDE DEF ends
    <2> QED
      BY <1>3, <2>1, MinInside
  <1>5. \/ Params(first).end \in {Min(ends), Min(ends) + 3}
        \/ Params(first) = [how |-> "rejected"]
    BY DEF Params
  <1> HIDE DEF ends
  <1>6. Params(first) # [how |-> "rejected"]
    OBVIOUS
  <1> QED
    BY <1>4, <1>5, <1>6

(* A function's body begins at a place,                                    *)
LEMMA FuncPlace ==
    ASSUME Read, NEW name \in Nat \ {0}, FuncHeader(name).how = "ok"
    PROVE  FuncHeader(name).next \in Nat \ {0}
  <1> DEFINE params == Params(name + 2)
  <1>1. Len(tokens) \in Nat
    BY DEF Read, LexInv, LexTypeOK
  <1>2. /\ Expect(name + 1, "LeftParen") = "ok" /\ params.how = "ok"
        /\ FuncHeader(name).next = params.end + 2
    BY DEF FuncHeader
  <1>3. name + 2 \in 1 .. Len(tokens)
    <2>1. name + 1 \in 1 .. Len(tokens) /\ Type(name + 1) = "LeftParen"
      BY <1>1, <1>2 DEF Expect
    <2>2. (name + 1) + 1 = name + 2
      OBVIOUS
    <2> QED
      BY <2>1, <2>2, TokenBehind
  <1>4. params.end \in Nat
    BY <1>2, <1>3, ParamsEnd
  <1> QED
    BY <1>2, <1>4

(* and so does that of a class.                                            *)
LEMMA ClassPlace ==
    ASSUME Read, NEW name \in Nat \ {0}, ClassHeader(name)
    PROVE  Min(Brace(name)) \in Nat
  <1>1. Brace(name) \in SUBSET Nat /\ Brace(name) # {}
    BY DEF ClassHeader, Brace
  <1> QED
    BY <1>1, MinInside

-----------------------------------------------------------------------------
(***************************************************************************)
(* The tree.                                                               *)
(***************************************************************************)
\* TreeOK, of any tree.
IsTree(sp, decls, fs) ==
    /\ Top \in DOMAIN sp /\ IsFiniteSet(DOMAIN sp)
    /\ DOMAIN sp \subseteq Seq(STRING)
    /\ DOMAIN decls \subseteq (DOMAIN sp) \X STRING
    /\ \A k \in DOMAIN decls : DeclOK(decls[k])
    /\ \A k \in DOMAIN fs : fs[k].space \in DOMAIN sp

(* It is what TreeOK says.                                                 *)
LEMMA TreeOfNow == TreeOK <=> IsTree(spaces, varDecls, funcs)
  BY DEF TreeOK, IsTree, DeclOK

(* A space may be added to a tree,                                         *)
LEMMA SpaceAdded ==
    ASSUME NEW sp, NEW decls, NEW fs, IsTree(sp, decls, fs), NEW path \in Seq(STRING), NEW isClass
    PROVE  /\ IsTree(With(sp, path, isClass), decls, fs)
           /\ DOMAIN With(sp, path, isClass) = DOMAIN sp \cup {path}
  <1> DEFINE more == With(sp, path, isClass)
  <1>1. DOMAIN more = DOMAIN sp \cup {path}
    BY DEF With
  <1> HIDE DEF more
  <1>2. IsFiniteSet(DOMAIN sp \cup {path})
    BY FS_AddElement DEF IsTree
  <1>3. DOMAIN decls \subseteq (DOMAIN more) \X STRING
    BY <1>1 DEF IsTree
  <1> QED
    BY <1>1, <1>2, <1>3 DEF IsTree, more

(* a variable in one of its spaces,                                        *)
LEMMA VarAdded ==
    ASSUME NEW sp, NEW decls, NEW fs, IsTree(sp, decls, fs),
           NEW path \in DOMAIN sp, NEW name \in STRING, NEW decl, DeclOK(decl)
    PROVE  IsTree(sp, With(decls, <<path, name>>, decl), fs)
  <1> DEFINE key == <<path, name>>
             more == With(decls, key, decl)
  <1>1. key \in (DOMAIN sp) \X STRING
    OBVIOUS
  <1> HIDE DEF key
  <1>2. /\ DOMAIN more = DOMAIN decls \cup {key}
        /\ \A k \in DOMAIN more : more[k] = IF k = key THEN decl ELSE decls[k]
    BY DEF With
  <1> HIDE DEF more
  <1>3. DOMAIN more \subseteq (DOMAIN sp) \X STRING
    BY <1>1, <1>2 DEF IsTree
  <1>4. ASSUME NEW k \in DOMAIN more
        PROVE  DeclOK(more[k])
    BY <1>2 DEF IsTree
  <1>5. IsTree(sp, more, fs)
    BY <1>3, <1>4 DEF IsTree
  <1> QED
    BY <1>5 DEF more, key

(* a function that executes in one of them,                                *)
LEMMA FuncAdded ==
    ASSUME NEW sp, NEW decls, NEW fs, IsTree(sp, decls, fs), NEW key, NEW def, def.space \in DOMAIN sp
    PROVE  IsTree(sp, decls, With(fs, key, def))
  BY DEF IsTree, With

(* and the members of a class.                                             *)
LEMMA MembersAdded ==
    ASSUME NEW sp, NEW decls, NEW fs, IsTree(sp, decls, fs), NEW path \in DOMAIN sp, NEW vars1, NEW funcs1,
           \A name \in DOMAIN vars1 : name \in STRING /\ DeclOK(vars1[name]),
           \A name \in DOMAIN funcs1 : funcs1[name].space \in DOMAIN sp
    PROVE  IsTree(sp, Over(Under(path, vars1), decls), Over(Under(path, funcs1), fs))
  <1> DEFINE moreVars == Over(Under(path, vars1), decls)
             moreFuncs == Over(Under(path, funcs1), fs)
  <1>1. ASSUME NEW members, NEW key \in DOMAIN Under(path, members)
        PROVE  \E name \in DOMAIN members :
                   key = <<path, name>> /\ Under(path, members)[key] = members[name]
    BY DEF Under
  <1>2. ASSUME NEW key \in DOMAIN moreVars
        PROVE  key \in (DOMAIN sp) \X STRING /\ DeclOK(moreVars[key])
    <2>1. CASE key \in DOMAIN Under(path, vars1)
      <3>1. PICK name \in DOMAIN vars1 : key = <<path, name>> /\ Under(path, vars1)[key] = vars1[name]
        BY <1>1, <2>1
      <3>2. moreVars[key] = vars1[name]
        BY <2>1, <3>1 DEF Over
      <3> QED
        BY <3>1, <3>2
    <2>2. CASE key \notin DOMAIN Under(path, vars1)
      <3>1. key \in DOMAIN decls /\ moreVars[key] = decls[key]
        BY <1>2, <2>2 DEF Over
      <3> QED
        BY <3>1 DEF IsTree
    <2> QED
      BY <2>1, <2>2
  <1>3. ASSUME NEW key \in DOMAIN moreFuncs
        PROVE  moreFuncs[key].space \in DOMAIN sp
    <2>1. CASE key \in DOMAIN Under(path, funcs1)
      <3>1. PICK name \in DOMAIN funcs1 : Under(path, funcs1)[key] = funcs1[name]
        BY <1>1, <2>1
      <3>2. moreFuncs[key] = funcs1[name]
        BY <2>1, <3>1 DEF Over
      <3> QED
        BY <3>2
    <2>2. CASE key \notin DOMAIN Under(path, funcs1)
      <3>1. key \in DOMAIN fs /\ moreFuncs[key] = fs[key]
        BY <1>3, <2>2 DEF Over
      <3> QED
        BY <3>1 DEF IsTree
    <2> QED
      BY <2>1, <2>2
  <1> HIDE DEF moreVars, moreFuncs
  <1>4. IsTree(sp, moreVars, moreFuncs)
    BY <1>2, <1>3 DEF IsTree
  <1> QED
    BY <1>4 DEF moreVars, moreFuncs

-----------------------------------------------------------------------------
(***************************************************************************)
(* The blocks.                                                             *)
(***************************************************************************)
\* What the end of a block relies on, with the paths of the tree.
BlockOK(b, paths) ==
    /\ DOMAIN b \in {{"kind", "space"}, {"kind", "vars", "funcs", "space"}, {"kind", "name", "params", "body"}}
    /\ b.kind = "func" <=> DOMAIN b = {"kind", "name", "params", "body"}
    /\ b.kind = "namespace" => b.space \in paths
    /\ b.kind = "class" => /\ DOMAIN b = {"kind", "vars", "funcs", "space"}
                           /\ b.space \in Seq(STRING)
                           /\ \A name \in DOMAIN b.vars : name \in STRING /\ DeclOK(b.vars[name])
                           /\ \A name \in DOMAIN b.funcs : b.funcs[name].space \in paths

BlocksOK(list, paths) ==
    /\ \E S : list \in Seq(S)
    /\ \A n \in DOMAIN list : BlockOK(list[n], paths)

(* Blocks of a smaller tree are blocks of a larger one.                    *)
LEMMA MorePaths ==
    ASSUME NEW list, NEW paths, NEW more, paths \subseteq more, BlocksOK(list, paths)
    PROVE  BlocksOK(list, more)
  BY DEF BlocksOK, BlockOK

(* A block is added to the list,                                           *)
LEMMA BlockAdded ==
    ASSUME NEW list, NEW paths, BlocksOK(list, paths), NEW b, BlockOK(b, paths)
    PROVE  BlocksOK(Append(list, b), paths)
  <1> PICK S : list \in Seq(S)
    BY DEF BlocksOK
  <1>1. list \in Seq(S \cup {b})
    BY WiderSeq
  <1> DEFINE more == Append(list, b)
  <1>2. more \in Seq(S \cup {b})
    BY <1>1
  <1>3. /\ DOMAIN more = 1 .. Len(list) + 1 /\ DOMAIN list = 1 .. Len(list) /\ Len(list) \in Nat
        /\ more[Len(list) + 1] = b /\ \A n \in 1 .. Len(list) : more[n] = list[n]
    BY <1>1
  <1> HIDE DEF more
  <1>4. ASSUME NEW n \in DOMAIN more
        PROVE  BlockOK(more[n], paths)
    <2>1. n = Len(list) + 1 \/ n \in DOMAIN list
      BY <1>3
    <2> QED
      BY <1>3, <2>1 DEF BlocksOK
  <1> QED
    BY <1>2, <1>4 DEF BlocksOK, more

(* replaces the last one,                                                  *)
LEMMA BlockChanged ==
    ASSUME NEW list, NEW paths, BlocksOK(list, paths), NEW b, BlockOK(b, paths)
    PROVE  BlocksOK([list EXCEPT ![Len(list)] = b], paths)
  <1> PICK S : list \in Seq(S)
    BY DEF BlocksOK
  <1> DEFINE other == [list EXCEPT ![Len(list)] = b]
  <1>1. CASE list = <<>>
    BY <1>1, other = <<>> DEF BlocksOK
  <1>2. CASE list # <<>>
    <2>1. Len(list) \in 1 .. Len(list)
      BY <1>2, EmptySeq
    <2>2. other \in Seq(S \cup {b})
      BY <2>1, WiderSeq, ExceptSeq
    <2>3. \A n \in DOMAIN other : n \in DOMAIN list /\ (other[n] = b \/ other[n] = list[n])
      OBVIOUS
    <2> HIDE DEF other
    <2> QED
      BY <2>2, <2>3 DEF BlocksOK, other
  <1> QED
    BY <1>1, <1>2

(* or is what was around it.                                               *)
LEMMA BlockClosed ==
    ASSUME NEW list, NEW paths, BlocksOK(list, paths)
    PROVE  BlocksOK(Front(list), paths)
  <1> PICK S : list \in Seq(S)
    BY DEF BlocksOK
  <1>1. /\ Front(list) \in Seq(S)
        /\ Len(Front(list)) = Len(list) - 1 \/ Front(list) = <<>>
    BY FrontFrames
  <1>2. CASE Front(list) = <<>>
    BY <1>1, <1>2 DEF BlocksOK
  <1>3. CASE Len(Front(list)) = Len(list) - 1
    <2>1. DOMAIN Front(list) = 1 .. Len(list) - 1 /\ Len(list) \in Nat
      BY <1>1, <1>3
    <2>2. \A n \in 1 .. Len(list) - 1 : n \in DOMAIN list /\ Front(list)[n] = list[n]
      BY <2>1 DEF Front
    <2> QED
      BY <1>1, <2>1, <2>2 DEF BlocksOK
  <1> QED
    BY <1>1, <1>2, <1>3

(* The innermost block is one of them.                                     *)
LEMMA Innermost ==
    ASSUME NEW list, NEW paths, BlocksOK(list, paths), list # <<>>
    PROVE  Len(list) \in DOMAIN list /\ Last(list) = list[Len(list)] /\ BlockOK(Last(list), paths)
  <1> PICK S : list \in Seq(S)
    BY DEF BlocksOK
  <1>1. Len(list) \in DOMAIN list
    BY EmptySeq
  <1>2. Last(list) = list[Len(list)]
    BY DEF Last
  <1> QED
    BY <1>1, <1>2 DEF BlocksOK

(* A function takes a statement and remains one.                           *)
LEMMA BlockNoted ==
    ASSUME NEW list, NEW paths, BlocksOK(list, paths), NEW kind
    PROVE  BlocksOK(Noted(list, kind), paths)
  <1>1. CASE list # <<>> /\ Last(list).kind = "func"
    <2> DEFINE func == Last(list)
               longer == [func EXCEPT !.body = Append(@, kind)]
    <2>1. Len(list) \in DOMAIN list /\ func = list[Len(list)] /\ BlockOK(func, paths)
      BY <1>1, Innermost
    <2>2. Noted(list, kind) = [list EXCEPT ![Len(list)] = longer]
      BY <1>1, <2>1 DEF Noted
    <2>3. BlockOK(longer, paths)
      BY <1>1, <2>1 DEF BlockOK
    <2> HIDE DEF longer
    <2> QED
      BY <2>2, <2>3, BlockChanged
  <1>2. CASE ~(list # <<>> /\ Last(list).kind = "func")
    BY <1>2 DEF Noted
  <1> QED
    BY <1>1, <1>2

-----------------------------------------------------------------------------
(***************************************************************************)
(* The parser keeps its tree.                                              *)
(***************************************************************************)
ParseInv ==
    /\ IsTree(spaces, varDecls, funcs)
    /\ at \in Nat \ {0}
    /\ BlocksOK(blocks, DOMAIN spaces)

(* Declarations go to a space of the tree.                                 *)
LEMMA CurrentInTree ==
    ASSUME ParseInv
    PROVE  Current \in DOMAIN spaces /\ Current \in Seq(STRING)
  <1>1. CASE Opened = {}
    BY <1>1 DEF Current, ParseInv, IsTree
  <1>2. CASE Opened # {}
    <2>1. PICK S : blocks \in Seq(S)
      BY DEF ParseInv, BlocksOK
    <2>2. Opened \in SUBSET (1 .. Len(blocks)) /\ Len(blocks) \in Nat
      BY <2>1 DEF Opened
    <2>3. Max(Opened) \in Opened
      BY <1>2, <2>2, MaxInside
    <2>4. BlockOK(blocks[Max(Opened)], DOMAIN spaces) /\ blocks[Max(Opened)].kind = "namespace"
      BY <2>3 DEF Opened, ParseInv, BlocksOK
    <2> QED
      BY <1>2, <2>4 DEF Current, BlockOK, ParseInv, IsTree
  <1> QED
    BY <1>1, <1>2

(* A syntax error changes nothing,                                         *)
LEMMA Refused ==
    ASSUME ParseInv, NEW how, Refuse(how)
    PROVE  ParseInv'
  BY DEF Refuse, treeVars, ParseInv

(* a statement only the block around it,                                   *)
LEMMA StatementKept ==
    ASSUME ParseInv, NEW kind, NEW next \in Nat \ {0}, Statement(kind, next)
    PROVE  ParseInv'
  <1>1. BlocksOK(Noted(blocks, kind), DOMAIN spaces)
    BY BlockNoted DEF ParseInv
  <1> QED
    BY <1>1 DEF Statement, treeVars, ParseInv

(* and it ends at a place.                                                 *)
LEMMA SemicolonPlace ==
    ASSUME NEW i \in Nat \ {0}
    PROVE  AfterSemicolon(i) \in Nat \ {0}
  BY DEF AfterSemicolon

(* A variable of a namespace enters the tree,                              *)
LEMMA GlobalVarKept ==
    ASSUME Read, ParseInv, GlobalVar
    PROVE  ParseInv'
  <1> DEFINE ref == RefOf(Type(at))
             v == VarAt(at + 1, ref)
  <1>1. ref \in {"shared", "weak"} /\ at + 1 \in Nat \ {0}
    BY DEF RefOf, ParseInv
  <1>2. CASE v.how # "ok" \/ <<Current, v.name>> \in DOMAIN varDecls
    BY <1>2, Refused DEF GlobalVar
  <1>3. CASE v.how = "ok" /\ <<Current, v.name>> \notin DOMAIN varDecls
    <2>1. /\ varDecls' = With(varDecls, <<Current, v.name>>, v.decl)
          /\ at' = v.next /\ UNCHANGED <<spaces, funcs, blocks>>
      BY <1>3 DEF GlobalVar
    <2>2. v.name \in STRING /\ DeclOK(v.decl) /\ v.next \in Nat \ {0}
      BY <1>1, <1>3, VarSound
    <2> HIDE DEF v
    <2>3. IsTree(spaces, With(varDecls, <<Current, v.name>>, v.decl), funcs)
      BY <2>2, CurrentInTree, VarAdded DEF ParseInv
    <2> QED
      BY <2>1, <2>2, <2>3 DEF ParseInv
  <1> QED
    BY <1>2, <1>3

(* that of a function does not,                                            *)
LEMMA LocalVarKept ==
    ASSUME Read, ParseInv, LocalVar
    PROVE  ParseInv'
  <1> DEFINE ref == RefOf(Type(at))
             v == VarAt(at + 1, ref)
  <1>1. ref \in {"shared", "weak"} /\ at + 1 \in Nat \ {0}
    BY DEF RefOf, ParseInv
  <1>2. CASE v.how # "ok"
    BY <1>2, Refused DEF LocalVar
  <1>3. CASE v.how = "ok"
    <2>1. v.next \in Nat \ {0}
      BY <1>1, <1>3, VarSound
    <2>2. Statement("var", v.next)
      BY <1>3 DEF LocalVar
    <2> HIDE DEF v
    <2> QED
      BY <2>1, <2>2, StatementKept
  <1> QED
    BY <1>2, <1>3

(* that of a class waits in its block.                                     *)
LEMMA MemberVarKept ==
    ASSUME Read, ParseInv, MemberVar
    PROVE  ParseInv'
  <1> DEFINE ref == RefOf("Identifier")
             v == VarAt(Keyword + 1, ref)
             class1 == blocks[Len(blocks)]
             more == [class1 EXCEPT !.vars = With(@, v.name, v.decl)]
  <1>1. ref \in {"shared", "weak"} /\ Keyword + 1 \in Nat \ {0}
    BY DEF RefOf, ParseInv, Keyword
  <1>2. CASE v.how # "ok"
    BY <1>2, Refused DEF MemberVar
  <1>3. CASE v.how = "ok"
    <2>1. /\ blocks' = [blocks EXCEPT ![Len(blocks)].vars = With(@, v.name, v.decl)]
          /\ at' = v.next /\ UNCHANGED treeVars
      BY <1>3 DEF MemberVar
    <2>2. v.name \in STRING /\ DeclOK(v.decl) /\ v.next \in Nat \ {0}
      BY <1>1, <1>3, VarSound
    <2> HIDE DEF v
    <2>3. /\ BlockOK(class1, DOMAIN spaces) /\ class1.kind = "class"
          /\ Len(blocks) \in DOMAIN blocks
      BY Innermost DEF MemberVar, Within, ParseInv
    <2>4. blocks' = [blocks EXCEPT ![Len(blocks)] = more]
      BY <2>1
    <2>5. BlockOK(more, DOMAIN spaces)
      BY <2>2, <2>3 DEF BlockOK, With
    <2> HIDE DEF more
    <2>6. BlocksOK(blocks', DOMAIN spaces)
      BY <2>4, <2>5, BlockChanged DEF ParseInv
    <2> QED
      BY <2>1, <2>2, <2>6 DEF ParseInv, treeVars
  <1> QED
    BY <1>2, <1>3

(* The statements of a function or a namespace.                            *)
LEMMA PrintKept ==
    ASSUME ParseInv, PrintStatement
    PROVE  ParseInv'
  <1>1. at + 4 \in Nat \ {0}
    BY DEF ParseInv
  <1>2. Statement("print", at + 4) \/ Refuse("rejected")
    BY DEF PrintStatement
  <1> QED
    BY <1>1, <1>2, StatementKept, Refused

LEMMA ReturnKept ==
    ASSUME Read, ParseInv, ReturnStatement
    PROVE  ParseInv'
  <1> DEFINE value == ParseExpr(at + 1)
  <1>1. value.at \in Nat \ {0}
    BY ParsedPlace DEF ParseInv, Read, LexInv, LexTypeOK
  <1>2. Statement("return", AfterSemicolon(value.at)) \/ Refuse(value.how)
    BY DEF ReturnStatement
  <1> HIDE DEF value
  <1> QED
    BY <1>1, <1>2, StatementKept, Refused, SemicolonPlace

LEMMA ExprStatementKept ==
    ASSUME Read, ParseInv, ExprStatement
    PROVE  ParseInv'
  <1> DEFINE left == ParseExpr(at)
             right == ParseExpr(left.at + 1)
  <1>1. left.at \in Nat \ {0}
    BY ParsedPlace DEF ParseInv, Read, LexInv, LexTypeOK
  <1>2. right.at \in Nat \ {0}
    <2>1. left.at + 1 \in Nat \ {0}
      BY <1>1
    <2> HIDE DEF left
    <2> QED
      BY <2>1, ParsedPlace DEF Read, LexInv, LexTypeOK
  <1>3. \/ Statement("expr", left.at + 1)
        \/ Statement("assign", AfterSemicolon(right.at))
        \/ \E how : Refuse(how)
    BY DEF ExprStatement
  <1>4. left.at + 1 \in Nat \ {0} /\ AfterSemicolon(right.at) \in Nat \ {0}
    BY <1>1, <1>2, SemicolonPlace
  <1> HIDE DEF left, right
  <1> QED
    BY <1>3, <1>4, StatementKept, Refused

(* A namespace enters the tree before what it declares,                    *)
LEMMA OpenNamespaceKept ==
    ASSUME Read, ParseInv, OpenNamespace
    PROVE  ParseInv'
  <1> DEFINE path == Append(Current, Word(at + 1))
             block == [kind |-> "namespace", space |-> path]
             grown == IF path \in DOMAIN spaces THEN spaces ELSE With(spaces, path, FALSE)
  <1>1. CASE Refuse("rejected")
    BY <1>1, Refused
  <1>2. CASE ~Refuse("rejected")
    <2>1. /\ Expect(at + 1, "Identifier") = "ok"
          /\ spaces' = grown /\ blocks' = Append(blocks, block)
          /\ at' = at + 3 /\ UNCHANGED <<varDecls, funcs>>
      BY <1>2 DEF OpenNamespace
    <2>2. at + 1 \in Nat \ {0} /\ at + 3 \in Nat \ {0}
      BY DEF ParseInv
    <2>3. path \in Seq(STRING)
      BY <2>1, <2>2, WordIsString, CurrentInTree
    <2>4. BlockOK(block, (DOMAIN spaces) \cup {path})
      BY DEF BlockOK
    <2> HIDE DEF path, block
    <2>5. IsTree(grown, varDecls, funcs) /\ DOMAIN grown = DOMAIN spaces \cup {path}
      BY <2>3, SpaceAdded DEF ParseInv
    <2>6. BlocksOK(blocks, (DOMAIN spaces) \cup {path})
      BY MorePaths DEF ParseInv
    <2>7. BlocksOK(Append(blocks, block), (DOMAIN spaces) \cup {path})
      BY <2>4, <2>6, BlockAdded
    <2> HIDE DEF grown
    <2> QED
      BY <2>1, <2>2, <2>5, <2>7 DEF ParseInv
  <1> QED
    BY <1>1, <1>2

LEMMA CloseNamespaceKept ==
    ASSUME ParseInv, CloseNamespace
    PROVE  ParseInv'
  <1>1. BlocksOK(Front(blocks), DOMAIN spaces)
    BY BlockClosed DEF ParseInv
  <1> QED
    BY <1>1 DEF CloseNamespace, treeVars, ParseInv

(* a class only behind its members.                                        *)
LEMMA OpenClassKept ==
    ASSUME Read, ParseInv, OpenClass
    PROVE  ParseInv'
  <1> DEFINE name == Keyword + 1
             path == Append(Current, Word(name))
             block == [kind |-> "class", vars |-> <<>>, funcs |-> <<>>, space |-> path]
  <1>1. CASE Refuse("rejected")
    BY <1>1, Refused
  <1>2. CASE ~Refuse("rejected")
    <2>1. /\ ClassHeader(name) /\ blocks' = Append(blocks, block)
          /\ at' = Min(Brace(name)) + 1 /\ UNCHANGED treeVars
      BY <1>2 DEF OpenClass
    <2>2. name \in Nat \ {0}
      BY DEF ParseInv, Keyword
    <2> HIDE DEF name
    <2>3. Expect(name, "Identifier") = "ok"
      BY <2>1 DEF ClassHeader
    <2>4. path \in Seq(STRING)
      BY <2>2, <2>3, WordIsString, CurrentInTree
    <2>5. Min(Brace(name)) + 1 \in Nat \ {0}
      BY <2>1, <2>2, ClassPlace
    <2> HIDE DEF path
    <2>6. BlockOK(block, DOMAIN spaces)
      BY <2>4 DEF BlockOK
    <2> HIDE DEF block
    <2>7. BlocksOK(Append(blocks, block), DOMAIN spaces)
      BY <2>6, BlockAdded DEF ParseInv
    <2> QED
      BY <2>1, <2>5, <2>7 DEF ParseInv, treeVars
  <1> QED
    BY <1>1, <1>2

LEMMA CloseClassKept ==
    ASSUME ParseInv, CloseClass
    PROVE  ParseInv'
  <1> DEFINE closed == Last(blocks)
             around == Front(blocks)
             dropped == around # <<>> /\ Last(around).kind = "class"
             grown == With(spaces, closed.space, TRUE)
             moreVars == Over(Under(closed.space, closed.vars), varDecls)
             moreFuncs == Over(Under(closed.space, closed.funcs), funcs)
  <1>1. CASE Refuse("rejected")
    BY <1>1, Refused
  <1>2. CASE ~Refuse("rejected")
    <2>1. blocks' = Noted(around, "none") /\ at' = at + 1
      BY <1>2 DEF CloseClass
    <2>2. \/ UNCHANGED treeVars
          \/ spaces' = grown /\ varDecls' = moreVars /\ funcs' = moreFuncs
      BY <1>2 DEF CloseClass
    <2>3. BlockOK(closed, DOMAIN spaces) /\ closed.kind = "class"
      BY Innermost DEF CloseClass, Within, ParseInv
    <2>4. BlocksOK(Noted(around, "none"), DOMAIN spaces)
      BY BlockClosed, BlockNoted DEF ParseInv
    <2>5. at + 1 \in Nat \ {0}
      BY DEF ParseInv
    <2> HIDE DEF closed, around
    <2>6. IsTree(grown, varDecls, funcs) /\ DOMAIN grown = DOMAIN spaces \cup {closed.space}
      BY <2>3, SpaceAdded DEF ParseInv, BlockOK
    <2> HIDE DEF grown
    <2>7. IsTree(grown, moreVars, moreFuncs)
      BY <2>3, <2>6, MembersAdded DEF BlockOK
    <2> HIDE DEF moreVars, moreFuncs
    <2>8. BlocksOK(Noted(around, "none"), DOMAIN grown)
      BY <2>4, <2>6, MorePaths
    <2>9. CASE UNCHANGED treeVars
      BY <2>1, <2>4, <2>5, <2>9 DEF ParseInv, treeVars
    <2>10. CASE spaces' = grown /\ varDecls' = moreVars /\ funcs' = moreFuncs
      BY <2>1, <2>5, <2>7, <2>8, <2>10 DEF ParseInv
    <2> QED
      BY <2>2, <2>9, <2>10
  <1> QED
    BY <1>1, <1>2

(* A function executes in the namespace around it.                         *)
LEMMA OpenFuncKept ==
    ASSUME Read, ParseInv, OpenFunc
    PROVE  ParseInv'
  <1> DEFINE header == FuncHeader(Keyword + 1)
             block == [kind |-> "func", name |-> Word(Keyword + 1),
                       params |-> header.params, body |-> <<>>]
  <1>1. CASE header.how # "ok"
    BY <1>1, Refused DEF OpenFunc
  <1>2. CASE header.how = "ok"
    <2>1. /\ blocks' = Append(blocks, block) /\ at' = header.next /\ UNCHANGED treeVars
      BY <1>2 DEF OpenFunc
    <2>2. Keyword + 1 \in Nat \ {0}
      BY DEF ParseInv, Keyword
    <2>3. header.next \in Nat \ {0}
      BY <1>2, <2>2, FuncPlace
    <2> HIDE DEF header
    <2>4. BlockOK(block, DOMAIN spaces)
      BY DEF BlockOK
    <2> HIDE DEF block
    <2>5. BlocksOK(Append(blocks, block), DOMAIN spaces)
      BY <2>4, BlockAdded DEF ParseInv
    <2> QED
      BY <2>1, <2>3, <2>5 DEF ParseInv, treeVars
  <1> QED
    BY <1>1, <1>2

LEMMA CloseFuncKept ==
    ASSUME ParseInv, CloseFunc
    PROVE  ParseInv'
  <1> DEFINE func == Last(blocks)
             around == Front(blocks)
             def == [params |-> func.params, body |-> func.body, space |-> Current]
             class1 == around[Len(around)]
             more == [class1 EXCEPT !.funcs = With(@, func.name, def)]
             key == <<Current, func.name>>
  <1>1. CASE Refuse("rejected")
    BY <1>1, Refused
  <1>2. /\ def.space \in DOMAIN spaces /\ at + 1 \in Nat \ {0}
        /\ BlocksOK(around, DOMAIN spaces)
    BY CurrentInTree, BlockClosed DEF ParseInv
  <1> HIDE DEF def, around, func
  <1>3. CASE around # <<>> /\ Last(around).kind = "class"
    <2>1. /\ blocks' = [around EXCEPT ![Len(around)].funcs = With(@, func.name, def)]
          /\ at' = at + 1 /\ UNCHANGED treeVars
      BY <1>3 DEF CloseFunc, func, around, def
    <2>2. BlockOK(class1, DOMAIN spaces) /\ class1.kind = "class" /\ Len(around) \in DOMAIN around
      BY <1>2, <1>3, Innermost
    <2>3. blocks' = [around EXCEPT ![Len(around)] = more]
      BY <2>1
    <2>4. /\ \A name \in DOMAIN class1.funcs \cup {func.name} :
                 With(class1.funcs, func.name, def)[name].space \in DOMAIN spaces
          /\ DOMAIN With(class1.funcs, func.name, def) = DOMAIN class1.funcs \cup {func.name}
      BY <1>2, <2>2 DEF BlockOK, With
    <2>5. BlockOK(more, DOMAIN spaces)
      BY <2>2, <2>4 DEF BlockOK
    <2> HIDE DEF more
    <2>6. BlocksOK(blocks', DOMAIN spaces)
      BY <1>2, <2>3, <2>5, BlockChanged
    <2> QED
      BY <1>2, <2>1, <2>6 DEF ParseInv, treeVars
  <1>4. CASE ~(around # <<>> /\ Last(around).kind = "class") /\ ~Refuse("rejected")
    <2>1. /\ funcs' = With(funcs, key, def) /\ blocks' = Noted(around, "none")
          /\ at' = at + 1 /\ UNCHANGED <<spaces, varDecls>>
      BY <1>4 DEF CloseFunc, func, around, def
    <2> HIDE DEF key
    <2>2. IsTree(spaces, varDecls, With(funcs, key, def))
      BY <1>2, FuncAdded DEF ParseInv
    <2>3. BlocksOK(Noted(around, "none"), DOMAIN spaces)
      BY <1>2, BlockNoted
    <2> QED
      BY <1>2, <2>1, <2>2, <2>3 DEF ParseInv
  <1> QED
    BY <1>1, <1>3, <1>4

(* Each step of the parser keeps its tree,                                 *)
LEMMA ParseStep ==
    ASSUME Read, ParseInv, ParseNext
    PROVE  ParseInv'
  <1>1. CASE ParseEnd
    BY <1>1, Refused DEF ParseEnd, Refuse
  <1>2. CASE ParseOther
    BY <1>2, Refused DEF ParseOther
  <1> QED
    BY <1>1, <1>2, GlobalVarKept, LocalVarKept, MemberVarKept, PrintKept, ReturnKept,
       ExprStatementKept, OpenNamespaceKept, CloseNamespaceKept, OpenClassKept, CloseClassKept,
       OpenFuncKept, CloseFuncKept DEF ParseNext

(* which it begins with.                                                   *)
LEMMA ParseBegins ==
    ASSUME ParseInit
    PROVE  ParseInv
  <1>1. DOMAIN spaces = {Top} /\ DOMAIN varDecls = {} /\ DOMAIN funcs = {}
    BY DEF ParseInit, EmptyTree
  <1>2. Top \in Seq(STRING)
    BY DEF Top
  <1>3. IsFiniteSet({Top})
    BY FS_Singleton
  <1>4. IsTree(spaces, varDecls, funcs)
    BY <1>1, <1>2, <1>3 DEF IsTree
  <1>5. BlocksOK(blocks, DOMAIN spaces)
    <2>1. <<>> \in Seq(STRING) /\ DOMAIN <<>> = {}
      OBVIOUS
    <2> QED
      BY <2>1 DEF ParseInit, BlocksOK
  <1> QED
    BY <1>4, <1>5 DEF ParseInit, ParseInv

-----------------------------------------------------------------------------
(***************************************************************************)
(* The whole program.  The lexer, the parser and the runtime take turns:   *)
(* until the parser is done the runtime stays as it began, so that it      *)
(* begins with the tree that the parser leaves.                            *)
(***************************************************************************)
ProgramInv ==
    /\ LexInv /\ ReadInv
    /\ ParseInv
    /\ parsing # "done" => RunInit
    /\ TypeInv /\ OrderInv

(* A run that has not begun is in order, with any tree,                    *)
LEMMA RunBegins ==
    ASSUME RunInit, IsTree(spaces, varDecls, funcs)
    PROVE  TypeInv /\ OrderInv
  <1>1. TreeOK
    BY TreeOfNow
  <1> QED
    BY <1>1, TypeInit DEF RunInit, OrderInv, Pending, HasValue

(* also behind a step of the parser.                                       *)
LEMMA RunBeginsNext == (RunInit /\ IsTree(spaces, varDecls, funcs))' => (TypeInv /\ OrderInv)'
  <1>1. RunInit /\ IsTree(spaces, varDecls, funcs) => TypeInv /\ OrderInv
    BY RunBegins
  <1> QED
    BY <1>1, PTL

(* The program begins so,                                                  *)
LEMMA ProgramBegins ==
    ASSUME TextsAreStrings, Init
    PROVE  ProgramInv
  <1>1. LexInv
    BY LexInitInv DEF Init, TextsAreStrings, LengthsAreNumbers
  <1>2. ReadInv
    BY DEF Init, LexInit, ReadInv, NameInText
  <1>3. ParseInv
    BY ParseBegins DEF Init
  <1>4. TypeInv /\ OrderInv
    BY <1>3, RunBegins DEF Init, ParseInv
  <1> QED
    BY <1>1, <1>2, <1>3, <1>4 DEF ProgramInv, Init

(* and every step keeps it so.                                             *)
LEMMA ProgramStep ==
    ASSUME TextsAreStrings, ProgramInv, [Next]_vars
    PROVE  ProgramInv'
  <1>1. CASE Lex \/ UNCHANGED vars
    <2>1. [LexNext]_lexVars /\ UNCHANGED parseVars /\ UNCHANGED runVars
      BY <1>1 DEF Lex, vars
    <2>2. LexInv' /\ ReadInv'
      BY <2>1, LexStep, ReadStep DEF ProgramInv
    <2>3. UNCHANGED allRunVars
      BY <2>1 DEF parseVars, allRunVars
    <2>4. TypeInv' /\ OrderInv'
      BY <2>3, TypeInductive, OrderStep DEF ProgramInv
    <2>5. ParseInv'
      BY <2>1 DEF ProgramInv, ParseInv, parseVars, treeVars
    <2> QED
      BY <2>1, <2>2, <2>4, <2>5 DEF ProgramInv, RunInit, parseVars, runVars
  <1>2. CASE Parse
    <2>1. Read
      BY <1>2 DEF Parse, ProgramInv, Read
    <2>2. ParseInv'
      BY <1>2, <2>1, ParseStep DEF Parse, ProgramInv
    <2>3. RunInit /\ UNCHANGED runVars
      BY <1>2 DEF Parse, ParseNext, ProgramInv
    <2>4. RunInit'
      BY <2>3 DEF RunInit, runVars
    <2>5. TypeInv' /\ OrderInv'
      BY <2>2, <2>4, RunBeginsNext DEF ParseInv
    <2>6. LexInv' /\ ReadInv'
      <3>1. UNCHANGED lexVars
        BY <1>2 DEF Parse
      <3> QED
        BY <3>1, LexStep, ReadStep DEF ProgramInv
    <2> QED
      BY <2>2, <2>4, <2>5, <2>6 DEF ProgramInv
  <1>3. CASE Run
    <2>1. [RunNext]_allRunVars /\ UNCHANGED lexVars /\ UNCHANGED <<at, blocks, parsing>>
      BY <1>3 DEF Run
    <2>2. TypeInv' /\ OrderInv'
      BY <2>1, TypeInductive, OrderStep DEF ProgramInv
    <2>3. UNCHANGED treeVars
      BY <2>1, TreeKept
    <2>4. ParseInv'
      BY <2>1, <2>3 DEF ProgramInv, ParseInv, treeVars
    <2>5. LexInv' /\ ReadInv'
      BY <2>1, LexStep, ReadStep DEF ProgramInv
    <2>6. parsing' = "done"
      BY <1>3 DEF Run
    <2> QED
      BY <2>2, <2>4, <2>5, <2>6 DEF ProgramInv
  <1> QED
    BY <1>1, <1>2, <1>3 DEF Next

(* What changes the runtime is a step of its own.                          *)
LEMMA RunOrNot ==
    ASSUME [Next]_vars
    PROVE  RunNext \/ UNCHANGED runVars
  BY DEF Next, Lex, Parse, Run, vars

(* In every state of the program, whatever its text is.                    *)
LEMMA ProgramHolds ==
    ASSUME TextsAreStrings
    PROVE  Spec => [](ProgramInv) /\ [][Next]_vars
  <1>1. Init => ProgramInv
    BY ProgramBegins
  <1>2. ProgramInv /\ [Next]_vars => ProgramInv'
    BY ProgramStep
  <1> QED
    BY <1>1, <1>2, PTL DEF Spec

(* Whatever text the lexer reads and the parser accepts or refuses, the    *)
(* tree is one that the runtime relies on: variables are in spaces that    *)
(* are there, under their names, and a function executes in one of them.   *)
THEOREM TreeSound ==
    ASSUME TextsAreStrings
    PROVE  Spec => []TreeOK
  <1>1. ProgramInv => TreeOK
    BY DEF ProgramInv, TypeInv
  <1> QED
    BY <1>1, ProgramHolds, PTL

(* No character that the lexer has passed is lost, whatever else happens.  *)
THEOREM ProgramLosesNothing ==
    ASSUME TextsAreStrings
    PROVE  Spec => []NothingLost
  <1>1. ProgramInv => NothingLost
    BY InvLosesNothing DEF ProgramInv
  <1> QED
    BY <1>1, ProgramHolds, PTL

(* The values are at places that exist and in living objects, and objects  *)
(* live while a value shares them, whatever text the tree is of.           *)
THEOREM ProgramTypesAndLives ==
    ASSUME TextsAreStrings
    PROVE  Spec => [](RunTypeOK /\ SharedLives)
  <1>1. TypeInv => RunTypeOK
    BY DEF TypeInv, NowOK, RunOK, RunTypeOK, ClassOK, StoreOK, ValueOK, PlaceOK, MemberOK, Stops
  <1>2. ProgramInv => RunTypeOK /\ SharedLives
    BY <1>1 DEF ProgramInv, TypeInv, ObjectsInv
  <1> QED
    BY <1>2, ProgramHolds, PTL

(* An assignment of a program frees its own left operand only where        *)
(* objects keep one another in a cycle.                                    *)
THEOREM ProgramFreedInCycle ==
    ASSUME TextsAreStrings
    PROVE  Spec => FreedNeedsCycle
  <1>1. ProgramInv /\ [Next]_vars =>
            [running' = "freed" => \E o \in Objects : InCycle(o)]_runVars
    BY RunOrNot, FreedStep DEF ProgramInv, TypeInv
  <1> QED
    BY <1>1, ProgramHolds, PTL DEF FreedNeedsCycle

(* A program gets to main only when what its initial values read has been  *)
(* initialised before.                                                     *)
THEOREM ProgramMainInOrder ==
    ASSUME TextsAreStrings
    PROVE  Spec => MainInOrder
  <1> DEFINE Ordered == running = "init" /\ running' = "main" => \A k \in DOMAIN varDecls : InOrder(k)
  <1>1. ProgramInv /\ [Next]_vars => [Ordered]_runVars
    BY RunOrNot, StartInOrder DEF ProgramInv
  <1> QED
    BY <1>1, ProgramHolds, PTL DEF MainInOrder, InOrder, EarlierRead

(* The values of a program keep their types while their places exist.      *)
THEOREM ProgramKindsKept ==
    ASSUME TextsAreStrings
    PROVE  Spec => KindsKept
  <1>1. ProgramInv /\ [Next]_vars => [Kinds]_runVars
    BY RunOrNot, KindsStep DEF ProgramInv, TypeInv
  <1>2. [Kinds]_runVars =>
            [\A p \in DOMAIN store \cap DOMAIN store' : store'[p].type = store[p].type]_runVars
    BY DEF Kinds
  <1> QED
    BY <1>1, <1>2, ProgramHolds, PTL DEF KindsKept

(* An argument of a program that names a variable of the callers is passed *)
(* its value.                                                              *)
THEOREM ProgramArguments ==
    ASSUME TextsAreStrings
    PROVE  Spec => ArgumentOfCaller
  <1> DEFINE Passes ==
          running' = "main" /\ running = "main" /\ Passing /\ Len(frames') = Depth =>
              \A param \in {Local(Depth, Head(frames[Depth].params))} \ DOMAIN store :
                  frames[Depth].args # <<>> /\ NamesCallersLocal(Head(frames[Depth].args)) =>
                      LET name == Head(frames[Depth].args).name
                      IN  store'[param] = store[Local(CallerDepth(name), name)]
  <1>1. ProgramInv /\ [Next]_vars => [Passes]_runVars
    BY RunOrNot, PassedStep DEF ProgramInv, TypeInv
  <1> QED
    BY <1>1, ProgramHolds, PTL DEF ArgumentOfCaller
=============================================================================
