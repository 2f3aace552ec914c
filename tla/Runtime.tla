------------------------------ MODULE Runtime -------------------------------
(***************************************************************************)
(* The runtime of the interpreter (Interpreter/Runtime.cpp, Expr.cpp and   *)
(* the execute functions of Expr.h): the variables with an initial value,  *)
(* then main.  One action initialises a variable, or executes a statement, *)
(* passes an argument or ends a call.  What the bodies of functions say is *)
(* left open: any statement of Statements may come next.                   *)
(*                                                                         *)
(* A place is where a value is kept: a variable of a namespace, a local    *)
(* variable of a call, or a member of an object.  An operand names a       *)
(* place: a name with its scope, then the names of members, each behind a  *)
(* '.'.  Numbers are all the same literal value here.  Operators on        *)
(* strings, and calls that are returned or assigned, are left out; a unary *)
(* operator, a call or a new object inside an operator ends the program.   *)
(***************************************************************************)
EXTENDS Namespaces, Integers, SequencesExt

CONSTANTS
    Objects,     \* the addresses of objects
    NoObject,    \* what an empty pointer points to
    NameOrder,   \* the names, as std::map sorts them
    Statements,  \* the statements that a body may consist of
    MaxCalls     \* bound on the calls in progress

ASSUME NoObjectAssumption == NoObject \notin Objects
\* The parser gives every declaration one of two kinds of reference.
ASSUME StatementsAssumption ==
    \A s \in Statements : s.kind = "var" => s.decl.ref \in {"shared", "weak"}

VARIABLES
    store,      \* the values, by place
    class,      \* the class of each living object (m_definition)
    current,    \* m_currentNamespace2
    frames,     \* the calls in progress, the innermost last: the namespace to
                \* come back to, the parameters and arguments not passed yet
    running     \* "init", "main", "finished", "stopped" (an exception or exit),
                \* "aborted" (an assertion), "freed" (an assignment to what it has
                \* freed), "undefined" (other undefined behaviour)

runVars == <<store, class, current, frames, running>>

allRunVars == <<treeVars, runVars>>

Literal == [type |-> "literal", obj |-> NoObject]

NullValue == [type |-> "null", obj |-> NoObject]

Shared(o) == [type |-> "shared", obj |-> o]

Weak(o) == [type |-> "weak", obj |-> o]

Global(space, name) == <<"global", space, name>>

Local(depth, name) == <<"local", depth, name>>

Member(o, name) == <<"member", o, name>>

RunInit ==
    /\ store = <<>>
    /\ class = <<>>
    /\ current = Top
    /\ frames = <<>>
    /\ running = "init"

\* The program ends here, with all of its data.
Fail(how) ==
    /\ running' = how
    /\ store' = <<>> /\ class' = <<>> /\ frames' = <<>> /\ current' = Top
    /\ UNCHANGED treeVars

-----------------------------------------------------------------------------
(* Names. *)

HasValue(space, name) == Global(space, name) \in DOMAIN store

FindValue(space, spec, name) == Find(space, spec, {s \in DOMAIN spaces : HasValue(s, name)})

\* The greatest of some numbers, if there is one.
GreatestOr(numbers, none) ==
    IF \E n \in numbers : \A k \in numbers : k <= n
    THEN CHOOSE n \in numbers : \A k \in numbers : k <= n ELSE none

\* The depth of the call, if any, whose local variable a name means: it is
\* looked for in every call in progress (getLocalVarValue).
LocalDepth(name) ==
    GreatestOr({d \in 1 .. Len(frames) : Local(d, name) \in DOMAIN store}, 0)

\* The nearest namespace around the current one that has a value of this name.
Around(name) ==
    LET levels == {n \in 0 .. Len(current) - 1 : HasValue(SubSeq(current, 1, n), name)}
        level == GreatestOr(levels, -1)
    IN  IF level = -1 THEN NoSpace ELSE SubSeq(current, 1, level)

At(place) == [how |-> "place", place |-> place]

\* The end of IdentifierExpr::execute.  Before it looks on, a log line
\* dereferences the value of a variable "ptr".
Further(spec, name) ==
    IF FindValue(current, <<>>, "ptr") = NoSpace THEN [how |-> "undefined"]
    ELSE IF FindValue(current, spec, name) # NoSpace
    THEN At(Global(FindValue(current, spec, name), name))
    ELSE IF FindClass(current, spec, name) # NoSpace
    THEN [how |-> "class", space |-> Append(FindClass(current, spec, name), name)]
    ELSE [how |-> "stopped"]

\* Faulty: the namespaces around come before the local variables.
AroundFirst(spec, name) ==
    IF Around(name) # NoSpace THEN At(Global(Around(name), name))
    ELSE IF LocalDepth(name) > 0 THEN At(Local(LocalDepth(name), name))
    ELSE Further(spec, name)

\* In a function, local variables and the namespaces around come first, and
\* take no notice of the scope.
NameOf(spec, name) ==
    IF LocalDepth(name) > 0 THEN At(Local(LocalDepth(name), name))
    ELSE IF Around(name) # NoSpace THEN At(Global(Around(name), name))
    ELSE Further(spec, name)

\* In the initial value of a global variable (isGlobal), what the namespace
\* itself declares hides the namespaces around, with or without a value.
GlobalNameOf(spec, name) ==
    IF HasValue(current, name) THEN At(Global(current, name))
    ELSE IF <<current, name>> \in DOMAIN varDecls THEN Further(spec, name)
    ELSE IF Around(name) # NoSpace THEN At(Global(Around(name), name))
    ELSE [how |-> "stopped"]

Pointers == {"shared", "weak"}

\* DotExpr::execute: the member of the object at a place.  The object of a
\* class's name is gone when its member is used.
Dot(left, name) ==
    LET value == store[left.place]
        member == Member(value.obj, name)
    IN  IF left.how = "undefined" THEN [how |-> "undefined"]
        ELSE IF left.how = "class" /\ <<left.space, name>> \in DOMAIN varDecls
        THEN [how |-> "undefined"]
        ELSE IF left.how = "place" /\ value.type \in Pointers /\ value.obj \in DOMAIN class
                /\ member \in DOMAIN store
        THEN At(member) ELSE [how |-> "stopped"]

\* From what a name stands for, member by member.
Follow(start, path) ==
    LET size == Len(path)
        left[n \in 0 .. size - 1] == IF n = 0 THEN start ELSE Dot(left[n - 1], path[n])
    IN  IF size = 0 THEN start ELSE Dot(left[size - 1], path[size])

\* What an operand stands for: a place, a new object of a class, or an end.
Resolve(operand) == Follow(NameOf(operand.spec, operand.name), operand.path)

-----------------------------------------------------------------------------
(* Objects. *)

\* What is shared from outside a set of objects.
SharedOutside(st, gone) ==
    {st[p].obj : p \in {q \in DOMAIN st : /\ st[q].type = "shared"
                                          /\ q[1] = "member" => q[2] \notin gone}}

\* Faulty: the members of an object that dies are not released.
DyingAlone(st, objects) == objects \ SharedOutside(st, {})

\* The objects that die with their last reference, and those that die with
\* them: the smallest set outside of which every object is shared from outside.
\* Objects of a cycle keep one another.
Dying(st, objects) ==
    LET closed == {gone \in SUBSET objects : objects \ gone \subseteq SharedOutside(st, gone)}
    IN  {o \in objects : \A gone \in closed : o \in gone}

\* The new values, and what becomes of objects: the dying take their members
\* with them.
Settle(st, cl) ==
    LET dying == Dying(st, DOMAIN cl) IN
    /\ store' = [p \in {q \in DOMAIN st : ~(q[1] = "member" /\ q[2] \in dying)} |-> st[p]]
    /\ class' = [o \in DOMAIN cl \ dying |-> cl[o]]

\* Addresses that nothing refers to, not even a pointer that has expired.
Free == Objects \ (DOMAIN class \cup {store[p].obj : p \in DOMAIN store})

\* Which of them new objects get makes no difference.
Allocation(names) ==
    LET ways == Injection(names, Free) IN IF ways = {} THEN {} ELSE {CHOOSE f \in ways : TRUE}

Primitive == {<<"Int">>, <<"Float">>, <<"String">>}

\* A declared type that is a class, or unknown.
Typed(decl) == decl.type \notin Primitive \cup {<<>>}

\* The class whose object a declaration makes (VarDeclaration::execute).
MadeBy(decl) ==
    IF ~Typed(decl) /\ decl.init.kind \in {"name", "call"}
    THEN LET space == FindClass(current, decl.init.spec, decl.init.name)
         IN  IF space = NoSpace THEN NoSpace ELSE Append(space, decl.init.name)
    ELSE NoSpace

\* The ways in which reading an operand of an operator may fail: it must be a
\* number (BinaryOpExpression::execute).
OperandEnds(read, isGlobal) ==
    LET start == IF isGlobal THEN GlobalNameOf(read.spec, read.name)
                 ELSE NameOf(read.spec, read.name)
        found == Follow(start, read.path)
        type == store[found.place].type
    IN  IF start.how = "class" THEN {"stopped", "undefined"}
        ELSE IF start.how # "place" THEN {start.how}
        ELSE IF found.how # "place" THEN {found.how}
        ELSE IF type = "literal" THEN {}
        ELSE IF type = "null" THEN {"stopped"} ELSE {"stopped", "undefined"}

\* So may what executing an operator comes to: one that is not arithmetic runs
\* off the end of the function, and a UnaryExpression executes by m_op, which
\* nothing sets.
ReadEnds(read, isGlobal) ==
    CASE read.kind = "name" -> OperandEnds(read, isGlobal)
      [] read.kind = "number" -> {}
      [] read.kind = "lost" -> {"undefined"}
      [] OTHER -> {"stopped", "undefined"}

\* Faulty: a variable that has no value yet is no error.
KnownLate(init) == <<current, init.name>> \in DOMAIN varDecls

Known(init) == FindValue(current, init.spec, init.name) # NoSpace

\* The ways in which a declaration fails, before its members: none if it goes
\* well.  The type or the value must be known, and so must the operands, which
\* are read in their order of evaluation.
Ends(decl, isGlobal) ==
    LET init == decl.init
        Bad(n) == ReadEnds(init.reads[n], isGlobal)
        failing == {n \in DOMAIN init.reads : Bad(n) # {}}
    IN  IF Typed(decl)
        THEN IF FindClass(current, Front(decl.type), Last(decl.type)) = NoSpace
             THEN {"stopped"} ELSE {}
        ELSE CASE init.kind = "name" /\ MadeBy(decl) = NoSpace ->
                      IF Known(init) THEN {} ELSE {"stopped"}
               [] init.kind = "operator" ->
                      IF failing = {} THEN {}
                      ELSE Bad(CHOOSE n \in failing : \A k \in failing : n <= k)
               [] init.kind = "unary" -> {"stopped", "undefined"}
               [] OTHER -> {}

\* The value of a declaration that makes no object.  The value of a variable,
\* of a call or of a member is not taken over.
ValueOf(decl) ==
    IF Typed(decl) THEN Weak(NoObject)
    ELSE IF decl.init.kind = "none" THEN [type |-> decl.ref, obj |-> NoObject]
    ELSE IF decl.init.kind \in {"literal", "operator"} THEN Literal
    ELSE NullValue

Members(space) == {k \in DOMAIN varDecls : k = <<space, k[2]>>}

\* The objects made for the members of an object, by the names that lead to
\* them.
Below(part) ==
    {[names |-> Append(part.names, k[2]), space |-> MadeBy(varDecls[k])] :
        k \in {m \in Members(part.space) : MadeBy(varDecls[m]) # NoSpace}}

\* The object of a class and those below it, as far as classes can be inside
\* one another without an end.
Parts(space) ==
    LET whole == [names |-> <<>>, space |-> space]
        level[n \in 0 .. Cardinality(DOMAIN spaces)] ==
            IF n = 0 THEN {whole} ELSE UNION {Below(part) : part \in level[n - 1]}
    IN  {whole} \cup UNION {level[n] : n \in DOMAIN level}

Ended(how) == [how |-> how]

Got(value, objects, values) ==
    [how |-> "ok", value |-> value, objects |-> objects, values |-> values]

\* The class each object is of, and the members it has, when the object of a
\* class and those below it are at some addresses.
PartAt(parts, address, o) == CHOOSE part \in parts : address[part.names] = o

ClassesAt(parts, address) == [o \in Range(address) |-> PartAt(parts, address, o).space]

MembersOf(objects, o) == {Member(o, k[2]) : k \in Members(objects[o])}

MemberValue(parts, address, o, k) ==
    IF MadeBy(varDecls[k]) = NoSpace THEN ValueOf(varDecls[k])
    ELSE Shared(address[Append(PartAt(parts, address, o).names, k[2])])

Built(parts, address) ==
    LET objects == ClassesAt(parts, address)
        places == UNION {MembersOf(objects, o) : o \in DOMAIN objects}
    IN  Got(Shared(address[<<>>]), objects,
            [p \in places |-> MemberValue(parts, address, p[2], <<objects[p[2]], p[3]>>)])

\* createClassObject: what may come of it, with the new objects and the values
\* of their members.
Creations(space, isGlobal) ==
    LET parts == Parts(space)
        endless == \E part \in parts : ~(Below(part) \subseteq parts)
        ends == UNION {Ends(varDecls[k], isGlobal) :
                           k \in UNION {Members(part.space) : part \in parts}}
        failures == ends \cup (IF endless THEN {"undefined"} ELSE {})
    IN  IF failures # {} THEN {Ended(how) : how \in failures}
        ELSE {Built(parts, address) : address \in Allocation({part.names : part \in parts})}

\* VarDeclaration::execute
Declared(decl, isGlobal) ==
    IF Ends(decl, isGlobal) # {} THEN {Ended(how) : how \in Ends(decl, isGlobal)}
    ELSE IF MadeBy(decl) # NoSpace THEN Creations(MadeBy(decl), isGlobal)
    ELSE {Got(ValueOf(decl), <<>>, <<>>)}

\* What has been got, with a place of its own.
Values(got, place) == Over([p \in {place} |-> got.value], got.values)

Placed(got, place) == Over(Values(got, place), store)

Settled(got, place) == Settle(Placed(got, place), Over(got.objects, class))

-----------------------------------------------------------------------------
(* Initialisation. *)

\* Of two names at the same level, the one that comes first in a map.
Rank(name) == CHOOSE n \in DOMAIN NameOrder : NameOrder[n] = name

\* Variables of a space before those of the spaces in it.
Before(k, l) ==
    IF k[1] = l[1] THEN Rank(k[2]) < Rank(l[2])
    ELSE LET shorter == CHOOSE n \in {Len(k[1]), Len(l[1])} : n <= Len(k[1]) /\ n <= Len(l[1])
             unlike == {n \in 1 .. shorter : k[1][n] # l[1][n]}
             first == CHOOSE n \in unlike : \A m \in unlike : n <= m
         IN  IF unlike = {} THEN Len(k[1]) < Len(l[1])
             ELSE Rank(k[1][first]) < Rank(l[1][first])

Pending == {k \in DOMAIN varDecls : ~HasValue(k[1], k[2])}

NextPending == {k \in Pending : \A l \in Pending \ {k} : Before(k, l)}

\* initGlobalVariablesR comes to the space of the next variable.
EnterSpace ==
    /\ running = "init"
    /\ \E k \in NextPending : current # k[1] /\ current' = k[1]
    /\ UNCHANGED <<treeVars, store, class, frames, running>>

\* The variables of a class are initialised as well.
InitGlobal ==
    /\ running = "init"
    /\ \E k \in NextPending :
          /\ current = k[1]
          /\ \E got \in Declared(varDecls[k], TRUE) :
                IF got.how # "ok" THEN Fail(got.how)
                ELSE /\ Settled(got, Global(k[1], k[2]))
                     /\ UNCHANGED <<treeVars, current, frames, running>>

\* A call of main, in the top namespace; one without it is an exception.
StartMain ==
    /\ running = "init" /\ Pending = {}
    /\ IF <<Top, "main">> \notin DOMAIN funcs THEN Fail("stopped")
       ELSE /\ running' = "main"
            /\ current' = funcs[<<Top, "main">>].space
            /\ frames' = <<[back |-> Top, args |-> <<>>,
                            params |-> funcs[<<Top, "main">>].params]>>
            /\ UNCHANGED <<treeVars, store, class>>

-----------------------------------------------------------------------------
(* Calls. *)

Depth == Len(frames)

Passing == frames[Depth].params # <<>>

AtStatement == running = "main" /\ ~Passing

\* FunctionCall::execute: the namespace changes before the arguments are
\* looked at.
Enter(call) ==
    LET space == FindFunc(current, call.spec, call.name)
        func == funcs[<<space, call.name>>]
    IN  IF space = NoSpace THEN Fail("stopped")
        ELSE /\ Depth < MaxCalls
             /\ frames' = Append(frames, [back |-> current, params |-> func.params,
                                          args |-> call.args])
             /\ current' = func.space
             /\ UNCHANGED <<treeVars, store, class, running>>

Call(call) == AtStatement /\ Enter(call)

\* The frame with its next parameter passed.
Passed(frame) ==
    [frame EXCEPT !.params = Tail(@), !.args = IF @ = <<>> THEN @ ELSE Tail(@)]

\* The next parameter becomes a local variable, unless one has its name.
Bind(got) ==
    LET place == Local(Depth, Head(frames[Depth].params))
    IN  /\ Settle(Over(store, Values(got, place)), Over(got.objects, class))
        /\ frames' = [frames EXCEPT ![Depth] = Passed(@)]
        /\ UNCHANGED <<treeVars, current, running>>

\* The value of the next argument, looked up where the function is: null for
\* one that is missing.
Argument ==
    LET args == frames[Depth].args
        found == Resolve(Head(args))
    IN  IF args = <<>> THEN {Got(NullValue, <<>>, <<>>)}
        ELSE IF Head(args).kind = "literal" THEN {Got(Literal, <<>>, <<>>)}
        ELSE IF found.how = "place" THEN {Got(store[found.place], <<>>, <<>>)}
        ELSE IF found.how = "class" THEN Creations(found.space, FALSE)
        ELSE {Ended(found.how)}

PassArgument ==
    /\ running = "main" /\ Passing
    /\ LET args == frames[Depth].args IN
       IF args # <<>> /\ Head(args).kind = "call" THEN Enter(Head(args))
       ELSE \E got \in Argument : IF got.how = "ok" THEN Bind(got) ELSE Fail(got.how)

\* Faulty: the local variables remain.
LocalsKept == store

LocalsGone == [p \in {q \in DOMAIN store : q[1] = "local" => q[2] < Depth} |-> store[p]]

\* The value got from a call is its caller's argument, or nobody's.
End(got) ==
    LET around == frames[Depth - 1]
        wanted == Depth > 1 /\ around.params # <<>>
        place == Local(Depth - 1, Head(around.params))
    IN  /\ current' = frames[Depth].back
        /\ running' = IF Depth = 1 THEN "finished" ELSE running
        /\ frames' = IF wanted THEN [Front(frames) EXCEPT ![Depth - 1] = Passed(@)]
                     ELSE Front(frames)
        /\ Settle(Over(LocalsGone, IF wanted THEN Values(got, place) ELSE got.values),
                  Over(got.objects, class))
        /\ UNCHANGED treeVars

\* The end of the body.
EndCall == AtStatement /\ End(Got(NullValue, <<>>, <<>>))

\* Only a new object of a class ends the call: the mark of a variable's value
\* is lost with its copy, and a literal has no place to mark.
Return(value) ==
    /\ AtStatement
    /\ IF value.kind = "none" THEN UNCHANGED allRunVars
       ELSE IF value.kind = "literal" THEN Fail("undefined")
       ELSE LET found == Resolve(value) IN
            IF found.how = "place" THEN UNCHANGED allRunVars
            ELSE IF found.how # "class" THEN Fail(found.how)
            ELSE \E got \in Creations(found.space, FALSE) :
                    IF got.how = "ok" THEN End(got) ELSE Fail(got.how)

-----------------------------------------------------------------------------
(* Variables. *)

\* A local variable that its call has already is an exception.
Declare(name, decl) ==
    /\ AtStatement
    /\ \E got \in Declared(decl, FALSE) :
          IF got.how # "ok" THEN Fail(got.how)
          ELSE IF Local(Depth, name) \in DOMAIN store THEN Fail("stopped")
          ELSE /\ Settled(got, Local(Depth, name))
               /\ UNCHANGED <<treeVars, current, frames, running>>

\* Faulty: the left operand becomes what the right one is.
AssignedWhole(left, right) ==
    IF right.type = "weak" /\ right.obj \notin DOMAIN class THEN Ended("stopped")
    ELSE Got(right, <<>>, <<>>)

\* AssignmentStatement::execute, by the values of the operands: the left one
\* keeps its type.
Assigned(left, right) ==
    IF left.type \notin Pointers THEN Ended("aborted")
    ELSE IF right.type \notin Pointers THEN Ended("stopped")
    ELSE IF right.type = "shared" THEN Got([type |-> left.type, obj |-> right.obj], <<>>, <<>>)
    ELSE IF left.type = "weak" THEN Ended("aborted")
    ELSE IF right.obj \notin DOMAIN class THEN Ended("stopped")
    ELSE Got(Shared(right.obj), <<>>, <<>>)

\* Faulty: what only members share dies as well.
FreesMembers(got, place) == DOMAIN class \ SharedOutside(Placed(got, place), DOMAIN class)

\* The objects that go when the value at a place is replaced.
Frees(got, place) == Dying(Placed(got, place), DOMAIN class)

\* The value of a place; the object that a class's name makes on the right
\* runs into an assertion, on the left the assignment ends in some way or has
\* no effect.  What the assignment frees may be the left operand itself.
Assign(left, right) ==
    /\ AtStatement
    /\ LET l == Resolve(left)
           r == IF right.kind = "literal" THEN [how |-> "literal"] ELSE Resolve(right)
           got == IF r.how = "place" THEN Assigned(store[l.place], store[r.place])
                  ELSE IF r.how = "class" \/ store[l.place].type \notin Pointers
                  THEN Ended("aborted") ELSE Ended("undefined")
       IN  IF l.how \notin {"place", "class"} THEN Fail(l.how)
           ELSE IF r.how \notin {"place", "class", "literal"} THEN Fail(r.how)
           ELSE IF l.how = "class"
           THEN \/ \E how \in {"stopped", "aborted", "undefined"} : Fail(how)
                \/ UNCHANGED allRunVars
           ELSE IF got.how # "ok" THEN Fail(got.how)
           ELSE IF l.place[1] = "member" /\ l.place[2] \in Frees(got, l.place) THEN Fail("freed")
           ELSE /\ Settled(got, l.place)
                /\ UNCHANGED <<treeVars, current, frames, running>>

\* Copying a value destroys what the new one held before it was set (the
\* copies of ObjectValue), so that wherever a value is copied anything may be.
StrayCopy == running \in {"init", "main"} /\ Fail("undefined")

Execute(s) ==
    \/ s.kind = "var" /\ Declare(s.name, s.decl)
    \/ s.kind = "assign" /\ Assign(s.left, s.right)
    \/ s.kind = "call" /\ Call(s)
    \/ s.kind = "return" /\ Return(s.value)

RunNext ==
    \/ EnterSpace \/ InitGlobal \/ StartMain
    \/ \E s \in Statements : Execute(s)
    \/ PassArgument \/ EndCall \/ StrayCopy

\* The runtime alone, with any tree.
RunSpec == RunInit /\ [][RunNext]_allRunVars

-----------------------------------------------------------------------------
(* The values are at places that exist, and an object has the members that *)
(* its class declares.                                                     *)
RunTypeOK ==
    /\ class \in [DOMAIN class -> DOMAIN spaces] /\ DOMAIN class \subseteq Objects
    /\ \A p \in DOMAIN store :
          /\ store[p].type \in {"literal", "null"} \cup Pointers
          /\ store[p].obj \in Objects \cup {NoObject}
          /\ \/ p[1] = "global" /\ <<p[2], p[3]>> \in DOMAIN varDecls
             \/ p[1] = "local" /\ p[2] \in 1 .. Len(frames)
             \/ p[1] = "member" /\ p[2] \in DOMAIN class
                /\ <<class[p[2]], p[3]>> \in DOMAIN varDecls
    /\ current \in DOMAIN spaces
    /\ running \in {"init", "main", "finished", "stopped", "aborted", "freed", "undefined"}

(* An object lives exactly as long as some value shares it: no shared      *)
(* value refers to an object that is gone, whatever the assignments, the   *)
(* ends of calls and the deaths of other objects were, and no object is    *)
(* left behind by all of them but through a cycle.                         *)
SharedLives ==
    /\ \A p \in DOMAIN store :
          store[p].type = "shared" => store[p].obj \in DOMAIN class \cup {NoObject}
    /\ \A o \in DOMAIN class :
          \E p \in DOMAIN store : store[p].type = "shared" /\ store[p].obj = o

Keeps(o, other) ==
    \E p \in DOMAIN store : /\ p[1] = "member" /\ p[2] = o
                            /\ store[p].type = "shared" /\ store[p].obj = other

\* What an object keeps is in each of these sets, and what that keeps in turn.
Kept(o) ==
    {S \in SUBSET Objects : \A x \in Objects : Keeps(o, x) \/ (\E y \in S : Keeps(y, x)) => x \in S}

InCycle(o) == \A S \in Kept(o) : o \in S

(* An assignment frees its own left operand only where the members of      *)
(* objects keep one another in a cycle: the member assigned to is part of  *)
(* it, and nothing else has shared it any more (AssignmentStatement uses   *)
(* left again behind the assignment).                                      *)
FreedNeedsCycle == [][running' = "freed" => \E o \in Objects : InCycle(o)]_runVars

(* A program in which a variable is initialised from one that comes later  *)
(* in the order of the maps never gets to main: every variable that an     *)
(* initial value reads belongs to the namespace it names, one around it or *)
(* the top one, and was initialised before (initGlobalVariablesR).  Beside *)
(* the type of a class an initial value is not looked at.                  *)
MainInOrder ==
    [][running = "init" /\ running' = "main" =>
        \A k \in DOMAIN varDecls :
            LET init == varDecls[k].init
                Earlier(read) ==
                    \E l \in DOMAIN varDecls :
                        /\ l[2] = read.name /\ Before(l, k)
                        /\ IsPrefix(l[1], k[1]) \/ l[1] = Named(k[1], read.spec)
            IN  /\ init.kind = "operator" /\ ~Typed(varDecls[k])
                       => \A n \in DOMAIN init.reads :
                              init.reads[n].kind = "name" => Earlier(init.reads[n])
                /\ init.kind = "name" /\ store[Global(k[1], k[2])].type = "null"
                       => Earlier(init)]_runVars

(* No assignment makes a weak reference keep an object alive, nor a shared *)
(* one let go of it: while a place exists, its value remains of its type,  *)
(* so that what may keep an object is known from the declarations.         *)
KindsKept ==
    [][\A p \in DOMAIN store \cap DOMAIN store' : store'[p].type = store[p].type]_runVars

\* The depth of the call below the innermost one whose local variable it is.
CallerDepth(name) ==
    GreatestOr({d \in 1 .. Depth - 1 : Local(d, name) \in DOMAIN store}, 0)

\* The next argument is the name of a local variable of a caller, and is not
\* that of a parameter that has been passed.
NamesCallersLocal(arg) ==
    /\ arg.kind = "name" /\ arg.path = <<>>
    /\ CallerDepth(arg.name) > 0
    /\ Local(Depth, arg.name) \notin DOMAIN store

(* Although an argument is looked up inside the function called, one that  *)
(* names a local variable of the callers is passed its value, unless a     *)
(* parameter that has been passed already has the name (doExecute pushes   *)
(* the variables of the function before it executes the arguments).        *)
ArgumentOfCaller ==
    [][running' = "main" /\ running = "main" /\ Passing /\ Len(frames') = Depth =>
          \A param \in {Local(Depth, Head(frames[Depth].params))} \ DOMAIN store :
              frames[Depth].args # <<>> /\ NamesCallersLocal(Head(frames[Depth].args)) =>
                  LET name == Head(frames[Depth].args).name
                  IN  store'[param] = store[Local(CallerDepth(name), name)]]_runVars
=============================================================================
