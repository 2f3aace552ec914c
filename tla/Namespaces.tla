----------------------------- MODULE Namespaces -----------------------------
(***************************************************************************)
(* The tree of namespaces and classes of a program                         *)
(* (Interpreter/ClassOrNamespace.h), that the parser fills and the runtime *)
(* reads.  A space is known by its path, the names from the top namespace  *)
(* down to its own.                                                        *)
(***************************************************************************)
EXTENDS Integers, Sequences, FiniteSets, TLC

VARIABLES
    spaces,     \* the paths of the tree, each with m_isClass (m_namespaceMap)
    varDecls,   \* the variables, by path and name (m_variableDeclMap)
    funcs       \* the functions, by path and name (m_functionMap)

treeVars == <<spaces, varDecls, funcs>>

\* A map with one more entry, or with that entry replaced.
With(map, key, value) == [k \in DOMAIN map \cup {key} |-> IF k = key THEN value ELSE map[k]]

\* The entries of f, and those of g where f has none.
Over(f, g) == [x \in DOMAIN f \cup DOMAIN g |-> IF x \in DOMAIN f THEN f[x] ELSE g[x]]

Top == <<>>

NoSpace == <<"::">>

EmptyTree ==
    /\ spaces = [path \in {Top} |-> FALSE]
    /\ varDecls = <<>>
    /\ funcs = <<>>

\* The path that a scope names, seen from a space; "::a" begins at the top.
Named(space, spec) ==
    IF spec = <<>> THEN space
    ELSE IF Head(spec) = "" THEN Tail(spec)
    ELSE space \o spec

\* ClassOrNamespace::get: the one of the spaces that hold what is looked for,
\* the named one or else the top namespace itself, whose scope an inner variable
\* hides.
Find(space, spec, holders) ==
    IF Named(space, spec) \in holders THEN Named(space, spec)
    ELSE IF space # Top /\ Top \in holders THEN Top
    ELSE NoSpace

\* getFunctionDef and getClassDef, which finds a namespace as well.
FindFunc(space, spec, name) ==
    Find(space, spec, {s \in DOMAIN spaces : <<s, name>> \in DOMAIN funcs})

FindClass(space, spec, name) ==
    Find(space, spec, {s \in DOMAIN spaces : Append(s, name) \in DOMAIN spaces})

-----------------------------------------------------------------------------
(* Variables are declared in spaces of the tree, and a function executes   *)
(* in one: whatever the runtime makes the current namespace is there.      *)
TreeOK ==
    /\ Top \in DOMAIN spaces /\ IsFiniteSet(DOMAIN spaces)
    /\ DOMAIN spaces \subseteq Seq(STRING)
    /\ DOMAIN varDecls \subseteq (DOMAIN spaces) \X STRING
    /\ \A k \in DOMAIN varDecls :
          /\ varDecls[k].ref \in {"shared", "weak"}
          /\ varDecls[k].init.kind = "operator" => DOMAIN varDecls[k].init.reads \subseteq Nat
    /\ \A k \in DOMAIN funcs : funcs[k].space \in DOMAIN spaces
=============================================================================
