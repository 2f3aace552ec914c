---------------------------- MODULE Interpreter -----------------------------
(***************************************************************************)
(* The interpreter (main of Interpreter/main.cpp): the lexer reads the     *)
(* whole text, the parser all of its tokens, and the runtime executes what *)
(* has been declared.  Each begins when the one before is done; an         *)
(* exception of the lexer or the parser ends the program.                  *)
(***************************************************************************)
EXTENDS Parser, Runtime

vars == <<lexVars, parseVars, runVars>>

Init == LexInit /\ ParseInit /\ RunInit

Lex == LexNext /\ UNCHANGED <<parseVars, runVars>>

Parse ==
    /\ lexing = "done"
    /\ ParseNext
    /\ UNCHANGED <<lexVars, runVars>>

Run ==
    /\ parsing = "done"
    /\ RunNext
    /\ UNCHANGED <<lexVars, at, blocks, program, parsing>>

Next == Lex \/ Parse \/ Run

Spec == Init /\ [][Next]_vars
=============================================================================
