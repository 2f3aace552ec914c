----------------------------- MODULE ExprValue ------------------------------
(***************************************************************************)
(* The value of an expression of whole numbers, as BinaryOpExpression      *)
(* (Interpreter/Expr.h) evaluates the tree of the parser.  NoValue stands  *)
(* for any other outcome: another type, an exception, a division by zero.  *)
(***************************************************************************)
EXTENDS ExprParser

CONSTANT IntSize   \* how many values m_intValue has (2^64 in the code)

NoValue == IntSize

RECURSIVE Decimal(_)
Decimal(digits) ==
    IF digits = "" THEN 0
    ELSE LET n == Len(digits)
             value == CHOOSE d \in 0 .. 9 : ToString(d) = SubSeq(digits, n, n)
         IN  10 * Decimal(SubSeq(digits, 1, n - 1)) + value

\* One of the operators on the values of two operands, modulo IntSize.
Apply(type, value1, value2) ==
    CASE NoValue \in {value1, value2} -> NoValue
      [] type = "Plus" -> (value1 + value2) % IntSize
      [] type = "Minus" -> (value1 - value2) % IntSize
      [] type = "Star" -> (value1 * value2) % IntSize
      [] type = "Slash" /\ value2 # 0 -> value1 \div value2
      [] OTHER -> NoValue

\* IntLiteral::execute and BinaryOpExpression::execute: value1 is that of
\* m_expr, the operand on the right.
RECURSIVE Evaluate(_)
Evaluate(tree) ==
    CASE tree.kind = "leaf" /\ tokens[tree.tok].type = "Int" ->
             Decimal(Lexeme(tokens[tree.tok])) % IntSize
      [] tree.kind = "binary" ->
             Apply(tokens[tree.tok].type, Evaluate(tree.args[2]), Evaluate(tree.args[1]))
      [] OTHER -> NoValue
=============================================================================
