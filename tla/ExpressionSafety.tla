-------------------------- MODULE ExpressionSafety --------------------------
(* What an expression means in C++, defined without the evaluator's rules,  *)
(* and what the evaluator promises of it.                                   *)
EXTENDS ConstantExpressions

(* C++ converts two integers to the later of their kinds in this order.     *)
Rank == [i32 |-> 1, u32 |-> 2, i64 |-> 3, u64 |-> 4]
Usual(k, l) == IF Rank[k] < Rank[l] THEN l ELSE k
(* The value of a kind that a number is congruent to.                       *)
Wrapped(kind, n) ==
    Value(kind, CHOOSE m \in Lower(kind) .. Upper(kind) : (n - m) % 2 ^ Bits(kind) = 0)
(* What exceeds a signed kind has no meaning.                               *)
Exact(kind, n) ==
    IF Signed(kind) /\ ~InRange(kind, n) THEN Rejected ELSE Wrapped(kind, n)
(* The quotient towards zero: the remainder is smaller than the divisor and *)
(* has the sign of the dividend.                                            *)
Quotient(n, m) ==
    CHOOSE q \in -(2 ^ WideBits) .. 2 ^ WideBits :
        LET r == n - q * m IN r * r < m * m /\ (r = 0 \/ (r < 0) = (n < 0))
Ones(kind, n) == {i \in 0 .. Bits(kind) - 1 : (n \div 2 ^ i) % 2 = 1}
FromOnes(kind, S) ==
    CHOOSE v \in {Value(kind, m) : m \in Lower(kind) .. Upper(kind)} : Ones(kind, v.number) = S

MeaningOf1(op, x) ==
    LET kind == KindOf(x) IN
    CASE op = "!" -> Boolean(x.number = 0)
      [] op = "~" -> FromOnes(kind, (0 .. Bits(kind) - 1) \ Ones(kind, x.number))
      [] op = "+" -> Value(kind, x.number)
      [] op = "-" -> Exact(kind, 0 - x.number)
      [] op = "bool" -> Boolean(x.number # 0)
      [] op \in IntegerKinds -> Wrapped(op, x.number)
      [] op = "abs" -> Exact(kind, IF x.number < 0 THEN 0 - x.number ELSE x.number)
MeaningOf2(op, x, y) ==
    LET kind == Usual(KindOf(x), KindOf(y))
        n == Wrapped(kind, x.number).number
        m == Wrapped(kind, y.number).number
        own == KindOf(x)
    IN CASE op \in {"<<", ">>"} /\ y.number \notin 0 .. Bits(own) - 1 -> Rejected
         [] op = "<<" /\ y.number \in 0 .. Bits(own) - 1 -> Wrapped(own, x.number * 2 ^ y.number)
         [] op = ">>" /\ y.number \in 0 .. Bits(own) - 1 ->
              Value(own, CHOOSE q \in Lower(own) .. Upper(own) :
                             x.number - q * 2 ^ y.number \in 0 .. 2 ^ y.number - 1)
         [] op \in {"/", "%"} /\ m = 0 -> Rejected
         [] op = "/" /\ m # 0 -> Exact(kind, Quotient(n, m))
         [] op = "%" /\ m # 0 -> IF Exact(kind, Quotient(n, m)) = Rejected THEN Rejected
                                 ELSE Value(kind, n - Quotient(n, m) * m)
         [] op = "&" -> FromOnes(kind, Ones(kind, n) \cap Ones(kind, m))
         [] op = "|" -> FromOnes(kind, Ones(kind, n) \cup Ones(kind, m))
         [] op = "^" -> FromOnes(kind, (Ones(kind, n) \cup Ones(kind, m))
                                         \ (Ones(kind, n) \cap Ones(kind, m)))
         [] op \in Comparisons -> Boolean(Compare(op, n, m))
         [] op = "+" -> Exact(kind, n + m)
         [] op = "-" -> Exact(kind, n - m)
         [] op = "*" -> Exact(kind, n * m)
         [] op = "min" -> Value(kind, IF n <= m THEN n ELSE m)
         [] op = "max" -> Value(kind, IF n <= m THEN m ELSE n)

(* A logical operator looks at its right operand only if the left one does  *)
(* not decide.                                                              *)
RECURSIVE Meaning(_)
Meaning(e) ==
    IF e.op = "value" THEN e.value
    ELSE LET x == Meaning(e.args[1]) IN
         IF x = Rejected THEN Rejected
         ELSE IF Len(e.args) = 1 THEN MeaningOf1(e.op, x)
         ELSE IF e.op = "&&" /\ x.number = 0 THEN Boolean(FALSE)
         ELSE IF e.op = "||" /\ x.number # 0 THEN Boolean(TRUE)
         ELSE LET y == Meaning(e.args[2]) IN
              IF y = Rejected THEN Rejected
              ELSE IF e.op \in {"&&", "||"} THEN Boolean(y.number # 0)
              ELSE MeaningOf2(e.op, x, y)

RECURSIVE Subexpressions(_)
Subexpressions(e) ==
    {e} \cup IF e.op = "value" THEN {} ELSE UNION {Subexpressions(e.args[i]) : i \in DOMAIN e.args}
(* Operators that make something else than nothing of nothing.              *)
Waking == {"!", "~", "==", "<=", ">="}
MayWake(e) ==
    \E l \in Subexpressions(e) :
        /\ l.op \in {"&&", "||"}
        /\ \E s \in Subexpressions(l.args[2]) : s.op \in Waking

(* The value of a constant is the one its expression has in C++, kind and   *)
(* all, and only what has none is rejected; but an operand that is skipped  *)
(* may still be the reason of a rejection if it complements or compares.    *)
ValueIsCpp ==
    worth # None =>
        worth = Meaning(expression) \/ (worth = Rejected /\ MayWake(expression))

(* An expression with a value is not rejected for an operand it skips.      *)
SkippedIsHarmless == worth = Rejected => Meaning(expression) = Rejected
============================================================================
