------------------------ MODULE ConstantExpressions ------------------------
(***************************************************************************)
(* The evaluator of constant expressions in model.py: what a parsed        *)
(* expression is worth, which of its operands are skipped, and when it is  *)
(* rejected.  Precedence and nesting are the parser's; an expression is a  *)
(* tree here.  The kinds are those of integers and booleans; floats and    *)
(* strings, whose arithmetic is the library's, are left out.               *)
(***************************************************************************)
EXTENDS Absent, Integers, Sequences
LOCAL INSTANCE Bitwise

CONSTANTS
    NarrowBits, WideBits,   \* for 32 and 64
    ConstantTrees           \* the expressions to evaluate
ASSUME WidthAssumption == {NarrowBits, WideBits} \subseteq Nat \ {0} /\ NarrowBits < WideBits

VARIABLES
    expression,   \* the parsed text of a constant
    worth         \* its value, once evaluated

exprVars == <<expression, worth>>

IntegerKinds == {"i32", "u32", "i64", "u64"}
Value(kind, number) == [kind |-> kind, number |-> number]
Rejected == Value("rejected", 0)
Leaf(value) == [op |-> "value", value |-> value]
Unary(op, x) == [op |-> op, args |-> <<x>>]
Binary(op, x, y) == [op |-> op, args |-> <<x, y>>]

---------------------------------------------------------------------------
(* Kinds and conversions *)

Bits(kind) == IF kind \in {"i32", "u32"} THEN NarrowBits ELSE WideBits
Signed(kind) == kind \in {"i32", "i64"}
Lower(kind) == IF Signed(kind) THEN -(2 ^ (Bits(kind) - 1)) ELSE 0
Upper(kind) == IF Signed(kind) THEN 2 ^ (Bits(kind) - 1) - 1 ELSE 2 ^ Bits(kind) - 1
InRange(kind, n) == Lower(kind) <= n /\ n <= Upper(kind)
Mask(kind, n) == n % 2 ^ Bits(kind)
(* _integer_from_bits                                                       *)
FromBits(kind, n) ==
    LET bits == Mask(kind, n) IN
    IF Signed(kind) /\ bits >= 2 ^ (Bits(kind) - 1) THEN bits - 2 ^ Bits(kind) ELSE bits
(* _normalize_numeric_result, and _convert_numeric_value of a valid operand *)
Normalize(kind, n) ==
    IF ~Signed(kind) THEN Value(kind, Mask(kind, n))
    ELSE IF InRange(kind, n) THEN Value(kind, n) ELSE Rejected

(* _typed_numeric_kind                                                      *)
KindOf(v) == IF v.kind = "bool" THEN "i32" ELSE v.kind
Boolean(b) == Value("bool", IF b THEN 1 ELSE 0)
Truth(v) == v.number # 0
TypeOnly(v) == Value(v.kind, 0)
(* Faulty: the wider kind wins, and the left one of two that are as wide.   *)
CommonKindLeft(k, l) == IF Bits(l) > Bits(k) THEN l ELSE k
(* _common_integer_kind                                                     *)
CommonKind(k, l) ==
    LET unsigned == IF Signed(k) THEN l ELSE k
        signed == IF Signed(k) THEN k ELSE l
    IN IF Signed(k) = Signed(l) THEN IF Bits(k) >= Bits(l) THEN k ELSE l
       ELSE IF Bits(unsigned) >= Bits(signed) THEN unsigned ELSE signed

---------------------------------------------------------------------------
(* Operators on evaluated operands *)

Truncated(n, m) ==
    LET Magnitude(k) == IF k < 0 THEN -k ELSE k
        quotient == Magnitude(n) \div Magnitude(m)
    IN IF (n < 0) # (m < 0) THEN -quotient ELSE quotient
(* Divisions are not evaluated in a skipped operand.                        *)
Divide(op, kind, n, m, live) ==
    IF ~live THEN Value(kind, 0)
    ELSE IF m = 0 \/ (Signed(kind) /\ n = Lower(kind) /\ m = -1) THEN Rejected
    ELSE Normalize(kind, IF op = "/" THEN Truncated(n, m) ELSE n - Truncated(n, m) * m)
Bitwise(op, kind, n, m) ==
    LET a == Mask(kind, n)
        b == Mask(kind, m)
    IN Value(kind,
             FromBits(kind, CASE op = "&" -> a & b [] op = "|" -> a | b [] op = "^" -> a ^^ b))
(* The count keeps its own kind, and the result has the kind of the left.   *)
Shift(op, x, y) ==
    LET kind == KindOf(x) IN
    IF y.number < 0 \/ y.number >= Bits(kind) THEN Rejected
    ELSE IF op = "<<" THEN Value(kind, FromBits(kind, Mask(kind, x.number) * 2 ^ y.number))
    ELSE Value(kind, x.number \div 2 ^ y.number)
Compare(op, n, m) ==
    CASE op = "==" -> n = m [] op = "!=" -> n # m [] op = "<" -> n < m
      [] op = "<=" -> n <= m [] op = ">" -> n > m [] op = ">=" -> n >= m

(* A cast wraps and does not check.                                         *)
Casts == IntegerKinds \cup {"bool"}
Functions == Casts \cup {"abs", "min", "max"}
Cast(kind, x) ==
    IF kind = "bool" THEN Boolean(Truth(x)) ELSE Value(kind, FromBits(kind, x.number))
Complement(x) ==
    LET kind == KindOf(x) IN
    Value(kind, FromBits(kind, (2 ^ Bits(kind) - 1) - Mask(kind, x.number)))
Absolute(x) ==
    IF x.number < 0 THEN Normalize(KindOf(x), -x.number) ELSE Value(KindOf(x), x.number)
Extreme(op, kind, n, m) ==
    Value(kind, IF (op = "min" /\ m < n) \/ (op = "max" /\ m > n) THEN m ELSE n)

Comparisons == {"==", "!=", "<", "<=", ">", ">="}
Apply2(op, x, y, live) ==
    LET kind == CommonKind(KindOf(x), KindOf(y))
        left == Normalize(kind, x.number)
        right == Normalize(kind, y.number)
        n == left.number
        m == right.number
    IN CASE op \in {"<<", ">>"} -> Shift(op, x, y)
         [] Rejected \in {left, right} -> Rejected
         [] op \in {"&", "|", "^"} -> Bitwise(op, kind, n, m)
         [] op \in {"/", "%"} -> Divide(op, kind, n, m, live)
         [] op \in Comparisons -> Boolean(Compare(op, n, m))
         [] op = "+" -> Normalize(kind, n + m)
         [] op = "-" -> Normalize(kind, n - m)
         [] op = "*" -> Normalize(kind, n * m)
         [] op \in {"min", "max"} -> Extreme(op, kind, n, m)
Apply1(op, x) ==
    LET kind == KindOf(x) IN
    CASE op = "!" -> Boolean(~Truth(x))
      [] op = "~" -> Complement(x)
      [] op = "+" -> Normalize(kind, x.number)
      [] op = "-" -> Normalize(kind, -x.number)
      [] op \in Casts -> Cast(op, x)
      [] op = "abs" -> Absolute(x)
(* _evaluate_function_type: of a function that is skipped, only the kind.   *)
SkippedFunction(op, kinds) ==
    Value(CASE op \in Casts -> op
            [] op = "abs" -> kinds[1]
            [] op \in {"min", "max"} -> CommonKind(kinds[1], kinds[2]), 0)

(* The parser evaluates as it goes.  A skipped operand is evaluated too,    *)
(* with nothing in its leaves but their kinds.                              *)
RECURSIVE Evaluate(_, _)
Evaluate(e, live) ==
    IF e.op = "value" THEN IF live THEN e.value ELSE TypeOnly(e.value)
    ELSE LET x == Evaluate(e.args[1], live)
             decided == e.op \in {"&&", "||"} /\ Truth(x) = (e.op = "||")
             y == Evaluate(e.args[2], live /\ ~decided)
         IN IF x = Rejected \/ (Len(e.args) = 2 /\ y = Rejected) THEN Rejected
            ELSE IF e.op \in Functions /\ ~live
            THEN SkippedFunction(e.op, [i \in DOMAIN e.args |-> KindOf(IF i = 1 THEN x ELSE y)])
            ELSE IF Len(e.args) = 1 THEN Apply1(e.op, x)
            ELSE IF e.op = "&&" THEN Boolean(live /\ Truth(x) /\ Truth(y))
            ELSE IF e.op = "||" THEN Boolean(live /\ (Truth(x) \/ Truth(y)))
            ELSE Apply2(e.op, x, y, live)

EvaluateConstant ==
    /\ worth = None /\ worth' = Evaluate(expression, TRUE)
    /\ UNCHANGED expression
ExprInit(trees) == expression \in trees /\ worth = None
ExprNext == EvaluateConstant
============================================================================
