-------------------------- MODULE ArithmeticMeaning --------------------------
(***************************************************************************)
(* What an arithmetic expression of the shell means, by where it is cut:   *)
(* at its outermost operator that binds least, an assignment and ?: from   *)
(* the left, the others from the right.  An operator gives the integer of  *)
(* its arithmetic, brought into the width; & | ^ ~ are about bits.  (The   *)
(* tokens and the numbers in them are those of HshArithmetic.)             *)
(***************************************************************************)
EXTENDS HshArithmetic

Integer == Lowest..Highest
InWidth(n) == CHOOSE v \in Integer : (v - n) % 2 ^ Width = 0

\* The division that leaves a remainder of the sign of a.
Quotient(a, b) ==
    CHOOSE q \in -(2 ^ Width)..2 ^ Width :
        LET rest == a - b * q IN Magnitude(rest) < Magnitude(b) /\ rest * a >= 0

BitOf(n, i) == (n \div 2 ^ i) % 2 = 1
WithBits(Has(_)) == CHOOSE v \in Integer : \A i \in 0..(Width - 1) : BitOf(v, i) = Has(i)

Count(b) == CHOOSE k \in 0..(Width - 1) : (k - b) % Width = 0

Holds(op, a, b) ==
    CASE op = "==" -> ~(a < b \/ b < a)
      [] op = "!=" -> a < b \/ b < a
      [] op = "<"  -> b - a > 0
      [] op = "<=" -> ~(b < a)
      [] op = ">"  -> b < a
      [] op = ">=" -> ~(a < b)
      [] op = "&&" -> ~(a = 0 \/ b = 0)
      [] op = "||" -> ~(a = 0 /\ b = 0)

\* What a op b is.
Gives(op, a, b) ==
    CASE op = "+"  -> InWidth(a + b)
      [] op = "-"  -> InWidth(a - b)
      [] op = "*"  -> InWidth(a * b)
      [] op = "/"  -> InWidth(Quotient(a, b))
      [] op = "%"  -> a - b * Quotient(a, b)
      [] op = "<<" -> InWidth(a * 2 ^ Count(b))
      [] op = ">>" -> CHOOSE n \in Integer : n * 2 ^ Count(b) <= a /\ a < (n + 1) * 2 ^ Count(b)
      [] op = "&"  -> WithBits(LAMBDA i : BitOf(a, i) /\ BitOf(b, i))
      [] op = "|"  -> WithBits(LAMBDA i : BitOf(a, i) \/ BitOf(b, i))
      [] op = "^"  -> WithBits(LAMBDA i : BitOf(a, i) # BitOf(b, i))
      [] OTHER     -> IF Holds(op, a, b) THEN 1 ELSE 0

\* What op a is.
UnaryGives(op, a) ==
    CASE op = "+" -> a
      [] op = "-" -> InWidth(0 - a)
      [] op = "~" -> WithBits(LAMBDA i : ~BitOf(a, i))
      [] op = "!" -> IF a = 0 THEN 1 ELSE 0

Nothing == [ok |-> FALSE, value |-> 0, vars |-> <<>>]
Means(value, vars) == [ok |-> TRUE, value |-> value, vars |-> vars]

Depth(t, k) == Cardinality({j \in 1..(k - 1) : t[j].kind = "("}) - Cardinality({j \in 1..k : t[j].kind = ")"})
EndsOperand(lexeme) == lexeme.kind \in {"number", "name", ")"}
Outer(t, ops) == {k \in DOMAIN t : t[k].kind \in ops /\ Depth(t, k) = 0}
Binary(t, level) == {k \in Outer(t, Levels[level]) : k > 1 /\ EndsOperand(t[k - 1])}

\* The : of the first ?.
ColonOf(t, question) ==
    {k \in Outer(t, {":"}) :
        /\ k > question
        /\ LET Between(op) == Cardinality({j \in Outer(t, {op}) : question <= j /\ j < k})
           IN  Between("?") = Between(":") + 1}
\* The lowest.
First(S) == CHOOSE k \in S : \A j \in S : k <= j

\* +x may be assigned as x is.
Target(t) == CHOOSE k \in DOMAIN t : t[k].kind = "name"
IsAssign(t) ==
    \E k \in 1..(Len(t) - 1) : /\ t[k].kind = "name" /\ t[k + 1].kind \in AssignOps
                               /\ \A j \in 1..(k - 1) : t[j].kind = "+"

RECURSIVE Worth(_, _, _)

AssignMeaning(t, vars, on) ==
    LET name == t[Target(t)].name
        op == t[Target(t) + 1].kind
        right == Worth(SubSeq(t, Target(t) + 2, Len(t)), vars, on)
        old == IF op = "=" THEN Value(0, 0, <<>>, <<>>) ELSE Lookup(0, name, right.vars, on)
        value == IF op = "=" THEN right.value ELSE Gives(Base(op), old.value, right.value)
    IN  CASE ~right.ok -> Nothing
          [] right.ok /\ ~on -> Means(0, right.vars)
          [] OTHER -> IF name \in ReadOnly \/ old.err # NoError \/ (op \in {"/=", "%="} /\ right.value = 0)
                      THEN Nothing ELSE Means(value, name :> Decimal(value) @@ right.vars)

ConditionalMeaning(t, vars, on) ==
    LET question == First(Outer(t, {"?"}))
        condition == Worth(SubSeq(t, 1, question - 1), vars, on)
        colon == First(ColonOf(t, question))
        yes == Worth(SubSeq(t, question + 1, colon - 1), condition.vars, on /\ condition.value # 0)
        no == Worth(SubSeq(t, colon + 1, Len(t)), yes.vars, on /\ condition.value = 0)
    IN  IF ~condition.ok \/ ColonOf(t, question) = {} \/ ~yes.ok \/ ~no.ok THEN Nothing
        ELSE Means(IF on THEN IF condition.value # 0 THEN yes.value ELSE no.value ELSE 0, no.vars)

BinaryMeaning(t, k, vars, on) ==
    LET left == Worth(SubSeq(t, 1, k - 1), vars, on)
        op == t[k].kind
        taken == on /\ (op = "&&" => left.value # 0) /\ (op = "||" => left.value = 0)
        right == Worth(SubSeq(t, k + 1, Len(t)), left.vars, taken)
    IN  IF ~left.ok \/ ~right.ok \/ (on /\ op \in {"/", "%"} /\ right.value = 0) THEN Nothing
        ELSE Means(IF on THEN Gives(op, left.value, right.value) ELSE 0, right.vars)

UnaryMeaning(t, vars, on) ==
    LET operand == Worth(Tail(t), vars, on)
    IN  IF operand.ok THEN Means(IF on THEN UnaryGives(t[1].kind, operand.value) ELSE 0, operand.vars) ELSE Nothing

PrimaryMeaning(t, vars, on) ==
    CASE Len(t) = 1 /\ t[1].kind = "number" -> Means(t[1].number, vars)
      [] Len(t) = 1 /\ t[1].kind = "name" ->
             LET read == Lookup(0, t[1].name, vars, on)
             IN  IF read.err = NoError THEN Means(read.value, vars) ELSE Nothing
      [] Len(t) > 2 /\ t[1].kind = "(" /\ Last(t).kind = ")" -> Worth(SubSeq(t, 2, Len(t) - 1), vars, on)
      [] OTHER -> Nothing

\* What binds less than an operator is not its operand, but in parentheses.
Worth(t, vars, on) ==
    LET levels == {level \in DOMAIN Levels : Binary(t, level) # {}}
    IN  CASE t = <<>> -> Nothing
          [] t # <<>> /\ IsAssign(t) -> AssignMeaning(t, vars, on)
          [] t # <<>> /\ ~IsAssign(t) /\ Outer(t, {"?"}) # {} -> ConditionalMeaning(t, vars, on)
          [] OTHER ->
             CASE Outer(t, AssignOps \union {":"}) # {} -> Nothing
               [] Outer(t, AssignOps \union {":"}) = {} /\ levels # {} ->
                      LET cuts == Binary(t, First(levels))
                      IN  BinaryMeaning(t, CHOOSE k \in cuts : \A j \in cuts : j <= k, vars, on)
               [] OTHER -> IF t[1].kind \in {"+", "-", "~", "!"} THEN UnaryMeaning(t, vars, on)
                           ELSE PrimaryMeaning(t, vars, on)

\* An expression is worth, sets and fails with what it means.
ArithmeticAsMeant(text, vars) ==
    LET t == Tokenize(text, 1)
        done == EvaluateTokens(t, vars)
        meant == Worth(Front(t), vars, TRUE)
    IN  /\ (done.err = NoError) = meant.ok
        /\ meant.ok => done.value = meant.value /\ done.vars = meant.vars
=============================================================================
