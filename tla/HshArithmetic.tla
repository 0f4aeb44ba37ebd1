---------------------------- MODULE HshArithmetic ----------------------------
(***************************************************************************)
(* $((...)) of hsh (HshArithmetic.cpp), after its own expansions: the text *)
(* to tokens, and the tokens to a value by recursive descent, with a flag  *)
(* that a branch not taken is parsed but neither looked up, assigned nor   *)
(* divided.  Values are integers of Width bits that wrap; numbers are      *)
(* decimal or, behind a 0, octal (hexadecimal is left out).                *)
(***************************************************************************)
EXTENDS HshParser, Bitwise, Integers

CONSTANTS
    Width,          \* the bits of intmax_t
    ReadOnly        \* the names that cannot be assigned

Lowest == -(2 ^ (Width - 1))
Highest == 2 ^ (Width - 1) - 1
Wrapped(n) == ((n - Lowest) % 2 ^ Width) + Lowest
Unsigned(n) == n % 2 ^ Width

Magnitude(n) == IF n < 0 THEN -n ELSE n
Truncated(a, b) ==
    IF (a < 0) = (b < 0) THEN Magnitude(a) \div Magnitude(b) ELSE -(Magnitude(a) \div Magnitude(b))

\* What the ends of the range do: the lowest by -1 is left alone.
Div(a, b) == IF a = Lowest /\ b = -1 THEN Lowest ELSE Truncated(a, b)
Mod(a, b) == IF a = Lowest /\ b = -1 THEN 0 ELSE a - b * Truncated(a, b)

\* Faulty variant: to the right zeros come in.
ShiftRightUnsigned(a, b) == Unsigned(a) \div 2 ^ (Unsigned(b) % Width)

\* Counts are taken modulo the width; to the right the sign is kept.
ShiftLeft(a, b) == Wrapped(Unsigned(a) * 2 ^ (Unsigned(b) % Width))
ShiftRight(a, b) == a \div 2 ^ (Unsigned(b) % Width)

Truth(b) == IF b THEN 1 ELSE 0

Apply(op, a, b) ==
    CASE op = "+"  -> Wrapped(a + b)
      [] op = "-"  -> Wrapped(a - b)
      [] op = "*"  -> Wrapped(a * b)
      [] op = "/"  -> Div(a, b)
      [] op = "%"  -> Mod(a, b)
      [] op = "<<" -> ShiftLeft(a, b)
      [] op = ">>" -> ShiftRight(a, b)
      [] op = "&"  -> Wrapped(Unsigned(a) & Unsigned(b))
      [] op = "|"  -> Wrapped(Unsigned(a) | Unsigned(b))
      [] op = "^"  -> Wrapped(Unsigned(a) ^^ Unsigned(b))
      [] op = "==" -> Truth(a = b)
      [] op = "!=" -> Truth(a # b)
      [] op = "<"  -> Truth(a < b)
      [] op = "<=" -> Truth(a <= b)
      [] op = ">"  -> Truth(a > b)
      [] op = ">=" -> Truth(a >= b)
      [] op = "&&" -> Truth(a # 0 /\ b # 0)
      [] op = "||" -> Truth(a # 0 \/ b # 0)

Unary(op, a) ==
    CASE op = "+" -> a
      [] op = "-" -> Wrapped(-a)
      [] op = "~" -> -a - 1
      [] op = "!" -> Truth(a = 0)

-----------------------------------------------------------------------------
(* Tokens.                                                                 *)

Levels == <<{"||"}, {"&&"}, {"|"}, {"^"}, {"&"}, {"==", "!="}, {"<", "<=", ">", ">="},
            {"<<", ">>"}, {"+", "-"}, {"*", "/", "%"}>>
AssignOps == {"=", "+=", "-=", "*=", "/=", "%=", "<<=", ">>=", "&=", "^=", "|="}
ArithmeticOperators == UNION Range(Levels) \union AssignOps \union {"!", "~", "?", ":", "(", ")"}

\* The operator an assignment applies, as in x += 1.
Base(op) == CHOOSE o \in UNION Range(Levels) : o \o "=" = op

Lexeme(kind, number, name) == [kind |-> kind, number |-> number, name |-> name]

\* A run of characters of a set, read raw.
RECURSIVE Run(_, _, _)
Run(s, p, set) == IF At(s, p) \in set THEN <<s[p]>> \o Run(s, p + 1, set) ELSE <<>>

DigitValue(c) == CHOOSE n \in 0..9 : ToString(n) = c
OctalDigits == {c \in Digits : DigitValue(c) < 8}

\* strtoimax with base 0: a leading 0 is octal, and both ends of the range are
\* where it stops.
NumberText(s, p) == Run(s, p, IF At(s, p) = "0" THEN OctalDigits ELSE Digits)
NumberValue(digits, sign) ==
    LET base == IF digits[1] = "0" THEN 8 ELSE 10
        value == FoldLeft(LAMBDA n, c : n * base + DigitValue(c), 0, digits)
    IN  CASE sign = "-" /\ -value < Lowest -> Lowest
          [] sign = "-" /\ -value >= Lowest -> -value
          [] sign # "-" -> IF value > Highest THEN Highest ELSE value

\* The longest operator at p; "" when there is none.
OperatorAt(s, p) ==
    LET found == ArithmeticOperators
                     \intersect {OperatorText(SubSeq(s, p, q)) : q \in p..(IF p + 2 < Len(s) THEN p + 2 ELSE Len(s))}
    IN  IF found = {} THEN "" ELSE CHOOSE op \in found : \A o \in found : Len(o) <= Len(op)

RECURSIVE Tokenize(_, _)
Tokenize(s, p) ==
    LET c == At(s, p)
        name == Run(s, p, Letters \union Digits)
    IN  CASE c = Eof -> <<Lexeme("end", 0, <<>>)>>
          [] c \in Blanks \union {Newline} -> Tokenize(s, p + 1)
          [] c \in Digits -> <<Lexeme("number", NumberValue(NumberText(s, p), "+"), <<>>)>>
                             \o Tokenize(s, p + Len(NumberText(s, p)))
          [] c \in Letters -> <<Lexeme("name", 0, name)>> \o Tokenize(s, p + Len(name))
          [] OTHER -> IF OperatorAt(s, p) = "" THEN <<Lexeme("invalid", 0, <<>>)>> \o Tokenize(s, p + 1)
                      ELSE <<Lexeme(OperatorAt(s, p), 0, <<>>)>> \o Tokenize(s, p + Len(OperatorAt(s, p)))

-----------------------------------------------------------------------------
(* Evaluation.  |name| is the variable the value was read from, which an   *)
(* assignment may follow; vars maps the names that are set to their texts. *)

Value(at, value, name, vars) == [at |-> at, value |-> value, name |-> name, vars |-> vars, err |-> NoError]
ArithmeticError == [at |-> 0, value |-> 0, name |-> <<>>, vars |-> <<>>, err |-> "error"]

Decimal(n) ==
    (IF n < 0 THEN <<"-">> ELSE <<>>)
    \o (IF Magnitude(n) > 9 THEN <<ToString(Magnitude(n) \div 10)>> ELSE <<>>) \o <<ToString(Magnitude(n) % 10)>>

\* The number a variable holds: blanks around it and a sign are allowed.
IsNumber(text) ==
    LET from == Len(Run(text, 1, Blanks)) + 1
        digits == IF At(text, from) \in {"+", "-"} THEN from + 1 ELSE from
    IN  /\ At(text, digits) \in Digits
        /\ LET end == digits + Len(NumberText(text, digits)) IN end + Len(Run(text, end, Blanks)) > Len(text)
TextValue(text) ==
    LET from == Len(Run(text, 1, Blanks)) + 1
        digits == IF At(text, from) \in {"+", "-"} THEN from + 1 ELSE from
    IN  NumberValue(NumberText(text, digits), At(text, from))

Lookup(at, name, vars, on) ==
    CASE ~on \/ name \notin DOMAIN vars -> Value(at, 0, name, vars)
      [] on /\ name \in DOMAIN vars /\ vars[name] = <<>> -> Value(at, 0, name, vars)
      [] OTHER -> IF IsNumber(vars[name]) THEN Value(at, TextValue(vars[name]), name, vars) ELSE ArithmeticError

RECURSIVE ParseAssign(_, _, _, _)
RECURSIVE ParseUnary(_, _, _, _)

ParsePrimary(t, i, vars, on) ==
    CASE t[i].kind = "number" -> Value(i + 1, t[i].number, <<>>, vars)
      [] t[i].kind = "name" -> IF t[i + 1].kind \in AssignOps THEN Value(i + 1, 0, t[i].name, vars)
                               ELSE Lookup(i + 1, t[i].name, vars, on)
      [] t[i].kind = "(" -> Then(ParseAssign(t, i + 1, vars, on), LAMBDA v :
                                IF t[v.at].kind = ")" THEN Value(v.at + 1, v.value, <<>>, v.vars)
                                ELSE ArithmeticError)
      [] OTHER -> ArithmeticError

ParseUnary(t, i, vars, on) ==
    CASE t[i].kind = "+" -> ParseUnary(t, i + 1, vars, on)
      [] t[i].kind \in {"-", "~", "!"} ->
             Then(ParseUnary(t, i + 1, vars, on), LAMBDA v :
                 Value(v.at, IF on THEN Unary(t[i].kind, v.value) ELSE 0, <<>>, v.vars))
      [] OTHER -> ParsePrimary(t, i, vars, on)

\* Faulty variant: the right side counts whatever the left is.
TakesRightAlways(op, left, on) == on

\* What the right side of && and || needs to be evaluated at all.
TakesRight(op, left, on) ==
    CASE op = "&&" -> on /\ left # 0
      [] op = "||" -> on /\ left = 0
      [] OTHER     -> on

RECURSIVE ParseLevel(_, _, _, _, _)

\* The operators of a level, left to right, after the left side v.
RECURSIVE ParseOperators(_, _, _, _)
ParseOperators(t, level, v, on) ==
    LET op == t[v.at].kind
        taken == TakesRight(op, v.value, on)
    IN  IF v.err # NoError \/ op \notin Levels[level] THEN v
        ELSE Then(ParseLevel(t, level + 1, v.at + 1, v.vars, taken), LAMBDA right :
                 IF on /\ op \in {"/", "%"} /\ right.value = 0 THEN ArithmeticError
                 ELSE ParseOperators(t, level,
                          Value(right.at, IF on THEN Apply(op, v.value, right.value) ELSE 0, <<>>, right.vars), on))

ParseLevel(t, level, i, vars, on) ==
    IF level > Len(Levels) THEN ParseUnary(t, i, vars, on)
    ELSE Then(ParseLevel(t, level + 1, i, vars, on), LAMBDA left : ParseOperators(t, level, left, on))

ParseConditional(t, i, vars, on) ==
    Then(ParseLevel(t, 1, i, vars, on), LAMBDA condition :
        IF t[condition.at].kind # "?" THEN condition
        ELSE Then(ParseAssign(t, condition.at + 1, condition.vars, on /\ condition.value # 0), LAMBDA yes :
             IF t[yes.at].kind # ":" THEN ArithmeticError
             ELSE Then(ParseAssign(t, yes.at + 1, yes.vars, on /\ condition.value = 0), LAMBDA no :
                 Value(no.at, IF ~on THEN 0 ELSE IF condition.value # 0 THEN yes.value ELSE no.value,
                       <<>>, no.vars))))

\* A compound operator reads the variable after the right side.
ParseAssign(t, i, vars, on) ==
    Then(ParseConditional(t, i, vars, on), LAMBDA left :
        LET op == t[left.at].kind
        IN  IF op \notin AssignOps \/ left.name = <<>> THEN left
            ELSE Then(ParseAssign(t, left.at + 1, left.vars, on), LAMBDA right :
                 IF ~on THEN Value(right.at, 0, <<>>, right.vars)
                 ELSE Then(IF op = "=" THEN Value(0, 0, <<>>, right.vars)
                           ELSE Lookup(0, left.name, right.vars, on), LAMBDA old :
                      IF left.name \in ReadOnly \/ (op \in {"/=", "%="} /\ right.value = 0) THEN ArithmeticError
                      ELSE LET result == IF op = "=" THEN right.value
                                         ELSE Apply(Base(op), old.value, right.value)
                           IN  Value(right.at, result, <<>>, left.name :> Decimal(result) @@ right.vars))))

EvaluateTokens(t, vars) ==
    Then(ParseAssign(t, 1, vars, TRUE), LAMBDA v : IF t[v.at].kind = "end" THEN v ELSE ArithmeticError)

EvaluateArithmetic(text, vars) == EvaluateTokens(Tokenize(text, 1), vars)
=============================================================================
