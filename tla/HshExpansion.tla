---------------------------- MODULE HshExpansion -----------------------------
(***************************************************************************)
(* The expansion of words in hsh (HshExpansion.cpp): a word's parts are    *)
(* walked into fields of elements, a character each or the mark of a       *)
(* quoted string, which are split, made patterns and given back as texts.  *)
(* sh is what the shell knows: vars (a function from names to texts, IFS   *)
(* and HOME by symbols of their own), positional, specials (the texts of   *)
(* the special parameters that are set), output and status (of a command   *)
(* substitution: HshControl runs it), nounset, noglob and tree.  What is   *)
(* exported, and the assignments of an expression that fails, are left     *)
(* out.                                                                    *)
(***************************************************************************)
EXTENDS HshArithmetic, HshPattern

\* What one engine is walking: its kind of expansion and where it is.
Context(kind) == [kind |-> kind, quotes |-> FALSE, operand |-> FALSE]
TildeAllowed(ctx) == ctx.kind # "heredoc" /\ ~ctx.quotes

Element(c, quoted, splittable) == [c |-> c, quoted |-> quoted, splittable |-> splittable]
QuoteMark == Element("", FALSE, FALSE)
Elements(text, quoted, splittable) == [k \in DOMAIN text |-> Element(text[k], quoted, splittable)]
Quoted(text) == <<QuoteMark>> \o Elements(text, TRUE, FALSE)

\* Fields, of which the last goes on in what is joined to them.
Walked(fields, sh) == [fields |-> fields, sh |-> sh, err |-> NoError]
ShellError(sh) == [fields |-> <<>>, sh |-> sh, err |-> "error"]
Glued(first, second) == Front(first) \o <<Last(first) \o Head(second)>> \o Tail(second)
One(elements) == <<elements>>

\* As a value from an expansion is.
FromValue(ctx, text) == IF ctx.quotes THEN Quoted(text) ELSE Elements(text, FALSE, TRUE)

-----------------------------------------------------------------------------
(* Finishing.                                                              *)

IFS == <<"IFS">>
HOME == <<"HOME">>
Ifs(sh) == IF IFS \in DOMAIN sh.vars THEN sh.vars[IFS] ELSE <<" ", "\t", Newline>>
IfsSeparator(sh) == IF Ifs(sh) = <<>> THEN <<>> ELSE <<Ifs(sh)[1]>>

RECURSIVE Joined2(_, _)
Joined2(texts, separator) ==
    CASE texts = <<>>   -> <<>>
      [] Len(texts) = 1 -> texts[1]
      [] OTHER          -> texts[1] \o separator \o Joined2(Tail(texts), separator)

WithoutMarks(elements) == SelectSeq(elements, LAMBDA e : e # QuoteMark)
TextOf(elements) == LET own == WithoutMarks(elements) IN [k \in DOMAIN own |-> own[k].c]

FinishString(fields, sh) == Joined2([k \in DOMAIN fields |-> TextOf(fields[k])], IfsSeparator(sh))

\* Quoted characters escaped.
PatternOf(elements) ==
    FlattenSeq([k \in DOMAIN elements |-> IF elements[k].quoted THEN EscapeForPattern(<<elements[k].c>>)
                                          ELSE <<elements[k].c>>])
FinishPattern(fields, sh) == Joined2([k \in DOMAIN fields |-> PatternOf(WithoutMarks(fields[k]))], IfsSeparator(sh))

\* The pattern a field is looked for by: every quoted character escaped but /,
\* and every backslash.
GlobPatternOf(elements) ==
    FlattenSeq([k \in DOMAIN elements |->
        IF (elements[k].quoted /\ elements[k].c # "/") \/ (~elements[k].quoted /\ elements[k].c = "\\")
        THEN <<"\\", elements[k].c>> ELSE <<elements[k].c>>])

\* Splitting by IFS.
IfsWhite(c, ifs) == c \in {" ", "\t", Newline} /\ c \in Range(ifs)
Delimits(e, ifs) == e.splittable /\ e.c \in Range(ifs)

RECURSIVE SkipWhite(_, _, _)
SkipWhite(elements, i, ifs) ==
    IF i <= Len(elements) /\ elements[i].splittable /\ IfsWhite(elements[i].c, ifs)
    THEN SkipWhite(elements, i + 1, ifs) ELSE i

\* A delimiter that is not white right after white space goes with it.
RECURSIVE SplitOn(_, _, _, _, _)
SplitOn(elements, i, ifs, current, content) ==
    LET done == IF content THEN <<current>> ELSE <<>>
        next == SkipWhite(elements, i, ifs)
        e == elements[i]
    IN  IF i > Len(elements) THEN done
        ELSE CASE e = QuoteMark -> SplitOn(elements, i + 1, ifs, current, TRUE)
               [] e # QuoteMark /\ Delimits(e, ifs) /\ IfsWhite(e.c, ifs) ->
                      done \o SplitOn(elements,
                                  IF next <= Len(elements) /\ Delimits(elements[next], ifs)
                                  THEN SkipWhite(elements, next + 1, ifs) ELSE next, ifs, <<>>, FALSE)
               [] e # QuoteMark /\ Delimits(e, ifs) /\ ~IfsWhite(e.c, ifs) ->
                      <<current>> \o SplitOn(elements, SkipWhite(elements, i + 1, ifs), ifs, <<>>, FALSE)
               [] OTHER -> SplitOn(elements, i + 1, ifs, Append(current, e), TRUE)

\* Faulty variant: the white space at the start is a delimiter.
SplitFieldLeaving(elements, sh) ==
    IF Ifs(sh) = <<>> THEN IF elements = <<>> THEN <<>> ELSE <<WithoutMarks(elements)>>
    ELSE SplitOn(elements, 1, Ifs(sh), <<>>, FALSE)

SplitField(elements, sh) ==
    IF Ifs(sh) = <<>> THEN IF elements = <<>> THEN <<>> ELSE <<WithoutMarks(elements)>>
    ELSE SplitOn(elements, SkipWhite(elements, 1, Ifs(sh)), Ifs(sh), <<>>, FALSE)

Globbed(elements, sh) ==
    LET p == GlobPatternOf(elements)
        found == IF sh.noglob \/ ~HasPatternCharacters(p) THEN <<>> ELSE ExpandPathname(p, sh.tree)
    IN  IF found = <<>> THEN <<TextOf(elements)>> ELSE found

FinishFields(fields, sh) ==
    LET split == FlattenSeq([k \in DOMAIN fields |-> SplitField(fields[k], sh)])
    IN  FlattenSeq([k \in DOMAIN split |-> Globbed(split[k], sh)])

-----------------------------------------------------------------------------
(* The walk.                                                               *)

RECURSIVE Walk(_, _, _, _)

\* A tilde's prefix is the tilde alone when what follows ends it.
TildeEnds(parts, i, ctx) ==
    IF i = Len(parts) THEN TRUE
    ELSE parts[i + 1].kind = "Literal" /\ parts[i + 1].text[1] \in (IF ctx.kind = "assignment" THEN {"/", ":"} ELSE {"/"})

\* The tilde may open at i: first, where it is let, or behind a : of an
\* assignment's value in the same run of unquoted characters.
TildeHere(parts, i, ctx, tilde) ==
    \/ i = 1 /\ tilde
    \/ i > 1 /\ ctx.kind = "assignment" /\ parts[i - 1] = Char("Literal", ":")

WalkLiteral(parts, i, ctx, tilde, sh) ==
    LET c == parts[i].text[1]
    IN  IF c = "~" /\ TildeHere(parts, i, ctx, tilde) /\ TildeEnds(parts, i, ctx) /\ HOME \in DOMAIN sh.vars
        THEN Elements(sh.vars[HOME], TRUE, FALSE)
        ELSE <<Element(c, FALSE, ctx.operand)>>

\* What a name stands for: no value, one, or those of @ and *.
IsList(name) == name \in {<<"@">>, <<"*">>}
Position(name) == FoldLeft(LAMBDA n, c : n * 10 + DigitValue(c), 0, name)
Resolved(name, sh) ==
    CASE IsList(name)                -> sh.positional
      [] name = <<"#">>              -> <<Decimal(Len(sh.positional))>>
      [] name[1] \in Digits          ->
             CASE Position(name) = 0 -> <<sh.specials[<<"0">>]>>
               [] Position(name) \in DOMAIN sh.positional -> <<sh.positional[Position(name)]>>
               [] OTHER -> <<>>
      [] name[1] \in SpecialParameters \ {"@", "*", "#", "0"} ->
             IF name \in DOMAIN sh.specials THEN <<sh.specials[name]>> ELSE <<>>
      [] OTHER -> IF name \in DOMAIN sh.vars THEN <<sh.vars[name]>> ELSE <<>>

IsSet(name, sh) == IsList(name) \/ Resolved(name, sh) # <<>>
IsNull(name, sh) == ~IsSet(name, sh) \/ Resolved(name, sh) \in {<<>>, <<<<>>>>}

\* @ keeps its parameters apart, "*" is one text.
Positional(ctx, name, values, sh) ==
    CASE ~IsList(name) -> One(FromValue(ctx, IF values = <<>> THEN <<>> ELSE values[1]))
      [] IsList(name) /\ ctx.quotes /\ name = <<"*">> -> One(Quoted(Joined2(values, IfsSeparator(sh))))
      [] OTHER -> IF values = <<>> THEN One(<<>>) ELSE [k \in DOMAIN values |-> FromValue(ctx, values[k])]

Operand(parts, ctx, sh) == Walk(parts, [ctx EXCEPT !.operand = @ \/ ~ctx.quotes], TildeAllowed(ctx), sh)

\* A pattern in ${...} is as a word out of quotes.
OperandPattern(parts, ctx, sh) ==
    LET out == [ctx EXCEPT !.quotes = FALSE] IN Walk(parts, out, TildeAllowed(out), sh)

Assigned(name, value, ctx, sh) ==
    IF ~IsValidShellName(name) \/ name \in ReadOnly THEN ShellError(sh)
    ELSE LET after == [sh EXCEPT !.vars = name :> value @@ sh.vars]
         IN  Walked(One(FromValue(ctx, value)), after)

WalkParameter(part, ctx, sh) ==
    LET name == part.text
        op == part.op
        values == Resolved(name, sh)
        ValueHere == Walked(Positional(ctx, name, values, sh), sh)
        unbound == sh.nounset /\ ~IsSet(name, sh)
        missing == IF op \in {":-", ":=", ":?", ":+"} THEN IsNull(name, sh) ELSE ~IsSet(name, sh)
    IN  CASE op = "bad" -> ShellError(sh)
          [] op = "" -> IF unbound THEN ShellError(sh) ELSE ValueHere
          [] op = "length" ->
                 IF unbound THEN ShellError(sh)
                 ELSE Walked(One(FromValue(ctx, Decimal(Len(Joined2(values, <<" ">>))))), sh)
          [] op \in {"#", "##", "%", "%%"} ->
                 IF unbound THEN ShellError(sh)
                 ELSE Then(OperandPattern(part.parts, ctx, sh), LAMBDA p :
                     LET Without(value) == RemovePattern(value, FinishPattern(p.fields, p.sh),
                                                         op \in {"#", "##"}, op \in {"#", "%"})
                     IN  Walked(Positional(ctx, name, [k \in DOMAIN values |-> Without(values[k])], p.sh), p.sh))
          [] op \in {":-", "-"} -> IF missing THEN Operand(part.parts, ctx, sh) ELSE ValueHere
          [] op \in {":=", "="} ->
                 IF ~missing THEN ValueHere
                 ELSE IF ~IsValidShellName(name) THEN ShellError(sh)
                 ELSE Then(Walk(part.parts, [ctx EXCEPT !.kind = "string"], TildeAllowed(ctx), sh), LAMBDA w :
                     Assigned(name, FinishString(w.fields, w.sh), ctx, w.sh))
          [] op \in {":?", "?"} ->
                 IF missing THEN Then(Walk(part.parts, ctx, TildeAllowed(ctx), sh), LAMBDA w : ShellError(w.sh))
                 ELSE ValueHere
          [] op \in {":+", "+"} -> IF missing THEN Walked(One(<<>>), sh) ELSE Operand(part.parts, ctx, sh)

RECURSIVE WithoutNewlines(_)
WithoutNewlines(text) == IF text # <<>> /\ Last(text) = Newline THEN WithoutNewlines(Front(text)) ELSE text

\* A lone "$@" leaves no mark.
OnlyAt(parts) == Len(parts) = 1 /\ parts[1].kind = "Parameter" /\ parts[1].text = <<"@">> /\ parts[1].op = ""

WalkPart(parts, i, ctx, tilde, sh) ==
    LET part == parts[i]
    IN  CASE part.kind = "Literal" -> Walked(One(WalkLiteral(parts, i, ctx, tilde, sh)), sh)
          [] part.kind = "Quoted" -> Walked(One(Quoted(part.text)), sh)
          [] part.kind = "DoubleQuoted" ->
                 Then(Walk(part.parts, [ctx EXCEPT !.quotes = TRUE], FALSE, sh), LAMBDA w :
                     Walked(IF OnlyAt(part.parts) THEN w.fields ELSE Glued(One(<<QuoteMark>>), w.fields), w.sh))
          [] part.kind = "Parameter" -> WalkParameter(part, ctx, sh)
          [] part.kind = "CommandSubstitution" -> 
                 Walked(One(FromValue(ctx, WithoutNewlines(sh.output))),
                        [sh EXCEPT !.specials = <<"?">> :> sh.status @@ sh.specials])
          [] part.kind = "Arithmetic" ->
                 Then(Walk(part.parts, ctx, FALSE, sh), LAMBDA w :
                     LET v == EvaluateArithmetic(FinishString(w.fields, w.sh), w.sh.vars)
                     IN  IF v.err # NoError THEN ShellError(w.sh)
                         ELSE Walked(One(FromValue(ctx, Decimal(v.value))), [w.sh EXCEPT !.vars = v.vars]))

Walk(parts, ctx, tilde, sh) ==
    FoldLeft(LAMBDA done, i : Then(done, LAMBDA d :
                 Then(WalkPart(parts, i, ctx, tilde, d.sh), LAMBDA w : Walked(Glued(d.fields, w.fields), w.sh))),
             Walked(One(<<>>), sh), [i \in DOMAIN parts |-> i])

\* What a word becomes; the fields, or one text, and the shell after it.
Expanded(kind, parts, sh) == LET ctx == Context(kind) IN Walk(parts, ctx, TildeAllowed(ctx), sh)
ExpandWord(parts, sh) ==
    Then(Expanded("fields", parts, sh), LAMBDA w : Walked(FinishFields(w.fields, w.sh), w.sh))
RECURSIVE ExpandWords(_, _)
ExpandWords(words, sh) ==
    IF words = <<>> THEN Walked(<<>>, sh)
    ELSE Then(ExpandWord(Head(words), sh), LAMBDA w :
         Then(ExpandWords(Tail(words), w.sh), LAMBDA rest : Walked(w.fields \o rest.fields, rest.sh)))
ExpandAssignmentValue(parts, sh) ==
    Then(Expanded("assignment", parts, sh), LAMBDA w : Walked(<<FinishString(w.fields, w.sh)>>, w.sh))
ExpandToString(parts, sh) ==
    Then(Expanded("string", parts, sh), LAMBDA w : Walked(<<FinishString(w.fields, w.sh)>>, w.sh))
ExpandPattern(parts, sh) ==
    Then(Expanded("pattern", parts, sh), LAMBDA w : Walked(<<FinishPattern(w.fields, w.sh)>>, w.sh))
ExpandHereDocument(parts, sh) ==
    Then(Expanded("heredoc", parts, sh), LAMBDA w : Walked(<<FinishString(w.fields, w.sh)>>, w.sh))
=============================================================================
