------------------------------ MODULE HshLexer ------------------------------
(***************************************************************************)
(* The lexer of hsh (HshLexer.cpp): the source text, a sequence of         *)
(* characters, to tokens.  A reader takes the text s and the position p it *)
(* starts at, and returns where it stopped and the parts it read, or the   *)
(* error that ends the lexing: "incomplete" when more input could mend it, *)
(* else "error".  Line numbers and the texts of messages are left out.     *)
(***************************************************************************)
EXTENDS Sequences, SequencesExt, Naturals

CONSTANT Letters    \* what a name starts with; a reserved word is one letter

Eof == "eof"
Newline == "\n"
Backquote == "bq"
Blanks == {" ", "\t"}
OperatorChars == {";", "&", "|", "(", ")", "<", ">"}
Digits == {"0", "1", "2"}
IsNameChar(c) == c \in Letters \union Digits
SpecialParameters == {"@", "*", "#", "?", "-", "$", "!", "0"}

NoError == "none"
Stopped(at, parts) == [at |-> at, parts |-> parts, err |-> NoError]
Failed(err) == [at |-> 0, parts |-> <<>>, err |-> err]

\* A part of a word; adjacent characters are not merged, and |op| is the
\* operator of a ${...}.
Part(kind, text, op, parts) == [kind |-> kind, text |-> text, op |-> op, parts |-> parts]
Char(kind, c) == Part(kind, <<c>>, "", <<>>)

-----------------------------------------------------------------------------
(* The character layer: a backslash and a newline are skipped wherever the *)
(* next character is asked for, but where it is read raw (At).             *)

At(s, p) == IF p <= Len(s) THEN s[p] ELSE Eof

RECURSIVE SkipContinuations(_, _)
SkipContinuations(s, p) ==
    IF At(s, p) = "\\" /\ At(s, p + 1) = Newline THEN SkipContinuations(s, p + 2) ELSE p

Peek(s, p) == At(s, SkipContinuations(s, p))
After(s, p) == SkipContinuations(s, p) + 1

\* Where a run of characters of a set ends.
RECURSIVE RunEnd(_, _, _)
RunEnd(s, p, set) == IF Peek(s, p) \in set THEN RunEnd(s, After(s, p), set) ELSE p

RECURSIVE RunText(_, _, _)
RunText(s, p, set) ==
    IF Peek(s, p) \in set THEN <<Peek(s, p)>> \o RunText(s, After(s, p), set) ELSE <<>>

-----------------------------------------------------------------------------
(* Groups: what is read up to its end character.  They differ in what ends *)
(* them, in what a backslash escapes and in what keeps its meaning.        *)

Ends(mode, c) ==
    CASE mode = "word"                             -> c = Eof \/ c \in Blanks \union OperatorChars \union {Newline}
      [] mode = "double"                           -> c = "\""
      [] mode \in {"operand", "quoted operand"}    -> c = "}"
      [] mode \in {"backquote", "quoted backquote"} -> c = Backquote
      [] mode = "body"                             -> c = Eof
      [] OTHER                                     -> FALSE

Escaped(mode, c) ==
    CASE mode \in {"word", "operand"}                 -> c # Eof
      [] mode \in {"double", "arithmetic"}            -> c \in {"$", Backquote, "\"", "\\"}
      [] mode = "quoted operand"                      -> c \in {"$", Backquote, "\"", "\\", "}"}
      [] mode = "quoted backquote"                    -> c \in {"$", Backquote, "\"", "\\"}
      [] mode \in {"backquote", "body"}               -> c \in {"$", Backquote, "\\"}

Active(mode) ==
    CASE mode \in {"word", "operand"}    -> {"'", "\"", "$", Backquote}
      [] mode = "quoted operand"         -> {"\"", "$", Backquote}
      [] mode \in {"double", "arithmetic", "body"} -> {"$", Backquote}
      [] OTHER                           -> {}

\* The kind of a character that stands for itself, and of an escaped one.
PlainKind(mode) ==
    IF mode \in {"double", "quoted operand", "body"} THEN "Quoted" ELSE "Literal"
EscapedKind(mode) ==
    IF mode \in {"arithmetic", "backquote", "quoted backquote"} THEN "Literal" ELSE "Quoted"

\* What is inside reads $ and ` as inside double quotes.
InDouble(mode) == mode \in {"double", "quoted operand", "body"}

ReadEscape(s, p, mode) ==
    LET c == At(s, p + 1)
    IN  CASE Escaped(mode, c) -> Stopped(p + 2, <<Char(EscapedKind(mode), c)>>)
          [] c = Eof          -> Stopped(p + 1, <<Char(EscapedKind(mode), "\\")>>)
          [] OTHER            -> Stopped(p + 2, <<Char(EscapedKind(mode), "\\"), Char(EscapedKind(mode), c)>>)

RECURSIVE ReadSingleQuoted(_, _, _)
ReadSingleQuoted(s, p, parts) ==
    CASE At(s, p) = Eof -> Failed("incomplete")
      [] At(s, p) = "'" -> Stopped(p + 1, IF parts = <<>> THEN <<Part("Quoted", <<>>, "", <<>>)>> ELSE parts)
      [] OTHER          -> ReadSingleQuoted(s, p + 1, Append(parts, Char("Quoted", At(s, p))))

RECURSIVE ReadGroup(_, _, _, _, _)
RECURSIVE ReadDollar(_, _, _, _)
RECURSIVE ReadCommandSubstitution(_, _)

\* A group as one part.
Grouped(kind, r) == IF r.err # NoError THEN r ELSE Stopped(r.at, <<Part(kind, <<>>, "", r.parts)>>)

Texts(parts) == [i \in DOMAIN parts |-> parts[i].text[1]]

ReadBackquote(s, p, mode) ==
    LET r == ReadGroup(s, p, mode, 0, <<>>)
    IN  IF r.err # NoError THEN r
        ELSE Stopped(r.at, <<Part("CommandSubstitution", Texts(r.parts), Backquote, <<>>)>>)

\* The second ) of )) ends an arithmetic expression.
CloseArithmetic(s, p, parts) ==
    IF Peek(s, p) = ")" THEN Stopped(After(s, p), parts) ELSE Failed("error")

\* p is past the opening; |depth| counts the parentheses of an arithmetic
\* expression.
ReadGroup(s, p, mode, depth, parts) ==
    LET q == SkipContinuations(s, p)
        c == At(s, q)
        Item ==
            CASE c = "\\" -> ReadEscape(s, q, mode)
              [] c = "'" /\ c \in Active(mode)  -> ReadSingleQuoted(s, q + 1, <<>>)
              [] c = "\"" /\ c \in Active(mode) -> Grouped("DoubleQuoted", ReadGroup(s, q + 1, "double", 0, <<>>))
              [] c = "$" /\ c \in Active(mode)  -> ReadDollar(s, q + 1, PlainKind(mode), InDouble(mode))
              [] c = Backquote /\ c \in Active(mode)  ->
                     ReadBackquote(s, q + 1, IF mode \in {"double", "quoted operand"}
                                             THEN "quoted backquote" ELSE "backquote")
              [] OTHER -> Stopped(q + 1, <<Char(PlainKind(mode), c)>>)
        DepthNow == CASE mode = "arithmetic" /\ c = "(" -> depth + 1
                      [] mode = "arithmetic" /\ c = ")" -> depth - 1
                      [] OTHER -> depth
    IN  IF Ends(mode, c) THEN Stopped(IF mode \in {"word", "body"} THEN p ELSE q + 1, parts)
        ELSE IF c = Eof THEN Failed("incomplete")
        ELSE IF mode = "arithmetic" /\ c = ")" /\ depth = 0 THEN CloseArithmetic(s, q + 1, parts)
        ELSE LET item == Item
             IN  IF item.err # NoError THEN item
                 ELSE ReadGroup(s, item.at, mode, DepthNow, parts \o item.parts)

-----------------------------------------------------------------------------
(* Expansions, past their $.                                               *)

Parameter(name, op, parts) == Part("Parameter", name, op, parts)

\* The name in braces; <<>> when there is none.
BracedName(s, p) ==
    CASE Peek(s, p) \in Letters           -> RunText(s, p, Letters \union Digits)
      [] Peek(s, p) \in Digits            -> RunText(s, p, Digits)
      [] Peek(s, p) \in SpecialParameters \ Digits -> <<Peek(s, p)>>
      [] OTHER                            -> <<>>
BracedNameEnd(s, p) ==
    CASE Peek(s, p) \in Letters           -> RunEnd(s, p, Letters \union Digits)
      [] Peek(s, p) \in Digits            -> RunEnd(s, p, Digits)
      [] Peek(s, p) \in SpecialParameters \ Digits -> After(s, p)
      [] OTHER                            -> p

ReadOperand(s, p, double) ==
    ReadGroup(s, p, IF double THEN "quoted operand" ELSE "operand", 0, <<>>)

WithOperand(r, name, op) ==
    IF r.err # NoError THEN r
    ELSE Stopped(r.at, <<Parameter(name, op, IF op = "bad" THEN <<>> ELSE r.parts)>>)

\* A bad one ends at its } all the same.
Bad(s, p, double) == WithOperand(ReadOperand(s, p, double), <<>>, "bad")

\* After the name of a ${...}: its end or an operator, whose pattern is read
\* as an unquoted word even in double quotes.
ReadParameterOp(s, p, name, double) ==
    LET c == Peek(s, p)
        colon == c = ":"
        q == IF colon THEN After(s, p) ELSE p
        op == Peek(s, q)
    IN  CASE c = "}" -> Stopped(After(s, p), <<Parameter(name, "", <<>>)>>)
          [] c \in {"%", "#"} ->
                 LET twice == Peek(s, After(s, p)) = c
                     from == IF twice THEN After(s, After(s, p)) ELSE After(s, p)
                 IN  WithOperand(ReadOperand(s, from, FALSE), name, IF twice THEN c \o c ELSE c)
          [] c \notin {"}", "%", "#"} /\ op \in {"-", "=", "?", "+"} ->
                 WithOperand(ReadOperand(s, After(s, q), double), name, IF colon THEN ":" \o op ELSE op)
          [] OTHER -> Bad(s, q, double)

ReadBracedParameter(s, p, double) ==
    LET inside == After(s, p)       \* past a #
        name == BracedName(s, inside)
        end == BracedNameEnd(s, inside)
    IN  IF Peek(s, p) = "#"
        THEN CASE Peek(s, inside) = "}" -> Stopped(After(s, inside), <<Parameter(<<"#">>, "", <<>>)>>)
               [] name # <<>> /\ Peek(s, end) = "}" -> Stopped(After(s, end), <<Parameter(name, "length", <<>>)>>)
               [] name # <<>> /\ Peek(s, end) # "}" -> Bad(s, end, double)
               [] OTHER -> ReadParameterOp(s, inside, <<"#">>, double)
        ELSE IF BracedName(s, p) = <<>> THEN Bad(s, p, double)
        ELSE ReadParameterOp(s, BracedNameEnd(s, p), BracedName(s, p), double)

ReadDollar(s, p, plain, double) ==
    LET c == Peek(s, p)
    IN  CASE c \in Letters ->
                 Stopped(RunEnd(s, p, Letters \union Digits),
                         <<Parameter(RunText(s, p, Letters \union Digits), "", <<>>)>>)
          [] c \in Digits \union SpecialParameters -> Stopped(After(s, p), <<Parameter(<<c>>, "", <<>>)>>)
          [] c = "{" -> ReadBracedParameter(s, After(s, p), double)
          [] c = "(" /\ Peek(s, After(s, p)) = "(" ->
                 Grouped("Arithmetic", ReadGroup(s, After(s, After(s, p)), "arithmetic", 0, <<>>))
          [] c = "(" /\ Peek(s, After(s, p)) # "(" -> ReadCommandSubstitution(s, After(s, p))
          [] OTHER -> Stopped(p, <<Char(plain, "$")>>)

-----------------------------------------------------------------------------
(* Tokens.  An operator's kind is its text; a newline and the end of the   *)
(* input carry the here-documents whose bodies were read there.            *)

\* |begin| and |end| are where it starts in the source and where that goes on
\* after it.
Token(kind, parts, docs) ==
    [kind |-> kind, parts |-> parts, docs |-> docs, begin |-> 0, end |-> 0]
EndOfInput == Token(Eof, <<>>, <<>>)

Operators ==
    {<<"&", "&">>, <<"&", ">">>, <<"&">>, <<"|", "|">>, <<"|">>, <<";", ";">>, <<";">>,
     <<"(">>, <<")">>, <<"<", "<", "-">>, <<"<", "<", "<">>, <<"<", "<">>, <<"<", "&">>,
     <<"<", ">">>, <<"<">>, <<">", ">">>, <<">", "&">>, <<">", "|">>, <<">">>}
OperatorText(op) == FoldLeft(LAMBDA text, c : text \o c, "", op)
RedirectionOperators ==
    {OperatorText(op) : op \in {o \in Operators : o[1] \in {"<", ">"} \/ o = <<"&", ">">>}}

\* The longest that is there.
ReadOperator(s, p) ==
    LET coming == <<At(s, p), Peek(s, p + 1), Peek(s, After(s, p + 1))>>
        op == CHOOSE o \in Operators :
                  /\ IsPrefix(o, coming)
                  /\ \A other \in Operators : IsPrefix(other, coming) => Len(other) <= Len(o)
    IN  [token |-> Token(OperatorText(op), <<>>, <<>>),
         at |-> <<p + 1, After(s, p + 1), After(s, After(s, p + 1))>>[Len(op)]]

\* Faulty variant: the operator must be the next character as written.
IsIoNumberRaw(s, p) == At(s, p) \in Digits /\ At(s, p + 1) \in {"<", ">"}

IsIoNumber(s, p) == At(s, p) \in Digits /\ Peek(s, p + 1) \in {"<", ">"}

LiteralText(parts) ==
    IF \A i \in DOMAIN parts : parts[i].kind = "Literal" THEN Texts(parts) ELSE <<>>

Reserved == {"if", "then", "else", "elif", "fi", "do", "done", "case", "esac",
             "while", "until", "for", "in", "{", "}", "!"}

\* "" when the token is no reserved word.
AsReservedWord(token) ==
    IF token.kind = "word" /\ Len(LiteralText(token.parts)) = 1 /\ LiteralText(token.parts)[1] \in Reserved
    THEN LiteralText(token.parts)[1] ELSE ""

-----------------------------------------------------------------------------
(* Here-documents.                                                         *)

RECURSIVE Unquoted(_, _, _)
Unquoted(source, i, within) ==
    LET c == At(source, i)
        d == At(source, i + 1)
    IN  CASE c = Eof -> <<>>
          [] c = "'" /\ within # "double"  -> Unquoted(source, i + 1, IF within = "none" THEN "single" ELSE "none")
          [] c = "\"" /\ within # "single" -> Unquoted(source, i + 1, IF within = "none" THEN "double" ELSE "none")
          [] c = "\\" /\ within # "single" /\ d = Newline -> Unquoted(source, i + 2, within)
          [] c = "\\" /\ d \notin {Newline, Eof} /\ (within = "none" \/ (within = "double" /\ Escaped("double", d))) ->
                 <<d>> \o Unquoted(source, i + 2, within)
          [] OTHER -> <<c>> \o Unquoted(source, i + 1, within)

UnquoteHereDocDelimiter(source) == Unquoted(source, 1, "none")

\* Quoting in the delimiter keeps the body as it is written.
IsQuoted(source) ==
    \E i \in DOMAIN source :
        source[i] \in {"'", "\""} \/ (source[i] = "\\" /\ At(source, i + 1) # Newline)

RECURSIVE LineEnd(_, _)
LineEnd(s, p) == IF At(s, p) \in {Newline, Eof} THEN p ELSE LineEnd(s, p + 1)

RawLine(s, p) == IF LineEnd(s, p) > Len(s) THEN SubSeq(s, p, Len(s)) ELSE SubSeq(s, p, LineEnd(s, p))

RECURSIVE StripTabs(_)
StripTabs(line) == IF line # <<>> /\ Head(line) = "\t" THEN StripTabs(Tail(line)) ELSE line

WithoutNewline(line) == IF line # <<>> /\ Last(line) = Newline THEN Front(line) ELSE line

RECURSIVE Backslashes(_)
Backslashes(text) == IF text # <<>> /\ Last(text) = "\\" THEN Backslashes(Front(text)) + 1 ELSE 0

\* An odd run of backslashes before the newline joins the next line to it.
RECURSIVE Joined(_, _, _)
Joined(s, at, line) ==
    IF line # <<>> /\ Last(line) = Newline /\ at <= Len(s) /\ Backslashes(Front(line)) % 2 = 1
    THEN Joined(s, at + Len(RawLine(s, at)), Front(Front(line)) \o RawLine(s, at))
    ELSE [at |-> at, line |-> line]

BodyLine(s, p, doc) ==
    LET raw == RawLine(s, p)
        line == IF doc.tabs THEN StripTabs(raw) ELSE raw
    IN  IF doc.quoted THEN [at |-> p + Len(raw), line |-> line] ELSE Joined(s, p + Len(raw), line)

RECURSIVE RawBody(_, _, _, _)
RawBody(s, p, doc, body) ==
    IF p > Len(s) THEN [at |-> p, body |-> body, terminated |-> FALSE]
    ELSE LET next == BodyLine(s, p, doc)
         IN  IF WithoutNewline(next.line) = doc.delimiter
             THEN [at |-> next.at, body |-> body, terminated |-> TRUE]
             ELSE RawBody(s, next.at, doc, body \o next.line)

LexHereDocBody(body) == ReadGroup(body, 1, "body", 0, <<>>)

\* More lines mend an error of a body whose end has not been read, not of one
\* that is all there.
ReadBody(s, p, doc) ==
    LET raw == RawBody(s, p, doc, <<>>)
        lexed == IF doc.quoted THEN Stopped(0, [i \in DOMAIN raw.body |-> Char("Quoted", raw.body[i])])
                 ELSE LexHereDocBody(raw.body)
    IN  [at |-> raw.at, cut |-> ~raw.terminated, parts |-> lexed.parts,
         err |-> IF raw.terminated /\ lexed.err # NoError THEN "error" ELSE lexed.err]

RECURSIVE ReadHereDocBodies(_, _, _, _)
ReadHereDocBodies(s, p, pending, read) ==
    IF pending = <<>> THEN read
    ELSE LET body == ReadBody(s, p, Head(pending))
         IN  IF body.err # NoError THEN [read EXCEPT !.err = body.err]
             ELSE ReadHereDocBodies(s, body.at, Tail(pending),
                      [at |-> body.at, err |-> NoError, cut |-> read.cut \/ body.cut,
                       docs |-> Append(read.docs, [parts |-> body.parts, begin |-> p, end |-> body.at])])

-----------------------------------------------------------------------------
(* The lexer: where it is, the here-document operator just read, the       *)
(* here-documents whose bodies are to come, and whether one was cut short. *)

Start(p) == [at |-> p, operator |-> "", pending |-> <<>>, cut |-> FALSE]
Lexed(token, begin, lexer) ==
    [token |-> [token EXCEPT !.begin = begin, !.end = lexer.at], lexer |-> lexer, err |-> NoError]
LexError(err) == [token |-> Token(err, <<>>, <<>>), lexer |-> Start(1), err |-> err]

WordToken(s, q, lexer) ==
    LET r == ReadGroup(s, q, "word", 0, <<>>)
        source == SubSeq(s, q, r.at - 1)
        doc == [delimiter |-> UnquoteHereDocDelimiter(source), quoted |-> IsQuoted(source),
                tabs |-> lexer.operator = "<<-"]
    IN  IF r.err # NoError THEN LexError(r.err)
        ELSE Lexed(Token("word", r.parts, <<>>), q,
                   [lexer EXCEPT !.at = r.at, !.operator = "",
                                 !.pending = IF lexer.operator = "" THEN @ ELSE Append(@, doc)])

OperatorToken(s, q, lexer) ==
    LET read == ReadOperator(s, q)
    IN  Lexed(read.token, q,
              [lexer EXCEPT !.at = read.at,
                            !.operator = IF read.token.kind \in {"<<", "<<-"} THEN read.token.kind ELSE ""])

\* The newline, or the end, that lets the bodies be read.
LineToken(s, q, kind, lexer) ==
    LET from == IF kind = Newline THEN q + 1 ELSE q
        read == ReadHereDocBodies(s, from, lexer.pending,
                                  [at |-> from, err |-> NoError, cut |-> lexer.cut, docs |-> <<>>])
    IN  IF read.err # NoError THEN LexError(read.err)
        ELSE Lexed(Token(kind, <<>>, read.docs), q,
                   [at |-> read.at, operator |-> "", pending |-> <<>>, cut |-> read.cut])

\* Past the blanks, and past a comment, which is read raw.
TokenStart(s, p) ==
    LET q == RunEnd(s, p, Blanks)
    IN  IF Peek(s, q) = "#" THEN LineEnd(s, SkipContinuations(s, q)) ELSE q

NextToken(s, lexer, interactive) ==
    LET p == TokenStart(s, lexer.at)
        q == SkipContinuations(s, p)
        c == At(s, q)
    IN  CASE c = Eof ->
                 LET end == LineToken(s, q, Eof, lexer)
                 IN  IF end.err = NoError /\ interactive /\ (end.lexer.cut \/ q # p)
                     THEN LexError("incomplete") ELSE end
          [] c = Newline -> LineToken(s, q, Newline, lexer)
          [] c \in OperatorChars -> OperatorToken(s, q, lexer)
          [] IsIoNumber(s, q) -> Lexed(Token("number", <<>>, <<>>), q, [lexer EXCEPT !.at = q + 1, !.operator = ""])
          [] OTHER -> WordToken(s, q, lexer)

\* All of a text, to its end or to the error that stands for the rest.
RECURSIVE Tokens(_, _, _, _)
Tokens(s, lexer, interactive, read) ==
    LET next == NextToken(s, lexer, interactive)
    IN  IF next.token.kind \in {Eof, "incomplete", "error"} THEN Append(read, next.token)
        ELSE Tokens(s, next.lexer, interactive, Append(read, next.token))

Lex(s, interactive) == Tokens(s, Start(1), interactive, <<>>)

-----------------------------------------------------------------------------
(* The end of a command substitution: its tokens are followed until the )  *)
(* that no open parenthesis and no case pattern accounts for.              *)

ScanStart == [stack |-> <<>>, command |-> TRUE, target |-> FALSE]
Top(scan) == IF scan.stack = <<>> THEN "" ELSE Last(scan.stack)
CaseStates == {"subject", "expect in", "pattern", "body"}

Push(scan, frame) == [scan EXCEPT !.stack = Append(@, frame)]
Pop(scan) == [scan EXCEPT !.stack = Front(@)]
To(scan, state) == Push(Pop(scan), state)
Expecting(scan, command) == [scan EXCEPT !.command = command, !.target = FALSE]

ScanWord(scan, word) ==
    CASE scan.target -> [scan EXCEPT !.target = FALSE]
      [] ~scan.target /\ Top(scan) = "subject" -> Expecting(To(scan, "expect in"), FALSE)
      [] ~scan.target /\ Top(scan) = "expect in" ->
             Expecting(IF word = "in" THEN To(scan, "pattern") ELSE scan, FALSE)
      [] ~scan.target /\ Top(scan) = "pattern" ->
             Expecting(IF word = "esac" THEN Pop(scan) ELSE scan, FALSE)
      [] OTHER ->
             CASE scan.command /\ word = "esac" /\ Top(scan) = "body" -> Expecting(Pop(scan), FALSE)
               [] scan.command /\ word = "case" -> Expecting(Push(scan, "subject"), FALSE)
               [] scan.command /\ word \in {"if", "then", "else", "elif", "while", "until", "do", "!", "{", "}"} -> scan
               [] OTHER -> Expecting(scan, FALSE)

\* Faulty variant: the first ) outside parentheses ends it, a case pattern's too.
ClosesAtPattern(scan, token) == token.kind = ")" /\ Top(scan) # "paren"

Closes(scan, token) == token.kind = ")" /\ scan.stack = <<>>

ScanStep(scan, token) ==
    CASE token.kind = "word" -> ScanWord(scan, AsReservedWord(token))
      [] token.kind = "(" -> IF Top(scan) = "pattern" THEN scan ELSE Expecting(Push(scan, "paren"), TRUE)
      [] token.kind = ")" -> CASE Top(scan) = "pattern" -> Expecting(To(scan, "body"), TRUE)
                               [] Top(scan) = "paren"   -> Expecting(Pop(scan), FALSE)
                               [] OTHER                 -> scan
      [] token.kind \in {Newline, ";", "&", "&&", "||", "|"} -> Expecting(scan, TRUE)
      [] token.kind = ";;" -> Expecting(IF Top(scan) = "body" THEN To(scan, "pattern") ELSE scan, TRUE)
      [] token.kind \in RedirectionOperators -> [scan EXCEPT !.target = TRUE]
      [] OTHER -> scan

\* Interactive or not is the same here: the end of the input is "incomplete".
RECURSIVE Scan(_, _, _, _)
Scan(s, begin, lexer, scan) ==
    LET next == NextToken(s, lexer, TRUE)
    IN  IF next.err # NoError THEN Failed(next.err)
        ELSE IF next.token.kind = Eof THEN Failed("incomplete")
        ELSE IF Closes(scan, next.token)
        THEN Stopped(next.lexer.at,
                     <<Part("CommandSubstitution", SubSeq(s, begin, next.token.begin - 1), "$", <<>>)>>)
        ELSE Scan(s, begin, next.lexer, ScanStep(scan, next.token))

ReadCommandSubstitution(s, begin) == Scan(s, begin, Start(begin), ScanStart)
=============================================================================
