---------------------------- MODULE HaisosFile ----------------------------
(* The lines of a haisosfile: comments, quoted tokens, the substitution of *)
(* ${name}, and the three forms of a file's content.  A line is a sequence *)
(* of characters; an operator that may fail returns [ok, ...].             *)
EXTENDS Integers, FiniteSetsExt, SequencesExt

Blanks == {" ", "\t"}
Quotes == {"'", "\""}
IsBlank(c) == c \in Blanks
IsQuote(c) == c \in Quotes

Trim(s) ==
    LET solid == {i \in DOMAIN s : s[i] \notin Blanks \union {"\r", "\n"}}
    IN  IF solid = {} THEN << >> ELSE SubSeq(s, Min(solid), Max(solid))

StripCarriageReturn(s) == IF s # << >> /\ Last(s) = "\r" THEN Front(s) ELSE s

\* Where c is next found in s, from i on; 0 if nowhere.
FoundAt(s, c, i) ==
    LET at == {k \in i..Len(s) : s[k] = c} IN IF at = {} THEN 0 ELSE Min(at)

From(s, i) == SubSeq(s, i, Len(s))
Before(s, i) == SubSeq(s, 1, i - 1)

---------------------------------------------------------------------------
\* Faulty variant: a comment starts at the first '#', quoted or not.
StripFromHash(line) ==
    LET hash == FoundAt(line, "#", 1) IN IF hash = 0 THEN line ELSE Before(line, hash)

\* A '#' that starts the line or follows a blank starts a comment, unless a
\* quoted token holds it.
StripComment(line) ==
    LET starts == {i \in DOMAIN line : i = 1 \/ IsBlank(line[i - 1])}
        \* Where the scan stands next: behind a quoted token, or one on.
        Walk[i \in 1..(Len(line) + 1)] ==
            LET close == FoundAt(line, line[i], i + 1)
            IN  CASE i = Len(line) + 1 -> line
                  [] i \in starts /\ IsQuote(line[i]) ->
                        IF close = 0 THEN line ELSE Walk[close + 1]
                  [] i \in starts /\ line[i] = "#" -> Before(line, i)
                  [] OTHER -> Walk[i + 1]
    IN  Walk[1]

\* ${name} by the value of the ARG or VAR declared above; a reference that is
\* never closed stays as it is.
Substitute(text, values) ==
    LET Opens(i) == i < Len(text) /\ text[i] = "$" /\ text[i + 1] = "{"
        Walk[i \in 1..(Len(text) + 1)] ==
            LET close == FoundAt(text, "}", i + 2)
                name  == SubSeq(text, i + 2, close - 1)
                rest  == Walk[close + 1]
                next  == Walk[i + 1]
            IN  CASE i = Len(text) + 1 -> [ok |-> TRUE, text |-> << >>]
                  [] i <= Len(text) /\ Opens(i) /\ close = 0 ->
                        [ok |-> TRUE, text |-> From(text, i)]
                  [] i <= Len(text) /\ Opens(i) /\ close # 0 ->
                        IF name \notin DOMAIN values THEN [ok |-> FALSE, text |-> << >>]
                        ELSE [rest EXCEPT !.text = values[name] \o @]
                  [] i <= Len(text) /\ ~Opens(i) -> [next EXCEPT !.text = <<text[i]>> \o @]
    IN  Walk[1]

\* Whitespace separates tokens; a token that starts with a quote runs to the
\* next one of its kind, which must end it.
SplitTokens(text) ==
    LET Walk[i \in 1..(Len(text) + 1)] ==
            LET close == FoundAt(text, text[i], i + 1)
                blank == {k \in i..Len(text) : IsBlank(text[k])}
                end   == IF blank = {} THEN Len(text) + 1 ELSE Min(blank)
                Token(t, k) == LET rest == Walk[k] IN [rest EXCEPT !.tokens = <<t>> \o @]
            IN  CASE i = Len(text) + 1 -> [ok |-> TRUE, tokens |-> << >>]
                  [] i <= Len(text) /\ IsBlank(text[i]) -> Walk[i + 1]
                  [] i <= Len(text) /\ IsQuote(text[i]) ->
                        IF close = 0 \/ (close < Len(text) /\ ~IsBlank(text[close + 1]))
                        THEN [ok |-> FALSE, tokens |-> << >>]
                        ELSE Token(SubSeq(text, i + 1, close - 1), close + 1)
                  [] OTHER -> Token(SubSeq(text, i, end - 1), end)
    IN  Walk[1]

\* What a directive other than CREATE and APPEND makes of its line.
DirectiveOf(line, values) ==
    LET stripped == Trim(StripComment(line))
        blank == {i \in DOMAIN stripped : IsBlank(stripped[i])}
        key   == IF blank = {} THEN stripped ELSE Before(stripped, Min(blank))
        rest  == IF blank = {} THEN << >> ELSE Trim(From(stripped, Min(blank) + 1))
        sub   == Substitute(rest, values)
    IN  IF ~sub.ok THEN [ok |-> FALSE, key |-> key, tokens |-> << >>]
        ELSE [ok |-> SplitTokens(sub.text).ok, key |-> key,
              tokens |-> SplitTokens(sub.text).tokens]

---------------------------------------------------------------------------
(* The content of CREATE and APPEND, from the raw line behind the path and *)
(* the lines below it.                                                     *)

TextPrefix == <<"t", "e", "x", "t", ":">>
MultilinePrefix == <<"m", "u", "l", "t", "i", "l", "i", "n", "e">>
NoContent == [ok |-> FALSE, content |-> << >>, taken |-> 0]

JoinLines(lines) ==
    FlattenSeq([i \in DOMAIN lines |-> (IF i = 1 THEN << >> ELSE <<"\n">>) \o lines[i]])

QuotedContent(spec) ==
    LET close    == FoundAt(spec, spec[1], 2)
        trailing == Trim(From(spec, close + 1))
    IN  IF close = 0 \/ (trailing # << >> /\ trailing[1] # "#") THEN NoContent
        ELSE [ok |-> TRUE, content |-> SubSeq(spec, 2, close - 1), taken |-> 0]

\* Faulty variant: every line of the block ends in a newline.
MultilineContentEnded(marker, below) ==
    LET ends == {i \in DOMAIN below : Trim(StripCarriageReturn(below[i])) = marker}
    IN  IF marker = << >> \/ ends = {} THEN NoContent
        ELSE [ok |-> TRUE, taken |-> Min(ends),
              content |-> FlattenSeq([i \in 1..(Min(ends) - 1) |->
                             StripCarriageReturn(below[i]) \o <<"\n">>])]

MultilineContent(marker, below) ==
    LET ends == {i \in DOMAIN below : Trim(StripCarriageReturn(below[i])) = marker}
    IN  IF marker = << >> \/ ends = {} THEN NoContent
        ELSE [ok |-> TRUE, taken |-> Min(ends),
              content |-> JoinLines([i \in 1..(Min(ends) - 1) |->
                                        StripCarriageReturn(below[i])])]

ParseFileContent(spec, below) ==
    LET n == Len(MultilinePrefix)
        multiline == IsPrefix(MultilinePrefix, spec)
                     /\ (Len(spec) = n \/ IsBlank(spec[n + 1]))
    IN  CASE spec # << >> /\ IsQuote(spec[1]) -> QuotedContent(spec)
          [] IsPrefix(TextPrefix, spec) ->
                [ok |-> TRUE, content |-> From(spec, Len(TextPrefix) + 1), taken |-> 0]
          [] multiline -> MultilineContent(Trim(From(spec, n + 1)), below)
          [] OTHER -> NoContent

\* CREATE and APPEND: the key, the path, a token like any other, and the
\* content, of a raw line that starts with the key.
FileDirectiveOf(line, below, values) ==
    LET raw   == StripCarriageReturn(line)
        solid == {i \in DOMAIN raw : ~IsBlank(raw[i])}
        keyEnd == Min({i \in DOMAIN raw : i > Min(solid) /\ IsBlank(raw[i])}
                      \union {Len(raw) + 1})
        paths == {i \in solid : i > keyEnd}
        start == Min(paths)
        close == FoundAt(raw, raw[start], start + 1)
        blank == {i \in DOMAIN raw : i > start /\ IsBlank(raw[i])}
        end   == CASE IsQuote(raw[start]) -> close + 1
                   [] ~IsQuote(raw[start]) /\ blank = {} -> Len(raw) + 1
                   [] ~IsQuote(raw[start]) /\ blank # {} -> Min(blank)
        path  == IF IsQuote(raw[start]) THEN SubSeq(raw, start + 1, close - 1)
                 ELSE SubSeq(raw, start, end - 1)
        specs == {i \in solid : i > end}
        content == ParseFileContent(IF specs = {} THEN << >> ELSE From(raw, Min(specs)), below)
        named == Substitute(path, values)
        Refused == [ok |-> FALSE, path |-> << >>, content |-> << >>]
    IN  IF paths = {} THEN Refused
        ELSE IF IsQuote(raw[start])
                /\ (close = 0 \/ (close < Len(raw) /\ ~IsBlank(raw[close + 1]))) THEN Refused
        ELSE IF ~named.ok \/ ~content.ok THEN Refused
        ELSE [ok |-> TRUE, path |-> named.text, content |-> content.content]

---------------------------------------------------------------------------
(* How a token or a content can be written. *)

Barely(token) ==
    /\ token # << >> /\ token[1] \notin Quotes \union {"#"}
    /\ Range(token) \intersect Blanks = {}

\* The ways to write a token: as it is, or in a kind of quote not in it.
WaysToWrite(token) ==
    {<<q>> \o token \o <<q>> : q \in Quotes \ Range(token)}
    \union (IF Barely(token) THEN {token} ELSE {})

\* The ways to write a content: what stands behind the path, and the lines
\* below it, closed by a line that holds |marker| only.
LinesOf(content) ==
    LET ends == {i \in DOMAIN content : content[i] = "\n"} \union {Len(content) + 1}
    IN  [k \in 1..Cardinality(ends) |->
            LET e == CHOOSE x \in ends : Cardinality({d \in ends : d <= x}) = k
            IN  SubSeq(content, Max({0} \union {d \in ends : d < e}) + 1, e - 1)]

WaysToHold(content, marker) ==
    LET lines == LinesOf(content)
        one   == "\n" \notin Range(content)
    IN  (IF one THEN {[spec |-> w, below |-> << >>] : w \in
                        {TextPrefix \o content}
                        \union {<<q>> \o content \o <<q, " ", "#">> :
                                    q \in Quotes \ Range(content)}}
         ELSE {})
        \union (IF \E i \in DOMAIN lines : Trim(lines[i]) = marker THEN {}
                ELSE {[spec |-> MultilinePrefix \o <<" ">> \o marker,
                       below |-> lines \o <<<<" ">> \o marker>>]})

\* A reference inside is replaced, quoted or not; such tokens are left to
\* Substitute.
Refers(s) == \E i \in DOMAIN s : i < Len(s) /\ s[i] = "$" /\ s[i + 1] = "{"

(* TokensComeBack: any two tokens, written in any way they can be, with a  *)
(* comment behind them, are what a directive's line is read as: a quoted   *)
(* blank, '#', '\' or other kind of quote is only itself.                  *)
TokensComeBack(first, second) ==
    ~Refers(first \o second) =>
      \A v \in WaysToWrite(first), w \in WaysToWrite(second) :
        DirectiveOf(<<" ", "K", " ">> \o v \o <<"\t">> \o w \o <<" ", "#", "'">>, << >>)
          = [ok |-> TRUE, key |-> <<"K">>, tokens |-> <<first, second>>]

(* ContentComesBack: a file's path and content, written in any way they    *)
(* can be, are what CREATE and APPEND put there, to the last newline, and  *)
(* the lines behind the block are left to the directives.                  *)
ContentComesBack(path, content) ==
    LET marker == <<"a">>
    IN  ~Refers(path) =>
          \A v \in WaysToWrite(path), h \in WaysToHold(content, marker) :
             LET line == <<"K", " ">> \o v \o <<" ">> \o h.spec
             IN  /\ FileDirectiveOf(line, h.below \o <<marker>>, << >>)
                      = [ok |-> TRUE, path |-> path, content |-> content]
                 /\ ParseFileContent(h.spec, h.below \o <<marker>>).taken = Len(h.below)
===========================================================================
