-------------------------- MODULE ExpansionMeaning ---------------------------
(***************************************************************************)
(* What hsh's expansion is to make of any word: the fields IFS leaves, the *)
(* values that stay whole in quotes, and the one text that is never split. *)
(***************************************************************************)
EXTENDS HshExpansion, HshLanguage

\* The pieces of s between the members of a set.
RECURSIVE Pieces(_, _)
Pieces(s, cuts) ==
    IF \A k \in DOMAIN s : s[k] \notin cuts THEN <<s>>
    ELSE LET first == CHOOSE k \in DOMAIN s : s[k] \in cuts /\ \A j \in 1..(k - 1) : s[j] \notin cuts
         IN  <<SubSeq(s, 1, first - 1)>> \o Pieces(SubSeq(s, first + 1, Len(s)), cuts)

\* IFS characters that are not white end a field each, the others separate.
FieldsBetween(elements, ifs) ==
    LET Of(white) == {e \in Range(elements) : e # QuoteMark /\ Delimits(e, ifs) /\ IfsWhite(e.c, ifs) = white}
        WordsIn(piece) == SelectSeq(Pieces(piece, Of(TRUE)), LAMBDA run : run # <<>>)
        pieces == Pieces(elements, Of(FALSE))
    IN  FlattenSeq([k \in DOMAIN pieces |->
            IF WordsIn(pieces[k]) = <<>> /\ k < Len(pieces) THEN <<<<>>>> ELSE WordsIn(pieces[k])])

\* A field is split where IFS says and nowhere else, quotes aside.
SplitWhereIfsSays(elements, sh) ==
    LET split == SplitField(elements, sh)
        between == FieldsBetween(elements, Ifs(sh))
    IN  Ifs(sh) # <<>> => split = [k \in DOMAIN between |-> WithoutMarks(between[k])]

\* A word that is a value in quotes is that one field, whatever is in it, in IFS
\* and in the directory; "$@" is the parameters.
QuotedStaysWhole(value, sh) ==
    LET Word(text) == ExpandWord(Lex(text, FALSE)[1].parts, sh).fields
        x == [sh EXCEPT !.vars = <<"x">> :> value @@ sh.vars]
        InX(text) == ExpandWord(Lex(text, FALSE)[1].parts, x).fields
        at == [sh EXCEPT !.positional = <<value, <<>>, value>>]
    IN  /\ Word(ShellSingleQuote(value)) = <<value>>
        /\ InX(<<"\"", "$", "x", "\"">>) = <<value>>
        /\ ExpandWord(Lex(<<"\"", "$", "@", "\"">>, FALSE)[1].parts, at).fields = at.positional
        /\ ExpandWord(Lex(<<"a", "\"", "$", "@", "\"", "b">>, FALSE)[1].parts, at).fields
               = <<<<"a">> \o value, <<>>, value \o <<"b">>>>

\* Where nothing is to be split or looked for, the fields of a word are the one
\* text an assignment or a redirection would take, or none.
NeverSplit(s, sh) ==
    LET t == Lex(s, FALSE)
        whole == [sh EXCEPT !.vars = IFS :> <<>> @@ sh.vars, !.noglob = TRUE, !.positional = <<>>]
        word == ExpandWord(t[1].parts, whole)
        text == ExpandToString(t[1].parts, whole)
    IN  [k \in DOMAIN t |-> t[k].kind] = <<"word", Eof>> =>
            /\ word.err = text.err /\ word.sh = text.sh
            /\ word.err = NoError => word.fields = text.fields \/ (word.fields = <<>> /\ text.fields = <<<<>>>>)

\* The word of s, looked for in the tree.
WordExpandsToWhatFits(s, sh) ==
    LET t == Lex(s, FALSE)
        fields == Expanded("fields", t[1].parts, sh).fields
    IN  [k \in DOMAIN t |-> t[k].kind] = <<"word", Eof>> =>
            ExpandsToWhatFits(GlobPatternOf(WithoutMarks(fields[1])), sh.tree)

\* A quoted character of a case pattern is matched as it is.
QuotedIsLiteral(s, sh, chars) ==
    LET t == Lex(s, FALSE)
        fields == Expanded("pattern", t[1].parts, sh).fields
        pattern == ExpandPattern(t[1].parts, sh).fields[1]
    IN  [k \in DOMAIN t |-> t[k].kind] = <<"word", Eof>> =>
            \A c \in chars : MatchPattern(pattern, <<c>>) = MatchPattern(GlobPatternOf(WithoutMarks(fields[1])), <<c>>)
=============================================================================
