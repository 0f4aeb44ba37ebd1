---------------------------- MODULE HshLanguage -----------------------------
(***************************************************************************)
(* What the lexer and the parser of hsh are to make of any text: what is   *)
(* typed line by line, quoted, split by continuations, or run again from   *)
(* its recorded source.                                                    *)
(***************************************************************************)
EXTENDS HshParser

\* hsh of a name with a single quote in it: '...' for the rest, "..." for a run
\* of quotes (HshQuote.cpp).
RECURSIVE QuoteRun(_, _)
QuoteRun(value, quotes) ==
    IF value # <<>> /\ (Head(value) = "'") = quotes
    THEN <<Head(value)>> \o QuoteRun(Tail(value), quotes) ELSE <<>>

Enclosed(quote, text) == <<quote>> \o text \o <<quote>>

\* Faulty variant: it stops behind the first run of quotes.
RECURSIVE ShellSingleQuoteOnce(_)
ShellSingleQuoteOnce(value) ==
    Enclosed("'", QuoteRun(value, FALSE)) \o Enclosed("\"", QuoteRun(SubSeq(value, Len(QuoteRun(value, FALSE)) + 1, Len(value)), TRUE))

RECURSIVE ShellSingleQuote(_)
ShellSingleQuote(value) ==
    LET plain == QuoteRun(value, FALSE)
        quotes == QuoteRun(SubSeq(value, Len(plain) + 1, Len(value)), TRUE)
        rest == SubSeq(value, Len(plain) + Len(quotes) + 1, Len(value))
    IN  Enclosed("'", plain)
        \o (IF quotes = <<>> THEN <<>> ELSE Enclosed("\"", quotes))
        \o (IF rest = <<>> THEN <<>> ELSE ShellSingleQuote(rest))

-----------------------------------------------------------------------------

\* The meaning of parts: a substitution's is that of its text.
RECURSIVE Meaning(_)
Meaning(parts) ==
    [k \in DOMAIN parts |->
        IF parts[k].kind = "CommandSubstitution"
        THEN LET inside == Lex(parts[k].text, FALSE)
             IN  [kind |-> "$()", tokens |-> [j \in DOMAIN inside |-> <<inside[j].kind, Meaning(inside[j].parts)>>]]
        ELSE [parts[k] EXCEPT !.parts = Meaning(@)]]

TokenMeaning(s) ==
    LET t == Lex(s, FALSE)
    IN  [k \in DOMAIN t |->
            <<t[k].kind, Meaning(t[k].parts), [d \in DOMAIN t[k].docs |-> Meaning(t[k].docs[d].parts)]>>]

\* A continuation put between any two characters of s, but behind a backslash,
\* changes nothing.
ContinuationVanishes(s) ==
    \A i \in 0..(Len(s) - 1) :
        Backslashes(SubSeq(s, 1, i)) % 2 = 0 =>
            TokenMeaning(SubSeq(s, 1, i) \o <<"\\", Newline>> \o SubSeq(s, i + 1, Len(s))) = TokenMeaning(s)

\* A quoted value is one word, which is the value.
QuotedValueComesBack(value) ==
    LET t == Lex(ShellSingleQuote(value), TRUE)
    IN  [k \in DOMAIN t |-> t[k].kind] = <<"word", Eof>> /\ PlainText(t[1].parts) = value

-----------------------------------------------------------------------------

\* A tree without where it stands.
RECURSIVE Bare(_)
Bare(nodes) == [k \in DOMAIN nodes |-> [nodes[k] EXCEPT !.tokens = <<>>, !.kids = Bare(@)]]

\* An interactive shell (Shell::RunInteractive): the lines of the command being
\* typed are parsed anew with each line, and kept while more are needed.
RECURSIVE Session(_, _, _)
Session(s, buffer, items) ==
    IF s = <<>>
    THEN LET last == ParseProgram(buffer, FALSE) IN [items |-> items \o last.nodes, err |-> last.err]
    ELSE LET typed == buffer \o RawLine(s, 1)
             rest == SubSeq(s, Len(RawLine(s, 1)) + 1, Len(s))
             parsed == ParseProgram(typed, TRUE)
         IN  CASE parsed.err = "incomplete" -> Session(rest, typed, items)
               [] parsed.err = "error"      -> [items |-> items, err |-> "error"]
               [] OTHER                     -> Session(rest, <<>>, items \o parsed.nodes)

\* What a script would run, a shell it is typed to runs, line by line: but where
\* a line ends in a continuation and is an error as it stands.
LineEnds(s) == {i \in DOMAIN s : s[i] = Newline}
EndsContinued(s) == Len(s) > 1 /\ Last(s) = Newline /\ Backslashes(Front(s)) % 2 = 1
ContinuedLinesStand(s) ==
    \A i \in LineEnds(s), j \in LineEnds(s) \union {0} :
        LET lines == SubSeq(s, j + 1, i)
        IN  EndsContinued(lines) => ParseProgram(lines, TRUE).err # "error"

TypedLineByLine(s) ==
    LET program == ParseProgram(s, FALSE)
        session == Session(s, <<>>, <<>>)
    IN  program.err = NoError /\ ContinuedLinesStand(s) =>
            session.err = NoError /\ Bare(session.items) = Bare(program.nodes)

\* Every item and function in a tree.
RECURSIVE Recorded(_)
Recorded(nodes) ==
    {nodes[k] : k \in {j \in DOMAIN nodes : nodes[j].tokens # <<>>}}
        \union UNION {Recorded(nodes[k].kids) : k \in DOMAIN nodes}

\* A function is the one command of an item.
Alone(node) ==
    IF node.kind # "function" THEN [node EXCEPT !.kind = "item"]
    ELSE Node("item", <<>>, <<Node("first", <<>>, <<Node("|", <<>>, <<node>>)>>)>>)

\* The recorded text of an item or of a function parses to it again.
SourceTextOf(s, t, node) ==
    LET again == ParseProgram(BuildSourceText(s, t, node), FALSE)
    IN  again.err = NoError /\ Bare(again.nodes) = Bare(<<Alone(node)>>)

\* Its first line ends before it does, and takes the body of a here-document
\* from before it along.
TakesAnother(t, node) ==
    \E k \in DOMAIN Documents(t) :
        /\ Documents(t)[k].begin \in t[node.tokens[1]].begin..(t[node.tokens[2]].end - 1)
        /\ Documents(t)[k] \notin Range(HereDocs(t, node))

SourceTextIsTheCommand(s) ==
    LET t == Lex(s, FALSE)
        program == ParseTokens(t, 1, <<>>)
    IN  program.err = NoError =>
            \A node \in Recorded(program.nodes) : TakesAnother(t, node) \/ SourceTextOf(s, t, node)

-----------------------------------------------------------------------------
(* Symbols that are tokens each, for what the parser makes of them.        *)

IsOperator(symbol) == symbol \in {Newline} \union {OperatorText(op) : op \in Operators}
SymbolTokens(w) ==
    [k \in DOMAIN w |-> IF IsOperator(w[k]) THEN Token(w[k], <<>>, <<>>)
                        ELSE Token("word", <<Char("Literal", w[k])>>, <<>>)]

Outcome(w) == ParseTokens(Append(SymbolTokens(w), EndOfInput), 1, <<>>).err

G == INSTANCE ShellGrammar WITH Redirections <- RedirectionOperators,
                                IsName <- LAMBDA word : word \in Letters

\* The parser takes what the grammar derives, and that only.
ParserFollowsGrammar(w) == (Outcome(w) = NoError) <=> G!Program(w)

\* The end of a command substitution is found without the parser, and is the
\* end of what it parses.
RECURSIVE ClosesAt(_, _, _)
ClosesAt(t, k, scan) ==
    CASE k > Len(t) -> 0
      [] k <= Len(t) /\ Closes(scan, t[k]) -> k
      [] OTHER -> ClosesAt(t, k + 1, ScanStep(scan, t[k]))

\* Where the two differ: a reserved word behind a redirection, a function whose
\* body is a case, esac as a pattern behind ( or |, and the esac of a body that
\* ends in a compound command.
ScannedAlike(w) ==
    \A k \in DOMAIN w :
        /\ w[k] \in Reserved /\ k > 2 => w[k - 2] \notin RedirectionOperators
        /\ w[k] = "case" /\ k > 2 => <<w[k - 2], w[k - 1]>> # <<"(", ")">>
        /\ w[k] = "esac" /\ k > 1 => w[k - 1] \notin {"(", "|", ")", "fi", "done", "esac"}

ScanFindsTheEnd(w) ==
    Outcome(w) = NoError /\ ScannedAlike(w) =>
        ClosesAt(SymbolTokens(Append(w, ")")), 1, ScanStart) = Len(w) + 1
=============================================================================
