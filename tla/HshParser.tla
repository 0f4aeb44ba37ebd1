----------------------------- MODULE HshParser ------------------------------
(***************************************************************************)
(* The parser of hsh (HshParser.cpp): tokens to commands, by recursive     *)
(* descent.  t is the sequence of all the tokens of a text (what the lexer *)
(* gives does not depend on the parser), i the next one; each operator     *)
(* returns where it stopped and the trees it built, or an error.           *)
(***************************************************************************)
EXTENDS HshLexer

\* A tree: |words| are the parts of its words, |tokens| the first and the last
\* token of it (HshAst.h).
Node(kind, words, kids) == [kind |-> kind, words |-> words, kids |-> kids, tokens |-> <<>>]
Parsed(at, nodes) == [at |-> at, nodes |-> nodes, err |-> NoError]
ParseError(err) == [at |-> 0, nodes |-> <<>>, err |-> err]

\* |first| stands for |second|'s error when it has one.
Then(first, Second(_)) == IF first.err # NoError THEN first ELSE Second(first)

\* Faulty variant: no more input is asked for.
UnexpectedAnywhere(token) == ParseError("error")

\* Another token than expected: more input helps at the end only.
Unexpected(token) ==
    ParseError(IF token.kind \in {Eof, "incomplete"} THEN "incomplete" ELSE "error")

RECURSIVE SkipNewlines(_, _)
SkipNewlines(t, i) == IF t[i].kind = Newline THEN SkipNewlines(t, i + 1) ELSE i

ListEnds == {"then", "else", "elif", "fi", "do", "done", "esac", "}"}
AtListEnd(token) == token.kind \in {Eof, ")", ";;"} \/ AsReservedWord(token) \in ListEnds
StartsRedirection(token) == token.kind = "number" \/ token.kind \in RedirectionOperators
CanStartCommand(token) == token.kind \in {"word", "("} \/ StartsRedirection(token)

IsValidShellName(name) == name # <<>> /\ name[1] \in Letters /\ \A k \in DOMAIN name : IsNameChar(name[k])

RECURSIVE ParseCommand(_, _)
RECURSIVE ParseItems(_, _, _)

-----------------------------------------------------------------------------
(* Pipelines and and-or lists.                                             *)

RECURSIVE ParsePipes(_, _, _)
ParsePipes(t, i, commands) ==
    Then(ParseCommand(t, i), LAMBDA command :
        IF t[command.at].kind = "|"
        THEN ParsePipes(t, SkipNewlines(t, command.at + 1), commands \o command.nodes)
        ELSE Parsed(command.at, commands \o command.nodes))

ParsePipeline(t, i) ==
    LET negated == AsReservedWord(t[i]) = "!"
    IN  Then(ParsePipes(t, IF negated THEN i + 1 ELSE i, <<>>), LAMBDA pipes :
            Parsed(pipes.at, <<Node(IF negated THEN "!" ELSE "|", <<>>, pipes.nodes)>>))

\* Each pipeline but the first hangs under the operator before it.
RECURSIVE ParseAndOr(_, _, _, _)
ParseAndOr(t, i, operator, pipelines) ==
    Then(ParsePipeline(t, i), LAMBDA pipeline :
        LET all == Append(pipelines, Node(operator, <<>>, pipeline.nodes))
            next == t[pipeline.at].kind
        IN  IF next \in {"&&", "||"}
            THEN ParseAndOr(t, SkipNewlines(t, pipeline.at + 1), next, all)
            ELSE Parsed(pipeline.at, all))

-----------------------------------------------------------------------------
(* Lists.                                                                  *)

Separated(t, at) == t[at - 1].kind \in {";", "&"}

ParseItem(t, i) ==
    Then(ParseAndOr(t, i, "first", <<>>), LAMBDA andOr :
        LET kind == t[andOr.at].kind
        IN  Parsed(IF kind \in {";", "&"} THEN andOr.at + 1 ELSE andOr.at,
                   <<[Node(IF kind = "&" THEN "background" ELSE "item", <<>>, andOr.nodes)
                          EXCEPT !.tokens = <<i, andOr.at - 1>>]>>))

List(items) == Node("list", <<>>, items)

ParseItems(t, i, items) ==
    IF ~CanStartCommand(t[i]) THEN Unexpected(t[i])
    ELSE Then(ParseItem(t, i), LAMBDA item :
             LET next == SkipNewlines(t, item.at)
             IN  IF AtListEnd(t[next]) \/ ~(Separated(t, item.at) \/ next # item.at)
                 THEN Parsed(next, <<List(items \o item.nodes)>>)
                 ELSE ParseItems(t, next, items \o item.nodes))

\* Faulty variant: a list may be empty wherever one is.
ParseCompoundListEmpty(t, i, requireFirst) ==
    LET first == SkipNewlines(t, i)
    IN  IF AtListEnd(t[first]) THEN Parsed(first, <<List(<<>>)>>) ELSE ParseItems(t, first, <<>>)

ParseCompoundList(t, i, requireFirst) ==
    LET first == SkipNewlines(t, i)
    IN  IF t[first].kind = Eof \/ (AtListEnd(t[first]) /\ ~requireFirst)
        THEN Parsed(first, <<List(<<>>)>>)
        ELSE IF AtListEnd(t[first]) THEN Unexpected(t[first])
        ELSE ParseItems(t, first, <<>>)

RECURSIVE ParseCompleteCommand(_, _, _)
ParseCompleteCommand(t, i, items) ==
    IF ~CanStartCommand(t[i]) THEN Unexpected(t[i])
    ELSE Then(ParseItem(t, i), LAMBDA item :
             CASE t[item.at].kind = Newline -> Parsed(item.at + 1, items \o item.nodes)
               [] t[item.at].kind = Eof -> Parsed(item.at, items \o item.nodes)
               [] t[item.at].kind \notin {Newline, Eof} /\ ~Separated(t, item.at) -> Unexpected(t[item.at])
               [] OTHER -> ParseCompleteCommand(t, item.at, items \o item.nodes))

-----------------------------------------------------------------------------
(* Compound commands.  A form is the reserved words (or the parenthesis)   *)
(* and the lists that make one up, in order.                               *)

Expect(t, i, word) ==
    IF AsReservedWord(t[i]) = word \/ t[i].kind = word THEN Parsed(i + 1, <<>>) ELSE Unexpected(t[i])

RECURSIVE ParseForm(_, _, _, _)
ParseForm(t, i, form, nodes) ==
    IF form = <<>> THEN Parsed(i, nodes)
    ELSE Then(IF Head(form) = "list" THEN ParseCompoundList(t, i, TRUE) ELSE Expect(t, i, Head(form)),
              LAMBDA part : ParseForm(t, part.at, Tail(form), nodes \o part.nodes))

Command(kind, form) == Then(form, LAMBDA f : Parsed(f.at, <<Node(kind, <<>>, f.nodes)>>))

\* From a condition on; |lists| are the conditions and bodies before it.
RECURSIVE ParseBranches(_, _, _)
ParseBranches(t, i, lists) ==
    Then(ParseForm(t, i, <<"list", "then", "list">>, lists), LAMBDA branch :
        LET word == AsReservedWord(t[branch.at])
        IN  CASE word = "elif" -> ParseBranches(t, branch.at + 1, branch.nodes)
              [] word = "else" -> ParseForm(t, branch.at + 1, <<"list", "fi">>, branch.nodes)
              [] OTHER         -> ParseForm(t, branch.at, <<"fi">>, branch.nodes))

ParseIf(t, i) == Command("if", ParseBranches(t, i + 1, <<>>))
ParseLoop(t, i) == Command(AsReservedWord(t[i]), ParseForm(t, i + 1, <<"list", "do", "list", "done">>, <<>>))
ParseBraceGroup(t, i) == Command("{", ParseForm(t, i + 1, <<"list", "}">>, <<>>))
ParseSubshell(t, i) == Command("(", ParseForm(t, i + 1, <<"list", ")">>, <<>>))

\* The words after `in`, to the end of the line or a semicolon.
RECURSIVE ForWords(_, _, _)
ForWords(t, i, words) ==
    CASE t[i].kind = "word"  -> ForWords(t, i + 1, Append(words, t[i].parts))
      [] t[i].kind = ";"     -> [at |-> i + 1, words |-> words, err |-> NoError]
      [] t[i].kind = Newline -> [at |-> i, words |-> words, err |-> NoError]
      [] OTHER -> Unexpected(t[i])

ForBody(t, i, kind, words) ==
    Then(ParseForm(t, SkipNewlines(t, i), <<"do", "list", "done">>, <<>>), LAMBDA body :
        Parsed(body.at, <<Node(kind, words, body.nodes)>>))

ParseFor(t, i) ==
    LET name == t[i + 1]
        next == SkipNewlines(t, i + 2)
    IN  IF name.kind \in {"incomplete", "error"} THEN Unexpected(name)
        ELSE IF name.kind # "word" \/ ~IsValidShellName(LiteralText(name.parts)) THEN ParseError("error")
        ELSE IF AsReservedWord(t[next]) = "in"
        THEN Then(ForWords(t, next + 1, <<name.parts>>), LAMBDA w : ForBody(t, w.at, "for in", w.words))
        ELSE ForBody(t, IF t[next].kind = ";" THEN next + 1 ELSE next, "for", <<name.parts>>)

\* The patterns of a case item, to their parenthesis.
RECURSIVE CasePatterns(_, _, _)
CasePatterns(t, i, patterns) ==
    IF t[i].kind # "word" THEN Unexpected(t[i])
    ELSE IF t[i + 1].kind = "|" THEN CasePatterns(t, i + 2, Append(patterns, t[i].parts))
    ELSE IF t[i + 1].kind # ")" THEN Unexpected(t[i + 1])
    ELSE [at |-> i + 2, words |-> Append(patterns, t[i].parts), err |-> NoError]

RECURSIVE CaseItems(_, _, _)
CaseItems(t, i, items) ==
    LET first == SkipNewlines(t, i)
    IN  IF AsReservedWord(t[first]) = "esac" THEN Parsed(first + 1, items)
        ELSE Then(CasePatterns(t, IF t[first].kind = "(" THEN first + 1 ELSE first, <<>>), LAMBDA p :
             Then(ParseCompoundList(t, p.at, FALSE), LAMBDA body :
                LET all == Append(items, Node("case item", p.words, body.nodes))
                IN  CASE t[body.at].kind = ";;" -> CaseItems(t, body.at + 1, all)
                      [] AsReservedWord(t[body.at]) = "esac" -> Parsed(body.at + 1, all)
                      [] OTHER -> Unexpected(t[body.at])))

ParseCase(t, i) ==
    IF t[i + 1].kind # "word" THEN Unexpected(t[i + 1])
    ELSE Then(Expect(t, SkipNewlines(t, i + 2), "in"), LAMBDA in :
         Then(CaseItems(t, in.at, <<>>), LAMBDA items :
            Parsed(items.at, <<Node("case", <<t[i + 1].parts>>, items.nodes)>>)))

-----------------------------------------------------------------------------
(* Redirections, simple commands and functions.                            *)

\* Anything to expand in it, at any depth.
RECURSIVE PartsHaveExpansions(_)
PartsHaveExpansions(parts) ==
    \E k \in DOMAIN parts :
        CASE parts[k].kind \in {"Literal", "Quoted"} -> FALSE
          [] parts[k].kind = "DoubleQuoted" -> PartsHaveExpansions(parts[k].parts)
          [] OTHER -> TRUE

RECURSIVE PlainText(_)
PlainText(parts) ==
    IF parts = <<>> THEN <<>>
    ELSE (IF parts[1].kind = "DoubleQuoted" THEN PlainText(parts[1].parts) ELSE parts[1].text)
         \o PlainText(Tail(parts))

BadFd(operator, target) ==
    /\ operator \in {"<&", ">&"} /\ ~PartsHaveExpansions(target)
    /\ PlainText(target) \notin {<<c>> : c \in Digits \union {"-"}}

ParseRedirection(t, i) ==
    LET op == IF t[i].kind = "number" THEN i + 1 ELSE i
        target == t[op + 1]
    IN  IF t[op].kind \notin RedirectionOperators THEN Unexpected(t[op])
        ELSE IF target.kind # "word" THEN Unexpected(target)
        ELSE IF BadFd(t[op].kind, target.parts) THEN ParseError("error")
        ELSE Parsed(op + 2, <<Node(t[op].kind, <<t[i].parts, target.parts>>, <<>>)>>)

RECURSIVE ParseRedirections(_, _, _)
ParseRedirections(t, i, nodes) ==
    IF StartsRedirection(t[i])
    THEN Then(ParseRedirection(t, i), LAMBDA r : ParseRedirections(t, r.at, nodes \o r.nodes))
    ELSE Parsed(i, nodes)

\* name=...: the name and the = are unquoted, and first.
IsAssignment(parts) ==
    \E k \in DOMAIN parts :
        /\ k > 1 /\ parts[k] = Char("Literal", "=")
        /\ \A j \in 1..(k - 1) : parts[j].kind = "Literal"
        /\ IsValidShellName([j \in 1..(k - 1) |-> parts[j].text[1]])

ParseFunctionDefinition(t, i) ==
    LET name == t[i]
    IN  IF t[i + 2].kind # ")" THEN Unexpected(t[i + 2])
        ELSE IF ~IsValidShellName(LiteralText(name.parts)) THEN ParseError("error")
        ELSE Then(ParseCommand(t, SkipNewlines(t, i + 3)), LAMBDA body :
                 Parsed(body.at, <<[Node("function", <<name.parts>>, body.nodes)
                                       EXCEPT !.tokens = <<i, body.at - 1>>]>>))

\* |simple| is what was read of it before token i.
RECURSIVE ParseSimpleCommand(_, _, _)
ParseSimpleCommand(t, i, simple) ==
    CASE t[i].kind = "word" /\ simple.words = <<>> /\ IsAssignment(t[i].parts) ->
             ParseSimpleCommand(t, i + 1,
                 [simple EXCEPT !.kids = Append(@, Node("assignment", <<t[i].parts>>, <<>>))])
      [] t[i].kind = "word" /\ ~(simple.words = <<>> /\ IsAssignment(t[i].parts)) ->
             ParseSimpleCommand(t, i + 1, [simple EXCEPT !.words = Append(@, t[i].parts)])
      [] StartsRedirection(t[i]) ->
             Then(ParseRedirection(t, i), LAMBDA r :
                 ParseSimpleCommand(t, r.at, [simple EXCEPT !.kids = @ \o r.nodes]))
      [] t[i].kind = "(" /\ Len(simple.words) = 1 /\ simple.kids = <<>> -> ParseFunctionDefinition(t, i - 1)
      [] OTHER -> Parsed(i, <<simple>>)

Compound(t, i) ==
    CASE AsReservedWord(t[i]) = "if"    -> ParseIf(t, i)
      [] AsReservedWord(t[i]) \in {"while", "until"} -> ParseLoop(t, i)
      [] AsReservedWord(t[i]) = "for"   -> ParseFor(t, i)
      [] AsReservedWord(t[i]) = "case"  -> ParseCase(t, i)
      [] AsReservedWord(t[i]) = "{"     -> ParseBraceGroup(t, i)
      [] t[i].kind = "("                -> ParseSubshell(t, i)
      [] OTHER                          -> Unexpected(t[i])

ParseCommand(t, i) ==
    IF (t[i].kind = "word" /\ AsReservedWord(t[i]) = "") \/ StartsRedirection(t[i])
    THEN ParseSimpleCommand(t, i, Node("simple", <<>>, <<>>))
    ELSE Then(Compound(t, i), LAMBDA command :
         Then(ParseRedirections(t, command.at, <<>>), LAMBDA redirections :
             Parsed(redirections.at, <<[command.nodes[1] EXCEPT !.kids = @ \o redirections.nodes]>>)))

-----------------------------------------------------------------------------
(* Programs.                                                               *)

RECURSIVE ParseTokens(_, _, _)

\* The text of every command substitution in the parts parses as well.
RECURSIVE PartsParse(_)
PartsParse(parts) ==
    \A k \in DOMAIN parts :
        IF parts[k].kind = "CommandSubstitution"
        THEN ParseTokens(Lex(parts[k].text, FALSE), 1, <<>>).err = NoError
        ELSE PartsParse(parts[k].parts)

CheckTokens(t, i, j) ==
    \A k \in i..(j - 1) : PartsParse(t[k].parts) /\ \A d \in DOMAIN t[k].docs : PartsParse(t[k].docs[d].parts)

\* The next complete command; none at the end of the input.
ParseNext(t, i) ==
    LET first == SkipNewlines(t, i)
    IN  IF t[first].kind = Eof THEN Parsed(first, <<>>)
        ELSE Then(ParseCompleteCommand(t, first, <<>>), LAMBDA command :
                 IF CheckTokens(t, first, command.at) THEN command ELSE ParseError("error"))

ParseTokens(t, i, items) ==
    Then(ParseNext(t, i), LAMBDA next :
        IF next.nodes = <<>> THEN Parsed(next.at, items) ELSE ParseTokens(t, next.at, items \o next.nodes))

ParseProgram(s, interactive) == ParseTokens(Lex(s, interactive), 1, <<>>)

-----------------------------------------------------------------------------
(* The text of an item or of a function, as written: from its first token  *)
(* through its last, then the bodies of its here-documents that follow.    *)

Documents(t) == FlattenSeq([k \in DOMAIN t |-> t[k].docs])
IsDelimiter(t, k) == t[k].kind = "word" /\ k > 1 /\ t[k - 1].kind \in {"<<", "<<-"}
DelimitersIn(t, range) == {k \in range : IsDelimiter(t, k)}

\* The here-documents of the tokens from the first to the last of |node|.
HereDocs(t, node) ==
    LET before == Cardinality(DelimitersIn(t, 1..(node.tokens[1] - 1)))
        within == Cardinality(DelimitersIn(t, node.tokens[1]..node.tokens[2]))
    IN  SubSeq(Documents(t), before + 1, before + within)

\* Faulty variant: every here-document is appended, those within the text too.
BuildSourceTextTwice(s, t, node) ==
    SubSeq(s, t[node.tokens[1]].begin, t[node.tokens[2]].end - 1)
    \o (IF HereDocs(t, node) = <<>> THEN <<>> ELSE <<Newline>>)
    \o FlattenSeq([d \in DOMAIN HereDocs(t, node) |->
           SubSeq(s, HereDocs(t, node)[d].begin, HereDocs(t, node)[d].end - 1)])

BuildSourceText(s, t, node) ==
    LET begin == t[node.tokens[1]].begin
        end == t[node.tokens[2]].end
        after == SelectSeq(HereDocs(t, node), LAMBDA doc : doc.begin >= end)
    IN  SubSeq(s, begin, end - 1)
        \o (IF after = <<>> THEN <<>> ELSE <<Newline>>)
        \o FlattenSeq([d \in DOMAIN after |-> SubSeq(s, after[d].begin, after[d].end - 1)])
=============================================================================
