------------------------------- MODULE MCText -------------------------------
(***************************************************************************)
(* Every text up to a bound, for what the texts a user writes come to: a   *)
(* program of hsh, a word, a sum and a pattern in it, the arguments and    *)
(* the input of a command, and a haisosfile.  A text grows symbol by       *)
(* symbol, so a run visits each once; a part says which symbols there are  *)
(* and what stands around them.                                            *)
(***************************************************************************)
EXTENDS ExpansionMeaning, ArithmeticMeaning

CONSTANT Parts    \* the parts a run visits

VARIABLES part, text
vars == <<part, text>>

Cats  == INSTANCE Cat
Wcs   == INSTANCE Wc
Args  == INSTANCE BuiltinCommand
Lines == INSTANCE HaisosFile
Boots == INSTANCE HaisosBoot

-----------------------------------------------------------------------------
(* The symbols of each part.                                               *)

Plain(alphabet, bound) == [before |-> <<>>, after |-> <<>>, alphabet |-> alphabet, bound |-> bound]
Within(before, after, alphabet, bound) ==
    [before |-> before, after |-> after, alphabet |-> alphabet, bound |-> bound]

\* Tokens, for the parser.
TokenParts == [
    grammar |-> Plain({"w", "if", "then", "fi", "{", "}", "(", ")", "\n", ";", "|", "!",
                       "case", "in", "esac", ";;", ">", "&"}, 4),
    loops   |-> Plain({"w", "for", "while", "do", "done", "in", "\n", ";", "&&"}, 5),
    chosen  |-> Plain({"w", "if", "then", "else", "elif", "fi", "\n", ";", "&&"}, 5),
    scan    |-> Plain({"w", "case", "in", "esac", "(", ")", ";;", ">", "{", "}", ";"}, 5),
    clauses |-> Within(<<"case", "w", "in">>, <<"esac">>,
                       {"w", "case", "in", "esac", "(", ")", ";;", ">", "|", ";"}, 4)]

\* Characters, for the lexer and the parser.
ProgramParts == [
    cut       |-> Plain({"a", "1", "$", "{", "}", "(", ")", "\"", "bq", "<", ">", "-", "\\",
                         "=", "&", "\n"}, 3),
    cutBraces |-> Within(<<"\"", "$", "{", "a">>, <<"}", "\"">>,
                         {"a", "1", "$", "}", "\"", "bq", "%", "-", "\\", "#", "=", ":"}, 3),
    cutBody   |-> Within(<<"<", "<", "a", "\n">>, <<"\n", "a">>,
                         {"a", "\\", "\"", "$", "\n", "\t"}, 4),
    typed     |-> Plain({"a", "<<a", "\n", "(", ")", "{", "}", "&&", "\\", "\"", ";", " "}, 5),
    typedBody |-> Within(<<"a", " ", "<", "<", "a">>, <<>>,
                         {"a", "\n", "\\", "\"", "$", "(", ")", ";"}, 5),
    typedList |-> Within(<<"{", " ">>, <<>>, {"a", "\n", "\\", " ", "}", "'", ";", "$"}, 5),
    source    |-> Within(<<"a", "<", "<", "a">>, <<>>, {"a", "\n", "&", "{", "}", ";", " "}, 5),
    function  |-> Within(<<"a", "(", ")">>, <<>>, {"a", "\n", "<<a", "{", "}", ";"}, 6)]

\* Characters and elements of a word, of a sum and of a pattern.
WordParts == [
    split    |-> Plain({"a", " ", ":", "q", "Q", "L"}, 6),
    whole    |-> Plain({"a", "'", "\"", "\\", "$", " ", "*", "~"}, 3),
    never    |-> Plain({"a", "$", "{", "}", "-", "#", "\"", "*", "~", "="}, 4),
    braces   |-> Within(<<"$", "{", "a">>, <<"}">>, {"a", "x", "\"", "%", "~", "*", ":", "+"}, 4),
    glob     |-> Plain({"a", "b", ".", "*", "/", "[", "]", "\\", "?"}, 5),
    names    |-> Plain({"a", "'", "\"", "$", " ", "#", "~", "{", "}", "\\", "!", "*", "=", "-"}, 3),
    compare  |-> Plain({"x", "2", "-", "*", "<", "(", ")", "&", "?", ":", "|"}, 4),
    assign   |-> Plain({"x", "1", "=", "+", "/", "|", "?", ":", "~"}, 4),
    divide   |-> Plain({"1", "2", "0", "-", "/", "*", "<", "%", " "}, 4),
    operators |-> Plain({"x", "a", "3", "<", ">", "&", "|", "^", "+", "*", "/", "%", "~", "="}, 4),
    shortcut |-> Within(<<"1", "|", "|">>, <<>>, {"x", "1", "0", "/", "(", ")", "="}, 5),
    bracket  |-> Plain({"a", "b", "c", "*", "?", "[", "]", "!", "-", "\\"}, 4),
    class    |-> Plain({"a", "*", "[", "]", ":", "alpha", "\\", "!"}, 4)]

\* What a command reads: bytes, by their codes, and "|" where a read ends, "/",
\* "!" and "." where a file does, which is read, broken or stopped.
InputParts == [
    numbered |-> Plain({"97", "9", "10", "|", "/", "!", "."}, 4),
    visible  |-> Plain({"1", "200", "255", "9", "10"}, 3),
    spaces   |-> Plain({"97", "32", "10", "9", "194", "160", "1", "|"}, 4),
    cutBytes |-> Plain({"224", "160", "128", "228", "184", "240", "97", "|"}, 4),
    wide     |-> Plain({"226", "128", "135", "168", "97", "1", "|"}, 4),
    files    |-> Plain({"97", "10", "204", "129", "|", "/", "!", "."}, 4)]

\* Arguments, what happens to an output, and lines of a haisosfile.
OtherParts == [
    arguments |-> Plain(DOMAIN Args!Items \union DOMAIN Args!OperandItems
                            \union DOMAIN Args!WrongItems \union {"end"}, 3),
    output    |-> Plain({"some", "more", "none", "message", "full", "gone", "lost"}, 5),
    tokens    |-> Plain({"a", " ", "#", "'", "\"", "\\", "|", "$", "{"}, 4),
    contents  |-> Plain({"a", " ", "#", "'", "\"", "\n", "|"}, 4),
    order     |-> Plain({"arg", "bare", "var", "root", "rootv", "fsA", "create", "out", "run"}, 4),
    mounts    |-> Plain({"fsA", "fsB", "fsC", "mnt", "root"}, 5),
    endings   |-> Plain({"create", "out", "outn", "outd", "outb", "outx", "run", "run3",
                         "runs", "runn"}, 4),
    setUp     |-> Plain({"c", "cab", "aab", "d", "db", "x", "xab", "xr", "cp", "cpa", "bi", "bia",
                         "deep", "cw", "aw", "cpw", "cpr", "cpo"}, 3)]

Settings == TokenParts @@ ProgramParts @@ WordParts @@ InputParts @@ OtherParts

ASSUME PartsAreSettings == Parts \subseteq DOMAIN Settings

\* The characters of a symbol that is more than one.
Spelt(s) == FlattenSeq([k \in DOMAIN s |-> CASE s[k] = "<<a" -> <<"<", "<", "a">>
                                              [] s[k] = "&&"  -> <<"&", "&">>
                                              [] OTHER        -> <<s[k]>>])

\* What stands there when t has been written.
Text(t) == LET whole == Settings[part].before \o t \o Settings[part].after
           IN  IF part \in DOMAIN ProgramParts THEN Spelt(whole) ELSE whole

Init == part \in Parts /\ text = <<>>

\* "|" cuts a haisosfile's text in two, once.
Write(c) ==
    /\ part \in {"tokens", "contents"} /\ c = "|" => "|" \notin Range(text)
    /\ text' = Append(text, c)
    /\ UNCHANGED part

Next == Len(text) < Settings[part].bound /\ \E c \in Settings[part].alphabet : Write(c)
Spec == Init /\ [][Next]_vars

-----------------------------------------------------------------------------
(* What a word is expanded with.                                           *)

Entry(name, dir) == [name |-> name, dir |-> dir]
DotEntries == {Entry(<<".">>, TRUE), Entry(<<".", ".">>, TRUE)}
Tree ==
       <<".">>      :> DotEntries \union {Entry(<<"a">>, TRUE), Entry(<<"b">>, FALSE),
                                          Entry(<<".", "a">>, FALSE), Entry(<<"a", "b">>, TRUE)}
    @@ <<"a">>      :> DotEntries \union {Entry(<<"a">>, FALSE), Entry(<<"[", "a">>, FALSE)}
    @@ <<"a", "b">> :> {Entry(<<"b">>, FALSE), Entry(<<".", "a">>, FALSE)}
    @@ <<"/">>      :> {Entry(<<"b">>, TRUE)}
    @@ <<"/", "b">> :> {Entry(<<"a">>, FALSE)}

Shell ==
    [vars       |-> IFS :> <<" ", ":">> @@ HOME :> <<"/", "b">> @@ <<"a">> :> <<"x", "*", "x">>,
     positional |-> <<>>,
     specials   |-> <<"0">> :> <<"a">> @@ <<"?">> :> <<"0">> @@ <<"$">> :> <<"2">> @@ <<"-">> :> <<>>,
     output     |-> <<"a", " ", "b", "\n">>, status |-> <<"1">>,
     nounset    |-> FALSE, noglob |-> FALSE, tree |-> Tree]

\* "q" is where quotes were, "Q" a quoted blank, "L" a separator of the word itself.
ElementOf(c) ==
    CASE c = "q" -> QuoteMark
      [] c = "Q" -> Element(" ", TRUE, FALSE)
      [] c = "L" -> Element(":", FALSE, FALSE)
      [] OTHER   -> Element(c, FALSE, TRUE)

Sum == <<"x">> :> <<"-", "1">> @@ <<"a">> :> <<"-", "8">>
Samples == UNION {[1..n -> {"a", "b", "-", "]"}] : n \in 0..3}

-----------------------------------------------------------------------------
(* What the symbols of a part stand for.                                   *)

\* The files of an input.
Codes == {1, 9, 10, 32, 97, 128, 129, 135, 160, 168, 184, 194, 200, 204, 224, 226, 228, 240, 255}
CodeOf == [c \in {ToString(n) : n \in Codes} |-> CHOOSE n \in Codes : ToString(n) = c]
NoFile(kind) == [kind |-> kind, pieces |-> <<<<>>>>, size |-> 0]
Read(files, c, ends) ==
    LET n == Len(files)
    IN  CASE c = "|" -> [files EXCEPT ![n].pieces = Append(@, <<>>)]
          [] c \in DOMAIN ends -> Append([files EXCEPT ![n].kind = ends[c]], NoFile(ends["/"]))
          [] OTHER -> [files EXCEPT ![n].pieces[Len(files[n].pieces)] = Append(@, CodeOf[c]), ![n].size = @ + 1]
FilesOf(s, read) ==
    FoldLeft(LAMBDA files, c : Read(files, c, "/" :> read @@ "!" :> "broken" @@ "." :> "stopped"),
             <<NoFile(read)>>, s)

CatSets ==
    {Cats!SettingsOf(l) : l \in SUBSET (IF part = "numbered" THEN {"n", "b", "s", "E"}
                                                             ELSE {"v", "T", "e", "t", "A"})}

\* The two parts of a haisosfile's text.
Cut(t) == Lines!FoundAt(t, "|", 1)
FirstPart(t) == IF Cut(t) = 0 THEN <<>> ELSE SubSeq(t, 1, Cut(t) - 1)
SecondPart(t) == SubSeq(t, Cut(t) + 1, Len(t))

\* The directives of a haisosfile.
Line(key) == [key |-> key, uses |-> {}, name |-> "", given |-> TRUE, type |-> "", args |-> <<>>,
              path |-> <<>>, host |-> <<"h">>, content |-> <<"x">>, ends |-> "exits", code |-> 0,
              opens |-> TRUE, upto |-> 9]
Directives ==
       "arg"    :> [Line("ARG") EXCEPT !.name = "n"]
    @@ "bare"   :> [Line("ARG") EXCEPT !.name = "n", !.given = FALSE]
    @@ "var"    :> [Line("VAR") EXCEPT !.name = "v", !.uses = {"n"}]
    @@ "root"   :> [Line("ROOT") EXCEPT !.name = "A"]
    @@ "rootv"  :> [Line("ROOT") EXCEPT !.name = "B", !.uses = {"v"}]
    @@ "fsA"    :> [Line("FS") EXCEPT !.name = "A", !.type = "MEM"]
    @@ "fsB"    :> [Line("FS") EXCEPT !.name = "B", !.type = "RO", !.args = <<"A">>]
    @@ "fsC"    :> [Line("FS") EXCEPT !.name = "C", !.type = "COMPOSED", !.args = <<"A", "B">>]
    @@ "mnt"    :> [Line("MOUNT") EXCEPT !.name = "A", !.args = <<"B">>]
    @@ "create" :> [Line("CREATE") EXCEPT !.path = <<"a", "b">>]
    @@ "out"    :> [Line("OUTCOPY") EXCEPT !.path = <<"a", "b">>]
    @@ "outn"   :> [Line("OUTCOPY") EXCEPT !.path = <<"b">>, !.host = <<"g">>]
    @@ "outd"   :> [Line("OUTCOPY") EXCEPT !.path = <<"a", "b">>, !.host = <<"d", "g">>]
    @@ "outb"   :> [Line("OUTCOPY") EXCEPT !.path = <<"a", "b">>, !.host = <<"h", "g">>]
    @@ "outx"   :> [Line("OUTCOPY") EXCEPT !.path = <<"a", "b">>, !.upto = 0]
    @@ "run"    :> Line("RUN")
    @@ "run3"   :> [Line("RUN") EXCEPT !.code = 3]
    @@ "runs"   :> [Line("RUN") EXCEPT !.ends = "running"]
    @@ "runn"   :> [Line("RUN") EXCEPT !.ends = "notStarted"]
    @@ "c"      :> [Line("CREATE") EXCEPT !.path = <<"a">>]
    @@ "cab"    :> [Line("CREATE") EXCEPT !.path = <<"a", "b">>]
    @@ "deep"   :> [Line("CREATE") EXCEPT !.path = <<"a", "b", "c">>]
    @@ "aab"    :> [Line("APPEND") EXCEPT !.path = <<"a", "b">>]
    @@ "d"      :> [Line("CREATE_DIR") EXCEPT !.path = <<"a", "b">>]
    @@ "db"     :> [Line("CREATE_DIR") EXCEPT !.path = <<"a">>]
    @@ "x"      :> [Line("DELETE") EXCEPT !.path = <<"a">>]
    @@ "xab"    :> [Line("DELETE") EXCEPT !.path = <<"a", "b">>]
    @@ "xr"     :> Line("DELETE")
    @@ "cp"     :> [Line("COPY") EXCEPT !.path = <<"a", "b">>]
    @@ "cpa"    :> [Line("COPY") EXCEPT !.path = <<"a", "c">>]
    @@ "cw"     :> [Line("CREATE") EXCEPT !.path = <<"a", "b">>, !.content = <<"x", "x">>, !.upto = 1]
    @@ "aw"     :> [Line("APPEND") EXCEPT !.path = <<"a", "b">>, !.content = <<"x", "x">>, !.upto = 1]
    @@ "cpw"    :> [Line("COPY") EXCEPT !.path = <<"a", "b">>, !.upto = 1]
    @@ "cpr"    :> [Line("COPY") EXCEPT !.path = <<"a", "b">>, !.upto = 2]
    @@ "cpo"    :> [Line("COPY") EXCEPT !.path = <<"a", "c">>, !.opens = FALSE]
    @@ "bi"     :> [Line("BUILTIN") EXCEPT !.path = <<"a", "b">>]
    @@ "bia"    :> [Line("BUILTIN") EXCEPT !.path = <<"a", "c">>]
FileOf(s) == [i \in DOMAIN s |-> Directives[s[i]]]
Empty == <<>> :> Boots!Directory
Host == Empty @@ <<"h">> :> Boots!File(<<"y", "z">>)

-----------------------------------------------------------------------------
(* The properties: what holds of the text t that a step has written.       *)

\* ParserFollowsGrammar: the parser takes the programs of the shell grammar and
\* no others, however the commands, lists and separators nest (HshParser).
TakesTheGrammar(t) == part \in {"grammar", "loops", "chosen"} => ParserFollowsGrammar(Text(t))

\* ScanFindsTheEnd: a command substitution ends, for the lexer that looks for its
\* ")" without parsing, where a command the parser takes ends (HshLexer,
\* ReadCommandSubstitution).
SubstitutionEndsWithItsCommand(t) == part \in {"scan", "clauses"} => ScanFindsTheEnd(Text(t))

\* The lexer and the parser agree with the grammar on where commands begin, end
\* and are wrong (HshLexer.cpp, HshParser.cpp).
TakesThePrograms ==
    [][\A t \in {text'} : TakesTheGrammar(t) /\ SubstitutionEndsWithItsCommand(t)]_vars

\* ContinuationVanishes: a backslash and a newline anywhere outside single quotes
\* change no token, in a ${...}, a $(...) and a here-document too (HshLexer,
\* SkipContinuations and ReadHereDocBodies).
ContinuationsVanish(t) == part \in {"cut", "cutBraces", "cutBody"} => ContinuationVanishes(Text(t))

\* TypedLineByLine: an interactive shell that reads on while a command is
\* incomplete runs what a script of the same lines runs (Shell::RunInteractive,
\* ParseNext, IncompleteInput).
TypedRunsAsWritten(t) == part \in {"typed", "typedBody", "typedList"} => TypedLineByLine(Text(t))

\* SourceTextIsTheCommand: a job or a function run again from its recorded text,
\* here-documents appended, is the command it was (HshParser, BuildSourceText).
RecordedTextRunsAgain(t) == part \in {"source", "function"} => SourceTextIsTheCommand(Text(t))

\* A program is the same one however it reaches the parser: with its lines joined,
\* typed or recorded (HshLexer.cpp, HshParser.cpp, HshShell.cpp).
ProgramsReadAlike ==
    [][\A t \in {text'} :
           ContinuationsVanish(t) /\ TypedRunsAsWritten(t) /\ RecordedTextRunsAgain(t)]_vars

\* SplitWhereIfsSays: the value of a parameter falls into the fields IFS cuts it
\* into; quoted characters and those of the word itself never separate
\* (HshExpansion, SplitField).
SplitsWhereIfsSays(t) ==
    part = "split" => SplitWhereIfsSays([k \in DOMAIN t |-> ElementOf(t[k])], Shell)

\* A value in quotes is one field, a word that is not to be split is the text an
\* assignment would take, and a name that ls or a message shows quoted comes back
\* as that name when it is typed (HshExpansion, ShellSingleQuote,
\* ShellEscapeQuoted).
OneWordStaysOne(t) ==
    CASE part = "whole"  -> QuotedStaysWhole(Text(t), Shell)
      [] part \in {"never", "braces"} -> NeverSplit(Text(t), Shell)
      [] part = "names"  -> \A always \in BOOLEAN :
             ExpandWord(Lex(Args!ShellEscapeQuoted(Text(t), always), FALSE)[1].parts, Shell).fields = <<Text(t)>>
      [] OTHER           -> TRUE

\* A word becomes the fields that were meant (HshExpansion.cpp).
WordsBecomeTheirFields == [][\A t \in {text'} : SplitsWhereIfsSays(t) /\ OneWordStaysOne(t)]_vars

\* WordExpandsToWhatFits, PatternMatchesWhatFits: a pattern matches the texts it
\* describes, wherever its stars and brackets stand, escaped or not, and a word becomes the
\* paths whose components match, sorted, hidden ones only for a "." (HshPattern,
\* HshGlob).
PatternsMatchWhatFits ==
    [][\A t \in {text'} :
           /\ part = "glob" => WordExpandsToWhatFits(Text(t), Shell)
           /\ part \in {"bracket", "class"} => PatternMatchesWhatFits(Text(t), Samples)]_vars

\* ArithmeticAsMeant: the value $((...)) gives is that of its formula, parsed by
\* precedence and computed in the width of its integers, and what the side not
\* taken of ?:, && and || would assign stays unassigned (HshArithmetic).
ArithmeticMeansIt ==
    [][\A t \in {text'} :
           part \in {"compare", "assign", "divide", "operators", "shortcut"} =>
                ArithmeticAsMeant(Text(t), Sum)]_vars

\* CatWritesItsFilesInOrder: the lines of all files are numbered, squeezed and
\* marked as one text, wherever a read ended, and a file that fails takes nothing
\* of the others with it (Cat).
CatWritesInOrder(t) ==
    part \in {"numbered", "visible"} =>
        \A set \in CatSets : Cats!CatWritesItsFilesInOrder(FilesOf(t, "read"), set)

\* WcCountsWhatItReads: the counts are those of the whole text, also where a read
\* ends within a character, and the total is theirs together (Wc).
WcCounts(t) ==
    part \in {"spaces", "cutBytes", "wide", "files"} =>
        \A posix \in BOOLEAN, total \in {<<"a", "u", "t", "o">>, <<"o", "n", "l", "y">>} :
            Wcs!WcCountsWhatItReads(FilesOf(t, "file"), posix, total)

\* Where reads and files end shows in nothing a command makes of them (Cat.cpp,
\* Wc.cpp).
ReadsAreSeamless == [][\A t \in {text'} : CatWritesInOrder(t) /\ WcCounts(t)]_vars

\* EveryWayOfWritingIsRead: options in any place, bundled, abbreviated, with a
\* value attached or apart, are the options and operands that were meant
\* (ParseBuiltinArgs).
ArgumentsAreRead ==
    [][\A t \in {text'} : part = "arguments" => Args!EveryWayOfWritingIsRead(t)]_vars

\* OutputKeepsItsOrder: output and messages of a command appear in the order
\* it wrote them, buffered or not, and none behind a failed write
\* (BuiltinContext).
OutputInOrder ==
    [][\A t \in {text'} :
           part = "output" => \A terminal \in BOOLEAN : Args!OutputKeepsItsOrder(t, terminal, 3)]_vars

\* TokensComeBack, ContentComesBack: an argument or the content of a file, quoted
\* as the haisosfile's rules say, is read back as it was (HaisosFileParser).
WhatIsQuotedComesBack ==
    [][\A t \in {text'} :
           /\ part = "tokens" => Lines!TokensComeBack(FirstPart(t), SecondPart(t))
           /\ part = "contents" /\ "\n" \notin Range(FirstPart(t))
                 => Lines!ContentComesBack(FirstPart(t), SecondPart(t))]_vars

\* BootsAsDeclared: a file that starts has its directives in order, each name
\* declared once and before its use, and an override takes effect or is refused
\* (HaisosFileParser, BuildRootFileSystem).
StartsAsDeclared(t) ==
    CASE part = "order"  -> \A overrides \in SUBSET {"n", "z"} : Boots!BootsAsDeclared(FileOf(t), overrides)
      [] part = "mounts" -> Boots!BootsAsDeclared(Append(FileOf(t), Line("RUN")), {})
      [] OTHER           -> TRUE

\* FilesAreSetUpAsWritten: the operations of a haisosfile leave the tree their
\* order describes, and stop at the first that fails (HaisosFileOperations).
SetsUpAsWritten(t) == part = "setUp" => Boots!FilesAreSetUpAsWritten(Empty, FileOf(t), Host)

\* ExitStatusTellsTheRuns: haisos exits by the first run, in file order, that did
\* not end well, and with 0 only if all did and everything was copied out; the
\* host's files change only when something has run (main.cpp).
ExitStatusTells(t) == part = "endings" => Boots!ExitStatusTellsTheRuns(FileOf(t), {}, Empty, Host)

\* From its haisosfile a machine is put together, filled, run and reported on as
\* the file says, or not at all (HaisosFileParser.cpp, HaisosFileOperations.cpp,
\* main.cpp).
BootsAsWritten ==
    [][\A t \in {text'} : StartsAsDeclared(t) /\ SetsUpAsWritten(t) /\ ExitStatusTells(t)]_vars
=============================================================================
