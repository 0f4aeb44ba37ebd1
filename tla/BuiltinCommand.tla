-------------------------- MODULE BuiltinCommand --------------------------
(* What every command compiled into Haisos is built on: the parser of its  *)
(* arguments, its two output streams, and the quoting of the names it      *)
(* prints.  A word is a sequence of characters.                            *)
EXTENDS Integers, FiniteSetsExt, SequencesExt

Dash == "-"
NoName == << >>
HelpOption == [id |-> "help", short |-> NoName, argument |-> "None",
                  long |-> <<"h","e","l","p">>]
VersionOption == [id |-> "version", short |-> NoName, argument |-> "None",
                  long |-> <<"v","e","r","s","i","o","n">>]
CommonOptions == {HelpOption, VersionOption}

\* Faulty variant: the first option the name begins, however many it does.
LongOptionsFirst(name, table) ==
    LET begun == {o \in table \union CommonOptions : o.long # NoName /\ IsPrefix(name, o.long)}
    IN  IF begun = {} THEN {} ELSE {CHOOSE o \in begun : TRUE}

(* FindLongOption: the option of that very name, else those it begins. *)
LongOptions(name, table) ==
    LET named == {o \in table \union CommonOptions : o.long # NoName /\ o.long = name}
    IN  IF named # {} THEN named
        ELSE {o \in table \union CommonOptions : o.long # NoName /\ IsPrefix(name, o.long)}

ShortOptions(c, table) == {o \in table : o.short = <<c>>}

NothingParsed == [options |-> << >>, operands |-> << >>, error |-> FALSE]
Failed(parsed) == [parsed EXCEPT !.error = TRUE]
Found(parsed, option, spelling, hasArgument, argument) ==
    [parsed EXCEPT !.options = Append(@, [id |-> option.id, spelling |-> spelling,
                                          hasArgument |-> hasArgument,
                                          argument |-> argument])]

RECURSIVE ParseCluster(_, _, _, _)
(* The letters of one "-..." word; rest are the words behind it.  What is *)
(* left of the words, with what was parsed. *)
ParseCluster(parsed, letters, rest, table) ==
    IF letters = << >> THEN [parsed |-> parsed, rest |-> rest]
    ELSE LET options  == ShortOptions(Head(letters), table)
             option   == CHOOSE o \in options : TRUE
             spelling == <<Dash, Head(letters)>>
             attached == Tail(letters)
         IN  CASE options = {} -> [parsed |-> Failed(parsed), rest |-> rest]
               [] options # {} /\ option.argument = "Required" ->
                    IF attached # << >>
                    THEN [parsed |-> Found(parsed, option, spelling, TRUE, attached), rest |-> rest]
                    ELSE IF rest # << >>
                    THEN [parsed |-> Found(parsed, option, spelling, TRUE, Head(rest)),
                          rest |-> Tail(rest)]
                    ELSE [parsed |-> Failed(parsed), rest |-> rest]
               [] options # {} /\ option.argument = "OptionalAttached" /\ attached # << >> ->
                    [parsed |-> Found(parsed, option, spelling, TRUE, attached), rest |-> rest]
               [] OTHER -> ParseCluster(Found(parsed, option, spelling, FALSE, << >>),
                                        attached, rest, table)

(* One "--name" or "--name=argument" word. *)
ParseLong(parsed, word, rest, table) ==
    LET eqs      == {i \in DOMAIN word : word[i] = "="}
        name     == SubSeq(word, 3, IF eqs = {} THEN Len(word) ELSE Min(eqs) - 1)
        options  == LongOptions(name, table)
        option   == CHOOSE o \in options : TRUE
        spelling == <<Dash, Dash>> \o option.long
    IN  CASE Cardinality(options) # 1 -> [parsed |-> Failed(parsed), rest |-> rest]
          [] Cardinality(options) = 1 /\ eqs # {} ->
               IF option.argument = "None" THEN [parsed |-> Failed(parsed), rest |-> rest]
               ELSE [parsed |-> Found(parsed, option, spelling, TRUE,
                                      SubSeq(word, Min(eqs) + 1, Len(word))), rest |-> rest]
          [] Cardinality(options) = 1 /\ eqs = {} ->
               IF option.argument # "Required"
               THEN [parsed |-> Found(parsed, option, spelling, FALSE, << >>), rest |-> rest]
               ELSE IF rest = << >> THEN [parsed |-> Failed(parsed), rest |-> rest]
               ELSE [parsed |-> Found(parsed, option, spelling, TRUE, Head(rest)),
                     rest |-> Tail(rest)]

RECURSIVE ParseWords(_, _, _)
ParseWords(parsed, words, table) ==
    IF words = << >> \/ parsed.error THEN parsed
    ELSE LET word == Head(words)
             rest == Tail(words)
             next == IF IsPrefix(<<Dash, Dash>>, word)
                     THEN ParseLong(parsed, word, rest, table)
                     ELSE ParseCluster(parsed, Tail(word), rest, table)
         IN  CASE word = <<Dash, Dash>> -> [parsed EXCEPT !.operands = @ \o rest]
               [] Len(word) > 1 /\ word[1] = Dash /\ word # <<Dash, Dash>> ->
                    ParseWords(next.parsed, next.rest, table)
               [] Len(word) < 2 \/ word[1] # Dash ->
                    ParseWords([parsed EXCEPT !.operands = Append(@, word)], rest, table)

ParseBuiltinArgs(words, table) == ParseWords(NothingParsed, words, table)

(* BeginBuiltin: a usage error, or the first of --help and --version, ends *)
(* the command; else it runs, each option spelled that it does not treat   *)
(* reported once. *)
BeginBuiltin(words, table) ==
    LET parsed  == ParseBuiltinArgs(words, table)
        asking  == {i \in DOMAIN parsed.options :
                      parsed.options[i].id \in {"help", "version"}}
        spelled == [i \in DOMAIN parsed.options |->
                      IF parsed.options[i].id = "notTreated"
                      THEN <<parsed.options[i].spelling>> ELSE << >>]
    IN  CASE parsed.error -> [does |-> "usage", reported |-> << >>]
          [] ~parsed.error /\ asking # {} ->
               [does |-> parsed.options[Min(asking)].id, reported |-> << >>]
          [] ~parsed.error /\ asking = {} ->
               [does |-> "runs",
                reported |-> FoldLeft(LAMBDA seen, s :
                               IF s \in Range(seen) THEN seen ELSE Append(seen, s),
                               << >>, FlattenSeq(spelled))]

---------------------------------------------------------------------------
(* The ways to write the arguments.  An item of a command line is one of   *)
(* these, over a table with -a/--all, -w/--width (an argument required),   *)
(* -T/--tab (one only when attached) and --total, not treated.             *)

Spelling(word) == CASE word = "all" -> <<"a","l","l">>
                   [] word = "width" -> <<"w","i","d","t","h">>
                   [] word = "tab" -> <<"t","a","b">>
                   [] word = "total" -> <<"t","o","t","a","l">>

Entry(id, short, long, argument) ==
    [id |-> id, short |-> short, long |-> Spelling(long), argument |-> argument]

SampleTable == {Entry("all", <<"a">>, "all", "None"),
                Entry("width", <<"w">>, "width", "Required"),
                Entry("tab", <<"T">>, "tab", "OptionalAttached"),
                Entry("notTreated", NoName, "total", "None")}

Long(word) == <<Dash, Dash>> \o Spelling(word)
Chosen(id, hasArgument, argument) ==
    [id |-> id, hasArgument |-> hasArgument, argument |-> argument]

(* Each item: the words it is written as, and the option it means. *)
Items ==
    [short   |-> [words |-> <<<<Dash, "a">>>>, means |-> Chosen("all", FALSE, << >>)],
     long    |-> [words |-> <<Long("all")>>, means |-> Chosen("all", FALSE, << >>)],
     brief   |-> [words |-> <<<<Dash, Dash, "a">>>>, means |-> Chosen("all", FALSE, << >>)],
     apart   |-> [words |-> <<<<Dash, "w">>, <<Dash, "a">>>>,
                  means |-> Chosen("width", TRUE, <<Dash, "a">>)],
     tight   |-> [words |-> <<<<Dash, "w", "a">>>>, means |-> Chosen("width", TRUE, <<"a">>)],
     equal   |-> [words |-> <<Long("width") \o <<"=">>>>, means |-> Chosen("width", TRUE, << >>)],
     wide    |-> [words |-> <<<<Dash, Dash, "w">>, <<Dash, Dash>>>>,
                  means |-> Chosen("width", TRUE, <<Dash, Dash>>)],
     tab     |-> [words |-> <<<<Dash, "T">>>>, means |-> Chosen("tab", FALSE, << >>)],
     tabbed  |-> [words |-> <<<<Dash, "T", "w">>>>, means |-> Chosen("tab", TRUE, <<"w">>)],
     unheard |-> [words |-> <<Long("total")>>, means |-> Chosen("notTreated", FALSE, << >>)],
     help    |-> [words |-> <<<<Dash, Dash, "h">>>>, means |-> Chosen("help", FALSE, << >>)],
     version |-> [words |-> <<<<Dash, Dash, "v">>>>, means |-> Chosen("version", FALSE, << >>)]]
OperandItems ==
    [name |-> <<"a">>, dash |-> <<Dash>>, empty |-> << >>]
WrongItems ==
    [unknown |-> <<Dash, "z">>, twoways |-> <<Dash, Dash, "t">>,
     given |-> Long("all") \o <<"=">>, nothing |-> <<Dash, Dash, "=">>]

(* A line is written item by item: the short -a joins the cluster of the   *)
(* -a before it when joined holds of it, and takes a -w or -T behind it.   *)
Write(line, item) ==
    LET wordsOf == CASE item \in DOMAIN Items -> Items[item].words
                     [] item \in DOMAIN OperandItems -> <<OperandItems[item]>>
                     [] item \in DOMAIN WrongItems -> <<WrongItems[item]>>
                     [] item = "end" -> << <<Dash, Dash>> >>
        joins == /\ line.open /\ item \in {"short", "apart", "tight", "tab", "tabbed"}
        rest  == SubSeq(line.words, 1, Len(line.words) - 1)
    IN  [words |-> IF joins THEN rest \o <<Last(line.words) \o Tail(Head(wordsOf))>>
                                 \o Tail(wordsOf)
                   ELSE line.words \o wordsOf,
         open  |-> item = "short",
         ended |-> line.ended \/ item = "end",
         wrong |-> line.wrong \/ (~line.ended /\ item \in DOMAIN WrongItems),
         options  |-> IF ~line.ended /\ item \in DOMAIN Items
                      THEN Append(line.options, Items[item].means) ELSE line.options,
         operands |-> IF line.ended THEN line.operands \o wordsOf
                      ELSE IF item \in DOMAIN OperandItems
                      THEN Append(line.operands, OperandItems[item]) ELSE line.operands]

BlankCommandLine == [words |-> << >>, open |-> FALSE, ended |-> FALSE, wrong |-> FALSE,
                     options |-> << >>, operands |-> << >>]

(* The written line; an item behind "--" never joins. *)
Written(items) ==
    FoldLeft(LAMBDA line, i : Write([line EXCEPT !.open = @ /\ ~line.ended], i),
             BlankCommandLine, items)

(* EveryWayOfWritingIsRead: whichever way each option is written (alone, in *)
(* a cluster, abbreviated, its argument attached or the next word), the     *)
(* command is told the options and operands that were meant, in order; an   *)
(* argument wrong anywhere before "--" is an error; --help and --version    *)
(* win over everything else; and an option not treated is reported once.    *)
EveryWayOfWritingIsRead(items) ==
    LET line   == Written(items)
        parsed == ParseBuiltinArgs(line.words, SampleTable)
        begun  == BeginBuiltin(line.words, SampleTable)
        asked  == SelectSeq(line.options, LAMBDA o : o.id \in {"help", "version"})
        heard  == \E i \in DOMAIN line.options : line.options[i].id = "notTreated"
    IN  /\ parsed.error <=> line.wrong
        /\ ~line.wrong =>
             /\ [i \in DOMAIN parsed.options |->
                    Chosen(parsed.options[i].id, parsed.options[i].hasArgument,
                           parsed.options[i].argument)] = line.options
             /\ parsed.operands = line.operands
             /\ begun.does = IF asked = << >> THEN "runs" ELSE Head(asked).id
             /\ asked = << >> =>
                  begun.reported = IF heard THEN <<Long("total")>> ELSE << >>

---------------------------------------------------------------------------
(* Output.  Standard output is written at once to a terminal and in blocks *)
(* to anything else, standard error always at once.  seen is what reaches  *)
(* the one place both of them go to; a stream is "fine", "full" (a write   *)
(* on it fails) or "gone" (its reader is).                                 *)

NewContext(terminal) ==
    [terminal |-> terminal, buffer |-> << >>, outFailed |-> FALSE,
     brokenPipe |-> FALSE, seen |-> << >>, out |-> "fine", err |-> "fine"]

(* WriteAll on one of the streams. *)
WriteAll(x, stream, text) ==
    CASE x.brokenPipe -> x
      [] ~x.brokenPipe /\ x[stream] = "fine" -> [x EXCEPT !.seen = @ \o text]
      [] ~x.brokenPipe /\ x[stream] = "gone" -> [x EXCEPT !.brokenPipe = text # << >>]
      [] ~x.brokenPipe /\ x[stream] = "full" -> x

WriteOut(x, text) ==
    [WriteAll(x, "out", text) EXCEPT
        !.outFailed = x.brokenPipe \/ (x.out # "fine" /\ text # << >>)]

Flush(x) ==
    IF x.outFailed \/ x.buffer = << >> THEN [x EXCEPT !.buffer = << >>]
    ELSE WriteOut([x EXCEPT !.buffer = << >>], x.buffer)

Out(x, text, block) ==
    CASE x.outFailed -> x
      [] ~x.outFailed /\ x.terminal -> IF text = << >> THEN x ELSE WriteOut(x, text)
      [] ~x.outFailed /\ ~x.terminal ->
           LET held == [x EXCEPT !.buffer = @ \o text]
           IN  IF Len(held.buffer) >= block THEN Flush(held) ELSE held

\* Faulty variant: a message goes out before what is buffered.
ErrorUnflushed(x, text) == WriteAll(x, "err", text)

(* Error, ErrorText and NotTreated. *)
Error(x, text) == WriteAll(Flush(x), "err", text)

(* What happens to a running command, in turn: it writes some text of 1 or *)
(* 2 bytes, or a message, or one of its streams goes bad.  The text of the *)
(* i-th event is made of i's. *)
Happens(x, i, event, block) ==
    CASE event = "some" -> Out(x, <<i>>, block)
      [] event = "more" -> Out(x, <<i, i>>, block)
      [] event = "none" -> Out(x, << >>, block)
      [] event = "message" -> Error(x, <<i>>)
      [] event = "full" -> [x EXCEPT !.out = "full"]
      [] event = "gone" -> [x EXCEPT !.out = "gone"]
      [] event = "lost" -> [x EXCEPT !.err = "gone"]

After(events, terminal, block) ==
    FoldLeftDomain(LAMBDA x, i : Happens(x, i, events[i], block),
                   NewContext(terminal), events)

(* OutputKeepsItsOrder: what a command says is seen in the order it said    *)
(* it, messages and output together; nothing is lost while the streams are  *)
(* fine, and a terminal has seen all of it already; once a write has failed *)
(* no later output is seen behind the gap; and once a reader is gone the    *)
(* command writes nothing more.                                             *)
OutputKeepsItsOrder(events, terminal, block) ==
    LET now    == After(events, terminal, block)
        end    == Flush(now)
        Said(kinds) == FlattenSeq([i \in DOMAIN events |->
                          CASE events[i] \notin kinds -> << >>
                            [] events[i] = "none" -> << >>
                            [] events[i] = "more" -> <<i, i>>
                            [] OTHER -> <<i>>])
        output == {"some", "more", "none"}
        bad    == {i \in DOMAIN events : events[i] \in {"full", "gone", "lost"}}
        Of(kinds, s) == SelectSeq(s, LAMBDA i : events[i] \in kinds)
        silent == {i \in DOMAIN events :
                     After(SubSeq(events, 1, i), terminal, block).brokenPipe}
    IN  /\ \A i, j \in DOMAIN end.seen : i < j => end.seen[i] <= end.seen[j]
        /\ IsPrefix(Of(output, end.seen), Said(output))
        /\ bad = {} => /\ end.seen = Said(output \union {"message"})
                       /\ terminal => now.seen = end.seen
        /\ \A i \in DOMAIN events :
              (events[i] = "message" /\ silent \intersect 1..i = {})
                 => i \in Range(end.seen)
        /\ \A k \in silent : After(SubSeq(events, 1, k), terminal, block).seen = end.seen

---------------------------------------------------------------------------
(* ShellEscapeQuoted, for a name without control bytes: as it is, when no  *)
(* shell reads anything in it specially; else quoted.                      *)

ShellEscapeSpecial == {" ", "!", "\"", "$", "&", "'", "(", ")", "*", ";", "<",
                       "=", ">", "?", "[", "\\", "^", "bq", "|"}

ShellEscapeNeedsQuoting(name) ==
    \/ name = << >>
    \/ name[1] \in {"#", "~"}
    \/ name \in {<<"{">>, <<"}">>}
    \/ Range(name) \intersect ShellEscapeSpecial # {}

\* Faulty variant: a name with a quote in it is put in double quotes, whatever else it holds.
ShellEscapeDoubled(name, always) ==
    CASE ~ShellEscapeNeedsQuoting(name) /\ ~always -> name
      [] "'" \in Range(name) -> <<"\"">> \o name \o <<"\"">>
      [] OTHER -> <<"'">> \o name \o <<"'">>

ShellEscapeQuoted(name, always) ==
    CASE ~ShellEscapeNeedsQuoting(name) ->
           IF always THEN <<"'">> \o name \o <<"'">> ELSE name
      [] ShellEscapeNeedsQuoting(name) /\ "'" \notin Range(name) ->
           <<"'">> \o name \o <<"'">>
      [] ShellEscapeNeedsQuoting(name) /\ "'" \in Range(name) ->
           IF Range(name) \intersect (ShellEscapeSpecial \ {" ", "'"}) = {}
           THEN <<"\"">> \o name \o <<"\"">>
           ELSE <<"'">> \o FlattenSeq([i \in DOMAIN name |->
                              IF name[i] = "'" THEN <<"'", "\\", "'", "'">>
                              ELSE <<name[i]>>]) \o <<"'">>
===========================================================================
