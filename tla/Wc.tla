------------------------------- MODULE Wc --------------------------------
(* The wc command: each input is read a piece at a time, and its lines,    *)
(* words, characters, bytes and longest line are counted as the pieces     *)
(* come; a character of several bytes that a piece ends in the middle of   *)
(* is carried into the next one.  Bytes and code points are numbers.       *)
EXTENDS Integers, FiniteSetsExt, SequencesExt

LF == 10
CarriageReturn == 13
FormFeed == 12
VerticalTab == 11
HorizontalTab == 9
Blank == 32

---------------------------------------------------------------------------
(* Unicode: strict UTF-8, and the character classes. *)

(* What a lead byte fixes: how long its sequence is and which second bytes *)
(* it takes; length 0 is no lead byte at all. *)
LeadByte(b) ==
    CASE b \in 194..223 -> [length |-> 2, second |-> 128..191, bits |-> b % 32]
      [] b = 224        -> [length |-> 3, second |-> 160..191, bits |-> b % 16]
      [] b = 237        -> [length |-> 3, second |-> 128..159, bits |-> b % 16]
      [] b \in 225..239 /\ b # 237 -> [length |-> 3, second |-> 128..191, bits |-> b % 16]
      [] b = 240        -> [length |-> 4, second |-> 144..191, bits |-> b % 8]
      [] b \in 241..243 -> [length |-> 4, second |-> 128..191, bits |-> b % 8]
      [] b = 244        -> [length |-> 4, second |-> 128..143, bits |-> b % 8]
      [] OTHER          -> [length |-> 0, second |-> {}, bits |-> 0]

(* DecodeUtf8: the character at the head of bytes, which are not empty. *)
Decode(bytes) ==
    LET lead == LeadByte(bytes[1])
        Continues(i) == bytes[i] \in (IF i = 2 THEN lead.second ELSE 128..191)
        bad == \E i \in 2..Min({lead.length, Len(bytes)}) : ~Continues(i)
    IN  CASE bytes[1] <= 127 -> [status |-> "ok", code |-> bytes[1], length |-> 1]
          [] bytes[1] > 127 /\ (lead.length = 0 \/ bad) ->
                [status |-> "invalid", code |-> 0, length |-> 1]
          [] lead.length > Len(bytes) /\ ~bad ->
                [status |-> "incomplete", code |-> 0, length |-> 0]
          [] lead.length \in 2..Len(bytes) /\ ~bad ->
                [status |-> "ok", length |-> lead.length,
                 code |-> FoldLeft(LAMBDA c, b : c * 64 + (b % 64), lead.bits,
                                   SubSeq(bytes, 2, lead.length))]

IsPrintable(c) ==
    /\ c > 31 /\ c \notin 127..159 /\ c <= 1114111
    /\ c \notin {8232, 8233} /\ c \notin 64976..65007 /\ c \notin 55296..57343
    /\ c % 65536 \notin {65534, 65535}

IsSpace(c) == \/ c \in {32, 5760, 8232, 8233, 8287, 12288} \/ c \in 9..13
              \/ c \in 8192..8198 \/ c \in 8200..8202

IsNoBreakSpace(c) == c \in {160, 8199, 8239, 8288}

(* The width tables, down to the combining marks and the CJK ideographs. *)
DisplayWidth(c) ==
    CASE ~IsPrintable(c) -> -1
      [] c \in 768..879 -> 0
      [] c \in 19968..40959 -> 2
      [] OTHER -> 1

---------------------------------------------------------------------------
(* Counting. *)

NoCounts == [lines |-> 0, words |-> 0, chars |-> 0, bytes |-> 0,
             maxLineLength |-> 0, linePos |-> 0, inWord |-> FALSE,
             carry |-> << >>]

Longest(k) == [k EXCEPT !.maxLineLength = Max({@, k.linePos})]

EndsWord(k) == [k EXCEPT !.words = IF k.inWord THEN @ + 1 ELSE @, !.inWord = FALSE]

(* What one character does to the counts. *)
CountCharacter(k, c, posix) ==
    LET n == [k EXCEPT !.chars = @ + 1]
        wide == [n EXCEPT !.linePos = @ + Max({DisplayWidth(c), 0})]
    IN  CASE c \in {LF, CarriageReturn, FormFeed} ->
                 EndsWord([Longest(n) EXCEPT !.linePos = 0,
                               !.lines = IF c = LF THEN @ + 1 ELSE @])
          [] c = HorizontalTab -> EndsWord([n EXCEPT !.linePos = @ + 8 - (@ % 8)])
          [] c = Blank -> EndsWord([n EXCEPT !.linePos = @ + 1])
          [] c = VerticalTab -> EndsWord(n)
          [] OTHER -> CASE ~IsPrintable(c) -> n
                        [] IsPrintable(c) /\ (IsSpace(c) \/ (~posix /\ IsNoBreakSpace(c))) ->
                               EndsWord(wide)
                        [] OTHER -> [wide EXCEPT !.inWord = TRUE]

RECURSIVE FeedBytes(_, _, _)
FeedBytes(k, bytes, posix) ==
    IF bytes = << >> THEN k
    ELSE LET d == Decode(bytes)
         IN  CASE d.status = "incomplete" -> [k EXCEPT !.carry = bytes]
               [] d.status = "invalid" -> FeedBytes(k, Tail(bytes), posix)
               [] d.status = "ok" ->
                    FeedBytes(CountCharacter(k, d.code, posix),
                              SubSeq(bytes, d.length + 1, Len(bytes)), posix)

\* Faulty variant: a character cut by the end of a piece is not carried.
FeedUncarried(k, piece, posix) ==
    [FeedBytes([k EXCEPT !.bytes = @ + Len(piece)], piece, posix)
        EXCEPT !.carry = << >>]

(* WcFeed: one piece, behind what the last one left. *)
Feed(k, piece, posix) ==
    FeedBytes([k EXCEPT !.bytes = @ + Len(piece), !.carry = << >>],
              k.carry \o piece, posix)

Finish(k) == EndsWord(Longest(k))

(* WcRead, to the end of the input or to a read that fails: both count the *)
(* input's last line and word. *)
CountInput(pieces, posix) ==
    Finish(FoldLeft(LAMBDA k, p : Feed(k, p, posix), NoCounts, pieces))

Accumulate(totals, k) ==
    [totals EXCEPT !.lines = @ + k.lines, !.words = @ + k.words,
                   !.chars = @ + k.chars, !.bytes = @ + k.bytes,
                   !.maxLineLength = Max({@, k.maxLineLength})]

---------------------------------------------------------------------------
(* The command.  An operand is [kind, pieces, size]: "file" is a regular   *)
(* file, "stream" the standard input or a device, read to their end;       *)
(* "broken" a file whose read fails after the pieces; "stopped" one a stop *)
(* meets; "dir" a directory; "missing" one that cannot be opened; "empty"  *)
(* an empty name.  size is what Stat says of a file.                       *)

Columns == <<"lines", "words", "chars", "bytes", "maxLineLength">>
SelectedColumns(selection) == SelectSeq(Columns, LAMBDA c : c \in selection)

(* No selecting option is -l -w -c. *)
SelectionOf(options) ==
    IF options \intersect Range(Columns) = {} THEN {"lines", "words", "bytes"}
    ELSE options \intersect Range(Columns)

TotalModes == {<<"a","u","t","o">>, <<"a","l","w","a","y","s">>,
               <<"o","n","l","y">>, <<"n","e","v","e","r">>}

(* MatchTotalValue: an exact mode, or the only one it begins. *)
MatchTotalValue(value) ==
    LET begun == {m \in TotalModes : IsPrefix(value, m)}
    IN  CASE value \in TotalModes -> [match |-> "matched", mode |-> value]
          [] value \notin TotalModes /\ Cardinality(begun) = 1 ->
                [match |-> "matched", mode |-> CHOOSE m \in begun : TRUE]
          [] Cardinality(begun) > 1 -> [match |-> "ambiguous", mode |-> << >>]
          [] begun = {} -> [match |-> "invalid", mode |-> << >>]

RECURSIVE Digits(_)
Digits(n) == IF n < 10 THEN 1 ELSE 1 + Digits(n \div 10)

(* ComputeWidth: the width of a column, from the sizes of the files. *)
ComputeWidth(operands, totalOnly, namesFromStdin, columns) ==
    LET total == FoldLeft(LAMBDA s, o :
                     IF o.kind \in {"file", "broken", "stopped"} THEN s + o.size ELSE s,
                     0, operands)
        minimum == IF operands = << >> \/ \E i \in DOMAIN operands :
                          operands[i].kind \in {"stream", "dir"} THEN 7 ELSE 1
    IN  IF \/ totalOnly
           \/ namesFromStdin
           \/ Len(operands) <= 1 /\ columns = 1 THEN 1
        ELSE Max({Digits(total), minimum})

NewWcRun == [totals |-> NoCounts, printed |-> << >>, status |-> 0, stopped |-> FALSE]

CountOperand(run, operand, posix, printLines) ==
    LET counts == CASE operand.kind \in {"file", "stream", "broken"} ->
                           CountInput(operand.pieces, posix)
                    [] OTHER -> NoCounts
    IN  CASE run.stopped -> run
          [] ~run.stopped /\ operand.kind = "stopped" ->
                [run EXCEPT !.stopped = TRUE, !.status = 1]
          [] OTHER ->
                [totals  |-> Accumulate(run.totals, counts),
                 printed |-> IF printLines /\ operand.kind \notin {"missing", "empty"}
                             THEN Append(run.printed, counts) ELSE run.printed,
                 status  |-> IF operand.kind \in {"file", "stream"} THEN run.status ELSE 1,
                 stopped |-> FALSE]

(* Run: a line of counts for each operand, and the total. *)
WcRun(operands, posix, mode) ==
    LET only  == mode = <<"o","n","l","y">>
        end   == FoldLeft(LAMBDA r, o : CountOperand(r, o, posix, ~only),
                          NewWcRun, operands)
        total == \/ only
                 \/ mode = <<"a","l","w","a","y","s">>
                 \/ mode = <<"a","u","t","o">> /\ Len(operands) > 1
    IN  [printed |-> IF total /\ ~end.stopped THEN Append(end.printed, end.totals)
                     ELSE end.printed,
         status  |-> end.status]

(* SplitNames: the names of --files0-from, each ended by a NUL, the last *)
(* one by the end of the list. *)
SplitNames(list, nul) ==
    LET nuls  == {i \in DOMAIN list : list[i] = nul}
        ends  == nuls \union (IF list # << >> /\ Last(list) # nul
                              THEN {Len(list) + 1} ELSE {})
    IN  [k \in 1..Cardinality(ends) |->
            LET e == CHOOSE x \in ends : Cardinality({d \in ends : d <= x}) = k
                b == Max({0} \union {d \in ends : d < e})
            IN  SubSeq(list, b + 1, e - 1)]

---------------------------------------------------------------------------
(* What is to be counted, of a whole text at once. *)

RECURSIVE Characters(_)
(* The complete characters of a text, the bytes of no character left out. *)
Characters(bytes) ==
    IF bytes = << >> THEN << >>
    ELSE LET fits == {n \in 1..Min({4, Len(bytes)}) :
                         Decode(SubSeq(bytes, 1, n)).status = "ok"}
         IN  IF fits = {} THEN Characters(Tail(bytes))
             ELSE <<Decode(SubSeq(bytes, 1, Min(fits))).code>>
                  \o Characters(SubSeq(bytes, Min(fits) + 1, Len(bytes)))

(* The pieces of a sequence between the elements Cuts holds of. *)
Between(s, Cuts(_)) ==
    LET ends == {i \in DOMAIN s : Cuts(s[i])} \union {Len(s) + 1}
    IN  {SubSeq(s, Max({0} \union {d \in ends : d < e}) + 1, e - 1) : e \in ends}

(* How many of those pieces hold an element that Counts holds of. *)
CountBetween(s, Cuts(_), Counts(_)) ==
    LET ends == {i \in DOMAIN s : Cuts(s[i])} \union {Len(s) + 1}
    IN  Cardinality({e \in ends :
            \E i \in (Max({0} \union {d \in ends : d < e}) + 1)..(e - 1) : Counts(s[i])})

LineWidth(line) ==
    FoldLeft(LAMBDA w, c : CASE c = HorizontalTab -> 8 * (w \div 8 + 1)
                             [] c # HorizontalTab -> w + Max({0, DisplayWidth(c)}),
             0, line)

CountsMean(bytes, posix) ==
    LET chars == Characters(bytes)
        Separates(c) == \/ IsSpace(c) /\ c \notin {8232, 8233}
                        \/ ~posix /\ IsNoBreakSpace(c)
        Visible(c) == IsPrintable(c) /\ ~Separates(c)
    IN  [lines |-> Cardinality({i \in DOMAIN bytes : bytes[i] = LF}),
         words |-> CountBetween(chars, Separates, Visible),
         chars |-> Len(chars),
         bytes |-> Len(bytes),
         maxLineLength |->
             Max({LineWidth(l) : l \in
                    Between(chars, LAMBDA c : c \in {LF, CarriageReturn, FormFeed})})]

CountsOf(k) == [c \in Range(Columns) |-> k[c]]

(* WcCountsWhatItReads: however the reads cut an input up, through the      *)
(* middle of a character too, wc prints for each operand the counts of the  *)
(* whole of what it read, then, when a total is asked for, their sums and   *)
(* the longest line of all; and every count of regular files that were read *)
(* whole fits the width computed before any was read.                       *)
WcCountsWhatItReads(operands, posix, mode) ==
    LET run    == WcRun(operands, posix, mode)
        stop   == \E i \in DOMAIN operands : operands[i].kind = "stopped"
        Whole(o) == FlattenSeq(o.pieces)
        shown  == SelectSeq(operands, LAMBDA o : o.kind \notin {"missing", "empty"})
        counts == [i \in DOMAIN shown |->
                      IF shown[i].kind = "dir" THEN CountsMean(<< >>, posix)
                      ELSE CountsMean(Whole(shown[i]), posix)]
        sums   == [c \in Range(Columns) |->
                      IF c = "maxLineLength"
                      THEN Max({0} \union {counts[i][c] : i \in DOMAIN counts})
                      ELSE FoldLeft(LAMBDA n, k : n + k[c], 0, counts)]
        total  == \/ mode \in {<<"a","l","w","a","y","s">>, <<"o","n","l","y">>}
                  \/ mode = <<"a","u","t","o">> /\ Len(operands) > 1
        width  == ComputeWidth(operands, FALSE, FALSE, 2)
    IN  IF stop THEN run.status = 1
        ELSE /\ [i \in DOMAIN run.printed |-> CountsOf(run.printed[i])]
                  = (IF mode = <<"o","n","l","y">> THEN << >> ELSE counts)
                    \o (IF total THEN <<sums>> ELSE << >>)
             /\ run.status = 0 <=>
                  \A i \in DOMAIN operands : operands[i].kind \in {"file", "stream"}
             /\ (\A i \in DOMAIN operands : operands[i].kind \in {"file", "missing"}) =>
                  \A i \in DOMAIN run.printed :
                     \A c \in {"lines", "words", "chars", "bytes"} :
                        Digits(run.printed[i][c]) <= width
===========================================================================
