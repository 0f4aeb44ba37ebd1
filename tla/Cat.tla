------------------------------- MODULE Cat -------------------------------
(* The cat command: its files are read a piece at a time and formatted by  *)
(* one formatter, whose line start, line number and run of blank lines are *)
(* carried from piece to piece and from file to file.  A byte is its       *)
(* number; a piece is one successful read, of any size.                    *)
EXTENDS Integers, FiniteSetsExt, SequencesExt

Tab == 9
Newline == 10
Caret == <<94>>

(* The options as the formatter reads them. *)
Settings == [numberAll : BOOLEAN, numberNonblank : BOOLEAN,
             squeezeBlank : BOOLEAN, showEnds : BOOLEAN, showTabs : BOOLEAN,
             showNonprinting : BOOLEAN]

(* What one option letter turns on; -u is accepted and means nothing. *)
OptionSets(letter) ==
    CASE letter = "A" -> {"showNonprinting", "showEnds", "showTabs"}
      [] letter = "b" -> {"numberNonblank"}
      [] letter = "e" -> {"showNonprinting", "showEnds"}
      [] letter = "E" -> {"showEnds"}
      [] letter = "n" -> {"numberAll"}
      [] letter = "s" -> {"squeezeBlank"}
      [] letter = "t" -> {"showNonprinting", "showTabs"}
      [] letter = "T" -> {"showTabs"}
      [] letter = "v" -> {"showNonprinting"}
      [] OTHER -> {}

SettingsOf(letters) ==
    LET on == UNION {OptionSets(l) : l \in letters}
    IN  [f \in {"numberAll", "numberNonblank", "squeezeBlank", "showEnds",
                "showTabs", "showNonprinting"} |-> f \in on]

(* The number of a line, right-aligned in six columns (the numbers here *)
(* have one digit), then a tab. *)
LineNumber(n) == <<32, 32, 32, 32, 32, 48 + n, Tab>>

(* A byte in ^ and M- notation. *)
Visible(b) ==
    LET c == b % 128
    IN  (IF b >= 128 THEN <<77, 45>> ELSE << >>)
        \o (IF c < 32 THEN Caret \o <<c + 64>>
            ELSE IF c = 127 THEN Caret \o <<63>> ELSE <<c>>)

NewFormatter == [atLineStart |-> TRUE, lineNumber |-> 0, blankRun |-> 0,
                 out |-> << >>]

LineEnd(set) == IF set.showEnds THEN <<36, Newline>> ELSE <<Newline>>

(* A newline at a line start: a blank line, dropped when the run is *)
(* squeezed and it is not the run's first. *)
AppendBlankLine(f, set) ==
    LET run == f.blankRun + 1
        numbered == set.numberAll /\ ~set.numberNonblank
    IN  IF set.squeezeBlank /\ run > 1 THEN [f EXCEPT !.blankRun = run]
        ELSE [f EXCEPT !.blankRun = run,
                       !.lineNumber = IF numbered THEN @ + 1 ELSE @,
                       !.out = @ \o (IF numbered
                                     THEN LineNumber(f.lineNumber + 1) ELSE << >>)
                                 \o LineEnd(set)]

(* Any other byte at a line start begins a line, numbered under -n or -b. *)
BeginLine(f, set) ==
    LET numbered == set.numberAll \/ set.numberNonblank
    IN  [f EXCEPT !.blankRun = 0, !.atLineStart = FALSE,
                  !.lineNumber = IF numbered THEN @ + 1 ELSE @,
                  !.out = IF numbered THEN @ \o LineNumber(f.lineNumber + 1) ELSE @]

AppendByte(f, b, set) ==
    IF f.atLineStart /\ b = Newline THEN AppendBlankLine(f, set)
    ELSE LET g == IF f.atLineStart THEN BeginLine(f, set) ELSE f
         IN  CASE b = Newline -> [g EXCEPT !.out = @ \o LineEnd(set),
                                           !.atLineStart = TRUE]
               [] b = Tab -> [g EXCEPT !.out = @ \o (IF set.showTabs
                                                     THEN Visible(Tab) ELSE <<Tab>>)]
               [] OTHER -> [g EXCEPT !.out = @ \o (IF set.showNonprinting
                                                   THEN Visible(b) ELSE <<b>>)]

\* Faulty variant: each piece starts on a fresh line.
FormatPieceAfresh(f, piece, set) ==
    FoldLeft(LAMBDA g, b : AppendByte(g, b, set),
             [f EXCEPT !.atLineStart = TRUE], piece)

(* Append: one piece of one file. *)
FormatPiece(f, piece, set) ==
    FoldLeft(LAMBDA g, b : AppendByte(g, b, set), f, piece)

---------------------------------------------------------------------------
(* A run of the command: its operands in order, each [kind, pieces] with   *)
(* kind "read" (read to its end), "broken" (a read fails after the pieces: *)
(* reported, the next operand still read), "stopped" (a stop during it) or *)
(* "refused" (missing, a directory, or not opened: reported).              *)

NewRun == [formatter |-> NewFormatter, status |-> 0, stopped |-> FALSE]

CatOperand(run, operand, set) ==
    IF run.stopped THEN run
    ELSE [formatter |-> IF operand.kind = "refused" THEN run.formatter
                        ELSE FoldLeft(LAMBDA f, p : FormatPiece(f, p, set),
                                      run.formatter, operand.pieces),
          status    |-> IF operand.kind = "read" THEN run.status ELSE 1,
          stopped   |-> operand.kind = "stopped"]

(* What the run writes on the standard output, and its exit status. *)
CatRun(operands, set) ==
    LET end == FoldLeft(LAMBDA run, o : CatOperand(run, o, set), NewRun, operands)
    IN  [out |-> end.formatter.out, status |-> end.status]

---------------------------------------------------------------------------
(* What cat is to write, from the manual's words for the options: the      *)
(* bytes of its files are one text; -s shows a run of blank lines as one;  *)
(* -n numbers the lines shown, -b those that are not blank, and overrides  *)
(* -n; -E puts $ before each newline; -v and -T spell out the rest.        *)

(* The lines of a text, each a sequence ending in its newline except, it *)
(* may be, the last. *)
TextLines(bytes) ==
    LET ends   == {i \in DOMAIN bytes : bytes[i] = Newline \/ i = Len(bytes)}
        From(e) == Max({0} \union {d \in ends : d < e}) + 1
    IN  [k \in 1..Cardinality(ends) |->
            LET e == CHOOSE x \in ends : Cardinality({d \in ends : d <= x}) = k
            IN  SubSeq(bytes, From(e), e)]

BlankLine == <<Newline>>

Shown(line, set) ==
    FlattenSeq([i \in DOMAIN line |->
        CASE line[i] = Newline -> LineEnd(set)
          [] line[i] = Tab -> IF set.showTabs THEN Visible(Tab) ELSE <<Tab>>
          [] OTHER -> IF set.showNonprinting THEN Visible(line[i]) ELSE <<line[i]>>])

CatMeans(bytes, set) ==
    LET all   == TextLines(bytes)
        kept  == {i \in DOMAIN all : ~(set.squeezeBlank /\ i > 1
                                       /\ all[i] = BlankLine /\ all[i - 1] = BlankLine)}
        numbered == {i \in kept : \/ all[i] # BlankLine /\ (set.numberAll \/ set.numberNonblank)
                                  \/ set.numberAll /\ ~set.numberNonblank}
        number(i) == Cardinality({j \in numbered : j <= i})
    IN  FlattenSeq([i \in DOMAIN all |->
            IF i \notin kept THEN << >>
            ELSE (IF i \in numbered THEN LineNumber(number(i)) ELSE << >>)
                 \o Shown(all[i], set)])

(* CatWritesItsFilesInOrder: however the reads cut the files up, and        *)
(* whichever operands fail, cat writes the formatted form of every byte it  *)
(* read, in order, with its lines numbered and its blank lines squeezed     *)
(* across the cuts and the file ends; it exits 0 exactly if every operand   *)
(* was read to its end, and a stop ends it at once.                         *)
CatWritesItsFilesInOrder(operands, set) ==
    LET stops == {i \in DOMAIN operands : operands[i].kind = "stopped"}
        done  == IF stops = {} THEN operands ELSE SubSeq(operands, 1, Min(stops))
        bytes == FlattenSeq([i \in DOMAIN done |->
                     IF done[i].kind = "refused" THEN << >>
                     ELSE FlattenSeq(done[i].pieces)])
        run   == CatRun(operands, set)
    IN  /\ run.out = CatMeans(bytes, set)
        /\ run.status = 0 <=> \A i \in DOMAIN operands : operands[i].kind = "read"
===========================================================================
