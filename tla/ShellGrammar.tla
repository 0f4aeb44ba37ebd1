---------------------------- MODULE ShellGrammar ----------------------------
(***************************************************************************)
(* The grammar of the shell as a set of token sequences, by how a sequence *)
(* can be cut in parts, with no order of reading.  What is |closed| ends   *)
(* where the next word is not one more word of it.                         *)
(***************************************************************************)
EXTENDS Sequences, SequencesExt, Naturals

CONSTANTS
    Reserved,           \* the reserved words
    Redirections,       \* the redirection operators
    Newline,
    IsName(_)           \* a word that can name a variable or a function

Cut(w, i, j) == SubSeq(w, i, j)
IsWord(token) == token \notin Redirections \union {Newline, ";", ";;", "&", "&&", "||", "|", "(", ")"}

RECURSIVE Trimmed(_)
Trimmed(w) == IF w # <<>> /\ w[1] = Newline THEN Trimmed(Tail(w)) ELSE w

RECURSIVE RedirectionList(_)
RedirectionList(w) ==
    w = <<>> \/ (Len(w) > 1 /\ w[1] \in Redirections /\ IsWord(w[2]) /\ RedirectionList(Cut(w, 3, Len(w))))

RECURSIVE Terms(_, _)
RECURSIVE Command(_, _)
RECURSIVE CaseItems(_)

List(w, closed) == Terms(Trimmed(w), closed)

\* w is what the form says, each "list" being some list that is closed unless
\* a parenthesis follows.
RECURSIVE Form(_, _)
Form(w, form) ==
    CASE form = <<>> -> w = <<>>
      [] form # <<>> /\ Head(form) = "list" ->
             \E i \in 1..Len(w) :
                 List(Cut(w, 1, i), form[2] # ")") /\ Form(Cut(w, i + 1, Len(w)), Tail(form))
      [] OTHER -> w # <<>> /\ w[1] = Head(form) /\ Form(Tail(w), Tail(form))

RECURSIVE Branches(_)
Branches(w) ==
    \/ Form(w, <<"list", "then", "list", "fi">>)
    \/ Form(w, <<"list", "then", "list", "else", "list", "fi">>)
    \/ \E i \in DOMAIN w : /\ w[i] = "elif" /\ Branches(Cut(w, i + 1, Len(w)))
                           /\ Form(Cut(w, 1, i), <<"list", "then", "list", "elif">>)

For(w) ==
    /\ Len(w) > 1 /\ IsName(w[2])
    /\ LET rest == Trimmed(Cut(w, 3, Len(w)))
           Body(v) == Form(Trimmed(v), <<"do", "list", "done">>)
       IN  \/ Body(rest)
           \/ rest # <<>> /\ rest[1] = ";" /\ Body(Tail(rest))
           \/ \E i \in DOMAIN rest :
                  /\ rest[1] = "in" /\ i > 1 /\ rest[i] \in {";", Newline}
                  /\ \A k \in 2..(i - 1) : IsWord(rest[k])
                  /\ Body(Cut(rest, i + 1, Len(rest)))

\* (a | b) list
Alternatives(w) ==
    \E i \in DOMAIN w :
        /\ w[i] = ")" /\ i % 2 = 0
        /\ \A k \in 1..(i - 1) : IF k % 2 = 1 THEN IsWord(w[k]) ELSE w[k] = "|"
CaseBody(w, closed) == Trimmed(w) = <<>> \/ List(w, closed)
CaseItem(w, closed) ==
    LET v == IF w # <<>> /\ w[1] = "(" THEN Tail(w) ELSE w
    IN  /\ w # <<>> /\ w[1] # "esac"
        /\ \E i \in DOMAIN v : Alternatives(Cut(v, 1, i)) /\ v[i] = ")"
                               /\ (\A k \in 1..(i - 1) : v[k] # ")")
                               /\ CaseBody(Cut(v, i + 1, Len(v)), closed)
CaseItems(w) ==
    \/ Trimmed(w) = <<>>
    \/ CaseItem(Trimmed(w), TRUE)
    \/ \E i \in DOMAIN w : w[i] = ";;" /\ CaseItem(Trimmed(Cut(w, 1, i - 1)), FALSE)
                           /\ CaseItems(Cut(w, i + 1, Len(w)))
Case(w) ==
    /\ Len(w) > 3 /\ IsWord(w[2]) /\ Last(w) = "esac"
    /\ LET rest == Trimmed(Cut(w, 3, Len(w) - 1))
       IN  rest # <<>> /\ rest[1] = "in" /\ CaseItems(Tail(rest))

CompoundCommand(w) ==
    CASE w[1] = "{"     -> Form(w, <<"{", "list", "}">>)
      [] w[1] = "("     -> Form(w, <<"(", "list", ")">>)
      [] w[1] = "if"    -> Branches(Tail(w))
      [] w[1] \in {"while", "until"} -> Form(Tail(w), <<"list", "do", "list", "done">>)
      [] w[1] = "for"   -> For(w)
      [] w[1] = "case"  -> Case(w)
      [] OTHER          -> FALSE

\* Words and redirections, the first word not a reserved one unless a
\* redirection stands before it.
SimpleCommand(w) ==
    /\ w # <<>> /\ w[1] \notin Reserved
    /\ \A k \in DOMAIN w : IsWord(w[k]) \/ (w[k] \in Redirections /\ k < Len(w) /\ IsWord(w[k + 1]))

Function(w, closed) ==
    /\ Len(w) > 3 /\ IsName(w[1]) /\ w[1] \notin Reserved /\ w[2] = "(" /\ w[3] = ")"
    /\ Command(Trimmed(Cut(w, 4, Len(w))), closed)

Command(w, closed) ==
    /\ w # <<>>
    /\ \/ ~closed /\ SimpleCommand(w)
       \/ Function(w, closed)
       \/ \E i \in DOMAIN w : CompoundCommand(Cut(w, 1, i)) /\ RedirectionList(Cut(w, i + 1, Len(w)))

RECURSIVE Pipe(_, _)
Pipe(w, closed) ==
    \/ Command(w, closed)
    \/ \E i \in DOMAIN w : w[i] = "|" /\ Command(Cut(w, 1, i - 1), FALSE)
                           /\ Pipe(Trimmed(Cut(w, i + 1, Len(w))), closed)

Pipeline(w, closed) == w # <<>> /\ Pipe(IF w[1] = "!" THEN Tail(w) ELSE w, closed)

RECURSIVE AndOr(_, _)
AndOr(w, closed) ==
    \/ Pipeline(w, closed)
    \/ \E i \in DOMAIN w : w[i] \in {"&&", "||"} /\ Pipeline(Cut(w, 1, i - 1), FALSE)
                           /\ AndOr(Trimmed(Cut(w, i + 1, Len(w))), closed)

Terms(w, closed) ==
    \/ AndOr(w, closed)
    \/ \E i \in DOMAIN w :
           /\ w[i] \in {";", "&", Newline} /\ AndOr(Cut(w, 1, i - 1), FALSE)
           /\ LET rest == Trimmed(Cut(w, i + 1, Len(w))) IN rest = <<>> \/ Terms(rest, closed)

Program(w) == Trimmed(w) = <<>> \/ List(w, FALSE)
=============================================================================
