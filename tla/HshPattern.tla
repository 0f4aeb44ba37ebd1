----------------------------- MODULE HshPattern ------------------------------
(***************************************************************************)
(* The patterns of hsh (HshPattern.cpp, HshGlob.cpp): the matcher of case, *)
(* of ${x#pattern} and of pathnames, and the expansion of pathnames over a *)
(* tree of directories.  Texts are sequences of one-letter strings.        *)
(***************************************************************************)
EXTENDS HshLexer, FiniteSets

\* The characters there are, as their bytes order them.
Bytes == <<"\n", " ", "!", "*", "-", ".", "/", ":", "?", "A", "B", "[", "\\", "]", "a", "b", "c", "x", "z">>
ByteOf(c) == CHOOSE n \in DOMAIN Bytes : Bytes[n] = c

\* [:alpha:] and [:upper:] stand for the twelve; a class name is one symbol.
ClassMembers(class) ==
    CASE class = <<"alpha">> -> {"A", "B", "a", "b", "c", "x", "z"}
      [] class = <<"upper">> -> {"A", "B"}
      [] OTHER               -> {}

NoEnd == 0
IsEscape(p, i) == At(p, i) = "\\" /\ i < Len(p)

\* Where the :] of a class that opens at i starts; NoEnd without one.
ClassEnd(p, i) ==
    LET ends == {j \in (i + 2)..(Len(p) - 1) : p[j] = ":" /\ p[j + 1] = "]"}
    IN  IF At(p, i) # "[" \/ At(p, i + 1) # ":" \/ ends = {} THEN NoEnd
        ELSE CHOOSE j \in ends : \A k \in ends : j <= k

RECURSIVE BracketScan(_, _, _)
BracketScan(p, i, barrier) ==
    CASE i > Len(p)            -> NoEnd
      [] IsEscape(p, i)        -> BracketScan(p, i + 2, barrier)
      [] ClassEnd(p, i) # NoEnd -> BracketScan(p, ClassEnd(p, i) + 2, barrier)
      [] OTHER ->
             CASE p[i] \in barrier -> NoEnd
               [] p[i] = "]" -> i + 1
               [] OTHER -> BracketScan(p, i + 1, barrier)

\* One past a bracket expression that opens at |open|.
BracketStart(p, open) == IF At(p, open + 1) = "!" THEN open + 2 ELSE open + 1
BracketEndBefore(p, open, barrier) ==
    LET i == BracketStart(p, open)
    IN  BracketScan(p, IF At(p, i) = "]" THEN i + 1 ELSE i, barrier)
BracketEnd(p, open) == BracketEndBefore(p, open, {})
ComponentBracketEnd(p, open) == BracketEndBefore(p, open, {"/"})

\* A character of a bracket expression, where it stops before |limit|.
Member(p, i, limit) ==
    IF p[i] = "\\" /\ i + 1 < limit THEN [c |-> p[i + 1], next |-> i + 2] ELSE [c |-> p[i], next |-> i + 1]

RECURSIVE BracketHolds(_, _, _, _)
BracketHolds(p, i, limit, ch) ==
    LET class == ClassEnd(p, i)
        low == Member(p, i, limit)
        ranged == At(p, low.next) = "-" /\ low.next + 1 < limit
        high == Member(p, low.next + 1, limit)
    IN  CASE i >= limit -> FALSE
          [] i < limit /\ class # NoEnd /\ class + 2 <= limit ->
                 ch \in ClassMembers(SubSeq(p, i + 2, class - 1)) \/ BracketHolds(p, class + 2, limit, ch)
          [] OTHER ->
                 IF low.next < limit /\ ranged
                 THEN ByteOf(ch) \in ByteOf(low.c)..ByteOf(high.c) \/ BracketHolds(p, high.next, limit, ch)
                 ELSE ch = low.c \/ BracketHolds(p, low.next, limit, ch)

BracketMatches(p, open, end, ch) ==
    BracketHolds(p, BracketStart(p, open), end - 1, ch) # (At(p, open + 1) = "!")

\* The element at i that is no star: what is after it, and whether it takes ch.
IsBracket(p, i) == At(p, i) = "[" /\ BracketEnd(p, i) # NoEnd
ElementEnd(p, i) ==
    CASE IsEscape(p, i)  -> i + 2
      [] IsBracket(p, i) -> BracketEnd(p, i)
      [] OTHER           -> i + 1
ElementTakes(p, i, ch) ==
    CASE p[i] = "?"      -> TRUE
      [] IsEscape(p, i)  -> ch = p[i + 1]
      [] IsBracket(p, i) -> BracketMatches(p, i, BracketEnd(p, i), ch)
      [] OTHER           -> ch = p[i]

\* Going back to the last star lets it take one more character; |star| is the
\* index after it, and |from| the text it was tried at.
RECURSIVE MatchFrom(_, _, _, _, _, _)
MatchFrom(p, text, i, t, star, from) ==
    IF t > Len(text) THEN \A k \in i..Len(p) : p[k] = "*"
    ELSE CASE At(p, i) = "*" -> MatchFrom(p, text, i + 1, t, i + 1, t)
           [] i <= Len(p) /\ At(p, i) # "*" /\ ElementTakes(p, i, text[t]) ->
                  MatchFrom(p, text, ElementEnd(p, i), t + 1, star, from)
           [] OTHER -> star # NoEnd /\ MatchFrom(p, text, star, from + 1, star, from + 1)

MatchPattern(p, text) == MatchFrom(p, text, 1, 1, NoEnd, 0)

RECURSIVE SpecialFrom(_, _)
SpecialFrom(p, i) ==
    CASE i > Len(p)     -> FALSE
      [] IsEscape(p, i) -> SpecialFrom(p, i + 2)
      [] OTHER          -> p[i] \in {"*", "?"} \/ IsBracket(p, i) \/ SpecialFrom(p, i + 1)
HasPatternCharacters(p) == SpecialFrom(p, 1)

RECURSIVE UnescapeFrom(_, _)
UnescapeFrom(p, i) ==
    CASE i > Len(p)     -> <<>>
      [] IsEscape(p, i) -> <<p[i + 1]>> \o UnescapeFrom(p, i + 2)
      [] OTHER          -> <<p[i]>> \o UnescapeFrom(p, i + 1)
UnescapePattern(p) == UnescapeFrom(p, 1)

\* Faulty variant: brackets are left as they are.
EscapeForPatternStars(text) ==
    FlattenSeq([k \in DOMAIN text |-> IF text[k] \in {"\\", "*", "?"} THEN <<"\\", text[k]>> ELSE <<text[k]>>])

EscapeForPattern(text) ==
    FlattenSeq([k \in DOMAIN text |-> IF text[k] \in {"\\", "*", "?", "["} THEN <<"\\", text[k]>> ELSE <<text[k]>>])

\* The lengths of what a removal can take, and the value without it.
RemovePattern(value, p, prefix, smallest) ==
    LET Piece(n) == IF prefix THEN SubSeq(value, 1, n) ELSE SubSeq(value, Len(value) - n + 1, Len(value))
        lengths == {n \in 0..Len(value) : MatchPattern(p, Piece(n))}
        cut == CHOOSE n \in lengths : \A m \in lengths : IF smallest THEN n <= m ELSE m <= n
    IN  CASE lengths = {} -> value
          [] lengths # {} /\ prefix -> SubSeq(value, cut + 1, Len(value))
          [] OTHER -> SubSeq(value, 1, Len(value) - cut)

-----------------------------------------------------------------------------
(* Pathnames.  |tree| maps the directories, by the pathnames they have, to *)
(* what is in them: names, and whether each is a directory.                *)

\* What a pathname is without the slashes that change nothing (a file system
\* takes them alike).
RECURSIVE Squeezed(_)
Squeezed(path) ==
    CASE Len(path) < 2 -> path
      [] Len(path) > 1 /\ Last(path) = "/" -> Squeezed(Front(path))
      [] OTHER -> IF path[1] = "/" /\ path[2] = "/" THEN Squeezed(Tail(path)) ELSE <<path[1]>> \o Squeezed(Tail(path))

Entries(tree, dir) == IF Squeezed(dir) \in DOMAIN tree THEN tree[Squeezed(dir)] ELSE {}
Below(dir, name) == (CASE dir = <<".">> -> <<>> [] dir = <<"/">> -> dir [] OTHER -> Append(dir, "/")) \o name
Pathnames(tree) == UNION {{Below(dir, entry.name) : entry \in tree[dir]} : dir \in DOMAIN tree}
Exists(tree, path) == Squeezed(path) \in Pathnames(tree) \union DOMAIN tree

\* The components, split at each / that is neither escaped nor in brackets.
RECURSIVE SplitFrom(_, _, _)
SplitFrom(p, i, current) ==
    LET end == IF At(p, i) = "[" THEN ComponentBracketEnd(p, i) ELSE NoEnd
    IN  CASE i > Len(p)     -> <<current>>
          [] IsEscape(p, i) -> SplitFrom(p, i + 2, current \o <<p[i], p[i + 1]>>)
          [] end # NoEnd    -> SplitFrom(p, end, current \o SubSeq(p, i, end - 1))
          [] OTHER -> IF p[i] = "/" THEN <<current>> \o SplitFrom(p, i + 1, <<>>)
                      ELSE SplitFrom(p, i + 1, Append(current, p[i]))
SplitComponents(p) == SplitFrom(p, 1, <<>>)

\* The directory a prefix names: "." for the empty one.
DirectoryOf(prefix) ==
    CASE prefix = <<>>    -> <<".">>
      [] prefix = <<"/">> -> prefix
      [] OTHER            -> Front(prefix)

\* Every prefix taken one component on.
Grown(prefixes, component, last, tree) ==
    LET dotOk == component # <<>> /\ (component[1] = "." \/ (Len(component) > 1 /\ component[1] = "\\" /\ component[2] = "."))
        Slash(path) == IF last THEN path ELSE Append(path, "/")
    IN  IF ~HasPatternCharacters(component)
        THEN {Slash(prefix \o UnescapePattern(component)) :
                  prefix \in {q \in prefixes : last => Exists(tree, q \o UnescapePattern(component))}}
        ELSE UNION {{Slash(prefix \o entry.name) :
                        entry \in {e \in Entries(tree, DirectoryOf(prefix)) :
                                      /\ dotOk \/ e.name[1] # "."
                                      /\ MatchPattern(component, e.name)
                                      /\ last \/ e.dir}} : prefix \in prefixes}

RECURSIVE ExpandComponents(_, _, _)
ExpandComponents(prefixes, components, tree) ==
    IF components = <<>> THEN prefixes
    ELSE ExpandComponents(Grown(prefixes, Head(components), Len(components) = 1, tree), Tail(components), tree)

RECURSIVE BytesBefore(_, _)
BytesBefore(a, b) ==
    /\ b # <<>>
    /\ a = <<>> \/ ByteOf(a[1]) < ByteOf(b[1]) \/ (a[1] = b[1] /\ BytesBefore(Tail(a), Tail(b)))

\* All that a pattern names, in order.
ExpandPathname(p, tree) ==
    LET components == SplitComponents(p)
        absolute == At(p, 1) = "/"
    IN  SetToSortSeq(ExpandComponents({IF absolute THEN <<"/">> ELSE <<>>},
                                      IF absolute THEN Tail(components) ELSE components, tree),
                     BytesBefore)

-----------------------------------------------------------------------------
(* What a pattern means: the texts that can be cut in pieces, one for each *)
(* of its elements.                                                        *)

RECURSIVE Fits(_, _, _)
Fits(p, i, text) ==
    CASE i > Len(p)   -> text = <<>>
      [] At(p, i) = "*" -> \E n \in 0..Len(text) : Fits(p, i + 1, SubSeq(text, n + 1, Len(text)))
      [] OTHER        -> text # <<>> /\ ElementTakes(p, i, text[1]) /\ Fits(p, ElementEnd(p, i), Tail(text))

\* The matcher finds a cut when there is one, and what has no pattern characters
\* matches what it is without escapes and that only.
PatternMatchesWhatFits(p, texts) ==
    /\ \A text \in texts : MatchPattern(p, text) = Fits(p, 1, text)
    /\ ~HasPatternCharacters(p) => \A text \in texts : MatchPattern(p, text) = (text = UnescapePattern(p))
    /\ MatchPattern(EscapeForPattern(p), p) /\ ~HasPatternCharacters(EscapeForPattern(p))

\* A name hidden by its dot is matched by a dot only.
NameFits(p, name) == Fits(p, 1, name) /\ (name[1] = "." => UnescapePattern(p) # <<>> /\ UnescapePattern(p)[1] = ".")

RECURSIVE Names(_, _)
Names(path, name) ==
    CASE path = <<>>     -> <<name>>
      [] path # <<>> /\ path[1] = "/" -> <<name>> \o Names(Tail(path), <<>>)
      [] OTHER           -> Names(Tail(path), Append(name, path[1]))

\* What a pattern is expanded to are the pathnames of the tree, name by name
\* what its components mean, each once and in order.
ExpandsToWhatFits(p, tree) ==
    LET components == SplitComponents(p)
        found == ExpandPathname(p, tree)
        absolute == At(p, 1) = "/"
    IN  HasPatternCharacters(p) /\ (\A k \in DOMAIN components :
                                       /\ components[k] # <<>> \/ (absolute /\ k = 1)
                                       /\ k < Len(components) => \A dots \in {<<".">>, <<".", ".">>} : ~NameFits(components[k], dots)) =>
            /\ Range(found) = {path \in Pathnames(tree) :
                                   LET names == Names(path, <<>>)
                                   IN  /\ Len(names) = Len(components) /\ (path[1] = "/") = absolute
                                       /\ \A k \in DOMAIN names :
                                              names[k] = <<>> \/ NameFits(components[k], names[k])}
            /\ \A k \in 1..(Len(found) - 1) : BytesBefore(found[k], found[k + 1])
=============================================================================
