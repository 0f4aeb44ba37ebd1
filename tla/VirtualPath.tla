---------------------------- MODULE VirtualPath -----------------------------
(***************************************************************************)
(* Paths as every file system of Haisos takes them (VirtualPath.h).  A     *)
(* written path is the sequence of what stands between its separators; a   *)
(* normalized one, the sequence of its names, the root being <<>>.         *)
(***************************************************************************)
EXTENDS Sequences, SequencesExt, Naturals

Dot == "."
DotDot == ".."
Blank == ""     \* what stands before a leading separator, between two, ...

\* One segment taken onto |path|, whose names are |path|.names.
EndSegment(path, segment) ==
    CASE segment = DotDot /\ path.names = <<>> -> [path EXCEPT !.within = FALSE]
      [] segment = DotDot /\ path.names # <<>> -> [path EXCEPT !.names = Front(@)]
      [] segment \in {Blank, Dot} -> path
      [] OTHER -> [path EXCEPT !.names = Append(@, segment)]

AppendVirtualPathSegments(written, names) ==
    FoldLeft(EndSegment, [names |-> names, within |-> TRUE], written)

SplitVirtualPath(written) == AppendVirtualPathSegments(written, <<>>)

IsAbsolute(written) == Len(written) > 1 /\ written[1] = Blank

NormalizeVirtualPath(written, base) ==
    AppendVirtualPathSegments(written,
                              IF IsAbsolute(written) THEN <<>> ELSE base).names

IsAtOrUnder(path, directory) == IsPrefix(directory, path)
IsUnder(path, directory) == IsStrictPrefix(directory, path)

\* What is left of a path at or under |base|.
RelativeToBase(base, path) == SubSeq(path, Len(base) + 1, Len(path))

VirtualParentOf(path) == IF path = <<>> THEN <<>> ELSE Front(path)
VirtualLastSegment(path) == IF path = <<>> THEN Blank ELSE Last(path)
=============================================================================
