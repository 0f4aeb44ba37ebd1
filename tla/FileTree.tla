------------------------------ MODULE FileTree ------------------------------
(***************************************************************************)
(* What a file system promises whoever sees it from its root               *)
(* (IFileSystemService.h): one tree of directories, files and devices, of  *)
(* which a call changes one place only, and the file systems mounted in    *)
(* it, each of which brings in a tree of its own.                          *)
(***************************************************************************)
EXTENDS VirtualPath

VARIABLES
    tree,       \* what is there: a set of [path, type, data], one for a path
    mounted     \* mount point -> what is mounted there

vars == <<tree, mounted>>

Paths(entries) == {entry.path : entry \in entries}

\* Everything hangs in a directory; so does, in the end, the root.
WellFormed(t) ==
    LET directories == Paths({entry \in t : entry.type = "dir"})
    IN  \A path \in Paths(t) : VirtualParentOf(path) \in directories

Init == WellFormed(tree)

\* One place differs between a tree t and the next: |gone| was there, |new|
\* is there.
OnePlace(t, gone, new) ==
    \E path \in Paths(gone \union new) :
        /\ Paths(gone \union new) = {path}
        \* Something new, in a directory.
        /\ gone = {} => [path |-> VirtualParentOf(path), type |-> "dir", data |-> <<>>] \in t
        \* A file, or a directory with nothing in it; never the root.
        /\ new = {} => path # <<>> /\ \A entry \in t : ~IsUnder(entry.path, path)
        \* The content of a file, which keeps being one.
        /\ gone # {} /\ new # {} => \A entry \in gone \union new : entry.type = "file"

\* Another file system takes over at |point|, or lets go of it; what leads
\* down to it may come and go with it.
Graft(point, gone, new) ==
    \A path \in Paths(gone \union new) : IsAtOrUnder(path, point) \/ IsUnder(point, path)

Remounted(before, after) ==
    {point \in DOMAIN before \union DOMAIN after :
        ~(point \in DOMAIN before /\ point \in DOMAIN after /\ before[point] = after[point])}

Step(t, u) ==
    /\ UNCHANGED mounted => OnePlace(t, t \ u, u \ t)
    /\ mounted' # mounted => \E point \in Remounted(mounted, mounted') :
           /\ Remounted(mounted, mounted') = {point}
           /\ Graft(point, t \ u, u \ t)
           /\ WellFormed(u)

Next == \E t \in {tree}, u \in {tree'} : Step(t, u)

Spec == Init /\ [][Next]_vars
=============================================================================
