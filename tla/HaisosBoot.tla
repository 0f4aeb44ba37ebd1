---------------------------- MODULE HaisosBoot ----------------------------
(* What haisos does with the directives of a haisosfile (HaisosFile says   *)
(* how their lines are read): the order they may come in and the names     *)
(* they may use, the file systems built from them, the files set up, the   *)
(* processes run, the files copied out, and the exit status.               *)
(*                                                                         *)
(* A directive is a record: key, uses (the ${names} in it) and, by its     *)
(* key, name, given (ARG: a default), type and args (FS, MOUNT), path,     *)
(* host, content (the file directives) and ends (RUN: what becomes of it). *)
(* What fails under a file directive is part of it too: opens (whether the *)
(* source of a copy can be opened) and upto (how many pieces of a content  *)
(* go through before a read or a write fails).                             *)
EXTENDS Integers, FiniteSetsExt, Functions, SequencesExt

FileDirectives == {"CREATE", "APPEND", "CREATE_DIR", "COPY", "DELETE", "OUTCOPY", "BUILTIN"}
IsFileDirective(key) == key \in FileDirectives

NothingRead ==
    [error |-> FALSE, known |-> {}, declared |-> {}, sawRoot |-> FALSE,
     firstRun |-> 0, firstFile |-> 0, root |-> "", steps |-> << >>,
     runs |-> << >>, setup |-> << >>, out |-> << >>]

\* Faulty variant: a file may still be set up behind a RUN.
OutOfOrderFs(read, d) == d.key \in {"ROOT", "FS", "MOUNT"} /\ read.firstFile # 0

\* Whether a directive is refused for where it stands.
OutOfOrder(read, d) ==
    \/ d.key \in {"ROOT", "FS", "MOUNT"} /\ read.firstFile # 0
    \/ IsFileDirective(d.key) /\ d.key # "OUTCOPY" /\ read.firstRun # 0

ArgMissing(d, overrides) == d.key = "ARG" /\ ~d.given /\ d.name \notin overrides

ReadDirective(read, d, line, overrides) ==
    IF \/ read.error
       \/ OutOfOrder(read, d)
       \/ ~(d.uses \subseteq read.known)
       \/ ArgMissing(d, overrides)
       \/ d.key = "ROOT" /\ read.sawRoot
    THEN [read EXCEPT !.error = TRUE]
    ELSE LET placed == [read EXCEPT !.firstFile =
                           IF IsFileDirective(d.key) /\ @ = 0 THEN line ELSE @]
         IN  CASE d.key = "ARG" -> [placed EXCEPT !.known = @ \union {d.name},
                                                  !.declared = @ \union {d.name}]
               [] d.key = "VAR" -> [placed EXCEPT !.known = @ \union {d.name}]
               [] d.key = "ROOT" -> [placed EXCEPT !.root = d.name, !.sawRoot = TRUE]
               [] d.key \in {"FS", "MOUNT"} -> [placed EXCEPT !.steps = Append(@, d)]
               [] d.key = "RUN" -> [placed EXCEPT !.runs = Append(@, d),
                                                  !.firstRun = IF @ = 0 THEN line ELSE @]
               [] d.key = "OUTCOPY" -> [placed EXCEPT !.out = Append(@, d)]
               [] OTHER -> [placed EXCEPT !.setup = Append(@, d)]

\* ParseHaisosFile: the directives in turn, then what only the end can tell.
ParseHaisosFile(file, overrides) ==
    LET read == FoldLeftDomain(LAMBDA r, i : ReadDirective(r, file[i], i, overrides),
                               NothingRead, file)
    IN  [read EXCEPT !.error = \/ @
                               \/ ~(overrides \subseteq read.declared)
                               \/ read.runs = << >>]

---------------------------------------------------------------------------
(* The file systems.  One is described by how it was made: <<type>>, or a  *)
(* type and what it was made from.                                         *)

NothingBuilt == [error |-> FALSE, named |-> << >>, last |-> ""]
Bind(names, name, fs) == [n \in DOMAIN names \union {name} |->
                            IF n = name THEN fs ELSE names[n]]

\* The file systems a step refers to.
Referred(step) == IF step.key = "MOUNT" THEN {step.name, step.args[1]} ELSE Range(step.args)

BuildStep(built, step) ==
    LET Made(n) == built.named[n]
    IN  IF \/ built.error
           \/ ~(Referred(step) \subseteq DOMAIN built.named)
           \/ step.key = "FS" /\ step.name \in DOMAIN built.named
        THEN [built EXCEPT !.error = TRUE]
        ELSE IF step.key = "MOUNT"
        THEN [built EXCEPT !.named = Bind(@, step.name,
                 <<"COMPOSED", Made(step.name), Made(step.args[1])>>)]
        ELSE [error |-> FALSE, last |-> step.name,
              named |-> Bind(built.named, step.name,
                 <<step.type>> \o [i \in DOMAIN step.args |-> Made(step.args[i])])]

\* BuildRootFileSystem: without any FS, ROOT is a directory of the host.
BuildRootFileSystem(steps, root) ==
    LET built == FoldLeft(BuildStep, NothingBuilt, steps)
        name  == IF root = "" THEN built.last ELSE root
    IN  CASE steps = << >> -> [ok |-> TRUE, fs |-> <<"PHYSICAL">>]
          [] steps # << >> /\ ~built.error /\ name \in DOMAIN built.named ->
                [ok |-> TRUE, fs |-> built.named[name]]
          [] OTHER -> [ok |-> FALSE, fs |-> << >>]

---------------------------------------------------------------------------
(* The files.  A tree maps each path (a sequence of names) to what is      *)
(* there; a built-in command placed in it is a file nobody may write,      *)
(* remove, or remove the directory of.  A result is [ok, tree].            *)

Directory == [type |-> "dir", data |-> << >>]
File(data) == [type |-> "file", data |-> data]
Note == [type |-> "builtin", data |-> <<"note">>]

Succeeds(tree) == [ok |-> TRUE, tree |-> tree]
Fails(tree) == [ok |-> FALSE, tree |-> tree]
Has(tree, path) == path \in DOMAIN tree
IsDirectory(tree, path) == Has(tree, path) /\ tree[path].type = "dir"
Put(tree, path, node) == Bind(tree, path, node)
Without(tree, path) == Restrict(tree, DOMAIN tree \ {path})

\* Faulty variant: whatever is on the way is taken for a directory.
EnsureDirectoriesAnyNode(tree, path, writable) ==
    FoldLeftDomain(LAMBDA r, i :
        IF ~r.ok \/ Has(r.tree, SubSeq(path, 1, i)) THEN r
        ELSE IF ~writable THEN Fails(r.tree)
        ELSE Succeeds(Put(r.tree, SubSeq(path, 1, i), Directory)),
        Succeeds(tree), path)

\* EnsureDirectories: every missing directory of the way, from the top.
EnsureDirectories(tree, path, writable) ==
    FoldLeftDomain(LAMBDA r, i :
        LET at == SubSeq(path, 1, i)
        IN  IF ~r.ok \/ IsDirectory(r.tree, at) THEN r
            ELSE IF Has(r.tree, at) \/ ~writable THEN Fails(r.tree)
            ELSE Succeeds(Put(r.tree, at, Directory)),
        Succeeds(tree), path)

\* What is in the file once so many pieces have been written behind what was there.
Written(tree, path, was, data, upto) ==
    Put(tree, path, File(was \o SubSeq(data, 1, Min({upto, Len(data)}))))

\* Faulty variant: nobody looks whether all of it was written.
WriteAllUnchecked(tree, path, was, data, upto) ==
    Succeeds(Written(tree, path, was, data, upto))

\* WriteAll, into the opened file: what was written before a write fails stays.
WriteAll(tree, path, was, data, upto) ==
    [ok |-> Len(data) <= upto, tree |-> Written(tree, path, was, data, upto)]

\* WriteContent: the directories above a path first; then the file, which opening
\* makes or, unless appended to, empties.
WriteFile(tree, path, data, append, writable, upto) ==
    LET led == EnsureDirectories(tree, Front(path), writable)
        was == IF append /\ Has(led.tree, path) THEN led.tree[path].data ELSE << >>
    IN  IF IsDirectory(tree, path) THEN Fails(tree)
        ELSE IF ~led.ok \/ ~writable \/ (Has(led.tree, path) /\ led.tree[path] = Note)
        THEN Fails(led.tree)
        ELSE WriteAll(led.tree, path, was, data, upto)

\* CopyFileBetween: only a file is copied; the way down to the destination is
\* made before the source is opened, and the source is opened first.  A copy
\* reads once more than it writes, to find the end.
CopyFileBetween(source, from, tree, path, writable, op) ==
    IF ~Has(source, from) \/ IsDirectory(source, from) \/ IsDirectory(tree, path)
    THEN Fails(tree)
    ELSE IF ~op.opens THEN Fails(EnsureDirectories(tree, Front(path), writable).tree)
    ELSE LET data == source[from].data
             copied == WriteFile(tree, path, data, FALSE, writable, op.upto)
         IN  [copied EXCEPT !.ok = @ /\ Len(data) < op.upto]

\* The entries of a directory, in an order of the file system's own, the
\* built-in commands last.
EntryNames(tree, path) ==
    LET below == {p \in DOMAIN tree : p # << >> /\ Front(p) = path}
        Names(s) == SetToSeq({Last(p) : p \in s})
        notes == {p \in below : tree[p] = Note}
    IN  Names(below \ notes) \o Names(notes)

RECURSIVE RemoveTree(_, _, _)
RemoveTree(tree, path, writable) ==
    IF ~IsDirectory(tree, path)
    THEN IF writable /\ tree[path] # Note THEN Succeeds(Without(tree, path)) ELSE Fails(tree)
    ELSE LET emptied == FoldLeft(LAMBDA r, n :
                            IF r.ok THEN RemoveTree(r.tree, Append(path, n), writable) ELSE r,
                            Succeeds(tree), EntryNames(tree, path))
         IN  IF emptied.ok /\ writable THEN Succeeds(Without(emptied.tree, path))
             ELSE Fails(emptied.tree)

PlaceBuiltin(tree, path) ==
    IF path = << >> \/ ~IsDirectory(tree, Front(path)) \/ Has(tree, path) THEN Fails(tree)
    ELSE Succeeds(Put(tree, path, Note))

\* ApplyOne, on the tree of the root file system.
ApplyOne(tree, op, host, writable) ==
    CASE op.key = "CREATE_DIR" -> EnsureDirectories(tree, op.path, writable)
      [] op.key = "BUILTIN" -> PlaceBuiltin(tree, op.path)
      [] op.key \in {"CREATE", "APPEND"} ->
            IF op.path = << >> THEN Fails(tree)
            ELSE WriteFile(tree, op.path, op.content, op.key = "APPEND", writable, op.upto)
      [] op.key = "DELETE" ->
            IF op.path = << >> \/ ~Has(tree, op.path) THEN Fails(tree)
            ELSE RemoveTree(tree, op.path, writable)
      [] op.key = "COPY" -> CopyFileBetween(host, op.host, tree, op.path, writable, op)

\* The set-up, up to the first directive that fails.
SetUp(tree, ops, host, writable) ==
    FoldLeft(LAMBDA r, op : IF r.ok THEN ApplyOne(r.tree, op, host, writable) ELSE r,
             Succeeds(tree), ops)

\* OUTCOPY: the other way, onto the host, whose directories down to the file are
\* made before the source is looked at.
OutCopy(host, op, tree) ==
    LET led == EnsureDirectories(host, Front(op.host), TRUE)
    IN  IF led.ok THEN CopyFileBetween(tree, op.path, led.tree, op.host, TRUE, op) ELSE led

CopyOut(host, ops, tree) ==
    FoldLeft(LAMBDA r, op : IF r.ok THEN OutCopy(r.tree, op, tree) ELSE r,
             Succeeds(host), ops)

---------------------------------------------------------------------------
(* main.  Whatever fails before a process is started exits 1.  A RUN ends  *)
(* "notStarted", "running" (when haisos stops waiting) or by its code.     *)

NotStarted == 127
Stopped == 143
CodeOf(run) == CASE run.ends = "notStarted" -> NotStarted
                 [] run.ends = "running" -> Stopped
                 [] OTHER -> run.code

\* Faulty variant: the last failure, not the first, is the exit status.
ExitCodeOfRunsLast(runs) ==
    FoldLeft(LAMBDA code, r : IF CodeOf(r) # 0 THEN CodeOf(r) ELSE code, 0, runs)

ExitCodeOfRuns(runs) ==
    FoldLeft(LAMBDA code, r : IF code = 0 THEN CodeOf(r) ELSE code, 0, runs)

Ended(status, host) == [status |-> status, host |-> host]

Haisos(file, overrides, tree, host) ==
    LET read  == ParseHaisosFile(file, overrides)
        built == BuildRootFileSystem(read.steps, read.root)
        ready == SetUp(tree, read.setup, host, TRUE)
        code  == ExitCodeOfRuns(read.runs)
        out   == CopyOut(host, read.out, ready.tree)
    IN  IF read.error \/ ~built.ok \/ ~ready.ok THEN Ended(1, host)
        ELSE IF \A i \in DOMAIN read.runs : read.runs[i].ends = "notStarted"
        THEN Ended(NotStarted, host)
        ELSE Ended(IF ~out.ok /\ code = 0 THEN 1 ELSE code, out.tree)

---------------------------------------------------------------------------

\* The positions of the directives of those kinds.
At(file, keys) == {i \in DOMAIN file : file[i].key \in keys}
AllBefore(s, t) == \A i \in s, j \in t : i < j

\* What the haisosfile's rules say of a file, whatever order it is read in.
InOrder(file, overrides) ==
    /\ AllBefore(At(file, {"ROOT", "FS", "MOUNT"}), At(file, FileDirectives))
    /\ AllBefore(At(file, FileDirectives \ {"OUTCOPY"}), At(file, {"RUN"}))
    /\ At(file, {"RUN"}) # {}
    /\ Cardinality(At(file, {"ROOT"})) <= 1
    /\ \A i \in DOMAIN file : \A n \in file[i].uses :
          \E j \in At(file, {"ARG", "VAR"}) : j < i /\ file[j].name = n
    /\ \A i \in At(file, {"ARG"}) : file[i].given \/ file[i].name \in overrides
    /\ \A n \in overrides : \E i \in At(file, {"ARG"}) : file[i].name = n

RECURSIVE Stands(_, _, _)
\* What the name stands for before step k: the last FS or MOUNT of it above.
Stands(steps, name, k) ==
    LET above == {i \in 1..(k - 1) : steps[i].name = name}
        i == Max(above)
    IN  CASE above = {} -> << >>
          [] above # {} /\ steps[i].key = "MOUNT" ->
                <<"COMPOSED", Stands(steps, name, i), Stands(steps, steps[i].args[1], i)>>
          [] above # {} /\ steps[i].key = "FS" ->
                <<steps[i].type>> \o [a \in DOMAIN steps[i].args |->
                                        Stands(steps, steps[i].args[a], i)]

NamesStand(steps) ==
    \A k \in DOMAIN steps :
        LET declared == {i \in 1..(k - 1) : steps[i].key = "FS"}
        IN  /\ \A n \in Referred(steps[k]) : \E i \in declared : steps[i].name = n
            /\ steps[k].key = "FS" => \A i \in declared : steps[i].name # steps[k].name

\* BootsAsDeclared: a haisosfile is taken exactly if its directives keep their
\* order and name only what is declared above them; its root is then the file
\* system that ROOT, or else the last FS, stands for once every MOUNT is made.
BootsAsDeclared(file, overrides) ==
    LET read  == ParseHaisosFile(file, overrides)
        steps == SelectSeq(file, LAMBDA d : d.key \in {"FS", "MOUNT"})
        built == BuildRootFileSystem(read.steps, read.root)
        all   == At(steps, {"FS"})
        roots == At(file, {"ROOT"})
        name  == IF roots # {} THEN file[Max(roots)].name
                 ELSE IF all = {} THEN "" ELSE steps[Max(all)].name
    IN  /\ ~read.error <=> InOrder(file, overrides)
        /\ ~read.error =>
             /\ built.ok <=> \/ steps = << >>
                             \/ NamesStand(steps) /\ \E i \in all : steps[i].name = name
             /\ built.ok /\ steps # << >> =>
                  built.fs = Stands(steps, name, Len(steps) + 1)

\* Every node hangs in a directory.
WholeTree(tree) == \A p \in DOMAIN tree : p = << >> \/ IsDirectory(tree, Front(p))

\* What a set-up directive may change: nothing but the path it names and,
\* above it, directories that were missing; if it fails, those directories
\* may have been made, or part of what was to be deleted be gone.  The file
\* itself is touched by a failing directive only when a read or a write failed
\* under it, and then holds a beginning of what it was to hold.
ChangesOnlyItsPath(t, op, r, host) ==
    LET u == r.tree
        added   == DOMAIN u \ DOMAIN t
        removed == DOMAIN t \ DOMAIN u
        changed == {p \in DOMAIN t \intersect DOMAIN u : t[p] # u[p]}
        content == CASE op.key = "COPY" -> host[op.host].data
                     [] op.key = "APPEND" /\ Has(t, op.path) -> t[op.path].data \o op.content
                     [] OTHER -> op.content
    IN  /\ WholeTree(u)
        /\ \A p \in added : IsStrictPrefix(p, op.path) => u[p] = Directory
        /\ added # {} => op.key # "DELETE" /\ \A p \in added : IsPrefix(p, op.path)
        /\ removed # {} => op.key = "DELETE" /\ \A p \in removed : IsPrefix(op.path, p)
        /\ changed \subseteq {op.path}
        /\ r.ok => CASE op.key = "DELETE" -> ~Has(u, op.path)
                     [] op.key = "CREATE_DIR" -> IsDirectory(u, op.path)
                     [] op.key = "BUILTIN" -> op.path \in added /\ u[op.path] = Note
                     [] OTHER -> u[op.path] = File(content)
        /\ ~r.ok /\ op.path \in added \union changed =>
              /\ op.key \in {"CREATE", "APPEND", "COPY"} /\ op.opens
              /\ u[op.path].type = "file" /\ IsPrefix(u[op.path].data, content)
              /\ op.key = "APPEND" /\ Has(t, op.path) =>
                    IsPrefix(t[op.path].data, u[op.path].data)
              /\ op.key # "COPY" => u[op.path].data # content
        /\ r.ok /\ op.key = "COPY" => op.opens
        /\ \A p \in DOMAIN t : t[p] = Note => Has(u, p) /\ u[p] = Note

\* FilesAreSetUpAsWritten: each file directive does what it says at its path
\* and changes nothing else; nothing is applied behind one that fails; a
\* built-in command placed stays; and a read-only root is left as it is.
FilesAreSetUpAsWritten(tree, ops, host) ==
    \A k \in DOMAIN ops :
        LET before == SetUp(tree, SubSeq(ops, 1, k - 1), host, TRUE)
            after  == SetUp(tree, SubSeq(ops, 1, k), host, TRUE)
            sealed == SetUp(before.tree, <<ops[k]>>, host, FALSE)
        IN  /\ IF before.ok THEN ChangesOnlyItsPath(before.tree, ops[k], after, host)
               ELSE after = before
            /\ ops[k].key # "BUILTIN" => sealed.tree = before.tree

\* ExitStatusTellsTheRuns: haisos exits by the first RUN, in file order, that
\* did not exit 0 (127 if it was never started, 143 if it still ran), 0 when
\* all did and everything was copied out, and 1 for an error of its own; the
\* host's files are touched only once the processes are done, and then only
\* where an OUTCOPY points.
ExitStatusTellsTheRuns(file, overrides, tree, host) ==
    LET end  == Haisos(file, overrides, tree, host)
        read == ParseHaisosFile(file, overrides)
        bad  == {i \in DOMAIN file : file[i].key = "RUN" /\ CodeOf(file[i]) # 0}
        boots == /\ ~read.error
                 /\ BuildRootFileSystem(read.steps, read.root).ok
                 /\ SetUp(tree, read.setup, host, TRUE).ok
        ran  == \E i \in At(file, {"RUN"}) : file[i].ends # "notStarted"
        outs == At(file, {"OUTCOPY"})
        made == SetUp(tree, read.setup, host, TRUE).tree
        Goes(d) == /\ Has(made, d.path) /\ ~IsDirectory(made, d.path)
                   /\ d.opens /\ Len(made[d.path].data) < d.upto
        LastTo(h) == Max({i \in outs : file[i].host = h})
    IN  /\ ~boots => end = Ended(1, host)
        /\ boots /\ bad # {} => end.status = CodeOf(file[Min(bad)])
        /\ boots /\ bad = {} =>
             end.status = IF \A i \in outs : /\ Goes(file[i]) /\ Has(end.host, file[i].host)
                                             /\ ~IsDirectory(end.host, file[i].host)
                          THEN 0 ELSE 1
        /\ boots /\ end.status = 0 =>
             \A i \in outs : LET h == file[i].host
                             IN  end.host[h].data = made[file[LastTo(h)].path].data
        /\ end.host # host => boots /\ ran
        /\ \A p \in DOMAIN end.host \union DOMAIN host :
             \/ p \in DOMAIN end.host /\ p \in DOMAIN host /\ end.host[p] = host[p]
             \/ \E i \in outs : IsPrefix(p, file[i].host)
        /\ WholeTree(end.host)
===========================================================================
