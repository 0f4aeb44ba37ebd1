---------------------------- MODULE FileSystems -----------------------------
(***************************************************************************)
(* The file systems an OS is assembled from (Filesystem/): in-memory       *)
(* trees, the wrappers around them (read-only, sub-path, composed), the    *)
(* devices, what is mounted on each and the built-in commands placed on    *)
(* it, and the files open on them.  A process sees one of them, Root, and  *)
(* names its files from where it is (ProcessFileIO).                       *)
(*                                                                         *)
(* A call goes down from one file system to the next until one owns the    *)
(* path; each keeps its state under a lock of its own, and a call is one   *)
(* step here: what can come between two of its locks is only the assembly  *)
(* of the OS, which is over before its processes run.  Times, link counts  *)
(* and host disks are left out.                                            *)
(***************************************************************************)
EXTENDS VirtualPath, FiniteSets, FiniteSetsExt, TLC

CONSTANTS
    Kind,           \* file system -> "mem", "dev", "ro", "sub" or "composed"
    Inner,          \* wrapper -> the file system it wraps
    Base,           \* sub-path file system -> m_basePath, normalized
    Root,           \* what the OS hands out (GetRootFileSystem)
    InitNodes,      \* in-memory file system -> what it starts with
    InitMounts,     \* file system -> mount point -> file system
    Written,        \* the paths a program writes
    Places,         \* bound: the normalized paths they may lead to
    Visited,        \* bound: the directories the process goes to
    BuiltinPaths,   \* where the OS's builder places built-in commands
    MountPaths, Mountable,
    Handles,        \* open file descriptors
    MaxSize,        \* bound: bytes in a file
    None

FS == DOMAIN Kind

\* What a program opens a file with; the modes of the hsh redirections and of
\* the Lua library.
ReadOnly == {}
FlagSets == {ReadOnly, {"wronly", "creat", "append"}, {"rdwr", "creat", "trunc"}}

\* Faulty variant: write access asked for with O_WRONLY alone.
RequestsWriteAccessByWriteOnly(flags) == "wronly" \in flags

RequestsWriteAccess(flags) == flags # {}

VARIABLES
    nodes,      \* in-memory file system -> path -> node
    mounts,     \* file system -> mount point -> file system
    builtins,   \* file system -> the paths of its own built-in commands
    open,       \* handle -> the descriptor, or None
    cwd         \* m_workingDirectory of the process

vars == <<nodes, mounts, builtins, open, cwd>>

Directory == [dir |-> TRUE, data |-> <<>>]
EmptyFile == [dir |-> FALSE, data |-> <<>>]

Init ==
    /\ nodes = InitNodes
    /\ mounts = InitMounts
    /\ builtins = [f \in FS |-> {}]
    /\ open = [h \in Handles |-> None]
    /\ cwd = <<>>

(***************************************************************************)
(* The way of a call down to who owns its path: a sequence of hops, each a *)
(* file system, the path in it and what that one does with the path: it is *)
(* a built-in command of its own, is forwarded to a mount or to what it    *)
(* wraps, or is its own.                                                   *)
(***************************************************************************)

\* MountPoints::Resolve: the longest mount point the path is at or under.
Covering(f, path) == {point \in DOMAIN mounts[f] : IsAtOrUnder(path, point)}
Route(f, path) == CHOOSE point \in Covering(f, path) :
                      \A other \in Covering(f, path) : Len(other) <= Len(point)

ResolveInRoot(f, path) == IF Kind[f] = "sub" THEN Base[f] \o path ELSE path

Hop(f, path, by) == [fs |-> f, path |-> path, by |-> by]

RECURSIVE Way(_, _)
Way(f, path) ==
    CASE path \in builtins[f] -> <<Hop(f, path, "builtin")>>
      [] path \notin builtins[f] /\ Covering(f, path) # {} ->
             LET point == Route(f, path)
             IN  <<Hop(f, path, "mount")>> \o Way(mounts[f][point], RelativeToBase(point, path))
      [] path \notin builtins[f] /\ Covering(f, path) = {} /\ Kind[f] \in {"mem", "dev"} ->
             <<Hop(f, path, "own")>>
      [] OTHER -> <<Hop(f, path, "wrap")>> \o Way(Inner[f], ResolveInRoot(f, path))

Owner(f, path) == Last(Way(f, path))

\* Refused by a read-only file system on the way, whose mounts it does not
\* answer for.
Refused(f, path) ==
    \E i \in DOMAIN Way(f, path) : LET hop == Way(f, path)[i]
                                   IN  hop.by = "wrap" /\ Kind[hop.fs] = "ro"

Writable(f, path) == Owner(f, path).by = "own" /\ Kind[Owner(f, path).fs] = "mem" /\ ~Refused(f, path)

-----------------------------------------------------------------------------
(* What is at a path (Stat) and in a directory (ReadDirectory).            *)

Nothing == [type |-> None, data |-> <<>>]
Something(type, data) == [type |-> type, data |-> data]

Note == <<-1>>      \* the text of a built-in command's file
Devices == {<<"null">>, <<"zero">>}

DeviceStat(path) ==
    CASE path = <<>>       -> Something("dir", <<>>)
      [] path \in Devices -> Something("char", <<>>)
      [] OTHER             -> Nothing

LocalStat(f, path) ==
    CASE Kind[f] = "dev" -> DeviceStat(path)
      [] Kind[f] = "mem" /\ path \in DOMAIN nodes[f] ->
             IF nodes[f][path].dir THEN Something("dir", <<>>)
                                   ELSE Something("file", nodes[f][path].data)
      [] OTHER -> Nothing

\* Directories that exist as the way down to a mount only.
LeadsToMount(f, path) == \E point \in DOMAIN mounts[f] : IsUnder(point, path)

RECURSIVE Stat(_, _)
Stat(f, path) ==
    IF path \in builtins[f] THEN Something("file", Note)
    ELSE IF Covering(f, path) # {}
    THEN LET point == Route(f, path) IN Stat(mounts[f][point], RelativeToBase(point, path))
    ELSE LET local == IF Kind[f] \in {"mem", "dev"} THEN LocalStat(f, path)
                      ELSE Stat(Inner[f], ResolveInRoot(f, path))
         IN  IF local = Nothing /\ LeadsToMount(f, path) THEN Something("dir", <<>>) ELSE local

Entry(name, type) == [name |-> name, type |-> type]
Names(entries) == {entry.name : entry \in entries}
Unlisted(entries, more) == {entry \in more : entry.name \notin Names(entries)}

\* Faulty variant: whatever is below counts as in it.
LocalReadDirectoryDeep(f, path) ==
    IF Kind[f] = "mem" /\ LocalStat(f, path).type = "dir"
    THEN {Entry(VirtualLastSegment(p), LocalStat(f, p).type) :
              p \in {q \in DOMAIN nodes[f] : IsUnder(q, path)}}
    ELSE {}

DeviceEntries(path) ==
    IF path = <<>> THEN {Entry(VirtualLastSegment(d), "char") : d \in Devices} ELSE {}

LocalReadDirectory(f, path) ==
    CASE Kind[f] = "dev" -> DeviceEntries(path)
      [] Kind[f] = "mem" /\ LocalStat(f, path).type = "dir" ->
             {Entry(VirtualLastSegment(p), LocalStat(f, p).type) :
                  p \in {q \in DOMAIN nodes[f] \ {path} : VirtualParentOf(q) = path}}
      [] OTHER -> {}

ChildSegments(f, path) ==
    {RelativeToBase(path, point)[1] : point \in {p \in DOMAIN mounts[f] : IsUnder(p, path)}}

\* The entries but "." and "..", which are there unless this is no directory.
OwnBuiltinEntries(f, path) ==
    {Entry(VirtualLastSegment(b), "file") : b \in {p \in builtins[f] : VirtualParentOf(p) = path}}

RECURSIVE ReadDirectory(_, _)
ReadDirectory(f, path) ==
    LET served ==
            IF Covering(f, path) # {}
            THEN LET point == Route(f, path)
                 IN  ReadDirectory(mounts[f][point], RelativeToBase(point, path))
            ELSE LET local == IF Kind[f] \in {"mem", "dev"} THEN LocalReadDirectory(f, path)
                              ELSE ReadDirectory(Inner[f], ResolveInRoot(f, path))
                 IN  local \union
                     Unlisted(local, {Entry(name, "dir") : name \in ChildSegments(f, path)})
    IN  served \union Unlisted(served, OwnBuiltinEntries(f, path))

-----------------------------------------------------------------------------
(* The calls of a process.                                                 *)

ResolvePath(written) == NormalizeVirtualPath(written, cwd)

ChangeDirectory(written) ==
    /\ LET target == ResolvePath(written)
       IN  /\ target \in Visited
           /\ target = <<>> \/ Stat(Root, target).type = "dir"
           /\ cwd' = target
    /\ UNCHANGED <<nodes, mounts, builtins, open>>

Open(h, descriptor) == open[h] = None /\ open' = [open EXCEPT ![h] = descriptor]

Descriptor(kind, f, path, flags) ==
    [kind |-> kind, fs |-> f, path |-> path, pos |-> 0,
     writable |-> flags \intersect {"wronly", "rdwr"} # {},
     readable |-> "wronly" \notin flags,
     append |-> "append" \in flags]

OpenNote(h, flags, owner) ==
    /\ owner.by = "builtin" /\ ~RequestsWriteAccess(flags)
    /\ Open(h, Descriptor("note", owner.fs, owner.path, flags))
    /\ UNCHANGED nodes

OpenDevice(h, flags, owner) ==
    /\ owner.by = "own" /\ Kind[owner.fs] = "dev" /\ owner.path \in Devices
    /\ Open(h, Descriptor("device", owner.fs, owner.path, flags))
    /\ UNCHANGED nodes

LocalOpenFile(h, flags, f, path) ==
    \/ /\ path \in DOMAIN nodes[f] /\ ~nodes[f][path].dir
       /\ Open(h, Descriptor("file", f, path, flags))
       /\ nodes' = IF "trunc" \in flags THEN [nodes EXCEPT ![f][path].data = <<>>] ELSE nodes
    \/ /\ path \notin DOMAIN nodes[f] /\ "creat" \in flags
       /\ LocalStat(f, VirtualParentOf(path)).type = "dir"
       /\ Open(h, Descriptor("file", f, path, flags))
       /\ nodes' = [nodes EXCEPT ![f] = @ @@ (path :> EmptyFile)]

OpenFile(h, written, flags) ==
    LET path == ResolvePath(written)
        owner == Owner(Root, path)
    IN  /\ RequestsWriteAccess(flags) => ~Refused(Root, path)
        /\ \/ OpenNote(h, flags, owner)
           \/ OpenDevice(h, flags, owner)
           \/ /\ owner.by = "own" /\ Kind[owner.fs] = "mem"
              /\ LocalOpenFile(h, flags, owner.fs, owner.path)
        /\ UNCHANGED <<mounts, builtins, cwd>>

Close(h) ==
    /\ open[h] # None
    /\ open' = [open EXCEPT ![h] = None]
    /\ UNCHANGED <<nodes, mounts, builtins, cwd>>

\* The node a descriptor finds: by its path, whatever was there when it was
\* opened.
Found(d) == IF d.kind = "file" /\ d.path \in DOMAIN nodes[d.fs] THEN nodes[d.fs][d.path] ELSE None

\* One byte at a time; the calls that return end of file or an error, and
\* those on devices and notes, change nothing.
ReadAt(h) ==
    /\ open[h] # None /\ open[h].readable /\ Found(open[h]) # None
    /\ open[h].pos < Len(Found(open[h]).data)
    /\ open' = [open EXCEPT ![h].pos = @ + 1]
    /\ UNCHANGED <<nodes, mounts, builtins, cwd>>

\* A write past the end fills the gap with zeros.
Overwritten(data, pos, byte) ==
    [i \in 1..Max({Len(data), pos + 1}) |->
        IF i = pos + 1 THEN byte ELSE IF i <= Len(data) THEN data[i] ELSE 0]

WriteAt(h) ==
    /\ open[h] # None /\ open[h].writable /\ Found(open[h]) # None
    /\ LET d == open[h]
           data == Found(d).data
           pos == IF d.append THEN Len(data) ELSE d.pos
       IN  /\ pos < MaxSize
           /\ nodes' = [nodes EXCEPT ![d.fs][d.path].data = Overwritten(data, pos, 1)]
           /\ open' = [open EXCEPT ![h].pos = pos + 1]
    /\ UNCHANGED <<mounts, builtins, cwd>>

CreateDirectory(written) ==
    LET path == ResolvePath(written)
        owner == Owner(Root, path)
    IN  /\ Writable(Root, path)
        /\ owner.path \notin DOMAIN nodes[owner.fs]
        /\ LocalStat(owner.fs, VirtualParentOf(owner.path)).type = "dir"
        /\ nodes' = [nodes EXCEPT ![owner.fs] = @ @@ (owner.path :> Directory)]
        /\ UNCHANGED <<mounts, builtins, open, cwd>>

Erased(f, path) == [nodes EXCEPT ![f] = [p \in DOMAIN @ \ {path} |-> @[p]]]

\* Faulty variant: without the look for what is in it.
RemoveDirectoryFull(written) ==
    LET owner == Owner(Root, ResolvePath(written))
    IN  /\ Writable(Root, ResolvePath(written))
        /\ owner.path # <<>> /\ LocalStat(owner.fs, owner.path).type = "dir"
        /\ nodes' = Erased(owner.fs, owner.path)
        /\ UNCHANGED <<mounts, builtins, open, cwd>>

\* Every file system on the way refuses for the built-in commands it placed
\* at or below.
HoldsBuiltins(f, path) ==
    \E i \in DOMAIN Way(f, path) : LET hop == Way(f, path)[i]
                                   IN  \E b \in builtins[hop.fs] : IsAtOrUnder(b, hop.path)

RemoveDirectory(written) ==
    LET path == ResolvePath(written)
        owner == Owner(Root, path)
    IN  /\ Writable(Root, path)
        /\ ~HoldsBuiltins(Root, path)
        /\ owner.path # <<>> /\ LocalStat(owner.fs, owner.path).type = "dir"
        /\ \A p \in DOMAIN nodes[owner.fs] : ~IsUnder(p, owner.path)
        /\ nodes' = Erased(owner.fs, owner.path)
        /\ UNCHANGED <<mounts, builtins, open, cwd>>

RemoveFile(written) ==
    LET path == ResolvePath(written)
        owner == Owner(Root, path)
    IN  /\ Writable(Root, path)
        /\ LocalStat(owner.fs, owner.path).type = "file"
        /\ nodes' = Erased(owner.fs, owner.path)
        /\ UNCHANGED <<mounts, builtins, open, cwd>>

-----------------------------------------------------------------------------
(* The assembly of the OS, whose checks are BuiltinConfigurator's.         *)

AddBuiltinCommand(path) ==
    /\ path # <<>> /\ Kind[Root] # "dev"
    /\ Stat(Root, VirtualParentOf(path)).type = "dir"
    /\ Owner(Root, path).by # "builtin" /\ Stat(Root, path) = Nothing
    /\ builtins' = [builtins EXCEPT ![Root] = @ \union {path}]
    /\ UNCHANGED <<nodes, mounts, open, cwd>>

RemoveBuiltinCommand(path) ==
    /\ path \in builtins[Root]
    /\ builtins' = [builtins EXCEPT ![Root] = @ \ {path}]
    /\ UNCHANGED <<nodes, mounts, open, cwd>>

\* File systems are put together before anything is placed on them
\* (BuildRootFileSystem, then HaisosFileOperations).
NothingPlaced == builtins[Root] = {}

Mount(point, f) ==
    /\ NothingPlaced
    /\ mounts' = [mounts EXCEPT ![Root] = (point :> f) @@ @]
    /\ UNCHANGED <<nodes, builtins, open, cwd>>

Unmount(point) ==
    /\ NothingPlaced
    /\ mounts' = [mounts EXCEPT ![Root] = [p \in DOMAIN @ \ {point} |-> @[p]]]
    /\ UNCHANGED <<nodes, builtins, open, cwd>>

Next ==
    \/ \E written \in {w \in Written : ResolvePath(w) \in Places} :
           \/ ChangeDirectory(written)
           \/ CreateDirectory(written)
           \/ RemoveDirectory(written)
           \/ RemoveFile(written)
           \/ \E h \in Handles, flags \in FlagSets : OpenFile(h, written, flags)
    \/ \E h \in Handles : Close(h) \/ ReadAt(h) \/ WriteAt(h)
    \/ \E path \in BuiltinPaths : AddBuiltinCommand(path) \/ RemoveBuiltinCommand(path)
    \/ \E point \in MountPaths : Unmount(point) \/ \E f \in Mountable : Mount(point, f)

Spec == Init /\ [][Next]_vars

-----------------------------------------------------------------------------

Place(f, path) ==
    LET status == Stat(f, path) IN [path |-> path, type |-> status.type, data |-> status.data]

\* What there is, seen from the root.
View == {entry \in {Place(Root, path) : path \in Places} : entry.type # None}

Tree == INSTANCE FileTree WITH tree <- View, mounted <- mounts[Root]

\* Through mounts, wrappers and built-in commands, a process sees one tree:
\* whatever is there hangs in a directory, and a call makes, removes or changes
\* one place (the routing of MountableFileSystem.cpp, the checks of
\* InMemoryFileSystem.cpp).
ImplementsFileTree == Tree!Spec

\* A directory lists exactly what can be found in it, each entry under the
\* type Stat gives it (MountableFileSystem::ReadDirectory and Stat, which go
\* down separately).  Two mounts are the exception: of a sub-path whose
\* directory was removed since, and over a file, which goes on being listed.
ListingAgreesWithStat ==
    (\A point \in DOMAIN mounts[Root] :
         Stat(Root, point).type = "dir" /\ Stat(Inner[Root], point).type # "file") =>
        \A directory \in {entry \in View : entry.type = "dir"} :
            ReadDirectory(Root, directory.path) =
                {Entry(VirtualLastSegment(entry.path), entry.type) :
                     entry \in {e \in View : e.path # <<>> /\ VirtualParentOf(e.path) = directory.path}}

\* What a process finds, reads and is shown, before each step, is the one tree.
OneTree == ImplementsFileTree /\ [][ListingAgreesWithStat]_vars

\* However a path is written and whenever a file was opened, nothing changes
\* behind a read-only file system, nor outside the directory of a sub-path
\* one, where that is the only way in (ReadOnlyFileSystem.cpp,
\* SubFileSystem.cpp).
ConfinedAction ==
    \A f \in FS :
        /\ Kind[f] = "ro" => nodes'[Inner[f]] = nodes[Inner[f]]
        /\ Kind[f] = "sub" =>
               \A path \in DOMAIN nodes[Inner[f]] \union DOMAIN nodes'[Inner[f]] :
                   IsAtOrUnder(path, Base[f]) \/
                   /\ path \in DOMAIN nodes[Inner[f]] \intersect DOMAIN nodes'[Inner[f]]
                   /\ nodes'[Inner[f]][path] = nodes[Inner[f]][path]
WritesStayConfined == [][ConfinedAction]_vars
====
