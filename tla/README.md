# A TLA+ development of haisos

haisos is an "AI agents operating system" in C++: it runs *processes* (LLM
agents described by Markdown programs, Lua scripts and built-in commands, among
them the shell `hsh`) over a virtual file system, connects them with pipes, and
lets agents start other agents. Each running program has a thread of its own, so
much of what can go wrong lies in the interplay of threads, locks, stop requests
and object lifetimes; the rest is in the texts it reads, the language of `hsh`
above all, and in file systems made of other file systems. This directory models
these, checks them with TLC and proves parts of them with TLAPS. Source paths below are relative to the
repository's root.

## 1. The system: inventory

| Component | Source | State | Operations | Talks to |
|---|---|---|---|---|
| Pipe service | `src/components/PipeService` | per pipe: ring (storage, head, size), two "end open" flags, a mutex, two condition variables | Read, Write, release of an end | stop tokens, descriptor tables |
| Stop tokens | `src/components/libheaders/StopToken.h` | flag, registered callbacks, a mutex | RequestStop, StopCallback construction/destruction | pipes; every process has one |
| Agent | `src/components/Agent` | command queue, history, stop flag, finished flag and hook | Post, TriggerStop, SetFinishedHook, the conversation thread | LLM communicator, tools, console |
| Agent process | `src/components/HaisosOS/AgentProcess`, `AgentInputLoop`, `ProcessAgentConsole` | stop and broken-pipe flags, latched exit code, the input loop | Create, TriggerStop, StopForBrokenPipe, ExitCode, WaitToFinish | agent, descriptor table, stdin |
| Built-in and Lua processes | `BuiltinCommands/BuiltinProcess`, `HaisosOS/LuaProcess` | thread, stop/broken-pipe/exit flags, exit code | the thread's end, TriggerStop, ExitCode | descriptor table |
| Descriptor table | `HaisosOS/ProcessFileIO` | a vector of shared descriptors, the working directory | Add, Dup, Dup2, Close, InstallStandardStreams, CreatePipe, ReleaseAll, ChangeDirectory | pipe service, root file system |
| HaisosOS | `HaisosOS/HaisosOS` | the list of processes, shutting-down flag | StartProcess, cleanup, destruction | LLM service, all runtimes |
| Destruction thread | `libheaders/DestroyOffRuntimeThreads.h` | a queue of objects to destroy | Hand, Run | every object that owns a thread |
| LLM service | `LLMService`, `src/tools/agent_*` | the list of agents, shutting-down flag | CreateAgent, cleanup, destruction; agent_start, agent_query, agent_wait_to_finish | agents |
| LLM communicator, HTTP client, network service | `LLMCommunicator`, `HTTPClient`, `NetworkService` | none to speak of | Call | the network |
| hsh | `BuiltinCommands/commands/hsh` | variables, options, redirections, jobs, live children | lexing, parsing, expansion, execution, pipelines, jobs | processes, pipes, descriptors |
| Built-in commands and their framework | `BuiltinCommands/BuiltinCommand`, `commands/{cat,echo,ls,man,mkdir,pwd,wc}` | an output buffer and its failures; what is carried from read to read | argument parsing, output, Run | descriptors, file system |
| File systems | `Filesystem` | mounts, in-memory tree, built-ins placed | path normalisation, mounting, opening, creating, removing | physical file system, descriptor table |
| Runner | `src/haisos` | parsed options, the haisosfile's declarations and operations, traffic log | argument and file parsing, set-up, start-up, copying out, exit status | everything |
| Environment, Logger, Console, Unicode, factories | `Environment`, ... | small maps and buffers | get/set, log, write | - |

Every component, with the part of it that is modelled or the reason why it is
not, is listed with its files in `PROJECT.json`.

### How the parts interact

- `main` builds the file system and the OS, starts one process and waits for it.
  `HaisosOS::StartProcess` makes a descriptor table, then a process of one of
  three runtimes (agent, Lua, built-in), each with a *runtime thread* of its own.
- A process's standard streams are descriptors; a descriptor may be an end of a
  pipe that other processes' tables share. Releasing the last reference to an
  end closes it. hsh connects the stages of a pipeline that way.
- `TriggerStop` on a process sets its stop token. The token runs the callbacks
  of the blocking calls in progress, which wake the pipe's waiters; an agent
  notices a stop between its steps, Lua through an instruction hook, hsh before
  each command.
- A program calls back into its OS through tools (`os_*`), an agent into the LLM
  service (`agent_*`), hsh by starting children. Such a call locks a weak
  reference first, so the caller may end up with the *last* reference to its own
  process or to its OS; the custom deleter of `DestroyOffRuntimeThreads.h` then
  hands the object to a thread of its own instead of letting it join itself.
- An agent process feeds its agent the lines of its standard input and is
  finished when the agent's finished hook has run.

### What is hard

- **Locks in two orders.** A pipe call takes the pipe's mutex and then waits; a
  stop takes the token's mutex and then, in callbacks, the pipe's.
- **Wake-ups.** A waiter decides to wait, and the reason to stop waiting may
  arrive before it does: data, room, a closed end or a stop.
- **Ends that must be let go of, and not too early.** A pipeline hangs when
  anybody keeps an end, and breaks when an end goes before its stage has begun.
- **Stops in the middle of something.** Between a response and its tool results,
  inside nested `pcall`s and coroutines, inside loops, functions and subshells,
  between "not finished yet" and the exit code.
- **Object lifetimes.** Objects that own threads and are kept by references that
  may be dropped on exactly these threads, also while `main` returns.
- **Shutdown against start.** An agent or process created while the list of all
  agents or processes is being taken away.
- **A table with holes** that must look like POSIX's to its callers.
- **One tree out of many.** Mounts, wrappers, devices and placed built-ins each
  answer a part of every call, and have to agree on what is there.
- **Text read piece by piece.** A program is lexed before it is parsed, ends of
  substitutions are guessed, typed lines come one at a time; bytes arrive cut
  anywhere; quoting must survive several levels of expansion.

The complete list, each item at its line and with the properties that watch it,
is under "hazards" in `PROJECT.json`.

### What makes each component correct

| Component | It is correct when |
|---|---|
| Pipe | bytes come out as they went in; small writes stay whole; nobody waits without a reason; a stop or a closed end releases whoever waits |
| Stop tokens | no callback runs for a call that has returned; stopping never deadlocks |
| Agent | the history sent to the LLM answers every tool call once; a stop bounds what is still begun; one-shot agents finish; the hook runs once, before "finished" |
| Agent process | the program comes first; the exit code says how it ended and stays; stopped or closed, it finishes |
| LLM service | nothing uses it after its destruction, which always ends; running children are found |
| Descriptor table | it is the POSIX table; nothing is closed while in use |
| hsh | a pipeline ends, whatever its stages; counters follow the calls; control flow goes where it is meant to; a stop ends the shell, but where it never looks for one |
| Lua process | aborted, a script has no more effects but through code Lua runs with hooks off; the exit code tells the ending; a stop ends it, unless such code goes on |
| HaisosOS | nothing is destroyed on a runtime thread or while used; nothing starts after shutdown; the program ends, unless some program ignores its stop |
| File systems | seen from the root they are one tree, of which a call changes one place; what is read-only or confined stays as it was |
| hsh's language | it takes the programs of the grammar and no others; a program is the same one typed, cut by continuations or run again from its recorded text; words, patterns and sums come to what they mean |
| Built-in commands | what they print does not depend on how their input is cut; output and messages keep their order; every way of writing an argument is understood |
| Runner | a haisosfile is carried out as it is written or refused; the exit status is that of the first run that did not end well |

## 2. The modules

Faulty variants of operators, marked "Faulty variant" in the modules, are what
the mutants substitute: each is a plausible mistake in the code that makes one
property fail.

| Module | Models | Kind |
|---|---|---|
| `Pipe` | `Pipe.cpp` and `StopToken.h`, one step per lock | component |
| `PipeChannel` | what `IPipeService` promises: a bounded FIFO of bytes | abstract specification |
| `MCPipe` | token assignment for TLC | instance |
| `PipeProofs` | types, wake-ups, callbacks, the bytes, refinement | proofs |
| `Agent` | `Agent.cpp`, `SynchronizedQueueEx.h` | component |
| `AgentProcess` | `AgentProcess.cpp`, `AgentInputLoop.cpp`, `ProcessAgentConsole.cpp`, around `Agent` (EXTENDS) | composition |
| `AgentProcessProofs` | conversations, stops, order, exit codes | proofs |
| `LLMService` | `LLMService.cpp` and the agent tools | component |
| `LLMServiceProofs` | the tree of agents, lifetimes, no circular waiting | proofs |
| `SlotTable` | the descriptor vector and its helpers | operators |
| `ProcessFileIO` | `ProcessFileIO.cpp`, over `SlotTable` | component |
| `DescriptorTable` | what `IFileIO` promises: a POSIX table | abstract specification |
| `MCProcessFileIO` | symmetry for TLC | instance |
| `ProcessFileIOProofs` | types, lifetimes, refinement | proofs |
| `VirtualPath` | `VirtualPath.h` | operators |
| `FileSystems` | every file system of `Filesystem/` but the physical one, `MountPoints.cpp`, `BuiltinConfigurator.cpp`, the path calls of `ProcessFileIO` | component |
| `FileTree` | what `IFileSystemService.h` promises: one tree | abstract specification |
| `MCFileSystems` | the file systems assembled for TLC | instance |
| `HshPipeline` | `Shell::ExecutePipelinedStages` | component |
| `HshPipelineProofs` | deadlock freedom, ends of input | proofs |
| `HshControl` | the interpreter of `HshShell.cpp` and the flow built-ins | component |
| `HshControlProofs` | the counters, where control flow goes | proofs |
| `HshLexer`, `HshParser` | `HshLexer.cpp`, `HshParser.cpp` | operators |
| `HshExpansion`, `HshPattern`, `HshArithmetic` | `HshExpansion.cpp`; `HshPattern.cpp`, `HshGlob.cpp`; `HshArithmetic.cpp` | operators |
| `ShellGrammar`, `HshLanguage`, `ExpansionMeaning`, `ArithmeticMeaning` | what these are to come to | reference definitions |
| `BuiltinCommand`, `Cat`, `Wc` | `BuiltinCommand.cpp`, `Cat.cpp`, `Wc.cpp`, `Unicode.cpp`, each with what it is to come to | operators |
| `HaisosFile`, `HaisosBoot` | `HaisosFileParser.cpp`; the directives' meaning in `HaisosFileSystemBuilder.cpp`, `HaisosFileOperations.cpp` and `main.cpp` | operators |
| `MCText` | every text of a part, up to its bound | instance |
| `LuaProcess` | `LuaProcess.cpp` | component |
| `LuaProcessProofs` | aborted scripts, exit codes | proofs |
| `HaisosOS` | `HaisosOS.cpp`, `DestroyOffRuntimeThreads.h`, the end of `main` | component |
| `HaisosOSProofs` | destruction, references, shutdown | proofs |

### Pipe

`storage`, `head`, `size`, `readEndOpen`, `writeEndOpen` are the members of
`PipeBuffer`; `mutex` its mutex; the wait sets are those of its two condition
variables. Each thread has a program counter through one `Read` or `Write`:
register the stop callback (token mutex), lock the pipe, one pass of the loop,
decide to wait, wait, unregister (token mutex). `StopStep` is `RequestStop`: it
owns the token's mutex from setting the flag until the last callback has run,
and each callback needs the pipe's. Writes copy in at most as many bytes as
fit, with the ring's real index arithmetic; a write of at most `AtomicSize`
bytes waits for room for all of it. A byte is who wrote it, in which call and
its place in it, so that interleaving and loss can be seen. Spurious wake-ups
are an action (bounded by `MaxSpurious`). Left out: the counter of open pipes.

### Agent and AgentProcess

`Agent` keeps the queue, whether it is closed, the history as roles and numbers
of tool calls, the stop flag and token, the finished flag and the hook; `apc`
follows `RunThread` and `ProcessCommand`. The LLM is external: any response the
communicator can return, or an exception. A tool returns or throws; `self_close`
is a tool of its own. `AgentProcess` EXTENDS it: its actions run an action of
the agent with the process's variables unchanged, or a step of the creating
thread (`cpc`: hook, post the program, start the loop, in the order of the
code), the input loop (`loop`), the stopping thread (`spc`: look, stop the
agent, set the flag) or somebody reading the exit code, which latches it.

### LLMService

Agents are numbers; each has a thread whose `pc` says where in a tool it is.
`agents` is `m_agents`, `held` who outside keeps an agent, `children` and
`named` what a parent's tools know. `CreateAgent` is cut where the code lets go
of the mutex: look at the flag, make the agent, insert and look again, let the
refused one go. The destructor takes the list, stops all, then waits for each.

### ProcessFileIO

`slots` is the vector, `refs` the references the calls in progress hold,
`closed` the descriptors whose last reference is gone. Each call is one step
under the table's mutex; what it evicted it keeps in `refs` and drops in a later
step, so that closing happens outside of the lock as in the code. `CreatePipe`
has its partial failures. The refinement maps `slots` to the function from slot
numbers to descriptors; dropping references maps to the closing of the open file.

### FileSystems

`nodes` are the trees of the in-memory file systems, `mounts` and `builtins` what
is mounted and placed on each file system, `open` the files a process has open
and `cwd` where it is. A call goes down as in the code: by the longest mount
point, into the wrapper's inner file system or below its base, past the built-ins
of each, until one owns the path; each call (open with its flags, read, write,
directories, removal, listing, status, changing directory) is one step with every
way it fails. A file remembers its path and not what was there when it was
opened. `FileTree` is the tree seen from the root: a call makes, removes or writes
one entry of it, and a mount replaces one place by another tree. Times, link
counts and host disks are left out.

### The language of hsh

`HshLexer` follows the lexer's functions, from a position of a text to where each
stops, with its two kinds of errors (more input could mend it, or not), the guess
at the end of `$( )` and the reading of here-documents. `HshParser` is the
recursive descent over the tokens; a tree remembers its first and last token, from
which the source text of a job or a function is built. `HshExpansion` walks a
word's parts into fields of elements (a character, whether it was quoted, whether
it may be split at) and finishes them in the ways the shell asks for;
`HshArithmetic` and `HshPattern` are the evaluator and the matcher it calls.
Letters and digits are a few each, and a reserved word is one letter: no rule
looks into one. The reference definitions share no order of reading with the
code: the grammar is the set of token sequences that can be cut into the parts of
a rule; an expression's meaning is by its outermost operator that binds least;
the fields of a value are what is between the members of `IFS`.

### Built-in commands

`BuiltinCommand` has the argument parser, the start of a command, and the output
streams as the state `x` of a context with its buffer, its failures and what has
reached the place both streams go to. `Cat` and `Wc` read inputs that are
sequences of pieces, one for each read, and end read, broken or stopped; what
they carry from one piece to the next is their state.

### HaisosFile and HaisosBoot

`HaisosFile` is about characters: comments, tokens, references, contents.
`HaisosBoot` is about directives: what is refused where, the file systems built
step by step, each operation on a tree with the failures of its calls, and from
the runs' ends the exit status. A call fails because of what is in the tree (a
file on the way, a built-in, a read-only file system) or because the directive
says so: its source cannot be opened (`opens`), or a read or a write fails once
`upto` pieces went through. A file opened for writing is emptied first, so that a
CREATE or a COPY that fails half way leaves a beginning of the new content and
nothing of the old; `OUTCOPY` makes the host's directories before it looks at its
source. `FilesAreSetUpAsWritten` says what a directive that failed may have left
behind, `ExitStatusTellsTheRuns` the same of the host.

### HshPipeline

One pipeline: `phase` is the shell's place in `ExecutePipelinedStages` (make the
pipes, start the programs, run the rest, wait), `shellReads`/`shellWrites` the
ends the shell still holds, `child` which stages are programs. A stage thinks,
reads, writes or exits; a pipe is its number of bytes. Output of a stage that
runs inside the shell and whose reader is run after it goes to an unbounded pipe
(`HshUnboundedPipe.cpp`).

### HshControl

`stack` is the C++ call stack of the interpreter: one frame per `Run` text,
list, and-or chain, pipeline, loop, conditional, function, dot script, subshell
or substitution; `doing` is what the innermost call is about to do: run, return
a status, throw one of the six kinds of exception, wait. `depth` holds the
shell's counters. The program is not fixed: which command comes next, and
whether it succeeds, is chosen at each step, so that every program nesting up
to `MaxFrames` calls is covered, of any length. Statuses are 0 and 1. What
`-e` does is kept (any failed chain outside a tested context); variables,
words, redirections and jobs are not, and pipes can always be made.

At the terminal `RunInteractive` is a loop of its own: write the prompt
(`WritePrompt`, where the pipe may break or the write be interrupted), read a line,
and run what it completes (`CommandTyped`), or nothing, when it is blank, incomplete
or does not parse (`NothingToRun`, `SyntaxError`). Only behind a command does it
look for a stop.

### LuaProcess

The script is any script: at each step its running Lua thread (`chain` is the
stack of resumed coroutines) prints, calls a tool, enters or leaves a `pcall`,
resumes, wraps, closes, yields, raises, exits or ends. `armed` says on which
Lua threads the hook is set to fire at every instruction, `count` how far the
period of the ordinary hook has run. A kill sets a flag and the stop token at
any moment. `closing` is chosen once and says whether the script may call
`coroutine.close` on a coroutine with to-be-closed variables.

Lua runs some code of a script with hooks switched off, where no kill reaches it:
the message handler of an `xpcall` around the error a hook raises (`luaL_error`
calls it before the stack unwinds, `LuaProcess.cpp:289-296`), finalizers, at any
allocation and when the state is closed (868), and the `__close` handlers of a
coroutine that died in its hook. `unhooked` says whether the script has such
code, `off` that it is running: it may print, call tools, call `exit()`, meet a
broken pipe, and it need not end. What it computes, and the coroutines it makes,
are its own affair; that the script is found armed behind it is not. A
`__tostring` handler of the script's error value, called by the top-level message
handler, runs with the hooks on and is instructions of the script like others.

### HaisosOS

References are explicit: `holds[t]` the processes thread `t` refers to, `door[t]`
whether it refers to the OS. `object` says of the OS and of each process whether
it is alive, handed to the destruction thread, being destroyed or gone, and
`destroyer` on which thread. Letting go of the last reference runs the deleter:
destroy here, or hand over. `StartProcess` is three steps (check, create and
start, push), as in the code; `~HaisosOS` drains in passes.

## 3. The runs

`tlc -config X.cfg M` in this directory. Bounds are chosen so that each
mechanism meets its boundary: more writers than room, more coroutines than one,
a table that fills up.

| Run | Bounds | Shows |
|---|---|---|
| `pipe` | 2 writers, 1 reader, ring of 2 bytes, writes of 2 (atomic) and 3 bytes, 2 calls each, one token shared by a writer and the reader, 1 spurious wake-up | no lost wake-up, no callback after its call, whole small writes and truthful results, refinement of `PipeChannel`, stopped and orphaned calls return. Writes larger than, equal to and smaller than the free room, and a wrap at every offset, all occur. |
| `agent_process` | an agent of either kind, as a process or a subagent; 2 commands, 2 rounds, 2 tool calls per response; failures, stops, a broken pipe and a look at the exit code at any time | well-formed conversations, how much is begun after a stop (in the command in flight at most one LLM call or tool, and one LLM call more for each command an interactive agent still takes), the program first, descriptors released and the hook run before "finished", true exit codes, that an agent nobody stops takes its commands and that it ends. Two rounds and two calls make a stop fall between rounds and between the results of one. |
| `llm_service` | 3 agents, depth 1, 2 tools per command | lifetimes, no circular waiting, and the end of the destructor; two siblings and a child cover every relation an agent can have to another |
| `descriptor_table` | 3 slots, 3 files, 2 threads, every argument | lifetimes, refinement of `DescriptorTable`; three slots are the standard streams and the least with holes at, before and after the end |
| `files` | seven file systems in one root, three mount points, relative and absolute spellings, one open file of one byte | what is seen is one tree and refines `FileTree`; what is read-only or outside the sub-path never changes |
| `text` | below | the language, the commands' input and arguments, the haisosfile |
| `hsh_pipeline` | 3 stages of every kind, capacity 1, 2 bytes each | no deadlock, true ends of input, every pipeline ends; three stages have a first, a middle and a last one |
| `hsh_control` | 6 nested calls, operands up to 2 | counters, catching, and that a stop ends the shell, but for three exceptions the property names |
| `hsh_stop` | 4 nested calls | *violation*: without the exceptions |
| `lua_process` | 2 coroutines, 1 level of pcall, hook every 2nd instruction, scripts with and without code that runs with the hooks off | aborted scripts have effects only through such code, exit codes, stops end a script in which such code ends; two coroutines make a thread between the aborted one and main |
| `lua_close_leak` | the same, scripts that close coroutines, without such code | *violation* |
| `haisos_os` | 2 processes that may start each other | destruction, references, shutdown, and that only a program that ignores its stop keeps `main` from its end |

The run `text` grows a text symbol by symbol from an alphabet, so that it meets
each text once, and compares what the code makes of it with what it means: a
property speaks of the text each step has written. A part
(`Settings` in `MCText`) is an alphabet, a bound and, it may be, what stands before
and behind the text, chosen so that short texts already reach the construct the
part is about:

| Property | Parts | Alphabet and bound |
|---|---|---|
| `TakesThePrograms` | compound commands, loops, conditions; ends of `$( )`, `case` clauses in it | token sequences of 4 or 5, the clauses within `case w in ... esac` |
| `ProgramsReadAlike` | continuations; lines typed one by one; recorded texts of jobs and functions | 3 to 6 characters, within `${ }`, a here-document, a list or a function as well |
| `WordsBecomeTheirFields` | splitting, words that are one field, names shown quoted | 3 to 6 characters, or elements of a value quoted or not |
| `PatternsMatchWhatFits` | pathnames, brackets, classes | 4 or 5 characters, against a tree of ten entries or every text of up to 3 of `a b - ]` |
| `ArithmeticMeansIt` | comparison, assignment, division, every other operator on -8, -1 and 3, the side not taken | 4 or 5 characters; integers of 4 bits, so that every operator overflows |
| `ReadsAreSeamless` | lines, visible bytes, characters cut by reads, several files | 3 or 4 bytes, ends of reads and of files, every choice of options |
| `ArgumentsAreRead`, `OutputInOrder` | items of an argument line; events of an output | 3 of 20 ways to write an argument; 5 events, blocks of a few bytes |
| `WhatIsQuotedComesBack`, `BootsAsWritten` | tokens and contents; orders, mounts, set-ups, endings | 4 characters; 3 to 5 directives |

Some properties have conditions worth knowing. `TakesThePrograms` and
`ProgramsReadAlike` leave out the texts listed under Findings below, each
described by where it comes from. A recorded text is looked at for jobs and
functions whose here-documents are their own. `ArithmeticMeansIt` is about
expressions that have a meaning; of the others it says that they are errors.

What a reference definition shares with the code is not checked by it.
`ArithmeticMeaning` defines its operators anew but takes the tokens, octal numbers
among them, and the number a variable holds from `HshArithmetic`.
`PatternsMatchWhatFits` is about how stars, brackets, escapes and components go
together; which characters a bracket or a class holds, and where a pattern is cut
into components, is the code's own definition on both sides.
`WhatIsQuotedComesBack` leaves out references within quotes (see Findings).

Deadlock is checked in `hsh_pipeline`, `descriptor_table` and `files`. The other
systems may really stop (a finished process, a shell that ended, callers that call no
more), and what must not block there is stated as liveness. TLC's own check says
little where a stop from outside is always possible; `NoDeadlock` (`HshPipeline`)
and `DestructionGoesOn` (`LLMService`) leave the stop out: somebody has a step of
its own to take. They spell out the guards of the waiting steps (`WaitsForBytes`,
`WaitsForRoom`, `ShellWaits`, `AgentWaits`), because the prover has no ENABLED.

### Fairness

Threads are scheduled: each thread inside a call, a runtime thread at work and
a destructor in progress is weakly fair. Nobody has to begin anything: callers
need not call, users need not stop, post or let go, except what is said below.

- `Pipe`: a thread inside a call, and a `RequestStop` in progress. A mutex is
  taken by whoever asks for it; this needs no strong fairness, for a thread
  holding the mutex is never blocked and the lock is only held within a step or
  by a thread that goes on.
- `Agent`: an LLM call returns (the HTTP client has a time-out), and so does a
  tool; both may fail instead.
- `AgentProcess`: the same, and the loop; the user need not type. Its liveness
  properties are about stdin that is a pipe: a read from a console cannot be
  interrupted, and a process on one may well wait for the next line.
- `LLMService`: nothing relies on `agent_wait_to_finish` giving up after its
  limit, which is a day.
- `HshPipeline`: every program of a pipeline eventually takes its next step; it
  chooses freely between reading, writing (a bounded number of bytes) and
  ending.
- `HshControl`: the shell's thread goes on, which at the terminal supposes that stdin
  is a pipe: a read from a console cannot be interrupted. The child it waits for need not
  finish: that the wait still ends on a stop is part of the property.
  `FiniteSpec`, used for the violation, also makes every part of the program
  that is finite in the source end (lists, chains, words, `for`, and the input of a
  terminal), so that the counterexample is a loop the shell runs for ever and not
  an endless program text.
- `LuaProcess`: the process's thread goes on, instruction after instruction,
  and a kill that began is completed. A script need not end by itself, nor need
  code that runs with the hooks off: `StopEndsScript` supposes that it does
  (`<>[]~off`), because nothing in `LuaProcess.cpp` could make it.
- `HaisosOS`: destructors, the destruction thread and `main` go on. Nothing is
  assumed of programs, not even that they end when they were asked to: a killed Lua
  script, a stopped hsh or a read from a console need not, as the other modules
  show. `ProgramEnds` says that this is the only thing that keeps `main` from its
  end: otherwise a destructor waits for ever for one program that was asked to stop
  and whose thread is free to go on.

## 4. What is proved

The proofs hold for every value of the constants under the modules' named
assumptions (distinct names, positive capacities).

**Pipe** (`PipeProofs`). `TypeInv` adds to the types that a thread inside a call
has a request and that a ring with bytes has storage; its step needs the
arithmetic of the wrap (`ModRange`, `CopyInType`, `CopyOutType`). `NoLostWakeup`
is not inductive: that a waiter has a reason to wait depends on who may change
that reason. `SyncInv` says that the mutex belongs to the thread inside the
loop, that registered callbacks belong to calls in progress, and that a call on
its way to waiting has registered or has been stopped; with it each change of
the ring, of an end or of a token is seen to wake those it concerns. With it
goes `CallbackOwnerAlive`.

The bytes have an invariant of their own, `DataInv`. `HolderInv`: who is inside a
call holds its end. `RingInv`: what was read is the beginning of what was written
and the ring, from `head` on and around its end, is the rest. `BytesInv` and
`OrderInv` say whose a byte in the pipe can be and in which order the bytes of
one call stand, `ProgressInv` that what a writer has counted is there, and that an
atomic write has written nothing until it writes all; only then is `AtomicWrites`
kept by a copy into the ring. `CountInv` counts: the bytes of a call in the pipe
are as many as it has written, because a copy adds exactly its own. From these
follow `WritesKeepTheirWord` and the refinement of `PipeChannel`: a copy in is a
channel's write (of a small one: whole), a copy out a read, closing the last
holder of an end a close, and whatever else the locks and the wake-ups do is a
stutter.

**Agent and AgentProcess** (`AgentProcessProofs`). To the agent, everything the
process around it does is a step of its own thread or a call of another one
(`ProcessStepsAgent`), so that its part of the invariant is proved once, of
`AnyAgentStep`. `ConversationInv` says in which phase the last message's tool
calls are still unanswered (`Pending`): while tools run, and perhaps after the
command failed, which is why the failure handler has to answer them
(`FailureAnswers`); a well-formed history stays one with each message that is
added, by lemmas on histories (`AppendSilent`, `AppendResponse`, `AppendResults`). `LateInv` counts what
begins after a stop, over all the commands taken since: none before a round begins,
one more for each command taken, and nothing at all in an agent run once before its
only command. The count is not reset by a command; it is bounded by the number of
commands the closed queue still hands out, which the code does not bound. `HookInv` follows the hook
from its setting to "finished"; `CreateInv` says that until the program is posted
the agent has nothing to do, and afterwards has it first; `CodeInv` that a stop
that counts saw the process running.

**LLM service** (`LLMServiceProofs`). `ServiceOutlivesItsUse` needs the whole
history of an agent: `KeptInv` says that an agent that is not over is in the
service's list, among those the destructor took, or `Fresh`, known to its creator
alone and without a command. `CreationInv` keeps creations apart, and
`DestructionInv` says what is left in each phase of the destructor. That no agent
is too deep (`DepthInv`) is about the recursive function `Depth`, whose equation
(`AncestryEquation`) is not given but proved: the smallest sets closed under
"parent of" are such a function. `TreeInv` gives the order in which agents are
born, which makes an argument by the least counterexample (`LeastElement`) possible.
`ServiceSafe` adds that the destructor's wait is never for a circle: once it waits,
every agent it took is stopped (`TakenInv`), and an agent only waits for a child of
its own, which is younger (`ChildInv`). The youngest that is not over waits for
nobody and, being stopped, not for a command either (`NoCircle`).

**Descriptor table** (`ProcessFileIOProofs`). `TypeOK /\ NeverClosedInUse` is
inductive. The refinement of `DescriptorTable` rests on lemmas about the vector:
filling, emptying or copying a slot of the vector is doing so in the table, and
the first hole, or else the end, is the lowest free slot, also for the second
slot of a pipe.

**HshPipeline** (`HshPipelineProofs`). `PhaseInv` says who has begun in each
phase and `EndsInv` which ends the shell then holds; the end of input a stage
saw is real because the write end of a stage that has not begun is the shell's.
`BlockedWriterHasReader` follows, for any number of stages, from these two and
from `BytesInv` (a full pipe is a bounded one). `PipelinesCannotDeadlock` also needs
`PassInv`: the order in which the shell runs its passes (`OrderInv`) and who still
holds the write end of a pipe that has not ended (`WriteEndsInv`). Were everybody
waiting, take the last stage that waits for room: its reader would wait for bytes of
a pipe that is full, or have yet to begin while the shell is already past it. If none
waits for room, the first running stage waits for bytes of a pipe whose write end is
open, hence with the shell, whose stage has yet to begin; again the shell would be
past it (`NoCircle`).

**HshControl** (`HshControlProofs`). `ControlKeepsItsDepth` is not inductive: that
the counters are right *after* a function or a subshell ended rests on what these
saved when they began. `Consistent(stack, depth)` therefore asks of every function
and every subshell on the stack that it has saved what its prefix of the stack
amounts to, `Counts`. It is kept by a push (`Enters`, by the kind of the call) and
by a pop (`Left`), and every step of the interpreter is made of these; that one
more call changes each count as it does is `CountsNext`, a statement about
cardinalities. `DoingInv` is what an exception on its way still has ahead of it:
a break has at most as many levels left as there are loops in the function, so
that it can never cross the function's end, and a return has a function, a dot
script or a subshell.

**LuaProcess** (`LuaProcessProofs`). `AbortInv`: once a script is aborted its
running Lua thread is armed, for any number of coroutines and `pcall`s; the
steps that change the running thread are the ones that have to arm it. Closing a
coroutine does not, hence `closing \/ ...`. Code that runs with the hooks off may
do what it likes while it runs; it leaves the running thread armed and `OffThere`
says where it can be. `EndingInv` follows the flags from
the thread's loading of the script to the exit code.

**HaisosOS** (`HaisosOSProofs`). `RefInv` (references lead to live objects),
`LifeInv` (a thread runs in an object that is not gone), `StartInv` (who starts
a process holds the OS), `DrainInv` (once drained, the list stays empty) and
`TrackedInv` (a process nobody asked to stop is in the list, about to be asked,
or being pushed by a thread that holds the OS) are proved together. Besides the
properties of the run they give `OnePassIsEnough`: the passes of `~HaisosOS`
after the second are unreachable, the comment at `HaisosOS.cpp:56-58` describes
something that cannot happen.

**Only model-checked.** Every liveness property (its proof would need ENABLED
and fairness, which the prover does not support); the file systems, whose calls
go down by recursive operators the prover cannot take, and of which TLC checks the
refinement of `FileTree` and that writes stay confined; and the texts.
What the text modules compute is recursive over data of any length: that they
meet their reference definitions for every input would be a theorem by induction
over operators, which is out of the prover's reach, and TLC checks it up to the
bounds above. Each invariant above was itself checked by TLC on the bounds of its
run before it was proved.

## 5. Findings

Shown by a run:

- `lua_close_leak`: `coroutine.close` is not wrapped. A kill or `exit()` inside
  a `__close` handler is returned as a value, and the closing coroutine runs on
  until its own hook, contrary to `LuaProcess.cpp:279-281` and `771-774`.
- `hsh_stop`: `while : & do : & done` never reaches the one place that looks for
  a stop, nor does a loop after `set -n`; `HshShell.h:29-31` promises that a
  stop unwinds past everything.
  At the terminal there is a third way: `RunInteractive` asks for a stop behind a
  command that ran (`HshShell.cpp:242`), and a read of a pipe that has data returns it
  to a stopped process as well, so that a stopped hsh fed blank lines, or lines that
  do not parse, never ends. `StopEndsShell` names all three.

Met while modelling, without a run of their own. Threads and lifetimes:

- A one-shot agent started with an empty prompt waits for a second command for
  ever (`Agent.cpp:444-447`), although `AgentStartTool.cpp:7` says that one-shot
  agents finish by themselves; `AgentsFinish` is about the others.
- A stopped interactive agent goes on taking commands: a closed queue hands out
  what it holds and accepts more (`SynchronizedQueue.h:11-24`), so that a command
  queued before the stop, or posted after it while the thread runs, is taken and
  begins one more LLM call. `ILLMService.h:25-28` says that a stopped agent accepts
  no new commands and finishes what it is doing, `Agent.cpp:159-160` that closing
  the queue stops new commands being taken, and self_close's text that no more
  messages will reach the agent. `StopBoundsWork` counts these commands instead of
  hiding them, and `CommandsAreTaken` promises nothing to a command once a stop has
  come.
- `agent_query` no longer knows a finished child once another agent has been
  created, because creation cleans up finished agents
  (`AgentStartTool.cpp:7`). `RunningChildIsFound` is about running ones.
- Subagents go on when their parent ends, although `ILLMService.h:17` says they
  live and die with it.
- `MAX_CONCURRENT_PROCESSES` can be overshot: the check (`HaisosOS.cpp:391-399`)
  and the insertion (`320-324`, `359-363`) are two critical sections; the
  comment at line 36 calls it a limit.
- What a program lets go of after the static destruction thread has ended is
  never destroyed (`DestroyOffRuntimeThreads.h:71` against the comment at 59).
- A killed Lua script is not sure to end, nor to do nothing more:
  `xpcall(loop, handler)` runs `handler` inside the error the kill hook raises,
  with hooks off, and a finalizer runs so at any collection and in `lua_close`. Both
  may print, call tools or loop for ever. `LuaProcess.cpp:279-281` says that the
  script "cannot execute a single further instruction without erroring again" and
  terminates. `AbortIsFinal` and `StopEndsScript` make the exception explicit.
- A finalizer that calls `exit()`, or whose print meets a broken pipe, in
  `lua_close` (868) sets the exit code of a script that had ended another way
  (900-903).
- A stop that arrives after a Lua script failed but before its exit code is
  picked turns its 1 into 143 (`LuaProcess.cpp:904` against 897-900).
- `set +i` at the terminal makes the next fatal error escape `RunInteractive`
  (`HshShell.cpp:167-179`, `HshBuiltinSet.cpp:111`, against `HshShell.h:178-181`).
  `HshControl` has the state (`doing.to = "escaped"`).
- A redirection's restore into a table that has filled up in the meantime loses
  the saved descriptor (`HshRedirection.cpp:53`).

File systems:

- An open file is found again by its path: after the file was removed and another
  made there, the descriptor is the other's (`InMemoryFileSystem.cpp:130` against
  the comment at 212-214).
- That a mount point is a directory is looked at only at the time: a file created
  on the way down takes its place (`SubFileSystem.cpp:38`), and a mount point
  inside a mount is not listed (`MountableFileSystem.cpp:145` against
  `IFileSystemService.h:134,156-158`). `FileTree` allows for both.
- A built-in placed below a mount point stays, out of sight, when the file system
  there is unmounted.

The language of hsh:

- The recorded text of a job takes along a here-document's body that belongs to
  another command of the same line: `a<<a&{`, `a`, `a;}` (`HshParser.cpp:252`
  against `HshParser.h:20-21`).
- Inside `$((...))` the search for its end treats a backslash in backquotes at the
  end of the input as an error, not as incomplete (`HshLexer.cpp:574-578` against
  127-129); so does a typed `}\` before a newline.
- The end of `$( )` is missed behind a reserved word that follows a redirection,
  a function whose body is a `case`, the patterns `(esac)` and `|esac`, and an
  `esac` directly behind `)`, `fi`, `done` or `esac` (`HshLexer.cpp:616-617`).
- A here-document left open in a function definition makes a background shell
  drop the whole item (`HshShell.cpp:1105-1117`).
- `$((+x = 3))` assigns, although `HshArithmetic.cpp:152-153` allows that only
  directly behind a name.
- Quoted `-`, `]` and `!` in brackets keep their meaning: `["a-c"]` matches `b`
  (`HshPattern.cpp:139-147` against `HshExpansion.cpp:128-129`).
- A name with control bytes is shown as `$'...'`, which hsh does not read.

The haisosfile:

- The template says that nothing inside quotes is special
  (`HaisosFileParser.cpp`, `GetHaisosFileTemplate`), but `${name}` is replaced
  there too, before the line is cut into tokens: blanks and quotes of the value
  cut it.
- The template says that MOUNT mounts in place; it binds the name to a new
  composed file system, and what was built from the old one keeps the old one
  (`HaisosFileSystemBuilder.cpp:148`).

## 6. What is not modelled, and the plan

Not modelled for good: the operating system and the network below (physical
file system, HTTP, terminal), the LLM, the text produced by commands and tools,
the formatting commands `ls` and `man`, logging. Of the modelled parts: the
counter of open pipes; in `HshPipeline` programs that close their ends before they
end, and background children a stage leaves behind with its ends, for which
`PipelineEnds` says nothing; variables, redirections and jobs in `HshControl`;
exported variables and `set -a` in `HshExpansion`; hexadecimal
numbers, the assignments of an expression that fails, and ten of the twelve
character classes; names with control bytes; the command line of haisos itself,
ENV and the search for the haisosfile. Not modelled yet, in the order planned:

1. **hsh redirections** over `SlotTable`: what a scope saves and restores when
   one of several redirections fails; checked together with `descriptor_table`.
2. **hsh jobs**: the child list, `wait`, `$!`, stopping children; and
   `BuiltinProcess`, whose flags and exit code follow the same scheme as the Lua
   process's.
3. **`test`**, `read` and the variables of hsh, as texts.

Theorems that are not there: `WritesStayConfined` and `OneTree` would need the
walk through the file systems (`Way`, `Stat`, `ReadDirectory`, recursive operators
today) as functions on finite trees of file systems first. That a wait ends, as
opposed to that somebody can go on, is liveness and stays with TLC.
