----------------------------- MODULE HshControl -----------------------------
(***************************************************************************)
(* How hsh runs a program (HshShell.cpp): the C++ calls of its interpreter *)
(* nest as the commands do, and break, continue, return, exit, a fatal     *)
(* error and a stop travel through them as exceptions.  The program is any *)
(* program: what comes next, and whether it succeeds, is chosen step by    *)
(* step.                                                                   *)
(*                                                                         *)
(* Beside the calls themselves the shell keeps counters of the loops,      *)
(* functions, dot scripts, subshells and tested contexts it is in, which   *)
(* every way out of a call has to keep in step with the calls.             *)
(***************************************************************************)
EXTENDS Integers, Sequences, FiniteSets

CONSTANTS
    MaxFrames,      \* bound: how many calls of the interpreter nest
    MaxLevels       \* bound: the operand of break and continue

ASSUME BoundsAssumption == MaxFrames \in Nat \ {0} /\ MaxLevels \in Nat \ {0}

VARIABLES
    stack,          \* the interpreter's calls in progress, the innermost last
    doing,          \* what the innermost call is about to do
    depth,          \* m_loopDepth, m_functionDepth, m_dotDepth, m_subshellDepth and
                    \* m_errexitSuppressed
    options,        \* m_state.options: noexec and interactive
    stopRequested   \* the process was asked to stop

vars == <<stack, doing, depth, options, stopRequested>>

Statuses == {0, 1}              \* success, and any failure
Roles == {"script", "terminal"} \* Run's own loop, and RunInteractive

Options == [noexec : BOOLEAN, interactive : BOOLEAN]

NextCommand(s) == [to |-> "next", status |-> s] \* of a text, of a line at the terminal
Prompt == [to |-> "prompt"]                   \* at the terminal
Read == [to |-> "read"]                       \* ReadInputLine
Item == [to |-> "item"]                       \* the next item of a list
ItemDone(s) == [to |-> "done", status |-> s]
Command == [to |-> "command"]                 \* ExecuteCommand
Simple == [to |-> "simple"]                   \* a simple command, its words expanded
Background == [to |-> "background"]           \* a background item that needs a shell
Wait(exec) == [to |-> "wait", exec |-> exec]  \* WaitForChild
Return(s) == [to |-> "return", status |-> s]
Throw(what) == [to |-> "throw", what |-> what, levels |-> 0]
LoopControl(n, isBreak) ==
    [to |-> "throw", what |-> IF isBreak THEN "break" ELSE "continue", levels |-> n]
Ended == [to |-> "ended"]
Escaped == [to |-> "escaped"]                 \* an exception Run does not catch

\* ExecuteList, and ExecuteAndOr in it, at a pipeline of an and-or list.
\* It is the last one, a negated last one, or one with more to come.
Chain(pipeline) == [kind |-> "list", pipeline |-> pipeline]
Pipelines == {"last", "negated", "more"}
List == Chain("last")
Text(role) == [kind |-> "text", role |-> role]
If(testing) == [kind |-> "if", testing |-> testing]
Loop(testing) == [kind |-> "loop", testing |-> testing]
For == [kind |-> "for"]
Function == [kind |-> "function", loop |-> depth.loop]
Words == [kind |-> "words"]                   \* command substitutions in words
Stages == [kind |-> "stages"]                 \* a pipeline of several stages
Subshell == [kind |-> "subshell", options |-> options, depth |-> depth]

Top == stack[Len(stack)]
Under == SubSeq(stack, 1, Len(stack) - 1)
TopIs(kind) == stack # <<>> /\ Top.kind = kind
Room(n) == Len(stack) + n <= MaxFrames

Tested(frame) ==
    \/ frame.kind = "list" /\ frame.pipeline # "last"
    \/ frame.kind \in {"if", "loop"} /\ frame.testing

Weight(frame) == IF Tested(frame) THEN 1 ELSE 0

NoExec == options.noexec /\ ~options.interactive

Init ==
    /\ \E role \in Roles, o \in Options :
          /\ role = "terminal" => o.interactive
          /\ options = o
          /\ stack = <<Text(role)>>
          /\ doing = IF role = "terminal" THEN Prompt ELSE NextCommand(0)
    /\ depth = [loop |-> 0, function |-> 0, dot |-> 0, subshell |-> 0, tested |-> 0]
    /\ stopRequested = FALSE

-----------------------------------------------------------------------------
(* Calls.                                                                  *)

\* A call that enters frames fs; the tested contexts among them are counted.
Call(fs, then) ==
    /\ Room(Len(fs))
    /\ stack' = stack \o fs
    /\ doing' = then

TestedIn(f) == [depth EXCEPT !.tested = @ + Weight(f)]

\* WriteTo, before going on with d: a broken pipe ends the subshell, or the shell.
Write(d) ==
    \/ doing' = d /\ UNCHANGED stopRequested
    \/ depth.subshell > 0 /\ doing' = Throw("exit") /\ UNCHANGED stopRequested
    \/ depth.subshell = 0 /\ doing' = Throw("stopped") /\ stopRequested' = TRUE
    \/ stopRequested /\ doing' = Throw("stopped") /\ UNCHANGED stopRequested

-----------------------------------------------------------------------------
(* The text of the program, of a dot script and of eval.                   *)

InText == doing.to = "next" /\ TopIs("text")
AtTerminal == TopIs("text") /\ Top.role = "terminal"

ParsedCommand ==
    /\ InText
    /\ Call(<<List>>, Item)
    /\ UNCHANGED <<depth, options, stopRequested>>

\* At the terminal this is not the end of a line, but of the input.
EndOfText ==
    /\ InText /\ ~AtTerminal
    /\ IF Top.role \in Roles
       THEN doing' = Ended /\ UNCHANGED stack
       ELSE doing' = Return(doing.status) /\ stack' = Under
    /\ depth' = [depth EXCEPT !.dot = IF Top.role = "dot" THEN @ - 1 ELSE @]
    /\ UNCHANGED <<options, stopRequested>>

\* A syntax error is fatal, but at the terminal.
SyntaxError ==
    /\ \/ InText /\ Top.role = "script" /\ Write(Ended)
       \/ InText /\ Top.role \notin Roles /\ doing' = Throw("error") /\ UNCHANGED stopRequested
       \/ doing.to = "read" /\ Write(Prompt)
    /\ UNCHANGED <<stack, depth, options>>

\* At the terminal the commands of a line have run, or there were none.
WritePrompt ==
    /\ doing.to = "prompt" \/ (InText /\ AtTerminal)
    /\ Write(Read)
    /\ UNCHANGED <<stack, depth, options>>

CommandTyped ==
    /\ doing.to = "read"
    /\ Call(<<List>>, Item)
    /\ UNCHANGED <<depth, options, stopRequested>>

\* A blank line, a comment, or one that leaves its command incomplete.
NothingToRun ==
    /\ doing.to = "read"
    /\ doing' = Prompt
    /\ UNCHANGED <<stack, depth, options, stopRequested>>

EndOfInput ==
    /\ doing.to = "read"
    /\ Write(Ended)
    /\ UNCHANGED <<stack, depth, options>>

\* The shell was asked to stop and there is no input; what there is is still read.
InputInterrupted ==
    /\ doing.to = "read" /\ stopRequested
    /\ doing' = Throw("stopped")
    /\ UNCHANGED <<stack, depth, options, stopRequested>>

\* RunOneCommand is back.
TextGoesOn ==
    /\ doing.to = "return" /\ TopIs("text")
    /\ doing' = IF Top.role \in Roles /\ stopRequested
                THEN Throw("stopped") ELSE NextCommand(doing.status)
    /\ UNCHANGED <<stack, depth, options, stopRequested>>

-----------------------------------------------------------------------------
(* Lists and and-or chains.                                                *)

SkipItem ==
    /\ doing.to = "item" /\ NoExec
    /\ \E s \in Statuses : doing' = ItemDone(s)
    /\ UNCHANGED <<stack, depth, options, stopRequested>>

RunPipeline ==
    \E pipeline \in Pipelines :
        /\ stack' = Append(Under, Chain(pipeline))
        /\ depth' = [depth EXCEPT !.tested = @ - Weight(Top) + Weight(Chain(pipeline))]
        /\ doing' = Command

StartChain ==
    /\ doing.to = "item" /\ ~NoExec
    /\ RunPipeline
    /\ UNCHANGED <<options, stopRequested>>

\* A background item: its pipeline of programs is started in subshells, which look
\* for a stop; anything else is given to a child hsh.
StartBackgroundPipeline ==
    /\ doing.to = "item" /\ ~NoExec
    /\ IF stopRequested THEN doing' = Throw("stopped")
       ELSE \E s \in Statuses : doing' = ItemDone(s)
    /\ UNCHANGED <<stack, depth, options, stopRequested>>

StartBackgroundShell ==
    /\ doing.to = "item" /\ ~NoExec
    /\ doing' = Background
    /\ UNCHANGED <<stack, depth, options, stopRequested>>

BackgroundStarted ==
    /\ doing.to = "background"
    /\ \/ doing' = ItemDone(0) /\ UNCHANGED stopRequested
       \/ Write(ItemDone(1))
    /\ UNCHANGED <<stack, depth, options>>

\* The list's last pipeline failed, outside every tested context: with -e, which may
\* be on, that ends the shell.
ErrexitTrips ==
    /\ Top.pipeline = "last" /\ doing.status # 0
    /\ ~options.interactive
    /\ depth.tested = 0

\* The and-or list ends: this was its last pipeline, or the rest is skipped.
ChainEnds ==
    /\ doing.to = "return" /\ TopIs("list")
    /\ stack' = Append(Under, List)
    /\ depth' = [depth EXCEPT !.tested = @ - Weight(Top)]
    /\ \/ ErrexitTrips /\ doing' = Throw("exit")
       \/ doing' = ItemDone(IF Top.pipeline = "negated" THEN 1 - doing.status
                           ELSE doing.status)
    /\ UNCHANGED <<options, stopRequested>>

ChainGoesOn ==
    /\ doing.to = "return" /\ TopIs("list") /\ Top.pipeline = "more" /\ ~NoExec
    /\ RunPipeline
    /\ UNCHANGED <<options, stopRequested>>

ListGoesOn ==
    /\ doing.to = "done"
    /\ doing' = Item
    /\ UNCHANGED <<stack, depth, options, stopRequested>>

ListEnds ==
    /\ doing.to = "done"
    /\ doing' = Return(doing.status)
    /\ stack' = Under
    /\ UNCHANGED <<depth, options, stopRequested>>

-----------------------------------------------------------------------------
(* Commands.  ExecuteCommand looks for a stop first.                       *)

StopSeen ==
    /\ doing.to = "command" /\ stopRequested
    /\ doing' = Throw("stopped")
    /\ UNCHANGED <<stack, depth, options, stopRequested>>

\* Faulty variant: only some commands look for a stop.
ExecutesAnyway == doing.to = "command"

Executes == doing.to = "command" /\ ~stopRequested

\* A function definition, a redirection that fails, a case without a match.
LeafCommand ==
    /\ Executes
    /\ \E s \in Statuses : Write(Return(s))
    /\ UNCHANGED <<stack, depth, options>>

\* Braces, or the matching branch of a case.
Group ==
    /\ Executes
    /\ Call(<<List>>, Item)
    /\ UNCHANGED <<depth, options, stopRequested>>

IfCommand ==
    /\ Executes
    /\ Call(<<If(TRUE), List>>, Item)
    /\ depth' = TestedIn(If(TRUE))
    /\ UNCHANGED <<options, stopRequested>>

LoopCommand ==
    /\ Executes
    /\ Call(<<Loop(TRUE), List>>, Item)
    /\ depth' = [TestedIn(Loop(TRUE)) EXCEPT !.loop = @ + 1]
    /\ UNCHANGED <<options, stopRequested>>

ForCommand ==
    /\ Executes
    /\ Call(<<For, List>>, Item)
    /\ depth' = [depth EXCEPT !.loop = @ + 1]
    /\ UNCHANGED <<options, stopRequested>>

EnterSubshell(below, body, then) ==
    /\ Len(below) + 1 + Len(body) <= MaxFrames
    /\ stack' = Append(below, Subshell) \o body
    /\ doing' = then
    /\ depth' = [depth EXCEPT !.subshell = @ + 1]

SubshellCommand ==
    /\ Executes
    /\ EnterSubshell(stack, <<List>>, Item)
    /\ UNCHANGED <<options, stopRequested>>

\* A pipeline of several stages; this one runs inside the shell.
FirstStage ==
    /\ Executes /\ TopIs("list")
    /\ EnterSubshell(Append(stack, Stages), <<>>, Command)
    /\ UNCHANGED <<options, stopRequested>>

NextStage ==
    /\ doing.to = "return" /\ TopIs("stages")
    /\ EnterSubshell(stack, <<>>, Command)
    /\ UNCHANGED <<options, stopRequested>>

StagesEnd ==
    /\ doing.to = "return" /\ TopIs("stages")
    /\ stack' = Under
    /\ doing' \in {Wait(FALSE), doing}
    /\ UNCHANGED <<depth, options, stopRequested>>

\* The words of a simple command, and a command substitution in them.
ExpandWords ==
    /\ Executes
    /\ \/ doing' = Simple /\ UNCHANGED <<stack, depth>>
       \/ EnterSubshell(Append(stack, Words), <<List>>, Item)
    /\ UNCHANGED <<options, stopRequested>>

NextSubstitution ==
    /\ doing.to = "return" /\ TopIs("words")
    /\ EnterSubshell(stack, <<List>>, Item)
    /\ UNCHANGED <<options, stopRequested>>

WordsEnd ==
    /\ doing.to = "return" /\ TopIs("words")
    /\ stack' = Under
    /\ doing' = Simple
    /\ UNCHANGED <<depth, options, stopRequested>>

-----------------------------------------------------------------------------
(* Simple commands.                                                        *)

InSimple == doing.to = "simple"

\* Assignments, a regular builtin, exec without a command, what cannot be started.
PlainCommand ==
    /\ InSimple
    /\ \E s \in Statuses : Write(Return(s))
    /\ UNCHANGED <<stack, depth, options>>

\* Fail: a read-only variable, an unset parameter, an error of a special builtin.
FatalError ==
    /\ InSimple
    /\ doing' = Throw("error")
    /\ UNCHANGED <<stack, depth, options, stopRequested>>

SetBuiltin ==
    /\ InSimple
    /\ options' \in Options
    /\ doing' = Return(0)
    /\ UNCHANGED <<stack, depth, stopRequested>>

ExitBuiltin ==
    /\ InSimple
    /\ doing' = Throw("exit")
    /\ UNCHANGED <<stack, depth, options, stopRequested>>

\* Faulty variant: break and continue do not ask whether there is a loop.
BreakAnywhere ==
    /\ InSimple
    /\ \E n \in 1..MaxLevels, isBreak \in BOOLEAN :
           doing' = LoopControl(IF n < depth.loop THEN n ELSE depth.loop, isBreak)
    /\ UNCHANGED <<stack, depth, options, stopRequested>>

BreakContinue ==
    /\ InSimple
    /\ IF depth.loop = 0 THEN doing' = Return(0)
       ELSE \E n \in 1..MaxLevels, isBreak \in BOOLEAN :
               doing' = LoopControl(IF n < depth.loop THEN n ELSE depth.loop, isBreak)
    /\ UNCHANGED <<stack, depth, options, stopRequested>>

ReturnBuiltin ==
    /\ InSimple
    /\ doing' = IF depth.function > 0 \/ depth.dot > 0 THEN Throw("return") ELSE Throw("exit")
    /\ UNCHANGED <<stack, depth, options, stopRequested>>

EvalBuiltin ==
    /\ InSimple
    /\ Call(<<Text("eval")>>, NextCommand(0))
    /\ UNCHANGED <<depth, options, stopRequested>>

DotBuiltin ==
    /\ InSimple
    /\ Call(<<Text("dot")>>, NextCommand(0))
    /\ depth' = [depth EXCEPT !.dot = @ + 1]
    /\ UNCHANGED <<options, stopRequested>>

CallFunction ==
    /\ InSimple
    /\ Call(<<Function>>, Command)
    /\ depth' = [depth EXCEPT !.function = @ + 1, !.loop = 0]
    /\ UNCHANGED <<options, stopRequested>>

\* A program of its own, or exec of one.
StartChild ==
    /\ InSimple
    /\ \E exec \in BOOLEAN : doing' = Wait(exec)
    /\ UNCHANGED <<stack, depth, options, stopRequested>>

ChildFinishes ==
    /\ doing.to = "wait" /\ ~stopRequested
    /\ \E s \in Statuses : doing' = IF doing.exec THEN Throw("exit") ELSE Return(s)
    /\ UNCHANGED <<stack, depth, options, stopRequested>>

\* The stop is passed on, and the child ends or is given up.
WaitStopped ==
    /\ doing.to = "wait" /\ stopRequested
    /\ doing' = Throw("stopped")
    /\ UNCHANGED <<stack, depth, options, stopRequested>>

-----------------------------------------------------------------------------
(* Calls that end with a value.                                            *)

\* The branch, the next condition, or the else.
IfGoesOn ==
    /\ doing.to = "return" /\ TopIs("if") /\ Top.testing
    /\ \E testing \in {t \in BOOLEAN : t => doing.status # 0} :
          /\ stack' = Under \o <<If(testing), List>>
          /\ doing' = Item
          /\ depth' = [depth EXCEPT !.tested = @ - 1 + Weight(If(testing))]
    /\ UNCHANGED <<options, stopRequested>>

IfEnds ==
    /\ doing.to = "return" /\ TopIs("if")
    /\ Top.testing => doing.status # 0
    /\ stack' = Under
    /\ doing' = IF Top.testing THEN Return(0) ELSE doing
    /\ depth' = [depth EXCEPT !.tested = @ - Weight(Top)]
    /\ UNCHANGED <<options, stopRequested>>

\* while or until: whether the condition's status says so is not kept.
LoopGoesOn ==
    /\ doing.to = "return" /\ TopIs("loop")
    /\ \/ /\ stack' = Under \o <<Loop(~Top.testing), List>>
          /\ doing' = Item
          /\ depth' = [depth EXCEPT !.tested = @ - Weight(Top) + Weight(Loop(~Top.testing))]
       \/ /\ Top.testing
          /\ stack' = Under
          /\ \E s \in Statuses : doing' = Return(s)
          /\ depth' = [depth EXCEPT !.tested = @ - 1, !.loop = @ - 1]
    /\ UNCHANGED <<options, stopRequested>>

ForGoesOn ==
    /\ doing.to = "return" /\ TopIs("for")
    /\ \/ stack' = Append(stack, List) /\ doing' = Item /\ UNCHANGED depth
       \/ doing' = Throw("error") /\ UNCHANGED <<stack, depth>>
    /\ UNCHANGED <<options, stopRequested>>

ForEnds ==
    /\ doing.to = "return" /\ TopIs("for")
    /\ stack' = Under
    /\ depth' = [depth EXCEPT !.loop = @ - 1]
    /\ UNCHANGED <<doing, options, stopRequested>>

LeaveFunction ==
    /\ stack' = Under
    /\ depth' = [depth EXCEPT !.function = @ - 1, !.loop = Top.loop]
    /\ UNCHANGED options

FunctionReturns ==
    /\ doing.to = "return" /\ TopIs("function")
    /\ LeaveFunction
    /\ UNCHANGED <<doing, stopRequested>>

\* ~SubshellScope puts the shell's state and counters back.
LeaveSubshell ==
    /\ stack' = Under
    /\ depth' = Top.depth
    /\ options' = Top.options

SubshellReturns ==
    /\ doing.to = "return" /\ TopIs("subshell")
    /\ LeaveSubshell
    /\ UNCHANGED <<doing, stopRequested>>

-----------------------------------------------------------------------------
(* Exceptions, at the innermost call.                                      *)

LoopControls == {"break", "continue"}

\* Calls that catch nothing: their tested context ends with them.
PassThrough ==
    /\ doing.to = "throw" /\ stack # <<>>
    /\ \/ Top.kind \in {"list", "if", "words", "stages"}
       \/ Top.kind = "text" /\ Top.role = "eval"
    /\ stack' = Under
    /\ depth' = [depth EXCEPT !.tested = @ - Weight(Top)]
    /\ UNCHANGED <<doing, options, stopRequested>>

\* Faulty variant: an exception that is no break or continue leaves the loop counted.
LoopStaysCounted ==
    /\ doing.to = "throw" /\ (TopIs("loop") \/ TopIs("for"))
    /\ doing.what \in LoopControls => doing.levels > 1
    /\ stack' = Under
    /\ depth' = [depth EXCEPT !.loop = IF doing.what \in LoopControls THEN @ - 1 ELSE @,
                              !.tested = @ - Weight(Top)]
    /\ doing' = IF doing.what \in LoopControls THEN [doing EXCEPT !.levels = @ - 1] ELSE doing
    /\ UNCHANGED <<options, stopRequested>>

LoopUnwinds ==
    /\ doing.to = "throw" /\ (TopIs("loop") \/ TopIs("for"))
    /\ doing.what \in LoopControls => doing.levels > 1
    /\ stack' = Under
    /\ depth' = [depth EXCEPT !.loop = @ - 1, !.tested = @ - Weight(Top)]
    /\ doing' = IF doing.what \in LoopControls THEN [doing EXCEPT !.levels = @ - 1] ELSE doing
    /\ UNCHANGED <<options, stopRequested>>

LoopBreaks ==
    /\ doing.to = "throw" /\ doing.what = "break" 
    /\ (TopIs("loop") \/ TopIs("for")) /\ doing.levels <= 1
    /\ stack' = Under
    /\ depth' = [depth EXCEPT !.loop = @ - 1, !.tested = @ - Weight(Top)]
    /\ \E s \in Statuses : doing' = Return(s)
    /\ UNCHANGED <<options, stopRequested>>

\* continue: the condition again; of a for, the next word, if there is one.
LoopContinues ==
    /\ doing.to = "throw" /\ doing.what = "continue" /\ doing.levels <= 1
    /\ \/ /\ TopIs("loop")
          /\ stack' = Under \o <<Loop(TRUE), List>>
          /\ doing' = Item
          /\ depth' = [depth EXCEPT !.tested = @ - Weight(Top) + 1]
       \/ /\ TopIs("for")
          /\ doing' = Return(0)
          /\ UNCHANGED <<stack, depth>>
    /\ UNCHANGED <<options, stopRequested>>

FunctionUnwinds ==
    /\ doing.to = "throw" /\ TopIs("function")
    /\ LeaveFunction
    /\ IF doing.what = "return" THEN \E s \in Statuses : doing' = Return(s)
       ELSE UNCHANGED doing
    /\ UNCHANGED stopRequested

DotUnwinds ==
    /\ doing.to = "throw" /\ TopIs("text") /\ Top.role = "dot"
    /\ stack' = Under
    /\ depth' = [depth EXCEPT !.dot = @ - 1]
    /\ IF doing.what = "return" THEN \E s \in Statuses : doing' = Return(s)
       ELSE UNCHANGED doing
    /\ UNCHANGED <<options, stopRequested>>

\* WriteErr in the handler of an error runs outside the subshell that failed.
SubshellUnwinds ==
    /\ doing.to = "throw" /\ TopIs("subshell")
    /\ LeaveSubshell
    /\ CASE doing.what = "stopped" -> UNCHANGED <<doing, stopRequested>>
         [] doing.what = "error" ->
               \/ doing' = Return(1) /\ UNCHANGED stopRequested
               \/ Top.depth.subshell > 0 /\ doing' = Throw("exit") /\ UNCHANGED stopRequested
               \/ Top.depth.subshell = 0 /\ doing' = Throw("stopped") /\ stopRequested' = TRUE
               \/ stopRequested /\ doing' = Throw("stopped") /\ UNCHANGED stopRequested
         [] doing.what \in LoopControls -> doing' = Return(0) /\ UNCHANGED stopRequested
         [] OTHER -> /\ \E s \in Statuses : doing' = Return(s)
                     /\ UNCHANGED stopRequested

\* What reaches Run or RunInteractive.
TopCatches ==
    /\ doing.to = "throw" /\ TopIs("text") /\ Top.role \in Roles
    /\ CASE doing.what \in {"exit", "stopped"} -> doing' = Ended /\ UNCHANGED stopRequested
         [] doing.what = "error" ->
               Write(IF options.interactive THEN Return(1)
                     ELSE IF Top.role = "script" THEN Ended ELSE Escaped)
         [] OTHER -> doing' = Escaped /\ UNCHANGED stopRequested
    /\ UNCHANGED <<stack, depth, options>>

-----------------------------------------------------------------------------
\* TriggerStop, from another thread.
RequestStop ==
    /\ ~stopRequested
    /\ stopRequested' = TRUE
    /\ UNCHANGED <<stack, doing, depth, options>>

TextStep ==
    \/ ParsedCommand \/ EndOfText \/ SyntaxError \/ TextGoesOn
    \/ WritePrompt \/ CommandTyped \/ NothingToRun \/ EndOfInput \/ InputInterrupted

ListStep ==
    \/ SkipItem \/ StartChain \/ StartBackgroundPipeline \/ StartBackgroundShell
    \/ BackgroundStarted \/ ChainEnds \/ ChainGoesOn \/ ListGoesOn \/ ListEnds

CommandStep ==
    \/ StopSeen \/ LeafCommand \/ Group \/ IfCommand \/ LoopCommand \/ ForCommand
    \/ SubshellCommand \/ FirstStage \/ NextStage \/ StagesEnd
    \/ ExpandWords \/ NextSubstitution \/ WordsEnd

SimpleStep ==
    \/ PlainCommand \/ FatalError \/ SetBuiltin \/ ExitBuiltin \/ BreakContinue
    \/ ReturnBuiltin \/ EvalBuiltin \/ DotBuiltin \/ CallFunction \/ StartChild
    \/ WaitStopped

ReturnStep ==
    \/ IfGoesOn \/ IfEnds \/ LoopGoesOn \/ ForGoesOn \/ ForEnds
    \/ FunctionReturns \/ SubshellReturns

ThrowStep ==
    \/ PassThrough \/ LoopUnwinds \/ LoopBreaks \/ LoopContinues
    \/ FunctionUnwinds \/ DotUnwinds \/ SubshellUnwinds \/ TopCatches

ShellStep == TextStep \/ ListStep \/ CommandStep \/ SimpleStep \/ ReturnStep \/ ThrowStep

Next == ShellStep \/ ChildFinishes \/ RequestStop

\* The shell's thread goes on, unless it waits for a child that does not finish.
Spec == Init /\ [][Next]_vars /\ WF_vars(ShellStep)

\* What is finite as the program has it, of the call that is i calls deep: all but
\* the rounds of while and until.
EndsAt(i) ==
    /\ Len(stack) = i
    /\ EndOfText \/ EndOfInput \/ ListEnds \/ ChainEnds \/ WordsEnd \/ StagesEnd \/ IfEnds \/ ForEnds

FiniteSpec == Spec /\ \A i \in 1..MaxFrames : SF_vars(EndsAt(i))

-----------------------------------------------------------------------------
Frames(P(_)) == {i \in DOMAIN stack : P(stack[i])}
IsLoop(frame) == frame.kind \in {"loop", "for"}
IsFunction(frame) == frame.kind = "function"
IsDot(frame) == frame.kind = "text" /\ frame.role = "dot"
IsSubshell(frame) == frame.kind = "subshell"

\* The loops a break can mean: those of the running function.
VisibleLoops == {i \in Frames(IsLoop) : \A j \in Frames(IsFunction) : j < i}

\* However the calls ended, by a value or by whatever exception, the counters
\* say what the shell is in: loops of the running function, functions, dot
\* scripts, subshells and tested contexts (ExecuteLoop, CallFunction,
\* TestedContext, SubshellScope).
DepthsMatchCalls ==
    /\ depth.loop = Cardinality(VisibleLoops)
    /\ depth.function = Cardinality(Frames(IsFunction))
    /\ depth.dot = Cardinality(Frames(IsDot))
    /\ depth.subshell = Cardinality(Frames(IsSubshell))
    /\ depth.tested = Cardinality(Frames(Tested))

\* A break or continue on its way meets its loop, or the end of a subshell, before
\* it could leave the running function, and as many loops as it has levels left; a
\* return meets a function, a dot script or a subshell: none of them gets as far as
\* Run, which catches neither.
ControlIsCaught ==
    doing.to = "throw" =>
        /\ doing.what \in LoopControls =>
              /\ doing.levels <= Cardinality(VisibleLoops)
              /\ doing.levels >= 1
        /\ doing.what = "return" =>
              Frames(IsFunction) \union Frames(IsDot) \union Frames(IsSubshell) # {}

\* HshShell.cpp: what the counters say is what surrounds the running
\* command, and no break, continue or return gets past what it is meant for.
ControlKeepsItsDepth == DepthsMatchCalls /\ ControlIsCaught

\* A line typed at the terminal that runs no command: RunInteractive goes back to
\* its prompt and does not look for a stop.
LineRunsNothing == doing.to = "read" /\ doing' = Prompt

\* A stop ends the shell, whatever it runs, loops without an end included; unless
\* for ever it skips its commands (set -n), hands background commands to new
\* shells, or is fed lines that run no command.
StopEndsShell ==
    <>[][~LineRunsNothing]_vars =>
        (stopRequested ~> (doing.to \in {"ended", "escaped", "background"} \/ NoExec))

\* Without the exceptions.
StopAlwaysEndsShell == stopRequested ~> doing.to \in {"ended", "escaped"}
=============================================================================
