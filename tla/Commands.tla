------------------------------ MODULE Commands ------------------------------
(***************************************************************************)
(* A command line of the CLI: CommandDispatcher finds the name, the        *)
(* CommandsService asks whether the command can be executed and executes   *)
(* it between its hooks, the injector (Yok) turns a hierarchical name into *)
(* the subcommand that is meant, and Errors ends the process when anything *)
(* throws.  A hierarchical command and some others execute a further       *)
(* command line while they run, so the service keeps a stack.              *)
(*                                                                         *)
(* A full name is a sequence of elements, cloud|*list is                   *)
(* <<El("cloud"), Star("list")>>; a line is what the user typed, a         *)
(* sequence of words.                                                      *)
(***************************************************************************)
EXTENDS Naturals, Sequences, FiniteSets, SequencesExt

CONSTANTS
    Words,          \* words that can be typed
    Lower,          \* the lower-case form of a word
    EmptyWord,      \* the empty string
    Help,           \* the word help
    Required,       \* the full names given to requireCommand, in order
    CommandOf,      \* what is registered under each of them
    DynamicNames,   \* words with the prefix of dynamic commands
    GeneratedNames, \* those that generateDynamicCommands registers
    HookFiles,      \* <<phase, hook name>> -> the kinds of its hooks, in order
    MaxWords        \* how many words are typed (bound)

Elements == [word : Words, star : BOOLEAN]
El(w) == [word |-> w, star |-> FALSE]
Star(w) == [word |-> w, star |-> TRUE]
Line == SeqOf(Words, MaxWords)

Parameters == [mandatory : BOOLEAN, accepts : SUBSET Words]

ASSUME CommandsAssumption ==
    /\ EmptyWord \in Words /\ Help \in Words /\ Lower \in [Words -> Words] /\ MaxWords \in Nat
    /\ \A w \in Words : Lower[Lower[w]] = Lower[w] /\ (Lower[w] = EmptyWord <=> w = EmptyWord)
    /\ Required \in Seq(Seq(Elements)) /\ IsInjective(Required) /\ DOMAIN CommandOf = Range(Required)
    /\ GeneratedNames \subseteq DynamicNames
    /\ \A i \in DOMAIN Required :
          /\ Required[i] # <<>> /\ ~Required[i][1].star /\ Lower[Required[i][1].word] = Required[i][1].word
          /\ \A k \in DOMAIN Required[i] : Required[i][k].word # EmptyWord
    /\ \A n \in DOMAIN CommandOf :
          /\ CommandOf[n].kind \in {"plain", "calls"}
          /\ CommandOf[n].params \in Seq(Parameters)
          /\ CommandOf[n].kind = "calls" => CommandOf[n].callee \in Seq(Elements) /\ CommandOf[n].callee # <<>>
    \* commands/help.ts
    /\ <<El(Help)>> \in DOMAIN CommandOf /\ CommandOf[<<El(Help)>>].kind = "plain"
    \* The parent of a hierarchical command is the one that createHierarchicalCommand registers.
    /\ \A i, j \in DOMAIN Required : Required[i] # <<Required[j][1]>> \/ Len(Required[j]) = 1
    \* "Default commands should be required before child commands"
    /\ \A i, j \in DOMAIN Required :
          (i < j /\ Len(Required[j]) > 1 /\ Required[j][2].star) => Required[i][1] # Required[j][1]

VARIABLES
    frames,     \* the calls of tryExecuteCommand that are open, the innermost last
    commands,   \* the stack of CommandsService
    generated,  \* the dynamic commands are registered
    noHooks,    \* the option hooks is false
    line,       \* the words typed, and whether --help was
    status,     \* the process: waits for a line, runs, done with it, or exited
    helpShown,  \* the names whose help was printed
    ran,        \* history: the commands that ran, with their arguments
    opened,     \* history: the hook names of the commands that began, <<>> for one without hooks
    closed      \* history: those of the commands that ended

commandsHistory == <<ran, opened, closed>>
commandsVars == <<frames, commands, generated, noHooks, line, status, helpShown, commandsHistory>>

----------------------------------------------------------------------------
(* Names: the tables of Yok *)

NoCommand == [kind |-> "none"]
Hierarchical == [kind |-> "hierarchical", canExecute |-> FALSE, disabled |-> FALSE, params |-> <<>>,
                 hooks |-> TRUE, analytics |-> FALSE, post |-> FALSE]
Dynamic == [Hierarchical EXCEPT !.kind = "dynamic", !.canExecute = TRUE, !.analytics = TRUE]

\* hierarchicalCommands: where the names below a parent are among those required.
SubCommands(name) == {i \in DOMAIN Required : Len(Required[i]) > 1 /\ <<Required[i][1]>> = name}

ResolveCommand(name) ==
    IF name \in DOMAIN CommandOf THEN CommandOf[name]
    ELSE IF SubCommands(name) # {} THEN Hierarchical
    ELSE IF generated /\ Len(name) = 1 /\ name[1].word \in GeneratedNames THEN Dynamic
    ELSE NoCommand

PlainWords(name) == [i \in DOMAIN name |-> name[i].word]
LowerCase(args) == [i \in DOMAIN args |-> Lower[args[i]]]

\* sc === current || sc === `*${current}`
Matches(sub, current) ==
    PlainWords(sub) = current /\ \A i \in 2 .. Len(sub) : ~sub[i].star

IsDefault(sub) == \E i \in DOMAIN sub : sub[i].star

\* The words from the first on that is not empty: an empty name is replaced by the
\* next word, where another one is joined to it.
FromFirst(args) ==
    LET given == {i \in DOMAIN args : args[i] # EmptyWord}
    IN  IF given = {} THEN <<>> ELSE SubSeq(args, Min(given), Len(args))

\* Those of the subcommands that the first k words are.
Named(parent, args, k) ==
    {i \in SubCommands(parent) : Matches(Tail(Required[i]), SubSeq(LowerCase(args), 1, k))}

DefaultCommands(parent) == {i \in SubCommands(parent) : IsDefault(Tail(Required[i]))}

\* _.difference
Difference(args, words) ==
    LET kept[n \in 0 .. Len(args)] ==
            IF n = 0 THEN <<>>
            ELSE IF args[n] \in words THEN kept[n - 1]
            ELSE Append(kept[n - 1], args[n])
    IN  kept[Len(args)]

\* The words of a name below its parent.
ItsWords(name) == {name[k].word : k \in 2 .. Len(name)}

\* Mutant of BuildHierarchicalCommand: the first part that is a subcommand is taken, not the longest.
BuildShortestCommand(parent, args) ==
    LET words == FromFirst(args)
        found == {k \in DOMAIN words : Named(parent, words, k) # {}}
        default == Required[Min(DefaultCommands(parent))]
    IN  IF found # {}
        THEN <<[name |-> Required[Min(Named(parent, words, Min(found)))],
                args |-> SubSeq(words, Min(found) + 1, Len(words))]>>
        ELSE IF DefaultCommands(parent) = {} THEN <<>>
        ELSE <<[name |-> default, args |-> Difference(args, ItsWords(default))]>>

\* The subcommand of the longest part of the words that is one, with the words
\* after it; else the default one with the words that are not of its name.  Of
\* several the one that was required first, _.find.
BuildHierarchicalCommand(parent, args) ==
    LET words == FromFirst(args)
        found == {k \in DOMAIN words : Named(parent, words, k) # {}}
        default == Required[Min(DefaultCommands(parent))]
    IN  IF found # {}
        THEN <<[name |-> Required[Min(Named(parent, words, Max(found)))],
                args |-> SubSeq(words, Max(found) + 1, Len(words))]>>
        ELSE IF DefaultCommands(parent) = {} THEN <<>>
        ELSE <<[name |-> default, args |-> Difference(args, ItsWords(default))]>>

----------------------------------------------------------------------------
(* Arguments against the parameters of a command *)

\* to: the parameter that each argument went to, 0 for one that remains.

\* The first remaining argument that the parameter takes is its own; an empty one counts as none.
TakeMandatory(params, args, taken, k) ==
    LET fits == {i \in DOMAIN args : taken.to[i] = 0 /\ args[i] \in params[k].accepts}
    IN  IF ~params[k].mandatory THEN taken
        ELSE IF taken.ok /\ fits # {} /\ args[Min(fits)] # EmptyWord
        THEN [ok |-> TRUE, to |-> [taken.to EXCEPT ![Min(fits)] = k]]
        ELSE [ok |-> FALSE, to |-> taken.to]

Mandatory(params) == {k \in DOMAIN params : params[k].mandatory}

\* The mandatory parameters one after the other, if there are arguments enough.
ValidateMandatoryParams(params, args) ==
    LET enough == Cardinality(Mandatory(params)) <= Len(args)
        taken[k \in 0 .. Len(params)] ==
            IF k = 0 THEN [ok |-> enough, to |-> [i \in DOMAIN args |-> 0]]
            ELSE TakeMandatory(params, args, taken[k - 1], k)
    IN  taken[Len(params)]

\* The first of the other parameters that takes a remaining argument is used up.
TakeAllowed(params, args, taken, i) ==
    LET takes == {k \in DOMAIN params \ Mandatory(params) :
                    k \notin Range(taken.to) /\ args[i] \in params[k].accepts}
    IN  IF taken.to[i] # 0 THEN taken
        ELSE IF taken.ok /\ takes # {}
        THEN [ok |-> TRUE, to |-> [taken.to EXCEPT ![i] = Min(takes)]]
        ELSE [ok |-> FALSE, to |-> taken.to]

\* The arguments that remain one after the other.
ValidateCommandArguments(params, args) ==
    LET taken[i \in 0 .. Len(args)] ==
            IF i = 0 THEN ValidateMandatoryParams(params, args)
            ELSE TakeAllowed(params, args, taken[i - 1], i)
    IN  taken[Len(args)].ok

----------------------------------------------------------------------------
(* The steps of the process *)

Top == Last(frames)
Command == ResolveCommand(Top.name)

Frame(name, args) == [name |-> name, args |-> args, at |-> "try", hook |-> <<>>, index |-> 0]

Goto(place) == frames' = [frames EXCEPT ![Len(frames)].at = place]
Run == ran' = Append(ran, [name |-> Top.name, args |-> Top.args])

At(place) == status = "runs" /\ frames # <<>> /\ Top.at = place

\* beginCommand: what the action throws is printed, then the help unless it is suppressed; process.exit.
Throw(suppressHelp) ==
    /\ status' = "exit"
    /\ helpShown' = IF suppressHelp THEN helpShown ELSE Append(helpShown, Top.name)
    /\ UNCHANGED <<frames, commands, generated, noHooks, line, commandsHistory>>

\* tryExecuteCommand returns to its caller, or the process has done what was typed.
Return ==
    /\ frames' = Front(frames)
    /\ status' = IF Len(frames) = 1 THEN "done" ELSE status
    /\ UNCHANGED <<generated, noHooks, line>>

CommandsInit ==
    /\ frames = <<>> /\ commands = <<>> /\ helpShown = <<>>
    /\ ran = <<>> /\ opened = <<>> /\ closed = <<>>
    /\ generated = FALSE
    /\ noHooks \in BOOLEAN
    /\ line = [words |-> <<>>, help |-> FALSE]
    /\ status = "waits"

\* dispatchCommand: --help and a last argument ? make the line one of the command help.
DispatchCommand(words, help) ==
    /\ status = "waits"
    /\ LET name == IF words = <<>> THEN EmptyWord ELSE Lower[words[1]]
           args == IF words = <<>> THEN <<>> ELSE Tail(words)
       IN  frames' = IF help \/ words = <<>>
                     THEN <<Frame(<<El(Help)>>, <<name>> \o args)>>
                     ELSE <<Frame(<<El(name)>>, args)>>
    /\ line' = [words |-> words, help |-> help]
    /\ status' = "runs"
    /\ UNCHANGED <<commands, generated, noHooks, helpShown, commandsHistory>>

\* validateOptions: an option is not supported, or has no value, or has several.
OptionsInvalid ==
    /\ At("try") /\ Command.kind # "hierarchical"
    /\ \E suppressHelp \in BOOLEAN : Throw(suppressHelp)

\* canExecuteCommand: a dynamic command is generated and looked up again.
GenerateDynamicCommands ==
    /\ At("try") /\ Command = NoCommand
    /\ Len(Top.name) = 1 /\ Top.name[1].word \in DynamicNames /\ GeneratedNames # {}
    /\ ~generated
    /\ generated' = TRUE
    /\ UNCHANGED <<frames, commands, noHooks, line, status, helpShown, commandsHistory>>

\* No such command: a similar one or an extension is suggested, and nothing is executed.
UnknownCommand ==
    /\ At("try") /\ Command = NoCommand
    /\ generated \/ GeneratedNames = {} \/ Top.name[1].word \notin DynamicNames
    /\ Return
    /\ UNCHANGED <<commands, helpShown, commandsHistory>>

\* canExecuteCommand when the arguments have to be looked at.
ArgumentsAreValid ==
    IF SubCommands(Top.name) # {} THEN BuildHierarchicalCommand(Top.name, Top.args) # <<>>
    ELSE ValidateCommandArguments(Command.params, Top.args)

Validate ==
    /\ At("try") /\ Command # NoCommand
    /\ \/ /\ Command.disabled /\ Throw(TRUE)
       \/ /\ ~Command.disabled /\ ~Command.canExecute
          /\ IF ArgumentsAreValid
             THEN Goto("start") /\ UNCHANGED <<commands, generated, noHooks, line, status, helpShown, commandsHistory>>
             ELSE Throw(FALSE)

\* The command's own canExecute: it can, it cannot (with help or without), or it throws.
AskCommand ==
    /\ At("try") /\ Command # NoCommand
    /\ ~Command.disabled /\ Command.canExecute
    /\ \/ Goto("start") /\ UNCHANGED <<commands, generated, noHooks, line, status, helpShown, commandsHistory>>
       \/ \E suppressHelp \in BOOLEAN :
             \/ Throw(suppressHelp)
             \/ /\ Return
                /\ helpShown' = IF suppressHelp THEN helpShown ELSE Append(helpShown, Top.name)
                /\ UNCHANGED <<commands, commandsHistory>>

\* executeCommandUnchecked: the stack grows and the usage is tracked (which may throw).
Start ==
    /\ At("start")
    /\ commands' = Append(commands, [name |-> Top.name, args |-> Top.args])
    /\ \/ /\ Goto("tracked")
          /\ UNCHANGED <<generated, noHooks, line, status, helpShown, commandsHistory>>
       \/ /\ Command.analytics
          /\ status' = "exit" /\ helpShown' = Append(helpShown, Top.name)
          /\ UNCHANGED <<frames, generated, noHooks, line, commandsHistory>>

\* Mutant of HookName: the name of a subcommand is not cut after its parent.
HookNameUncut(name, args) ==
    LET full == BuildHierarchicalCommand(name, args)
    IN  PlainWords(IF full # <<>> THEN full[1].name ELSE name)

\* The hooks of cloud list are those of cloud-list when the parent is executed
\* with its arguments; formatHookName leaves cloud of cloud|list.
HookName(name, args) ==
    LET full == BuildHierarchicalCommand(name, args)
    IN  IF full # <<>> THEN PlainWords(full[1].name) ELSE <<name[1].word>>

HooksOf(phase, name) == IF <<phase, name>> \in DOMAIN HookFiles THEN HookFiles[<<phase, name>>] ELSE <<>>

\* executeBeforeHooks begins, if the command has hooks: the name is found and its hooks are listed.
BeginBeforeHooks ==
    /\ At("tracked")
    /\ LET hook == IF Command.hooks THEN HookName(Top.name, Top.args) ELSE <<>>
       IN  /\ frames' = [frames EXCEPT ![Len(frames)] = [Top EXCEPT !.at = "before", !.hook = hook]]
           /\ opened' = Append(opened, hook)
    /\ UNCHANGED <<commands, generated, noHooks, line, status, helpShown, ran, closed>>

\* executeAfterHooks begins, with the same name.
BeginAfterHooks ==
    /\ At("posted")
    /\ frames' = [frames EXCEPT ![Len(frames)] = [Top EXCEPT !.at = "after", !.index = 0]]
    /\ closed' = Append(closed, Top.hook)
    /\ UNCHANGED <<commands, generated, noHooks, line, status, helpShown, ran, opened>>

HooksLeft == IF noHooks \/ ~Command.hooks THEN 0
             ELSE Len(HooksOf(Top.at, Top.hook)) - Top.index

\* executeHooksInDirectory: the next hook runs.  One with arguments that cannot be
\* resolved ends the directory; one that fails ends the process, unless it asks
\* in-process for a warning.
RunHook ==
    /\ At("before") \/ At("after")
    /\ HooksLeft > 0
    /\ LET hooks == HooksOf(Top.at, Top.hook)
           hook == hooks[Top.index + 1]
       IN  \/ /\ frames' = [frames EXCEPT ![Len(frames)].index = IF hook = "invalid" THEN Len(hooks) ELSE @ + 1]
              /\ UNCHANGED <<commands, generated, noHooks, line, status, helpShown, commandsHistory>>
           \/ hook # "invalid" /\ Throw(TRUE)

\* What the command does: a hierarchical one executes the subcommand that is
\* meant, some execute another command line, and each may throw.
Execute ==
    /\ At("before") /\ HooksLeft = 0
    /\ \/ /\ Command.kind = "hierarchical"
          /\ LET sub == BuildHierarchicalCommand(Top.name, Top.args)[1]
             IN  frames' = Append([frames EXCEPT ![Len(frames)].at = "called"], Frame(sub.name, sub.args))
          /\ UNCHANGED <<commands, generated, noHooks, line, status, helpShown, commandsHistory>>
       \/ /\ Command.kind = "calls"
          /\ frames' = Append([frames EXCEPT ![Len(frames)].at = "called"], Frame(Command.callee, <<>>))
          /\ Run
          /\ UNCHANGED <<commands, generated, noHooks, line, status, helpShown, opened, closed>>
       \/ /\ Command.kind \notin {"hierarchical", "calls"}
          /\ Goto("called")
          /\ Run
          /\ UNCHANGED <<commands, generated, noHooks, line, status, helpShown, opened, closed>>
       \/ Command.kind # "hierarchical" /\ \E suppressHelp \in BOOLEAN : Throw(suppressHelp)

\* The rest of a command that executed another, which may throw, and its
\* postCommandAction if it has one.
PostCommandAction ==
    /\ At("called")
    /\ \/ /\ Goto("posted")
          /\ UNCHANGED <<commands, generated, noHooks, line, status, helpShown, commandsHistory>>
       \/ (Command.post \/ Command.kind = "calls") /\ \E suppressHelp \in BOOLEAN : Throw(suppressHelp)

\* Mutant of Finish: the command stays on the stack.
FinishUnpopped ==
    /\ At("after") /\ HooksLeft = 0
    /\ Return
    /\ UNCHANGED <<commands, helpShown, commandsHistory>>

Finish ==
    /\ At("after") /\ HooksLeft = 0
    /\ commands' = Front(commands)
    /\ Return
    /\ UNCHANGED <<helpShown, commandsHistory>>

CommandsNext ==
    \/ \E words \in Line, help \in BOOLEAN : DispatchCommand(words, help)
    \/ OptionsInvalid \/ GenerateDynamicCommands \/ UnknownCommand
    \/ Validate \/ AskCommand \/ Start
    \/ BeginBeforeHooks \/ BeginAfterHooks \/ RunHook
    \/ Execute \/ PostCommandAction \/ Finish

CommandsSpec == CommandsInit /\ [][CommandsNext]_commandsVars

----------------------------------------------------------------------------
(* What makes it correct *)

\* Frames and the stack have the shapes the steps give them.
CommandsTypeOK ==
    /\ status \in {"waits", "runs", "done", "exit"}
    /\ generated \in BOOLEAN /\ noHooks \in BOOLEAN
    /\ line \in [words : Line, help : BOOLEAN]
    /\ \A i \in DOMAIN frames :
          /\ frames[i].at \in {"try", "start", "tracked", "before", "called", "posted", "after"}
          /\ Range(frames[i].args) \subseteq Words
          /\ i < Len(frames) => frames[i].at = "called"
    /\ Len(commands) <= Len(frames)

\* The hooks of a line surround its commands however deep they are nested and
\* whichever have hooks: the commands on the stack are the ones being executed,
\* after hooks begin in the reverse order of the before hooks, and once the line
\* is done every command that began has ended.
HooksSurround ==
    /\ Len(closed) <= Len(opened)
    /\ \A i \in DOMAIN closed : closed[i] = opened[Len(opened) + 1 - i]
    /\ status = "runs" =>
          commands = [i \in DOMAIN commands |-> [name |-> frames[i].name, args |-> frames[i].args]]
    /\ status = "done" => commands = <<>> /\ Len(closed) = Len(opened)

\* A command that ran executes another of a family whose command is executed already.
CallsItsOwn ==
    \E k, m \in DOMAIN ran :
        LET command == ResolveCommand(ran[m].name)
        IN  k <= m /\ command.kind = "calls" /\ command.callee[1].word = ran[k].name[1].word

\* A subcommand that was reached through its parent has its hooks run once, as
\* those of the parent with its arguments, and no hooks run twice for a line but
\* where a command executes its own family again, as device log does.
HooksRunOnce ==
    \A i, j \in DOMAIN opened : opened[i] = opened[j] /\ opened[i] # <<>> => i = j \/ CallsItsOwn

\* Every parameter that must be given is, and no two arguments go to one parameter.
Fits(args, params) ==
    \E to \in [DOMAIN args -> DOMAIN params] :
        /\ IsInjective(to)
        /\ \A i \in DOMAIN args : args[i] \in params[to[i]].accepts
        /\ \A k \in DOMAIN params : params[k].mandatory => k \in Range(to)

\* A line without the empty words between the first and the next that is none.
WithoutEmpty(words) == <<words[1]>> \o FromFirst(Tail(words))

\* The full name that a line means: the longest one it begins with, else the default one of its first word.
Meant(words) ==
    LET prefixes == {n \in Range(Required) : /\ IsPrefix(PlainWords(n), LowerCase(WithoutEmpty(words)))
                                             /\ \A i \in DOMAIN n : n[i].star => i = 2}
        longest == {n \in prefixes : \A m \in prefixes : Len(m) <= Len(n)}
        defaults == {n \in Range(Required) : IsDefault(n) /\ n[1].word = Lower[words[1]]}
    IN  IF (\E n \in longest : Len(n) > 1) \/ defaults = {} THEN longest ELSE defaults

\* The first command that runs is the one that was typed, with the words that
\* follow its name (a default command that was not named loses those of its
\* own name; empty words before that of a subcommand count for nothing), and the
\* arguments fit its parameters one to one unless it judges them itself.
RunsAsTyped ==
    \A i \in DOMAIN ran :
        LET name == ran[i].name
            args == ran[i].args
            words == WithoutEmpty(line.words)
            named == /\ IsPrefix(PlainWords(name), LowerCase(words))
                     /\ \A k \in DOMAIN name : name[k].star => k = 2
        IN  /\ (i = 1 /\ ~line.help /\ line.words # <<>> /\ name \in Range(Required)) =>
                  /\ name \in Meant(line.words)
                  /\ args = IF Len(name) = 1 THEN Tail(line.words)
                            ELSE IF named THEN SubSeq(words, Len(name) + 1, Len(words))
                            ELSE Difference(Tail(line.words), ItsWords(name))
            /\ (line.help \/ line.words = <<>>) => name = <<El(Help)>>
            /\ ~ResolveCommand(name).canExecute => Fits(args, ResolveCommand(name).params)
=============================================================================
