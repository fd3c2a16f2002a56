----------------------------- MODULE TypeScript -----------------------------
(***************************************************************************)
(* The TypeScript service (src/services/typescript-service.ts): one object *)
(* that transpiles any number of projects and remembers, for all of them,  *)
(* the compiler it found last.  A project's own compiler, when it is new   *)
(* enough, comes first; else the remembered one, else the CLI's or one     *)
(* that npm installs into a temporary directory.  An install that fails    *)
(* does not reject, and what it should have installed is remembered too.   *)
(*                                                                         *)
(* Projects get and lose their compiler, or get one of another version, at *)
(* any time (npm install, removal of node_modules): a remembered one may   *)
(* be gone, or older by now than what would have been accepted.  tsc is    *)
(* external.                                                               *)
(***************************************************************************)
EXTENDS ChildProcesses

CONSTANTS
    Transpiles,     \* the calls of transpile
    Projects,       \* the projects
    Inside,         \* <<p, c>>: the path of the compiler c has the path of the project p in it
    NoCompiler,     \* no compiler is known yet
    CliCompiler     \* the one the CLI depends on

ASSUME TypeScriptAssumption ==
    /\ \A p \in Projects : <<p, p>> \in Inside
    /\ NoCompiler # CliCompiler /\ {NoCompiler, CliCompiler} \cap (Projects \cup Transpiles) = {}
    /\ Projects \cap Transpiles = {}

VARIABLES
    has,                     \* the compiler in node_modules of each project: none, one that
                             \* is older than the default one, or one that is new enough
    found,                   \* history: the projects whose compiler a call found new enough
    installed,               \* the calls whose temporary directory got a compiler
    typeScriptModuleFilePath,\* whose compiler is remembered: a project's, a call's, the CLI's
    transpile,               \* transpile[t]: its project, what it runs and where it is
    watchProcess,            \* the compilation that goes on, watching the files
    watch                    \* --watch

typeScriptVars == <<has, found, installed, typeScriptModuleFilePath, transpile, watchProcess, watch>>

NotTranspiling ==
    [step |-> "idle", project |-> NoCompiler, compiler |-> NoCompiler, version |-> "none", files |-> FALSE]

Versions == {"none", "old", "new"}

\* What is at the end of a path.  npm was asked for the default version, and the
\* CLI depends on one that is not older.
Version(compiler) ==
    IF compiler \in Projects THEN has[compiler]
    ELSE IF compiler \in installed \cup {CliCompiler} THEN "new" ELSE "none"

\* Mutant of OwnCompiler: the version is not looked at.
OwnCompilerOfAnyVersion(p) == has[p] # "none"

OwnCompiler(p) == has[p] = "new"

\* runTranspilation: the files and the options are passed, unless the path of
\* the compiler, whoever's it is, has the project's in it.
PassesFiles(p, compiler) == <<p, compiler>> \notin Inside

\* The compiler is known: its version is read, which fails when it is not
\* there, and it is started, whatever its version.
Compile(t, record, compiler) ==
    LET version == Version(compiler)'
    IN /\ typeScriptModuleFilePath' = compiler
       /\ transpile' = [transpile EXCEPT ![t] =
             IF version = "none" THEN [record EXCEPT !.step = "failed"]
             ELSE [record EXCEPT !.step = "compiles", !.compiler = compiler, !.version = version,
                                 !.files = PassesFiles(record.project, compiler)]]

\* transpile, with getTypeScriptCompilerSettings up to its await.
Transpile(t) ==
    /\ transpile[t].step = "idle"
    /\ UNCHANGED <<has, installed, watchProcess, watch>>
    /\ \E p \in Projects, local \in BOOLEAN :
          LET record == [NotTranspiling EXCEPT !.project = p]
          IN /\ found' = IF has[p] = "new" THEN found \cup {p} ELSE found
             /\ \/ OwnCompiler(p) /\ Compile(t, record, p)
                \/ /\ ~ OwnCompiler(p) /\ typeScriptModuleFilePath # NoCompiler
                   /\ Compile(t, record, typeScriptModuleFilePath)
                \/ /\ ~ OwnCompiler(p) /\ typeScriptModuleFilePath = NoCompiler /\ local
                   /\ Compile(t, record, CliCompiler)
                \/ /\ ~ OwnCompiler(p) /\ typeScriptModuleFilePath = NoCompiler /\ ~ local
                   /\ transpile' = [transpile EXCEPT ![t] = [record EXCEPT !.step = "installs"]]
                   /\ UNCHANGED typeScriptModuleFilePath

\* npmService.install is done, well or not, and its directory remembered.
InstallDone(t) ==
    /\ transpile[t].step = "installs"
    /\ \E ending \in Endings :
          installed' = IF SpawnFromEvent(ending, TRUE) = "resolved" THEN installed \cup {t} ELSE installed
    /\ UNCHANGED <<has, found, watchProcess, watch>>
    /\ Compile(t, transpile[t], t)

\* tsc has ended: exit codes 1 and 5 fail, everything else is a success, a
\* process that could not be started among it.  The first success starts the
\* process that watches, which is never started again.
CompileEnds(t) ==
    /\ transpile[t].step = "compiles"
    /\ \E ending \in {e \in Endings : SpawnFromEvent(e, FALSE) = "resolved"} :
       \E failed \in (IF ending = "nonzero" THEN BOOLEAN ELSE {FALSE}) :
             /\ transpile' = [transpile EXCEPT ![t].step = IF failed THEN "failed" ELSE "done"]
             /\ watchProcess' = IF failed \/ watchProcess # NoCompiler \/ ~ watch THEN watchProcess ELSE transpile[t].project
    /\ UNCHANGED <<has, found, installed, typeScriptModuleFilePath, watch>>

\* A caller may call again.
TranspileReturns(t) ==
    /\ transpile[t].step \in {"done", "failed"}
    /\ transpile' = [transpile EXCEPT ![t] = NotTranspiling]
    /\ UNCHANGED <<has, found, installed, typeScriptModuleFilePath, watchProcess, watch>>

\* A project's compiler is installed, replaced by another version or removed.
CompilerComesOrGoes(p) ==
    /\ \E version \in Versions \ {has[p]} : has' = [has EXCEPT ![p] = version]
    /\ UNCHANGED <<found, installed, typeScriptModuleFilePath, transpile, watchProcess, watch>>

TypeScriptInit ==
    /\ has \in [Projects -> Versions]
    /\ found = {} /\ installed = {}
    /\ typeScriptModuleFilePath = NoCompiler
    /\ transpile = [t \in Transpiles |-> NotTranspiling]
    /\ watchProcess = NoCompiler
    /\ watch \in BOOLEAN

TypeScriptNext ==
    \/ \E t \in Transpiles : Transpile(t) \/ InstallDone(t) \/ CompileEnds(t) \/ TranspileReturns(t)
    \/ \E p \in Projects : CompilerComesOrGoes(p)

TypeScriptSpec == TypeScriptInit /\ [][TypeScriptNext]_typeScriptVars

TypeScriptTypeOK ==
    /\ has \in [Projects -> Versions] /\ found \subseteq Projects /\ installed \subseteq Transpiles
    /\ typeScriptModuleFilePath \in Projects \cup Transpiles \cup {NoCompiler, CliCompiler}
    /\ transpile \in [Transpiles -> [step : {"idle", "installs", "compiles", "done", "failed"},
          project : Projects \cup {NoCompiler},
          compiler : Projects \cup Transpiles \cup {NoCompiler, CliCompiler}, version : Versions, files : BOOLEAN]]
    /\ watchProcess \in Projects \cup {NoCompiler}

\* What is remembered may be the compiler of another project, one that is gone
\* by now, one whose installation failed or one that was replaced.  Still, what
\* a transpilation runs was there when it started, and it is older than the
\* default one only where a project's compiler was replaced after a call had
\* found it new enough: one that was never accepted is never run, for its own
\* project or for another.
RunsAFitCompiler ==
    \A t \in Transpiles :
        LET run == transpile[t]
        IN run.step \in {"compiles", "done"} =>
              /\ run.compiler \in found \cup installed \cup {CliCompiler}
              /\ run.version # "none" /\ (run.version = "old" => run.compiler \in found)
=============================================================================
