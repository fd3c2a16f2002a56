--------------------------------- MODULE Npm ---------------------------------
(***************************************************************************)
(* The npm service (src/appbuilder/services/npm-service.ts): calls that    *)
(* install and uninstall the packages of one project, each a sequence of   *)
(* npm processes, and the file of TypeScript references that every call    *)
(* writes anew at its end.  Calls are made by the program that embeds the  *)
(* CLI and overlap at every await.                                         *)
(*                                                                         *)
(* npm itself is external: a process that ends well has done what its      *)
(* arguments say, to package.json and to node_modules at once; one that    *)
(* fails may or may not have done it.                                      *)
(***************************************************************************)
EXTENDS ChildProcesses, FiniteSets

CONSTANTS
    Calls,        \* the calls of one run
    Packages,     \* the packages a project may depend on
    Core,         \* the package whose definitions are its own
    InRegistry    \* the packages that the registry has @types/ of

ASSUME NpmAssumption == Core \in Packages /\ InRegistry \subseteq Packages

VARIABLES
    saved,        \* package.json: dependencies and @types/ devDependencies
    present,      \* the packages in node_modules, and those in its @types/
    references,   \* the lines of the references file; it is deleted when empty
    npmCall,      \* npmCall[c]: what call c does and where it is
    registryUrl,  \* _npmRegistryUrl: "unknown" until it is asked for
    npmProxy,     \* _hasCheckedNpmProxy and whether _proxySettings is set
    settings,     \* npm's and the CLI's own proxy, as configured
    rejected      \* an uninstall was rejected since the references were written

npmVars == <<saved, present, references, npmCall, registryUrl, npmProxy, settings, rejected>>

----------------------------------------------------------------------------
Idle == [step |-> "idle", dep |-> Core, types |-> FALSE, read |-> [dependencies |-> {}, types |-> {}]]

\* generateReferencesFile: a line for the core modules when they are saved
\* and there, and the definition files that are there of the saved @types/
\* packages; a directory that is missing has none.
ReferenceLines(json, modules) ==
    [core |-> Core \in json.dependencies /\ Core \in modules.packages,
     types |-> json.types \cap modules.types]

\* What npm does to package.json and node_modules.
Saving(c) ==
    CASE npmCall[c].step = "installs" -> [saved EXCEPT !.dependencies = @ \cup {npmCall[c].dep}]
      [] npmCall[c].step = "installsTypes" -> [saved EXCEPT !.types = @ \cup {npmCall[c].dep}]
      [] npmCall[c].step = "uninstalls" -> [saved EXCEPT !.dependencies = @ \ {npmCall[c].dep}]
      [] npmCall[c].step = "uninstallsTypes" -> [saved EXCEPT !.types = @ \ {npmCall[c].dep}]
      [] OTHER -> saved

Placing(c) ==
    CASE npmCall[c].step = "prunes" -> [packages |-> present.packages \cap saved.dependencies, types |-> present.types \cap saved.types]
      [] npmCall[c].step = "installsAll" -> [packages |-> present.packages \cup saved.dependencies, types |-> present.types \cup saved.types]
      [] npmCall[c].step = "installs" -> [present EXCEPT !.packages = @ \cup {npmCall[c].dep}]
      [] npmCall[c].step = "installsTypes" -> [present EXCEPT !.types = @ \cup {npmCall[c].dep}]
      [] npmCall[c].step = "uninstalls" -> [present EXCEPT !.packages = @ \ {npmCall[c].dep}]
      [] npmCall[c].step = "uninstallsTypes" -> [present EXCEPT !.types = @ \ {npmCall[c].dep}]
      [] OTHER -> present

Go(c, record) == npmCall' = [npmCall EXCEPT ![c] = record]

\* Mutant of Generate: the file is written from what npm found when it began.
GenerateTooEarly(c) ==
    /\ Go(c, Idle)
    /\ references' = ReferenceLines(saved, present)
    /\ rejected' = FALSE

\* The end of a call, and of the step that leads there: the references file
\* is written from what is on the disk by then.
Generate(c) ==
    /\ Go(c, Idle)
    /\ references' = ReferenceLines(saved', present')
    /\ rejected' = FALSE

NpmDoes(c) == saved' = Saving(c) /\ present' = Placing(c)

\* The next thing hasTypesForDependency awaits: what is not yet known is
\* asked of npm.
AfterUrl == IF npmProxy.checked THEN "queries" ELSE "asksProxy"

Asking == IF registryUrl = "unknown" THEN "asksUrl" ELSE AfterUrl

Proceed(c, record) == Go(c, record) /\ UNCHANGED <<references, rejected>>

EnvironmentUnchanged == UNCHANGED <<registryUrl, npmProxy, settings>>

----------------------------------------------------------------------------
\* install: one package, with or without its types, or, without a package,
\* all that package.json names after what it does not name is gone.
Install(c) ==
    /\ npmCall[c].step = "idle"
    /\ \/ \E d \in Packages, types \in BOOLEAN : Proceed(c, [Idle EXCEPT !.step = "installs", !.dep = d, !.types = types])
       \/ Proceed(c, [Idle EXCEPT !.step = "prunes"])
    /\ UNCHANGED <<saved, present>> /\ EnvironmentUnchanged

\* The steps of an uninstall: what package.json had when it began decides.
UninstallStep(read, d, from) ==
    IF from = "idle" /\ d \in read.dependencies THEN "uninstalls"
    ELSE IF from # "uninstallsTypes" /\ d \in read.types THEN "uninstallsTypes"
    ELSE "generates"

Uninstall(c) ==
    /\ npmCall[c].step = "idle"
    /\ UNCHANGED <<saved, present>>
    /\ \E d \in Packages :
          LET step == UninstallStep(saved, d, "idle")
          IN IF step = "generates" THEN Generate(c)
             ELSE Proceed(c, [Idle EXCEPT !.step = step, !.dep = d, !.read = saved])
    /\ EnvironmentUnchanged

\* An npm process of an install ends; its failure is kept in the result.
InstallEnds(c) ==
    /\ npmCall[c].step \in {"installs", "installsTypes", "prunes", "installsAll"}
    /\ \E ending \in Endings :
          LET well == SpawnFromEvent(ending, TRUE) = "resolved"
              call == npmCall[c]
          IN /\ \/ NpmDoes(c)
                \/ ~ well /\ UNCHANGED <<saved, present>>
             /\ CASE call.step = "prunes" /\ well -> Proceed(c, [call EXCEPT !.step = "installsAll"])
                  [] call.step = "installs" /\ well /\ call.types -> Proceed(c, [call EXCEPT !.step = Asking])
                  [] OTHER -> Generate(c)
    /\ EnvironmentUnchanged

\* An npm process of an uninstall ends; its failure rejects the call.
UninstallEnds(c) ==
    /\ npmCall[c].step \in {"uninstalls", "uninstallsTypes"}
    /\ \E ending \in Endings :
          LET step == UninstallStep(npmCall[c].read, npmCall[c].dep, npmCall[c].step)
          IN IF SpawnFromEvent(ending, TRUE) = "rejected"
             THEN /\ NpmDoes(c) \/ UNCHANGED <<saved, present>>
                  /\ Go(c, Idle) /\ rejected' = TRUE /\ UNCHANGED references
             ELSE /\ NpmDoes(c)
                  /\ IF step = "generates" THEN Generate(c) ELSE Proceed(c, [npmCall[c] EXCEPT !.step = step])
    /\ EnvironmentUnchanged

----------------------------------------------------------------------------
(* hasTypesForDependency: whether the registry has the @types/ package. *)

\* getNpmRegistryUrl: the answer, or the default for a failure, is kept.
AskRegistryUrl(c) ==
    /\ npmCall[c].step = "asksUrl"
    /\ registryUrl' = "known"
    /\ Proceed(c, [npmCall[c] EXCEPT !.step = AfterUrl])
    /\ UNCHANGED <<saved, present, npmProxy, settings>>

\* getNpmProxySettings: a proxy npm has is kept; a failure leaves what there is.
AskProxy(c) ==
    /\ npmCall[c].step = "asksProxy"
    /\ \E ending \in Endings :
          npmProxy' = [checked |-> TRUE, used |-> npmProxy.used \/ (Exec(ending) = "resolved" /\ settings.npm)]
    /\ Proceed(c, [npmCall[c] EXCEPT !.step = "queries"])
    /\ UNCHANGED <<saved, present, registryUrl, settings>>

\* getPackageJsonFromNpmRegistry: any failure counts as a package the
\* registry does not have, and with a proxy of npm's and none of the CLI's
\* the request always fails.
Query(c) ==
    /\ npmCall[c].step = "queries"
    /\ UNCHANGED <<saved, present>>
    /\ \E answered \in BOOLEAN :
          IF answered /\ npmCall[c].dep \in InRegistry /\ (npmProxy.used => settings.cli)
          THEN Proceed(c, [npmCall[c] EXCEPT !.step = "installsTypes"])
          ELSE Generate(c)
    /\ EnvironmentUnchanged

----------------------------------------------------------------------------
NpmInit ==
    /\ saved \in {[dependencies |-> {}, types |-> {}], [dependencies |-> {Core}, types |-> {Core}]}
    /\ present = [packages |-> saved.dependencies, types |-> saved.types]
    /\ references = ReferenceLines(saved, present)
    /\ npmCall = [c \in Calls |-> Idle]
    /\ registryUrl = "unknown"
    /\ npmProxy = [checked |-> FALSE, used |-> FALSE]
    /\ settings \in [npm : BOOLEAN, cli : BOOLEAN]
    /\ rejected = FALSE

NpmNext ==
    \E c \in Calls :
        Install(c) \/ Uninstall(c) \/ InstallEnds(c) \/ UninstallEnds(c) \/ AskRegistryUrl(c) \/ AskProxy(c) \/ Query(c)

NpmSpec == NpmInit /\ [][NpmNext]_npmVars

NpmTypeOK ==
    /\ saved \in [dependencies : SUBSET Packages, types : SUBSET Packages]
    /\ present \in [packages : SUBSET Packages, types : SUBSET Packages]
    /\ references \in [core : BOOLEAN, types : SUBSET Packages]
    /\ \A c \in Calls : npmCall[c].dep \in Packages /\ npmCall[c].read \in [dependencies : SUBSET Packages, types : SUBSET Packages]
    /\ registryUrl \in {"unknown", "known"}
    /\ npmProxy \in [checked : BOOLEAN, used : BOOLEAN]
    /\ rejected \in BOOLEAN

\* The references file names exactly the definitions that are there of the
\* packages the project has, whatever calls overlapped and whichever of their
\* npm processes failed: it may only differ while a call that will write it
\* is under way, or after an uninstall was rejected, which does not write it.
ReferencesFollowPackages ==
    \/ rejected
    \/ \E c \in Calls : npmCall[c].step # "idle"
    \/ /\ references.core <=> Core \in saved.dependencies \cap present.packages
       /\ \A d \in Packages : d \in references.types <=> d \in saved.types \cap present.types
=============================================================================
