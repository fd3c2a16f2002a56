---------------------------- MODULE ProjectFiles ----------------------------
(***************************************************************************)
(* The files of a project: which of them are for a platform and a          *)
(* configuration and what they are called on the device                    *)
(* (src/services/project-files-provider-base.ts), which are ignored        *)
(* (src/appbuilder/providers/project-files-provider.ts and                 *)
(* path-filtering.ts), and how the files of a directory are prepared, and  *)
(* paired with device paths, for one platform                              *)
(* (src/services/project-files-manager.ts).                                *)
(*                                                                         *)
(* A file is its directory and its name, each the sequence of the parts    *)
(* between its dots: app/main.ios.js is [dir |-> <<"app">>,                *)
(* name |-> <<"main", "ios", "js">>].  A tag is a part with a dot on each  *)
(* side that names a platform or a configuration.  A directory is a path   *)
(* too: app is [dir |-> <<>>, name |-> <<"app">>], and one level of them   *)
(* stands for any depth.  What is in a file is the file it was at first,   *)
(* the file its source map comments name and what became of the bytes: a   *)
(* file is written by truncating it first, and is read and written as      *)
(* text, which alters what is not.  The process may be killed in the       *)
(* middle of a preparation (or throw: a full disk), which then is made     *)
(* again.                                                                  *)
(***************************************************************************)
EXTENDS Integers, Sequences, SequencesExt, FiniteSetsExt

CONSTANTS
    Files,            \* every file that may be in the project
    PlatformNames,    \* the platforms, in lower case
    Configurations,   \* debug, release and the project's own, in lower case
    InLowerCase,      \* the lower case of every part
    Binary,           \* those whose bytes are not UTF-8 text
    RuleLists,        \* the lists of ignore rules, each [negated, matches]
    DirLists,         \* what callers give as excludedDirs
    PatternLists      \* the paths that what callers give as excludedProjectDirsAndFiles matches

FilePaths == [dir : Seq(DOMAIN InLowerCase), name : Seq(DOMAIN InLowerCase)]

ASSUME FilesAssumption ==
    /\ Files \subseteq FilePaths /\ Binary \subseteq Files
    /\ RuleLists \subseteq Seq([negated : BOOLEAN, matches : SUBSET FilePaths])
    /\ \A f \in Files : f.name # <<>>
    /\ PatternLists \subseteq SUBSET FilePaths
    /\ PlatformNames \cap Configurations = {} /\ {"debug", "release"} \subseteq Configurations

VARIABLES
    original,         \* the files the project had
    disk,             \* the files there are, and what is in each
    target,           \* the platform and the configuration prepared for, and what the callers exclude
    rules,            \* the ignore rules in force, the internal ones first
    left,             \* the files of the list that are still to be prepared
    doing,            \* the file in hand, the next step with it and the text that was read
    cut               \* history: the files whose content was lost when a kill cut the
                      \* rewriting of the only copy short

filesVars == <<original, disk, target, rules, left, doing, cut>>

----------------------------------------------------------------------------
(* Names *)

\* The places of the tags in a sequence of parts.
Tags(parts, values) == {i \in 2 .. Len(parts) - 1 : InLowerCase[parts[i]] \in values}

\* Mutant of ParseFile: upper case counts.
ParseFileAsWritten(file, values, value) ==
    LET tags == {i \in 2 .. Len(file.name) - 1 : file.name[i] \in values}
    IN IF tags = {} THEN {}
       ELSE {[name |-> RemoveAt(file.name, Min(tags)), included |-> file.name[Min(tags)] = value]}

\* parseFile: the first tag of the whole path decides, a directory's too, and
\* is left out of the name when it is there.  The empty set stands for null.
ParseFile(file, values, value) ==
    LET inDir == Tags(file.dir, values)
        inName == Tags(file.name, values)
    IN IF inDir # {} THEN {[name |-> file.name, included |-> InLowerCase[file.dir[Min(inDir)]] = value]}
       ELSE IF inName # {} THEN {[name |-> RemoveAt(file.name, Min(inName)), included |-> InLowerCase[file.name[Min(inName)]] = value]}
       ELSE {}

\* getProjectFileInfo: by the platform, else by the configuration.
ProjectFileInfo(file) ==
    LET byPlatform == ParseFile(file, PlatformNames, target.platform)
        byConfiguration == ParseFile(file, Configurations, target.configuration)
    IN CHOOSE info \in (IF byPlatform # {} THEN byPlatform
                        ELSE IF byConfiguration # {} THEN byConfiguration
                        ELSE {[name |-> file.name, included |-> TRUE]}) : TRUE

OnDevice(file) == [file EXCEPT !.name = ProjectFileInfo(file).name]

\* The extensions whose files name each other.
HasLinks(file) == Last(file.name) \in {"js", "map"}

----------------------------------------------------------------------------
(* What is ignored, and what goes where *)

\* Mutant of FileMatched: the first rule that matches decides.
FileMatchedAtFirst(file) ==
    LET matched[n \in 0 .. Len(rules)] ==
            IF n = 0 THEN TRUE
            ELSE IF file \notin rules[n].matches \/ ~ matched[n - 1] THEN matched[n - 1]
            ELSE rules[n].negated
    IN  matched

\* fileMatched after the first n rules: one that matches takes the file out, or
\* back in when it is negated.
FileMatched(file) ==
    LET matched[n \in 0 .. Len(rules)] ==
            IF n = 0 THEN TRUE
            ELSE IF file \notin rules[n].matches THEN matched[n - 1]
            ELSE rules[n].negated
    IN  matched

\* ProjectFilesManager.isFileExcluded: by the caller's patterns, or by the rules.
IsFileExcluded(path) == path \in target.excludedFiles \/ ~ FileMatched(path)[Len(rules)]

DirectoryOf(f) == [dir |-> <<>>, name |-> f.dir]

\* getProjectFiles: the filter is for directories too, and one that it takes out
\* is not entered.  Directories stay when their files are removed.
ProjectFilesLeft ==
    LET entered == {d \in {DirectoryOf(f) : f \in original} : d.name = <<>> \/ ~ IsFileExcluded(d)}
    IN {d \in entered : d.name # <<>>}
          \cup {f \in DOMAIN disk : DirectoryOf(f) \in entered /\ ~ IsFileExcluded(f)}

\* createLocalToDevicePaths: the pairs of a local file, or directory, and its
\* device path.
LocalToDevicePaths == {<<f, OnDevice(f)>> : f \in {g \in ProjectFilesLeft : ProjectFileInfo(g).included}}

----------------------------------------------------------------------------
(* The preparation of the files *)

Without(f) == [g \in DOMAIN disk \ {f} |-> disk[g]]

With(f, content) == [g \in DOMAIN disk \cup {f} |-> IF g = f THEN content ELSE disk[g]]

\* Nothing in hand.
None == [dir |-> <<>>, name |-> <<>>]

\* readDirectory, and enumerateFilesInDirectorySync in the directories that are not
\* excluded.
Listed == {f \in DOMAIN disk : f.dir \notin target.excludedDirs}

NoText == [from |-> None, link |-> None, bytes |-> "torn"]

NotDoing == [file |-> None, step |-> "next", text |-> NoText]

\* writeFile, of a text that was read with readText.
AsText(content) ==
    [content EXCEPT !.bytes = IF content.bytes = "whole" /\ content.from \in Binary THEN "altered" ELSE @]

\* A file that was truncated and not written yet.
Torn(content) == [content EXCEPT !.bytes = "torn"]

\* processPlatformSpecificFiles: the files of the directory are listed.
ProcessFiles ==
    /\ doing.step \in {"idle", "killed"}
    /\ left' = Listed
    /\ doing' = NotDoing
    /\ UNCHANGED <<original, disk, target, rules, cut>>

\* The next file of the list, in whatever order the directory gives it: one
\* of another platform or configuration goes, one with a tag is renamed.
NextFile ==
    /\ doing.step = "next" /\ left # {}
    /\ \E f \in left :
          LET info == ProjectFileInfo(f)
          IN /\ left' = left \ {f}
             /\ disk' = IF info.included THEN disk ELSE Without(f)
             /\ doing' = IF info.included /\ OnDevice(f) # f
                         THEN [NotDoing EXCEPT !.file = f, !.step = IF HasLinks(OnDevice(f)) THEN "fixes" ELSE "writes"]
                         ELSE NotDoing
    /\ UNCHANGED <<original, target, rules, cut>>

\* The .js and .map files that mention the name mention the new one.  The file
\* is read and truncated, and then has its new text.
FixLinks ==
    /\ doing.step = "fixes"
    /\ disk' = [disk EXCEPT ![doing.file] = Torn(@)]
    /\ doing' = [doing EXCEPT !.step = "fixing", !.text = disk[doing.file]]
    /\ UNCHANGED <<original, target, rules, left, cut>>

LinksFixed ==
    /\ doing.step = "fixing"
    /\ disk' = [disk EXCEPT ![doing.file] =
          [AsText(doing.text) EXCEPT !.link = IF @ = doing.file THEN OnDevice(doing.file) ELSE @]]
    /\ doing' = [doing EXCEPT !.step = "writes", !.text = NoText]
    /\ UNCHANGED <<original, target, rules, left, cut>>

\* Renaming is a copy and the removal of what was copied.
WriteRenamed ==
    /\ doing.step = "writes"
    /\ disk' = With(OnDevice(doing.file), Torn(disk[doing.file]))
    /\ doing' = [doing EXCEPT !.step = "writing", !.text = disk[doing.file]]
    /\ UNCHANGED <<original, target, rules, left, cut>>

RenamedWritten ==
    /\ doing.step = "writing"
    /\ disk' = With(OnDevice(doing.file), AsText(doing.text))
    /\ doing' = [doing EXCEPT !.step = "deletes", !.text = NoText]
    /\ UNCHANGED <<original, target, rules, left, cut>>

DeleteRenamed ==
    /\ doing.step = "deletes"
    /\ disk' = Without(doing.file)
    /\ doing' = NotDoing
    /\ UNCHANGED <<original, target, rules, left, cut>>

Prepared ==
    /\ doing.step = "next" /\ left = {}
    /\ doing' = [NotDoing EXCEPT !.step = "prepared"]
    /\ UNCHANGED <<original, disk, target, rules, left, cut>>

\* The process is killed: what it had in hand is forgotten.
Killed ==
    /\ doing.step \in {"next", "fixes", "fixing", "writes", "writing", "deletes"}
    /\ cut' = IF doing.step = "fixing" THEN cut \cup {doing.text.from} ELSE cut
    /\ left' = {}
    /\ doing' = [NotDoing EXCEPT !.step = "killed"]
    /\ UNCHANGED <<original, disk, target, rules>>

----------------------------------------------------------------------------
Targets ==
    [platform : PlatformNames, configuration : {"debug", "release"}, excludedDirs : DirLists, excludedFiles : PatternLists]

\* What was in a file before the first preparation.
FirstContent(f) == [from |-> f, link |-> f, bytes |-> "whole"]

FilesInit ==
    /\ original \in SUBSET Files
    /\ disk = [f \in original |-> FirstContent(f)]
    /\ target \in Targets
    /\ rules \in RuleLists
    /\ left = {}
    /\ doing = [NotDoing EXCEPT !.step = "idle"]
    /\ cut = {}

FilesNext ==
    \/ ProcessFiles \/ NextFile \/ FixLinks \/ LinksFixed \/ WriteRenamed \/ RenamedWritten \/ DeleteRenamed
    \/ Prepared \/ Killed

FilesSpec == FilesInit /\ [][FilesNext]_filesVars

FilesTypeOK ==
    /\ \A f \in DOMAIN disk :
          /\ disk[f].from \in original /\ disk[f].link.dir = f.dir
          /\ disk[f].bytes \in {"whole", "altered", "torn"}
    /\ left \subseteq original \cup DOMAIN disk /\ cut \subseteq original
    /\ doing.step \in {"idle", "next", "fixes", "fixing", "writes", "writing", "deletes", "prepared", "killed"}
    /\ doing.file = None \/ doing.file \in DOMAIN disk

\* The tags of a file, platforms and configurations alike.
AllTags(f) == {<<"dir", i>> : i \in Tags(f.dir, PlatformNames \cup Configurations)}
              \cup {<<"name", i>> : i \in Tags(f.name, PlatformNames \cup Configurations)}

\* The files that have one tag in their name are the variants of the file
\* without it; a variant counts when its tag is the target's.
Common(f) ==
    IF Cardinality(AllTags(f)) = 1 /\ Tags(f.dir, PlatformNames \cup Configurations) = {}
    THEN [f EXCEPT !.name = RemoveAt(f.name, Min(Tags(f.name, PlatformNames \cup Configurations)))]
    ELSE f

ItsTag(f) == InLowerCase[f.name[Min(Tags(f.name, PlatformNames \cup Configurations))]]

VariantsOf(f) == {g \in original : Common(g) = f /\ g # f /\ ItsTag(g) \in {target.platform, target.configuration}}

\* The files without a tag, there at first or the common name of a variant.
\* Nothing is said of files in a directory with a tag.
CommonFiles == {Common(g) : g \in {h \in original : Cardinality(AllTags(h)) <= 1 /\ Tags(h.dir, PlatformNames \cup Configurations) = {}}}

\* No file is where a directory is, nor would be without its tag.
ASSUME DirectoriesAssumption == \A f, g \in Files : Common(f) # DirectoryOf(g)

\* Nor of one with the name of a file that has two tags: what becomes of that
\* one depends on the order of the list.
Alone(f) == \A h \in original : h.dir = f.dir /\ Head(h.name) = Head(f.name) => Cardinality(AllTags(h)) <= 1

\* What the target has of a file.
Expected(f) == IF VariantsOf(f) # {} THEN VariantsOf(f) ELSE {f} \cap original

\* Every file without a tag ends as what the target has of it: it is there
\* when it or a variant of it was, with the content of a variant if there is
\* one, and the source map comments in it name it; nothing is left of the
\* variants.  On the way, killed at any point and made again, the content is
\* always in one of them, or in memory while its only copy is rewritten.  What
\* is lost is what a kill in the middle of such a rewriting cut short, and what
\* is not text is altered by its renaming; nothing else is.  The files of an
\* excluded directory are as they were.
FilesAreTheTargets ==
    /\ \A f \in CommonFiles : Alone(f) /\ f.dir \notin target.excludedDirs =>
          LET expected == Expected(f)
              Lost(h) == disk[h].bytes = "torn" /\ disk[h].from \notin cut
          IN /\ expected # {} =>
                  \E h \in DOMAIN disk \cap (expected \cup {f}) :
                      disk[h].from \in expected /\ (Lost(h) => doing.step = "fixing" /\ doing.file = h)
             /\ doing.step = "prepared" =>
                  /\ f \in DOMAIN disk <=> expected # {}
                  /\ f \in DOMAIN disk =>
                        /\ disk[f].from \in expected /\ ~ Lost(f) /\ (HasLinks(f) => disk[f].link = f)
                        /\ disk[f].bytes = "altered" => disk[f].from \in Binary \ {f}
                  /\ \A g \in original : Common(g) = f /\ g # f => g \notin DOMAIN disk
    /\ \A f \in original : f.dir \in target.excludedDirs => f \in DOMAIN disk /\ disk[f] = FirstContent(f)

\* What is then sent to a device is, under its own name, every file that neither
\* the caller's patterns nor the last matching ignore rule take out, in a directory
\* that they do not take out either: a rule that puts a file back does so only
\* where its directory is in.
SentFollowsTheRules ==
    \A f \in CommonFiles : Alone(f) /\ f.dir \notin target.excludedDirs /\ doing.step = "prepared" =>
        LET Matching(path) == {i \in DOMAIN rules : path \in rules[i].matches}
            Ignored(path) == \/ path \in target.excludedFiles
                             \/ Matching(path) # {} /\ ~ rules[Max(Matching(path))].negated
            sent == Expected(f) # {} /\ ~ Ignored(f) /\ (f.dir # <<>> => ~ Ignored(DirectoryOf(f)))
        IN {p[2] : p \in {q \in LocalToDevicePaths : q[1] = f}} = IF sent THEN {f} ELSE {}
=============================================================================
