------------------------------- MODULE Plugins -------------------------------
(***************************************************************************)
(* The search for plugins (src/services/plugins): the sources that are     *)
(* asked one after the other until one has something, the pages each of    *)
(* them gives, and the printing of the pages a user asks for.              *)
(*                                                                         *)
(* The registry answers about one plugin; the web site gives what is on    *)
(* npm in pages of its own size; any request may fail.  A table of plugins *)
(* is the sequence that is printed.                                        *)
(***************************************************************************)
EXTENDS Integers, Sequences, SequencesExt

CONSTANTS
    OnNpm,         \* the plugins that match the keywords, in their order
    SiteCount,     \* the plugins on a page of the web site
    CountToShow,   \* the plugins on a page that is printed
    NoPlugins,     \* null
    MaxPage        \* bound: the last page that is printed

ASSUME PluginsAssumption ==
    /\ OnNpm \in Seq(ToSet(OnNpm))
    /\ SiteCount \in Nat \ {0} /\ CountToShow \in Nat \ {0} /\ MaxPage \in Nat \ {0}

VARIABLES
    toAsk,         \* the sources that search has not asked yet
    source,        \* the source that was asked last
    plugins,       \* its plugins field
    loadedPages,   \* the _pages field of the web site's source
    printing,      \* "no", "asks" (whether to load more) or "failed"
    nextPage,      \* the _page field of PrintPluginsService, a singleton
    firstPage,     \* the page that the search's last printing began with
    shown          \* what that printing has printed

pluginsVars == <<toAsk, source, plugins, loadedPages, printing, nextPage, firstPage, shown>>

----------------------------------------------------------------------------
\* _.slice(list, from, to), its positions counted from 0
Slice(list, from, to) == SubSeq(list, from + 1, IF to < Len(list) THEN to ELSE Len(list))

\* A page of the web site, counted from 1; null for one that cannot be had.
GetPluginsFromNpmjs(page) == {NoPlugins, Slice(OnNpm, (page - 1) * SiteCount, page * SiteCount)}

HasPlugins == plugins \notin {NoPlugins, <<>>}

\* optimizedSearch asks the registry before it searches as search does.
Searches == {<<"npmjs", "registry", "npm">>, <<"registry", "npmjs", "registry", "npm">>}

\* getPluginFromNpmRegistry: the one plugin of the first keyword, if any.
FromNpmRegistry == {NoPlugins} \cup {<<p>> : p \in ToSet(OnNpm)}

\* npm search: the rows it prints.
FromNpmSearch == {<<>>, OnNpm}

\* initialize: what the plugins of a source may be.
Initialize(s) ==
    CASE s = "npmjs" -> GetPluginsFromNpmjs(1)
      [] s = "registry" -> FromNpmRegistry
      [] s = "npm" -> FromNpmSearch

\* preparePluginsSource: a new source, with what it finds.
PrepareSource ==
    /\ printing = "no" /\ toAsk # <<>>
    /\ source' = Head(toAsk)
    /\ plugins' \in Initialize(source')
    /\ loadedPages' = [page \in 1..MaxPage |-> NoPlugins]
    /\ toAsk' = IF HasPlugins' THEN <<>> ELSE Tail(toAsk)
    /\ UNCHANGED <<printing, nextPage, firstPage, shown>>

\* npm search writes an error.
NpmSearchFails ==
    /\ printing = "no" /\ toAsk = <<"npm">>
    /\ printing' = "failed"
    /\ UNCHANGED <<toAsk, source, plugins, loadedPages, nextPage, firstPage, shown>>

SearchAgain ==
    /\ printing = "no" /\ toAsk = <<>>
    /\ toAsk' \in Searches
    /\ shown' = <<>>
    /\ UNCHANGED <<source, plugins, loadedPages, printing, nextPage, firstPage>>

----------------------------------------------------------------------------
\* A page that was loaded is not asked for again; a null one is.
SitePages(page) ==
    IF loadedPages[page] # NoPlugins THEN {loadedPages[page]} ELSE GetPluginsFromNpmjs(page)

\* Mutant of GetPlugins: the pages of the web site are counted from 0 too.
GetPluginsBefore(page) ==
    CASE source = "npmjs" -> SitePages(IF page = 1 THEN 1 ELSE page - 1)
      [] source = "registry" -> {IF page = 1 THEN plugins ELSE NoPlugins}
      [] source = "npm" -> {Slice(plugins, page * CountToShow, page * CountToShow + CountToShow)}

\* getPlugins of each source.  The web site's ignores the count that is asked
\* for, and what npm search found is counted in pages from 0.
GetPlugins(page) ==
    CASE source = "npmjs" -> SitePages(page)
      [] source = "registry" -> {IF page = 1 THEN plugins ELSE NoPlugins}
      [] source = "npm" -> {Slice(plugins, page * CountToShow, page * CountToShow + CountToShow)}

\* The next page is asked for and is loaded.  concat adds a null as it is.
LoadPage(loaded) ==
    /\ nextPage <= MaxPage
    /\ loaded \in GetPlugins(nextPage)
    /\ nextPage' = nextPage + 1
    /\ IF source = "npmjs" /\ loadedPages[nextPage] = NoPlugins
       THEN /\ loadedPages' = [loadedPages EXCEPT ![nextPage] = loaded]
            /\ plugins' = plugins \o (IF loaded = NoPlugins THEN <<NoPlugins>> ELSE loaded)
       ELSE UNCHANGED <<loadedPages, plugins>>
    /\ UNCHANGED <<toAsk, source>>

LoadedPages == {NoPlugins} \cup {Slice(OnNpm, i, j) : i, j \in 0..Len(OnNpm)}

\* A short page is the last one; a null one is printed as an empty table, and
\* the length that is asked of it throws.
Display(loaded) == printing' = IF loaded # NoPlugins /\ Len(loaded) >= CountToShow THEN "asks" ELSE "no"

\* printPlugins, up to the question or to the end.
PrintPlugins ==
    /\ printing = "no" /\ toAsk = <<>> /\ HasPlugins
    /\ firstPage' = nextPage
    /\ \E loaded \in LoadedPages :
          /\ LoadPage(loaded)
          /\ shown' = IF loaded = NoPlugins THEN <<>> ELSE loaded
          /\ Display(loaded)

\* getAllPluginsCore asks for pages until one is empty or null; the other
\* sources have all they found.
AllPlugins ==
    IF source = "npmjs" THEN {Slice(OnNpm, 0, pages * SiteCount) : pages \in 0..Len(OnNpm)} ELSE {plugins}

\* printPlugins without a terminal, or asked for all.
PrintAllPlugins ==
    /\ printing = "no" /\ toAsk = <<>> /\ HasPlugins
    /\ firstPage' = 1
    /\ shown' \in AllPlugins
    /\ UNCHANGED <<toAsk, source, plugins, loadedPages, printing, nextPage>>

\* "Load more plugins?": the next page is loaded whatever the answer is.
AnswerLoadMore ==
    /\ printing = "asks"
    /\ \E more \in BOOLEAN, loaded \in LoadedPages :
          /\ LoadPage(loaded)
          /\ IF more /\ loaded \notin {NoPlugins, <<>>}
             THEN shown' = shown \o loaded /\ Display(loaded)
             ELSE UNCHANGED shown /\ printing' = "no"
    /\ UNCHANGED firstPage

PluginsInit ==
    /\ toAsk \in Searches
    /\ source = "npmjs" /\ plugins = <<>>
    /\ loadedPages = [page \in 1..MaxPage |-> NoPlugins]
    /\ printing = "no" /\ nextPage = 1 /\ firstPage = 1 /\ shown = <<>>

PluginsNext ==
    PrepareSource \/ NpmSearchFails \/ SearchAgain \/ PrintPlugins \/ PrintAllPlugins \/ AnswerLoadMore

PluginsSpec == PluginsInit /\ [][PluginsNext]_pluginsVars

----------------------------------------------------------------------------
PluginsTypeOK ==
    /\ source \in {"npmjs", "registry", "npm"}
    /\ \A page \in 1..MaxPage : loadedPages[page] \in LoadedPages
    /\ printing \in {"no", "asks", "failed"}
    /\ nextPage \in 1..MaxPage + 1 /\ firstPage \in 1..MaxPage

\* One printing, from its first page to the user's no, shows the results of the
\* search in their order, none of them twice and none skipped in between, and one
\* that begins with the first page of what a web site or the registry found begins
\* with the first of them, whatever pages fail, are kept, or were loaded after the
\* user had enough.  Nothing is said of two printings: pages between them may be
\* dropped.
ShownInOrder ==
    LET results == IF source = "npmjs" THEN OnNpm ELSE plugins
    IN toAsk = <<>> /\ HasPlugins /\ shown # <<>> =>
          \E i \in 0..Len(results) :
             /\ shown = Slice(results, i, i + Len(shown))
             /\ firstPage = 1 /\ source # "npm" => i = 0
=============================================================================
