------------------------------- MODULE Plugins --------------------------------
(***************************************************************************)
(* The plugins of an Engine: PluginCreator::create, which searches the     *)
(* files of the environment's path and then a directory for one that makes *)
(* a plugin (src/plugin/pluginCreator.cpp), the engine's map of the        *)
(* libraries it has opened, and its PluginMap of the plugins that live.    *)
(*                                                                         *)
(* All of it runs on one thread, but a library's creator function is user  *)
(* code: it may ask for a plugin of its own, drop plugins, or return one   *)
(* that exists, so searches nest, and share both maps.                     *)
(*                                                                         *)
(* A plugin of another type than the one asked for ends the program (line  *)
(* 45 of Plugin.hpp), so creators return what the caller expects.          *)
(*                                                                         *)
(* Names that every module has carry a prefix here: one module of theorems *)
(* extends this one and Signals.                                           *)
(*                                                                         *)
(* Operators named X_Y are bugs X might have had; no specification uses    *)
(* them.                                                                   *)
(***************************************************************************)
EXTENDS Naturals, Sequences, FiniteSets, SequencesExt

CONSTANTS
  Keys,         \* the types of plugins
  Files,
  Plugins,      \* bound: the plugins there may be
  EnvPaths,     \* what COMAPI_PLUGINS_PATH_VAR_NAME may list
  Directories,  \* what the directory may list, in order
  Blacklists,
  MaxDepth      \* bound: searches within searches

ASSUME PluginsAssumption ==
  /\ IsFiniteSet(Keys)
  /\ EnvPaths \subseteq Seq(Files) /\ Directories \subseteq Seq(Files)
  /\ Blacklists \subseteq SUBSET Files
  /\ MaxDepth \in Nat

VARIABLES
  searches,     \* the searches under way, the innermost first
  libraries,    \* the paths in sharedLibraryMap
  pluginMap,    \* pluginMap[k, p]: how many entries lead from key k to p
  live,         \* the plugins somebody refers to
  made,         \* history: the plugins creators have returned
  listed,       \* history: the <<key, plugin>> pairs given to updatePluginMap
  opened        \* history: how often each library was opened

plugins == <<pluginMap, live, made, listed>>
pluginsVars == <<searches, libraries, pluginMap, live, made, listed, opened>>

Search == [key : Keys, blacklist : SUBSET Files, rest : Seq(Files),
           directory : BOOLEAN, calling : BOOLEAN]

PluginsInit ==
  /\ searches = <<>>
  /\ libraries = {}
  /\ pluginMap = [e \in Keys \X Plugins |-> 0]
  /\ live = {} /\ made = {} /\ listed = {}
  /\ opened = [f \in Files |-> 0]

Top == Head(searches)
InSearch == searches # <<>> /\ ~ Top.calling
UserActs == searches # <<>> => Top.calling

-----------------------------------------------------------------------------
(* The application, or a creator.                                          *)

Create(k) ==
  /\ UserActs
  /\ Len(searches) < MaxDepth
  /\ \E paths \in EnvPaths, black \in Blacklists :
       searches' = Cons([key |-> k, blacklist |-> black, rest |-> paths,
                         directory |-> FALSE, calling |-> FALSE], searches)
  /\ UNCHANGED <<libraries, plugins, opened>>

Release(p) ==
  /\ UserActs
  /\ p \in live
  /\ live' = live \ {p}
  /\ UNCHANGED <<searches, libraries, pluginMap, made, listed, opened>>

-----------------------------------------------------------------------------
(* createFromFile, for the first of the files that are left.               *)

TopBecomes(search) == searches' = Cons(search, Tail(searches))
Passed == [Top EXCEPT !.rest = Tail(@), !.calling = FALSE]

(* Blacklisted, or the library cannot be opened.                            *)
PassOver ==
  /\ InSearch /\ Top.rest # <<>>
  /\ Head(Top.rest) \in Top.blacklist \/ Head(Top.rest) \notin libraries
  /\ TopBecomes(Passed)
  /\ UNCHANGED <<libraries, plugins, opened>>

(* getSharedLibrary, addToEngine.                                           *)
Added_Forgotten(f) == libraries
Added(f) == libraries \cup {f}

(* The library is opened now or was before; then its function is resolved,  *)
(* and called if there is one.                                              *)
UseLibrary(resolved) ==
  /\ InSearch /\ Top.rest # <<>>
  /\ LET f == Head(Top.rest)
     IN  /\ f \notin Top.blacklist
         /\ opened' = IF f \in libraries THEN opened ELSE [opened EXCEPT ![f] = @ + 1]
         /\ libraries' = Added(f)
  /\ TopBecomes(IF resolved THEN [Top EXCEPT !.calling = TRUE] ELSE Passed)
  /\ UNCHANGED plugins

CreatorReturnsNull ==
  /\ searches # <<>> /\ Top.calling
  /\ TopBecomes(Passed)
  /\ UNCHANGED <<libraries, plugins, opened>>

(* PluginMap::eraseReleasedPlugins, then the new entry unless it is there.  *)
Lives_Not(p) == p \notin live
Lives(p) == p \in live'
Entries_WithoutLooking(n) == n + 1
Entries(n) == IF n = 0 THEN 1 ELSE n
Updated(k, p) ==
  [e \in Keys \X Plugins |->
     IF e = <<k, p>> THEN Entries(pluginMap[e])
     ELSE IF e[1] = k /\ ~ Lives(e[2]) THEN 0 ELSE pluginMap[e]]

(* Only create's last part, below the search of the environment's paths,    *)
(* enters the plugin in the map.                                            *)
CreatorReturns(p) ==
  /\ searches # <<>> /\ Top.calling
  /\ p \in live \/ p \notin made
  /\ live' = live \cup {p}
  /\ made' = made \cup {p}
  /\ IF Top.directory
     THEN /\ pluginMap' = Updated(Top.key, p)
          /\ listed' = listed \cup {<<Top.key, p>>}
     ELSE UNCHANGED <<pluginMap, listed>>
  /\ searches' = Tail(searches)
  /\ UNCHANGED <<libraries, opened>>

(* Engine::getExistingPlugins: how often each plugin is in the list, that   *)
(* is, how many entries lead to it, under whatever keys.                    *)
EntriesOf(p) == UNION {{k} \X (1..pluginMap[<<k, p>>]) : k \in Keys}
ExistingPlugins ==
  [p \in Plugins |-> IF p \in live THEN Cardinality(EntriesOf(p)) ELSE 0]

-----------------------------------------------------------------------------
(* create, when the files are used up.                                     *)

ListDirectory ==
  /\ InSearch /\ Top.rest = <<>> /\ ~ Top.directory
  /\ \E paths \in Directories :
       TopBecomes([Top EXCEPT !.rest = paths, !.directory = TRUE])
  /\ UNCHANGED <<libraries, plugins, opened>>

(* Nothing found, or a directory that cannot be listed: the std::string     *)
(* thrown ends this search, and those around it whose creators do not catch *)
(* it.                                                                      *)
Throws ==
  /\ InSearch /\ Top.rest = <<>>
  /\ \E n \in 1..Len(searches) : searches' = SubSeq(searches, n + 1, Len(searches))
  /\ UNCHANGED <<libraries, plugins, opened>>

-----------------------------------------------------------------------------

SearchStep ==
  \/ PassOver \/ ListDirectory \/ Throws
  \/ \E resolved \in BOOLEAN : UseLibrary(resolved)

CreatorStep ==
  \/ CreatorReturnsNull
  \/ \E p \in Plugins : CreatorReturns(p)

PluginsNext ==
  \/ SearchStep \/ CreatorStep
  \/ \E k \in Keys : Create(k)
  \/ \E p \in Plugins : Release(p)

PluginsSpec == PluginsInit /\ [][PluginsNext]_pluginsVars

-----------------------------------------------------------------------------

(* Around the innermost search there are only searches whose creator runs.  *)
PluginsTypeOK ==
  /\ searches \in Seq(Search)
  /\ \A i \in 2..Len(searches) : searches[i].calling
  /\ \A i \in DOMAIN searches : searches[i].calling => searches[i].rest # <<>>
  /\ libraries \subseteq Files
  /\ pluginMap \in [Keys \X Plugins -> 0..1]
  /\ live \subseteq made /\ made \subseteq Plugins
  /\ listed \subseteq Keys \X Plugins
  /\ opened \in [Files -> Nat]

(* Engine::getExistingPlugins answers with the living plugins a directory   *)
(* gave, as often as there are types they were asked for as: twice, if a    *)
(* creator returned one for two types, but not twice for one type, whatever *)
(* other searches and releases came in between (PluginMap.hpp:18-50,        *)
(* pluginCreator.cpp:153, engine.cpp:133-145).                              *)
ListedFor(p) == {k \in Keys : <<k, p>> \in listed}
LivePluginsListed ==
  \A p \in Plugins :
    ExistingPlugins[p] = IF p \in live THEN Cardinality(ListedFor(p)) ELSE 0

(* A library is opened once and then shared, by a search inside its own     *)
(* creator, too (pluginCreator.cpp:53-67, 191-200), and no creator runs in  *)
(* a library that a search was told to leave out.                           *)
OpenedOnce ==
  /\ \A f \in Files : opened[f] = (IF f \in libraries THEN 1 ELSE 0)
  /\ \A i \in DOMAIN searches :
       searches[i].calling => Head(searches[i].rest) \in libraries \ searches[i].blacklist
=============================================================================
