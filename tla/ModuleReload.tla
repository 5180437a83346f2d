---------------------------- MODULE ModuleReload ----------------------------
(***************************************************************************)
(* Hot reloading of the Python modules while their sources are edited:     *)
(* ReloadablePlugin.reload in the GUI, which reloads what sys.modules      *)
(* holds in the order it holds it, and _install_hooks_and_setup of the     *)
(* headless server, which reloads a list written by hand.                  *)
(*                                                                         *)
(* Executing a module again binds what it imports by name, as it is at     *)
(* that moment, into the module's old namespace, and moves the module to   *)
(* the end of sys.modules, whether or not its source raises (importlib).   *)
(***************************************************************************)
EXTENDS Integers, Sequences, SequencesExt, Relation

CONSTANTS
    Modules,
    Imports,       \* modules whose names each module imports
    Core,          \* ioshelper.core, executed again when the core is built
    HookModules,   \* modules of hook and optimizer classes
    FirstOrder,    \* sys.modules after the first load
    ServerList,    \* the server's list of modules
    MaxVersion     \* bound: edits of the sources

ASSUME ModulesAssumption ==
    /\ Imports \in [Modules -> SUBSET Modules]
    /\ Core \in Modules /\ HookModules \subseteq Modules
    /\ FirstOrder \in Seq(Modules) /\ ServerList \in Seq(Modules)
    /\ MaxVersion \in Nat

(* sys.modules is a dictionary, and what is reloaded was loaded before.    *)
ASSUME OrderAssumption ==
    /\ IsInjective(FirstOrder)
    /\ {Core} \cup ToSet(ServerList) \subseteq ToSet(FirstOrder)

VARIABLES
    host,    \* "gui" or "server"
    source,  \* the files: version, and whether they execute
    holds,   \* versions of x's code among the names of module m
    order,   \* sys.modules
    todo,    \* modules still to be executed by the reload under way
    list,    \* all modules of the last reload, in its order
    phase,   \* "idle" or "reload"
    live,    \* installed hooks: <<module of the class, version>>
    clean    \* no edit since the last reload began, and no source failed in it

vars == <<host, source, holds, order, todo, list, phase, live, clean>>

SourceState == {"ok", "broken", "missing"}
Versions == 0..MaxVersion

(* The names m has after its source ran to the end.  What it imports       *)
(* brings its own imports along: packages re-export them.                  *)
Execute(m) ==
    [x \in Modules |-> IF x = m THEN {source[m].version}
                       ELSE UNION {holds[d][x] : d \in Imports[m]}]

(* A source that raises leaves some old names and some new ones.           *)
PartlyExecute(m) == [x \in Modules |-> holds[m][x] \cup Execute(m)[x]]

(* The modules whose code reaches m's names when all are loaded in order.  *)
Reaches == ReflexiveTransitiveClosure([m, d \in Modules |-> d \in Imports[m]], Modules)

(* The module goes to the end of sys.modules.                              *)
MoveToEnd(m) ==
    Append(RemoveAt(order, CHOOSE i \in 1..Len(order) : order[i] = m), m)

----------------------------------------------------------------------------
Init == /\ host \in {"gui", "server"}
        /\ source = [m \in Modules |-> [version |-> 0, state |-> "ok"]]
        /\ holds = [m \in Modules |->
                       [x \in Modules |-> IF Reaches[m, x] THEN {0} ELSE {}]]
        /\ order = FirstOrder
        /\ todo = <<>>
        /\ list = <<>>
        /\ phase = "idle"
        /\ live = HookModules \X {0}
        /\ clean = FALSE

(* The user edits a source file, at any time.                              *)
Edits == Max({source[m].version : m \in Modules})

Edit(m) ==
    /\ Edits < MaxVersion
    /\ \E s \in SourceState :
          source' = [source EXCEPT ![m] = [version |-> Edits + 1, state |-> s]]
    /\ clean' = FALSE
    /\ UNCHANGED <<host, holds, order, todo, list, phase, live>>

(* ReloadablePlugin.reload: unload, then take the list from sys.modules;   *)
(* the factory requires the core's module once more.                       *)
PluginList == Append(order, Core)

ReloadPlugin ==
    /\ host = "gui" /\ phase = "idle"
    /\ list' = PluginList
    /\ todo' = list'
    /\ phase' = "reload"
    /\ live' = {}
    /\ clean' = TRUE
    /\ UNCHANGED <<host, source, holds, order>>

(* The server's "reload" request.                                          *)
ReloadServer ==
    /\ host = "server" /\ phase = "idle"
    /\ list' = ServerList
    /\ todo' = list'
    /\ phase' = "reload"
    /\ live' = {}
    /\ clean' = TRUE
    /\ UNCHANGED <<host, source, holds, order>>

(* The next module's source executes.                                      *)
LoadModule ==
    /\ phase = "reload" /\ todo # <<>>
    /\ LET m == Head(todo) IN
       /\ source[m].state = "ok"
       /\ holds' = [holds EXCEPT ![m] = Execute(m)]
       /\ order' = MoveToEnd(m)
    /\ todo' = Tail(todo)
    /\ UNCHANGED <<host, source, list, phase, live, clean>>

(* The file is gone: reported by the server, suppressed by the plugin but  *)
(* for the core's own module, which the factory needs.                     *)
SkipMissing ==
    /\ phase = "reload" /\ todo # <<>>
    /\ source[Head(todo)].state = "missing"
    /\ host = "gui" => Len(todo) > 1
    /\ order' = order
    /\ todo' = Tail(todo)
    /\ clean' = FALSE
    /\ UNCHANGED <<host, source, holds, list, phase, live>>

(* What is left to do when a source raised (mutant: the rest of the list). *)
RestAfterRaise == Tail(todo)
AfterRaise == IF host = "gui" THEN <<>> ELSE Tail(todo)

(* The source raises: the server goes on with the next module, the         *)
(* plugin's reload ends, with the old core unloaded.                       *)
SourceRaises ==
    /\ phase = "reload" /\ todo # <<>>
    /\ LET m == Head(todo) IN
       /\ \/ source[m].state = "broken"
          \/ source[m].state = "missing" /\ host = "gui" /\ Len(todo) = 1
       /\ holds' = IF source[m].state = "broken"
                   THEN [holds EXCEPT ![m] = PartlyExecute(m)] ELSE holds
       /\ order' = IF source[m].state = "broken" THEN MoveToEnd(m) ELSE order
    /\ clean' = FALSE
    /\ todo' = AfterRaise
    /\ phase' = IF host = "gui" THEN "idle" ELSE phase
    /\ UNCHANGED <<host, source, list, live>>

(* The hooks of a new core are built from the names of core's module; the  *)
(* server imports them from their modules.  Some are disabled by the       *)
(* configuration, or their constructor raises.                             *)
(* Mutant: the server takes the classes from the names it imported first.  *)
HookClassesFirst(h) == IF host = "gui" THEN holds[Core][h] ELSE {0}
HookClasses(h) == IF host = "gui" THEN holds[Core][h] ELSE holds[h][h]

Install ==
    /\ phase = "reload" /\ todo = <<>>
    /\ \E S \in SUBSET HookModules :
          live' = UNION {{h} \X HookClasses(h) : h \in S}
    /\ phase' = "idle"
    /\ UNCHANGED <<host, source, holds, order, todo, list, clean>>

Next == \/ \E m \in Modules : Edit(m)
        \/ ReloadPlugin
        \/ ReloadServer
        \/ LoadModule
        \/ SkipMissing
        \/ SourceRaises
        \/ Install

Spec == Init /\ [][Next]_vars

----------------------------------------------------------------------------
(* Types; sys.modules neither loses nor repeats a module, and a reload that*)
(* ended, well or badly, has nothing left to do.                           *)
TypeOK == /\ host \in {"gui", "server"}
          /\ source \in [Modules -> [version : Versions, state : SourceState]]
          /\ holds \in [Modules -> [Modules -> SUBSET Versions]]
          /\ order \in Seq(Modules)
          /\ Len(order) = Len(FirstOrder) /\ ToSet(order) = ToSet(FirstOrder)
          /\ todo \in Seq(Modules) /\ list \in Seq(Modules)
          /\ phase \in {"idle", "reload"}
          /\ phase = "idle" => todo = <<>>
          /\ live \subseteq HookModules \X Versions
          /\ clean \in BOOLEAN

Reloaded == clean /\ phase = "idle"

(* d is executed before m, and not again after it.                         *)
Before(d, m) == \E i \in DOMAIN list :
                   /\ list[i] = m
                   /\ \E j \in 1..(i - 1) : list[j] = d
                   /\ \A j \in i..Len(list) : list[j] # d

(* A set of modules that needs nothing else and is executed in the order   *)
(* of its imports.                                                         *)
Ordered(D) == /\ D \subseteq ToSet(list)
              /\ \A m \in D : \A d \in Imports[m] : d \in D /\ Before(d, m)

(* After a reload in which nothing failed and nothing was edited, the      *)
(* modules that were executed in the order of their imports hold no code   *)
(* but the code on disk, through any number of re-exports and whatever     *)
(* earlier reloads left behind; a hook of theirs runs it too.              *)
OrderedIsFresh ==
    Reloaded =>
        \A D \in SUBSET Modules : Ordered(D) =>
            /\ \A m \in D, x \in D : holds[m][x] \subseteq {source[x].version}
            /\ \A h \in live : h[1] \in D /\ (host = "gui" => Core \in D)
                                  => h[2] = source[h[1]].version

=============================================================================
