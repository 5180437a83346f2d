-------------------------- MODULE PluginLifecycle --------------------------
(***************************************************************************)
(* The life cycle of the plugin inside one IDA process: the plugin object  *)
(* (ReloadablePlugin), the successive plugin cores it creates (PluginCore) *)
(* and the components of each core, as base/reloadable_plugin.py and the   *)
(* toggle action of core.py run them.                                      *)
(*                                                                         *)
(* A core is a "generation": a reload unloads the current core and builds  *)
(* the next one.  A handler that raises leaves the partially built core    *)
(* behind; it stays reachable only through the toggle action it registered.*)
(* What cores share is outside them: the table of action ids of IDA's      *)
(* kernel, and the decompiler's list of hooks and optimizers.              *)
(***************************************************************************)
EXTENDS Integers, FiniteSets

CONSTANTS
    N,              \* number of component factories, in load order 1..N
    Kind,           \* kind of each component
    Dynamic,        \* ui components with a dynamic menu (they own UI hooks)
    UiOnly,         \* components skipped when running headless
    Toggle,         \* the toggle-mount component
    Anchor,         \* a ui component loaded before anything is installed
    ConfigChoices,  \* sets of components the config file may enable
    MaxCores        \* bound: cores created in one process

Components == 1..N
Cores      == 1..MaxCores
Installs(c) == Kind[c] \in {"hook", "opt"}
Done       == N + 1      \* the loop over the components ran to its end

(* The constants describe a component table; the anchor is what core.py    *)
(* puts first in shared_modules(), never disabled by the configurations.   *)
ASSUME TableAssumption ==
    /\ N \in Nat \ {0}
    /\ MaxCores \in Nat \ {0}
    /\ Kind \in [1..N -> {"ui", "hook", "opt", "script"}]
    /\ Dynamic \subseteq {c \in 1..N : Kind[c] = "ui"}
    /\ {c \in 1..N : Kind[c] = "ui"} \subseteq UiOnly
    /\ Toggle \in 1..N /\ Kind[Toggle] = "ui"
    /\ ConfigChoices \subseteq SUBSET (1..N)

ASSUME AnchorAssumption ==
    /\ Anchor \in 1..N /\ Kind[Anchor] = "ui"
    /\ \A c \in 1..N : Installs(c) => Anchor < c
    /\ \A S \in ConfigChoices : Anchor \in S

VARIABLES
    headless,     \* runtime.is_headless(), fixed for the process
    core,         \* the cores of the process, dead ones included
    cur,          \* ReloadablePlugin.core (0: None)
    n,            \* generations created so far
    initialized,  \* init() ran and term() did not: reload action registered
    registered,   \* IDA's action table: the core that registered c's id
    error         \* how the last handler ended

vars == <<headless, core, cur, n, initialized, registered, error>>

CoreState == [live      : BOOLEAN,            \* created and not collected
              enabled   : SUBSET Components,  \* _components
              startup   : BOOLEAN,            \* _startup_hooks is hooked
              loaded    : BOOLEAN,
              mounted   : BOOLEAN,
              ready     : SUBSET Components,  \* _actions/_hooks/_optimizers set
              uihooks   : SUBSET Components,  \* _ui_hooks hooked
              installed : SUBSET Components]  \* hooks/optimizers active

NoCore == [live |-> FALSE, enabled |-> {}, startup |-> FALSE,
           loaded |-> FALSE, mounted |-> FALSE, ready |-> {}, uihooks |-> {}, installed |-> {}]

NewCore(S, defer) ==
    [NoCore EXCEPT !.live = TRUE,
                   !.enabled = IF headless THEN S \ UiOnly ELSE S,
                   !.startup = defer]

UiOf(k) == {c \in k.enabled : Kind[c] = "ui"}

----------------------------------------------------------------------------
(* PluginCore.load: how far the loop over the components gets, and why it  *)
(* ends there.  "taken": register_action refuses an id that is in use;     *)
(* "menu": the menu entry cannot be attached, the action is registered.    *)

LoadOutcome == [stop : 0..Done,
                how  : {"done", "hexrays", "taken", "menu", "raise"}]

(* Mutant: the result of register_action is ignored.                       *)
LoadIgnoresTaken(k, reg) ==
    {o \in LoadOutcome :
        /\ o.how = "done"    <=> o.stop = Done
        /\ o.how = "hexrays" <=> o.stop = 0
        /\ o.how \in {"taken", "menu"} => o.stop \in UiOf(k)
        /\ o.how = "raise" => o.stop \in k.enabled}

LoadOutcomes(k, reg) ==
    {o \in LoadOutcome :
        /\ \A c \in UiOf(k) : c < o.stop => reg[c] = 0
        /\ o.how = "done"    <=> o.stop = Done
        /\ o.how = "hexrays" <=> o.stop = 0
        /\ o.how = "taken" => o.stop \in UiOf(k) /\ reg[o.stop] # 0
        /\ o.how = "menu"  => o.stop \in UiOf(k) /\ reg[o.stop] = 0
        /\ o.how = "raise" => o.stop \in k.enabled /\ Kind[o.stop] # "script"}

(* The components whose own attribute is set when load ends with outcome o.*)
Built(k, o) ==
    {c \in k.enabled : /\ Kind[c] # "script"
                       /\ \/ c < o.stop
                          \/ c = o.stop /\ o.how \in {"taken", "menu"}}

Load(k, o) == [k EXCEPT !.startup = FALSE,
                        !.loaded  = (o.how = "done"),
                        !.ready   = Built(k, o),
                        !.uihooks = Built(k, o) \cap Dynamic]

Register(g, k, o, reg) ==
    [c \in Components |->
        IF c \in UiOf(k) /\ (c < o.stop \/ (c = o.stop /\ o.how = "menu"))
        THEN g ELSE reg[c]]

----------------------------------------------------------------------------
(* PluginCore.mount and unmount.  Mounting stops at position s: a hook or  *)
(* optimizer component that was never loaded fails its assertion, a        *)
(* startup script may raise.  Everything before s stays installed.         *)

Unready(k) == {c \in k.enabled : Installs(c) /\ c \notin k.ready}

MountStops(k) ==
    {s \in k.enabled \cup {Done} :
        /\ \A c \in Unready(k) : s <= c
        /\ s # Done => s \in Unready(k) \/ Kind[s] = "script"}

(* Mutant: the flag is set before the loop, not after it.                  *)
MountFlagFirst(k, s) ==
    [k EXCEPT !.installed = @ \cup {c \in k.enabled : Installs(c) /\ c < s},
              !.mounted   = (s # 0)]

Mount(k, s) ==
    [k EXCEPT !.installed = @ \cup {c \in k.enabled : Installs(c) /\ c < s},
              !.mounted   = (s = Done)]

MountError(k, s) ==
    IF s \in {0, Done} THEN "none"
    ELSE IF s \in Unready(k) THEN "assert" ELSE "raise"

Unmount(k) == IF k.mounted
              THEN [k EXCEPT !.installed = @ \ k.ready, !.mounted = FALSE]
              ELSE k

(* PluginCore.unload: nothing but the startup hook unless load completed.  *)
(* Dropping the last reference to a hook or optimizer removes it.          *)
(* Mutant: the references to hooks and optimizers are kept.                *)
UnloadKeepsReferences(k) ==
    IF ~k.loaded THEN [k EXCEPT !.startup = FALSE]
    ELSE [Unmount(k) EXCEPT !.startup = FALSE,
                            !.loaded  = FALSE,
                            !.uihooks = {}]

Unload(k) ==
    IF ~k.loaded THEN [k EXCEPT !.startup = FALSE]
    ELSE [Unmount(k) EXCEPT !.startup   = FALSE,
                            !.loaded    = FALSE,
                            !.installed = @ \ k.ready,
                            !.uihooks   = {},
                            !.ready     = {c \in @ : Kind[c] = "ui"}]

(* unregister_action takes an id, whoever registered it.                   *)
(* Mutant: the ids are unregistered without asking whether load completed. *)
UnregisterAnyway(k, reg) ==
    [c \in Components |-> IF c \in UiOf(k) THEN 0 ELSE reg[c]]

Unregister(k, reg) ==
    [c \in Components |-> IF k.loaded /\ c \in UiOf(k) THEN 0 ELSE reg[c]]

(* perform_load(): mount is skipped (stop position 0) when it is not asked *)
(* for or when load raised, and only then.                                 *)
MountChoices(k, o, shouldMount) ==
    IF shouldMount /\ o.how # "raise" THEN MountStops(k) ELSE {0}

LoadError(k, o, s) == IF o.how = "raise" THEN "raise" ELSE MountError(k, s)

----------------------------------------------------------------------------
Init == /\ headless \in BOOLEAN
        /\ core = [g \in Cores |-> NoCore]
        /\ cur = 0
        /\ n = 0
        /\ initialized = FALSE
        /\ registered = [c \in Components |-> 0]
        /\ error = "none"

(* ReloadablePlugin.init: a deferred core, and the reload action.          *)
PluginInit ==
    /\ ~initialized /\ n < MaxCores
    /\ \E S \in ConfigChoices :
          core' = [core EXCEPT ![n + 1] = NewCore(S, TRUE)]
    /\ cur' = n + 1
    /\ n' = n + 1
    /\ initialized' = TRUE
    /\ error' = "none"
    /\ UNCHANGED <<headless, registered>>

(* IDA's ready_to_run event reaches the startup hook of core g.            *)
ReadyToRun(g) ==
    /\ core[g].startup
    /\ \E o \in LoadOutcomes(core[g], registered) :
         LET k == Load(core[g], o) IN
         \E s \in MountChoices(k, o, TRUE) :
            /\ core' = [core EXCEPT ![g] = Mount(k, s)]
            /\ registered' = Register(g, core[g], o, registered)
            /\ error' = LoadError(k, o, s)
    /\ UNCHANGED <<headless, cur, n, initialized>>

(* ReloadablePlugin.reload, when reloading the modules or constructing the *)
(* components raises: the old core is already unloaded.                    *)
ReloadModulesRaises ==
    /\ initialized
    /\ core' = [core EXCEPT ![cur] = Unload(core[cur])]
    /\ registered' = Unregister(core[cur], registered)
    /\ error' = "raise"
    /\ UNCHANGED <<headless, cur, n, initialized>>

(* was_mounted is read before unload() resets it.                          *)
WasMounted(k) == k.mounted

(* self.core is assigned only if the constructor returns (the mutant:      *)
(* cleared first).                                                         *)
CoreClearedByReload(e) == IF e = "none" THEN n + 1 ELSE 0
CoreAfterReload(e) == IF e = "none" THEN n + 1 ELSE cur

(* ReloadablePlugin.reload: unload the core, build, load and mount the     *)
(* next one.                                                               *)
Reload ==
    /\ initialized /\ n < MaxCores
    /\ LET freed == Unregister(core[cur], registered) IN
       \E S \in ConfigChoices :
       \E o \in LoadOutcomes(NewCore(S, FALSE), freed) :
         LET k == Load(NewCore(S, FALSE), o) IN
         \E s \in MountChoices(k, o, WasMounted(core[cur])) :
            /\ core' = [core EXCEPT ![cur]   = Unload(core[cur]),
                                    ![n + 1] = Mount(k, s)]
            /\ registered' = Register(n + 1, NewCore(S, FALSE), o, freed)
            /\ error' = LoadError(k, o, s)
    /\ cur' = CoreAfterReload(error')
    /\ n' = n + 1
    /\ UNCHANGED <<headless, initialized>>

(* The toggle action: its handler acts on the core that registered it.     *)
ToggleMount(g) ==
    /\ registered[Toggle] = g
    /\ \/ /\ core[g].mounted
          /\ core' = [core EXCEPT ![g] = Unmount(core[g])]
          /\ error' = "none"
       \/ /\ ~core[g].mounted
          /\ \E s \in MountStops(core[g]) :
                /\ core' = [core EXCEPT ![g] = Mount(core[g], s)]
                /\ error' = MountError(core[g], s)
    /\ UNCHANGED <<headless, cur, n, initialized, registered>>

(* ReloadablePlugin.term, on closing the database.                         *)
Term ==
    /\ initialized
    /\ core' = [core EXCEPT ![cur] = Unload(core[cur])]
    /\ registered' = Unregister(core[cur], registered)
    /\ initialized' = FALSE
    /\ error' = "none"
    /\ UNCHANGED <<headless, cur, n>>

(* Python's collector frees a core nothing refers to any more; the hooks   *)
(* and optimizers it kept alive go with it, its action ids do not.         *)
Collect(g) ==
    /\ g # cur /\ registered[Toggle] # g /\ core[g].live
    /\ core' = [core EXCEPT ![g] = NoCore]
    /\ UNCHANGED <<headless, cur, n, initialized, registered, error>>

Next == \/ PluginInit
        \/ ReloadModulesRaises
        \/ Reload
        \/ Term
        \/ \E g \in Cores : \/ ReadyToRun(g)
                            \/ ToggleMount(g)
                            \/ Collect(g)

Spec == Init /\ [][Next]_vars

----------------------------------------------------------------------------
(* Types; once initialised, the plugin object always has a core.           *)
TypeOK == /\ headless \in BOOLEAN
          /\ core \in [Cores -> CoreState]
          /\ cur \in 0..MaxCores
          /\ n \in 0..MaxCores
          /\ initialized \in BOOLEAN
          /\ initialized => cur # 0
          /\ registered \in [Components -> 0..MaxCores]
          /\ error \in {"none", "raise", "assert"}

(* A core that is loaded owns every action of its ui components, and all   *)
(* its components are built: unload() may unregister by id and iterate     *)
(* over _actions without checking either.                                  *)
LoadedOwnsActions ==
    \A g \in Cores : core[g].loaded =>
        /\ core[g].live
        /\ \A c \in UiOf(core[g]) : registered[c] = g
        /\ {c \in core[g].enabled : Kind[c] # "script"} = core[g].ready

(* A mounted core has all its hooks and optimizers built and active, the   *)
(* assertion at the head of OptimizersComponent.unmount; and whatever is   *)
(* active is still referenced by its component, so it can be removed.      *)
MountedIsInstalled ==
    \A g \in Cores :
        /\ core[g].installed \subseteq core[g].ready
        /\ core[g].mounted =>
              {c \in core[g].enabled : Installs(c)} = core[g].installed

(* Two generations never rewrite the same microcode: hooks and optimizers  *)
(* are active only for the core that owns the anchor's action id, whatever *)
(* load, mount or reload failed before.                                    *)
SingleInstaller ==
    ~headless => \A g \in Cores :
        core[g].installed # {} => registered[Anchor] = g

(* Hence no two cores are ever loaded at the same time.                    *)
AtMostOneLoaded ==
    ~headless => \A g, h \in Cores :
        core[g].loaded /\ core[h].loaded => g = h

(* One generation at a time: neither two whose hooks act nor two that are  *)
(* loaded, whatever load, mount or reload failed before.                   *)
OneCoreAtATime == SingleInstaller /\ AtMostOneLoaded

(* The inductive strengthening of the invariants above.                    *)
(* Generations that do not exist yet hold nothing.                         *)
FutureIsBlank ==
    \A g \in Cores : g > n => /\ core[g] = NoCore /\ g # cur
                              /\ \A c \in Components : registered[c] # g

(* A deferred core has not built anything yet, and only the current one is *)
(* deferred.                                                               *)
StartupIsBlank ==
    \A g \in Cores : core[g].startup =>
        /\ g = n /\ g = cur /\ initialized
        /\ ~core[g].loaded /\ ~core[g].mounted
        /\ core[g].ready = {} /\ core[g].installed = {}
        /\ \A c \in Components : registered[c] # g

InstalledAreHooks ==
    \A g \in Cores :
        core[g].installed \subseteq {c \in core[g].enabled : Installs(c)}

(* An action id belongs to a component its core has enabled.               *)
ActionsBelong ==
    \A g \in Cores : core[g].live =>
        \A c \in Components : registered[c] = g => c \in UiOf(core[g])

(* Hooks are built only by a core that registered the anchor before them,  *)
(* and it keeps the anchor as long as they are built.                      *)
AnchorHeld ==
    ~headless => \A g \in Cores :
        /\ core[g].live => Anchor \in core[g].enabled
        /\ (\E c \in core[g].ready : Installs(c)) => registered[Anchor] = g

(* The cores that handlers can reach are not collected: the current one,   *)
(* and the one whose toggle handler is registered.                         *)
ReachableIsLive ==
    \A g \in Cores : g = cur \/ registered[Toggle] = g => core[g].live

IInv == /\ TypeOK
        /\ LoadedOwnsActions
        /\ MountedIsInstalled
        /\ FutureIsBlank
        /\ StartupIsBlank
        /\ InstalledAreHooks
        /\ ActionsBelong
        /\ AnchorHeld
        /\ ReachableIsLive

(* What core g has left in IDA: actions, UI hooks, hooks and optimizers.   *)
HoldsNothing(g) == /\ core[g].installed = {}
                   /\ core[g].uihooks = {}
                   /\ \A c \in Components : registered[c] # g

(* Unloading a core that was loaded leaves nothing of it in IDA, even if   *)
(* its last mount was cut short by an exception.                           *)
UnloadIsComplete ==
    [][\A g \in Cores :
          core[g].loaded /\ ~core'[g].loaded /\ core'[g].live
             => HoldsNothing(g)']_vars

(* What the rest of IDA may rely on, whatever fails in between: the hooks  *)
(* act for one generation at a time, and generations only move forward.    *)
Ownership == INSTANCE HookOwnership WITH
    owner  <- registered[Anchor],
    latest <- n,
    fresh  <- n # 0 /\ core[n].startup,
    acting <- IF headless THEN {}
              ELSE {g \in Cores : core[g].installed # {}}
OwnershipSpec == Ownership!Spec

(* The claim of the comment in PluginCore.unload: "if the core was never   *)
(* fully loaded, there's nothing else to do".                              *)
TermLeavesNothing ==
    [][initialized /\ ~initialized' => HoldsNothing(cur)']_vars
=============================================================================
