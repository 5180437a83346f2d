----------------------- MODULE PluginLifecycleProofs -----------------------
(***************************************************************************)
(* Proofs about PluginLifecycle for every component table and every number *)
(* of cores.  The invariant is local: what it says of one core mentions    *)
(* only that core and the action table, so each operation on a core is     *)
(* shown to preserve it once (the lemmas), and an action composes them.    *)
(***************************************************************************)
EXTENDS PluginLifecycle, TLAPS

(* The conjuncts of IInv that concern core g, in state k, with the action  *)
(* table reg.                                                              *)
Sound(k, reg, g) ==
    /\ k.loaded => /\ k.live
                   /\ \A c \in UiOf(k) : reg[c] = g
                   /\ {c \in k.enabled : Kind[c] # "script"} = k.ready
    /\ k.installed \subseteq k.ready
    /\ k.mounted => {c \in k.enabled : Installs(c)} = k.installed
    /\ k.installed \subseteq {c \in k.enabled : Installs(c)}
    /\ k.live => \A c \in Components : reg[c] = g => c \in UiOf(k)
    /\ ~headless => /\ k.live => Anchor \in k.enabled
                    /\ (\E c \in k.ready : Installs(c)) => reg[Anchor] = g

(* A core on which load() has not run.                                     *)
Blank(k, reg, g) ==
    /\ ~k.loaded /\ ~k.mounted
    /\ k.ready = {} /\ k.installed = {}
    /\ \A c \in Components : reg[c] # g

Registry == [Components -> Nat]

(* load() on a blank core that has the anchor enabled leaves a sound core, *)
(* wherever the loop over the components stopped.                          *)
LEMMA LoadSound ==
    ASSUME NEW k \in CoreState, NEW reg \in Registry, NEW g \in Cores,
           k.live, Blank(k, reg, g), ~headless => Anchor \in k.enabled,
           NEW o \in LoadOutcomes(k, reg)
    PROVE  Sound(Load(k, o), Register(g, k, o, reg), g)
<1> DEFINE l == Load(k, o)
           r == Register(g, k, o, reg)
<1>1. /\ o \in LoadOutcome
      /\ o.stop \in 0..N+1
      /\ o.how = "done" => o.stop = N+1
      /\ o.how \in {"taken", "menu"} => o.stop \in UiOf(k)
  BY TableAssumption DEF LoadOutcomes, LoadOutcome, Done
<1>2. /\ l.live = k.live /\ l.enabled = k.enabled /\ (l.loaded => o.how = "done")
      /\ l.ready = Built(k, o) /\ l.installed = {} /\ ~l.mounted
      /\ UiOf(l) = UiOf(k) /\ UiOf(k) \subseteq k.enabled /\ k.enabled \subseteq Components
  BY DEF Load, Blank, CoreState, UiOf
<1>a. l.loaded => \A c \in k.enabled : c < o.stop
  BY <1>1, <1>2, TableAssumption DEF Components
<1>3. l.loaded => \A c \in UiOf(l) : r[c] = g
  BY <1>2, <1>a DEF Register
<1>4. l.loaded => {c \in l.enabled : Kind[c] # "script"} = l.ready
  BY <1>2, <1>a DEF Built
<1>5. \A c \in Components : r[c] = g => c \in UiOf(l)
  BY <1>1, <1>2 DEF Register, Blank
<1>6. ASSUME ~headless, NEW c \in l.ready, Installs(c)
      PROVE  r[Anchor] = g
  <2>1. c \in Components /\ Kind[c] # "ui" /\ c \in Built(k, o)
    BY <1>2, <1>6, TableAssumption DEF Installs, Built
  <2>2. c < o.stop
    BY <1>1, <2>1 DEF Built, UiOf
  <2>3. Anchor \in UiOf(k) /\ Anchor \in Components /\ Anchor < o.stop
    BY <1>1, <1>2, <1>6, <2>1, <2>2, TableAssumption, AnchorAssumption
    DEF UiOf, Components
  <2> QED BY <2>3 DEF Register
<1> QED BY <1>2, <1>3, <1>4, <1>5, <1>6, TableAssumption DEF Sound

(* mount() preserves soundness even when it stops half-way: it installs    *)
(* only what load() built, because it stops at the first thing it did not. *)
LEMMA MountSound ==
    ASSUME NEW k \in CoreState, NEW reg \in Registry, NEW g \in Cores,
           Sound(k, reg, g), k.live, NEW s \in MountStops(k) \cup {0}
    PROVE  Sound(Mount(k, s), reg, g)
<1> DEFINE m == Mount(k, s)
           new == {c \in k.enabled : Installs(c) /\ c < s}
<1>1. /\ m.live = k.live /\ m.enabled = k.enabled /\ m.loaded = k.loaded /\ m.ready = k.ready
      /\ m.installed = k.installed \cup new /\ (m.mounted => s = Done)
      /\ UiOf(m) = UiOf(k) /\ k.enabled \subseteq 1..N
  BY DEF Mount, CoreState, UiOf, Components
<1>2. s \in 0..N+1 /\ \A c \in Unready(k) : s <= c
  BY TableAssumption, <1>1 DEF MountStops, Done, Unready
<1>3. new \subseteq k.ready
  BY <1>1, <1>2, TableAssumption DEF Unready
<1>4. m.mounted => {c \in k.enabled : Installs(c)} = m.installed
  BY <1>1, TableAssumption DEF Sound, Done
<1> QED BY <1>1, <1>3, <1>4 DEF Sound

LEMMA UnmountSound ==
    ASSUME NEW k \in CoreState, NEW reg \in Registry, NEW g \in Cores,
           Sound(k, reg, g), k.live
    PROVE  Sound(Unmount(k), reg, g)
<1>1. CASE ~k.mounted BY <1>1 DEF Unmount
<1>2. CASE k.mounted
  <2>1. /\ Unmount(k).live = k.live /\ Unmount(k).enabled = k.enabled /\ Unmount(k).loaded = k.loaded
        /\ Unmount(k).ready = k.ready /\ ~Unmount(k).mounted
        /\ Unmount(k).installed = k.installed \ k.ready
        /\ UiOf(Unmount(k)) = UiOf(k)
    BY <1>2 DEF Unmount, CoreState, UiOf
  <2> QED BY <2>1 DEF Sound
<1> QED BY <1>1, <1>2

(* unload() leaves a sound core that, if it was loaded, has nothing        *)
(* installed and no action registered.                                     *)
LEMMA UnloadSound ==
    ASSUME NEW k \in CoreState, NEW reg \in Registry, NEW g \in Cores,
           Sound(k, reg, g), k.live
    PROVE  /\ Sound(Unload(k), Unregister(k, reg), g)
           /\ k.loaded =>
                /\ Unload(k).installed = {} /\ Unload(k).uihooks = {}
                /\ \A c \in Components : Unregister(k, reg)[c] # g
<1> DEFINE u == Unload(k)
           r == Unregister(k, reg)
<1>1. CASE ~k.loaded
  <2>1. /\ u.live = k.live /\ u.enabled = k.enabled /\ u.loaded = k.loaded /\ u.ready = k.ready
        /\ u.mounted = k.mounted /\ u.installed = k.installed
        /\ UiOf(u) = UiOf(k)
    BY <1>1 DEF Unload, CoreState, UiOf
  <2>2. r = reg
    BY <1>1 DEF Unregister, Registry
  <2> QED BY <1>1, <2>1, <2>2 DEF Sound
<1>2. CASE k.loaded
  <2>1. /\ u.live = k.live /\ u.enabled = k.enabled /\ ~u.loaded /\ ~u.mounted
        /\ u.ready = {c \in k.ready : Kind[c] = "ui"} /\ u.uihooks = {}
        /\ UiOf(u) = UiOf(k)
        /\ u.installed \subseteq k.installed \ k.ready
    BY <1>2 DEF Unload, Unmount, CoreState, UiOf
  <2>2. u.installed = {}
    BY <2>1 DEF Sound
  <2>3. \A c \in u.ready : ~Installs(c)
    BY <2>1 DEF Installs
  <2>4. \A c \in Components : r[c] # g
    BY <1>2 DEF Unregister, Sound, Cores
  <2>5. u.enabled = k.enabled /\ (~headless => Anchor \in k.enabled)
    BY <2>1 DEF Sound
  <2> QED BY <1>2, <2>1, <2>2, <2>3, <2>4, <2>5 DEF Sound
<1> QED BY <1>1, <1>2

(* Soundness of a core depends only on which ids it has registered.        *)
LEMMA Frame ==
    ASSUME NEW k \in CoreState, NEW reg \in Registry, NEW reg2 \in Registry,
           NEW g \in Cores, Sound(k, reg, g),
           \A c \in Components : reg2[c] = g <=> reg[c] = g
    PROVE  Sound(k, reg2, g)
<1>1. UiOf(k) \subseteq Components /\ Anchor \in Components
  BY AnchorAssumption DEF UiOf, CoreState, Components
<1> QED BY <1>1 DEF Sound

(* What the operations return, and which other ids they leave alone.       *)
LEMMA CoreTypes ==
    ASSUME NEW k \in CoreState
    PROVE  /\ \A o : Load(k, o) \in CoreState /\ Load(k, o).live = k.live
                   /\ Load(k, o).startup = FALSE
           /\ \A s : Mount(k, s) \in CoreState /\ Mount(k, s).live = k.live
                   /\ Mount(k, s).startup = k.startup
           /\ Unmount(k) \in CoreState /\ Unmount(k).live = k.live
           /\ Unmount(k).startup = k.startup
           /\ Unload(k) \in CoreState /\ Unload(k).live = k.live
           /\ Unload(k).startup = FALSE
<1>1. ASSUME NEW o
      PROVE  /\ Load(k, o) \in CoreState /\ Load(k, o).live = k.live
             /\ Load(k, o).startup = FALSE
  <2>1. Built(k, o) \subseteq Components /\ Built(k, o) \cap Dynamic \subseteq Components
    BY DEF Built, CoreState
  <2>2. (o.how = "done") \in BOOLEAN
    OBVIOUS
  <2> QED BY <2>1, <2>2 DEF Load, CoreState
<1>2. ASSUME NEW s
      PROVE  /\ Mount(k, s) \in CoreState /\ Mount(k, s).live = k.live
             /\ Mount(k, s).startup = k.startup
  <2>1. {c \in k.enabled : Installs(c) /\ c < s} \subseteq Components
    BY DEF CoreState
  <2>2. (s = Done) \in BOOLEAN
    OBVIOUS
  <2> QED BY <2>1, <2>2 DEF Mount, CoreState
<1>3. /\ Unmount(k) \in CoreState /\ Unmount(k).live = k.live
      /\ Unmount(k).startup = k.startup
  BY DEF Unmount, CoreState
<1>4. /\ Unload(k) \in CoreState /\ Unload(k).live = k.live
      /\ Unload(k).startup = FALSE
  BY <1>3 DEF Unload, CoreState
<1> QED BY <1>1, <1>2, <1>3, <1>4

LEMMA NewCoreIsBlank ==
    ASSUME NEW S \in ConfigChoices, NEW d \in BOOLEAN
    PROVE  /\ NewCore(S, d) \in CoreState
           /\ NewCore(S, d).live /\ NewCore(S, d).startup = d
           /\ ~headless => Anchor \in NewCore(S, d).enabled
           /\ ~NewCore(S, d).loaded /\ ~NewCore(S, d).mounted
           /\ NewCore(S, d).ready = {} /\ NewCore(S, d).installed = {}
<1>1. S \subseteq Components /\ Anchor \in S
  BY TableAssumption, AnchorAssumption DEF Components
<1> QED BY <1>1 DEF NewCore, NoCore, CoreState

LEMMA RegisterFrame ==
    ASSUME NEW k \in CoreState, NEW reg \in Registry, NEW g \in Cores, NEW o
    PROVE  /\ Register(g, k, o, reg) \in Registry
           /\ \A c \in Components : Register(g, k, o, reg)[c] \in {g, reg[c]}
<1>1. g \in Nat BY DEF Cores
<1> QED BY <1>1 DEF Register, Registry

(* load() takes over no id: it stops where one is taken.                   *)
LEMMA RegisterTakesFree ==
    ASSUME NEW k \in CoreState, NEW reg \in Registry, NEW g \in Cores,
           NEW o \in LoadOutcomes(k, reg), NEW h \in Cores, h # g
    PROVE  \A c \in Components : Register(g, k, o, reg)[c] = h <=> reg[c] = h
<1>1. h # 0 BY DEF Cores
<1>2. \A c \in UiOf(k) : c < o.stop => reg[c] = 0
  BY DEF LoadOutcomes
<1>3. o.how = "menu" => reg[o.stop] = 0
  BY DEF LoadOutcomes
<1> QED BY <1>1, <1>2, <1>3 DEF Register

LEMMA UnregisterFrame ==
    ASSUME NEW k \in CoreState, NEW reg \in Registry, NEW g \in Cores,
           Sound(k, reg, g)
    PROVE  /\ Unregister(k, reg) \in Registry
           /\ \A c \in Components : Unregister(k, reg)[c] \in {0, reg[c]}
           /\ \A h \in Cores : h # g =>
                 \A c \in Components : Unregister(k, reg)[c] = h <=> reg[c] = h
<1>1. Unregister(k, reg) \in Registry
  BY DEF Unregister, Registry
<1>2. \A c \in Components : Unregister(k, reg)[c] \in {0, reg[c]}
  BY DEF Unregister
<1>3. ASSUME NEW h \in Cores, h # g, NEW c \in Components
      PROVE  Unregister(k, reg)[c] = h <=> reg[c] = h
  <2>1. h # 0 BY DEF Cores
  <2> QED BY <1>3, <2>1 DEF Unregister, Sound
<1> QED BY <1>1, <1>2, <1>3

(* The types of the table and of the counter of generations.               *)
LEMMA TypeFacts ==
    TypeOK => /\ n \in Nat /\ n <= MaxCores /\ cur \in Nat
              /\ registered \in Registry
              /\ \A g \in Cores : core[g] \in CoreState
              /\ cur # 0 => cur \in Cores
              /\ n < MaxCores => n + 1 \in Cores
              /\ \A g \in Cores : g # 0 /\ g \in Nat
  BY TableAssumption DEF TypeOK, Cores, Registry

Table == [Components -> 0..MaxCores]

LEMMA TableTypes ==
    ASSUME NEW reg \in Table, NEW k
    PROVE  /\ Unregister(k, reg) \in Table
           /\ \A g \in Cores : \A o : Register(g, k, o, reg) \in Table
  BY TableAssumption DEF Table, Unregister, Register, Cores

LEMMA InitTypes == Init => TypeOK
<1> SUFFICES ASSUME Init PROVE TypeOK OBVIOUS
<1>1. NoCore \in CoreState
  BY DEF NoCore, CoreState
<1>2. core \in [Cores -> CoreState]
  BY <1>1 DEF Init
<1>3. cur \in 0..MaxCores /\ n \in 0..MaxCores
  BY TableAssumption DEF Init
<1>4. registered \in [Components -> 0..MaxCores]
  BY TableAssumption DEF Init
<1>5. headless \in BOOLEAN /\ initialized \in BOOLEAN /\ ~initialized
  BY DEF Init
<1>6. error \in {"none", "raise", "assert"}
  BY DEF Init
<1> QED BY <1>2, <1>3, <1>4, <1>5, <1>6 DEF TypeOK

(* Every step preserves the types.                                         *)
LEMMA NextTypes == ASSUME TypeOK, Next PROVE TypeOK'
<1> DEFINE Rest == /\ headless' \in BOOLEAN
                   /\ cur' \in 0..MaxCores
                   /\ n' \in 0..MaxCores
                   /\ initialized' \in BOOLEAN
                   /\ initialized' => cur' # 0
                   /\ error' \in {"none", "raise", "assert"}
<1>0. /\ registered \in Table
      /\ \A k, s : MountError(k, s) \in {"none", "raise", "assert"}
      /\ \A k, o, s : LoadError(k, o, s) \in {"none", "raise", "assert"}
  BY DEF TypeOK, Table, MountError, LoadError
<1>1. SUFFICES /\ core' \in [Cores -> CoreState]
               /\ registered' \in Table
               /\ Rest
  BY DEF TypeOK, Table
<1>2. CASE PluginInit
  <2>1. core' \in [Cores -> CoreState]
    <3>1. PICK S \in ConfigChoices :
             core' = [core EXCEPT ![n + 1] = NewCore(S, TRUE)]
      BY <1>2 DEF PluginInit
    <3> QED BY <3>1, NewCoreIsBlank DEF TypeOK
  <2>2. Rest
    BY <1>2, TypeFacts, TableAssumption DEF PluginInit, TypeOK
  <2> QED BY <1>0, <1>2, <2>1, <2>2 DEF PluginInit
<1>3. CASE ReloadModulesRaises
  <2>1. cur \in Cores
    BY <1>3, TypeFacts DEF ReloadModulesRaises, TypeOK
  <2>2. core' \in [Cores -> CoreState]
    BY <1>3, <2>1, TypeFacts, CoreTypes DEF ReloadModulesRaises, TypeOK
  <2>3. Rest
    BY <1>3 DEF ReloadModulesRaises, TypeOK
  <2> QED BY <1>0, <1>3, <2>2, <2>3, TableTypes DEF ReloadModulesRaises
<1>4. CASE Reload
  <2> DEFINE freed == Unregister(core[cur], registered)
  <2>1. PICK S, o, s :
          /\ S \in ConfigChoices
          /\ core' = [core EXCEPT ![cur]   = Unload(core[cur]),
                                  ![n + 1] = Mount(Load(NewCore(S, FALSE), o), s)]
          /\ registered' = Register(n + 1, NewCore(S, FALSE), o, freed)
          /\ error' = LoadError(Load(NewCore(S, FALSE), o), o, s)
    BY <1>4 DEF Reload
  <2>2. cur \in Cores /\ n + 1 \in Cores
    BY <1>4, TypeFacts DEF Reload, TypeOK
  <2>3. Mount(Load(NewCore(S, FALSE), o), s) \in CoreState
    <3>1. NewCore(S, FALSE) \in CoreState
      BY <2>1, NewCoreIsBlank
    <3>2. Load(NewCore(S, FALSE), o) \in CoreState
      BY <3>1, CoreTypes
    <3> QED BY <3>2, CoreTypes
  <2>4. Unload(core[cur]) \in CoreState
    BY <2>2, TypeFacts, CoreTypes
  <2>5. core' \in [Cores -> CoreState]
    BY <2>1, <2>3, <2>4 DEF TypeOK
  <2>6. registered' \in Table
    BY <1>0, <2>1, <2>2, TableTypes
  <2>7. Rest
    <3>1. /\ cur' \in {n + 1, cur} /\ n' = n + 1
          /\ headless' = headless /\ initialized' = initialized
      BY <1>4 DEF Reload, CoreAfterReload
    <3>2. n + 1 \in 0..MaxCores /\ n + 1 # 0
      BY <2>2, TableAssumption DEF Cores
    <3>3. error' \in {"none", "raise", "assert"}
      BY <1>0, <2>1
    <3> QED BY <3>1, <3>2, <3>3 DEF TypeOK
  <2> QED BY <2>5, <2>6, <2>7
<1>5. CASE Term
  <2>1. cur \in Cores
    BY <1>5, TypeFacts DEF Term, TypeOK
  <2>2. core' \in [Cores -> CoreState]
    BY <1>5, <2>1, TypeFacts, CoreTypes DEF Term, TypeOK
  <2>3. Rest
    BY <1>5 DEF Term, TypeOK
  <2> QED BY <1>0, <1>5, <2>2, <2>3, TableTypes DEF Term
<1>6. ASSUME NEW g \in Cores, ReadyToRun(g)
      PROVE  core' \in [Cores -> CoreState] /\ registered' \in Table /\ Rest
  <2>1. PICK o, s :
          /\ core' = [core EXCEPT ![g] = Mount(Load(core[g], o), s)]
          /\ registered' = Register(g, core[g], o, registered)
          /\ error' = LoadError(Load(core[g], o), o, s)
    BY <1>6 DEF ReadyToRun
  <2>2. Mount(Load(core[g], o), s) \in CoreState
    BY TypeFacts, CoreTypes
  <2>3. core' \in [Cores -> CoreState]
    BY <2>1, <2>2 DEF TypeOK
  <2>4. registered' \in Table
    BY <1>0, <2>1, TableTypes
  <2>5. Rest
    BY <1>0, <1>6, <2>1 DEF ReadyToRun, TypeOK
  <2> QED BY <2>3, <2>4, <2>5
<1>7. ASSUME NEW g \in Cores, ToggleMount(g)
      PROVE  core' \in [Cores -> CoreState] /\ registered' \in Table /\ Rest
  <2>1. \/ core' = [core EXCEPT ![g] = Unmount(core[g])] /\ error' = "none"
        \/ \E s : /\ core' = [core EXCEPT ![g] = Mount(core[g], s)]
                  /\ error' = MountError(core[g], s)
    BY <1>7 DEF ToggleMount
  <2>2. core' \in [Cores -> CoreState]
    <3>1. core[g] \in CoreState /\ core \in [Cores -> CoreState]
      BY TypeFacts DEF TypeOK
    <3>2. Unmount(core[g]) \in CoreState /\ \A s : Mount(core[g], s) \in CoreState
      BY <3>1, CoreTypes
    <3> QED BY <2>1, <3>1, <3>2
  <2>3. error' \in {"none", "raise", "assert"}
    BY <1>0, <2>1
  <2> QED BY <1>0, <1>7, <2>2, <2>3 DEF ToggleMount, TypeOK
<1>8. ASSUME NEW g \in Cores, Collect(g)
      PROVE  core' \in [Cores -> CoreState] /\ registered' \in Table /\ Rest
  <2>1. NoCore \in CoreState
    BY DEF NoCore, CoreState
  <2>2. core' \in [Cores -> CoreState]
    BY <1>8, <2>1 DEF Collect, TypeOK
  <2> QED BY <1>0, <1>8, <2>2 DEF Collect, TypeOK
<1> QED BY <1>2, <1>3, <1>4, <1>5, <1>6, <1>7, <1>8 DEF Next

(* Type correctness, for every component table and number of cores.        *)
THEOREM TypeCorrect == Spec => []TypeOK
<1>1. TypeOK /\ UNCHANGED vars => TypeOK'
  BY DEF vars, TypeOK
<1> QED BY InitTypes, NextTypes, <1>1, PTL DEF Spec

(***************************************************************************)
(* The invariant, core by core.                                            *)
(***************************************************************************)
Good(g) ==
    /\ Sound(core[g], registered, g)
    /\ core[g].startup => /\ g = n /\ g = cur /\ initialized
                       /\ Blank(core[g], registered, g)
    /\ g = cur \/ registered[Toggle] = g => core[g].live
    /\ g > n => /\ core[g] = NoCore /\ g # cur
                /\ \A c \in Components : registered[c] # g

LEMMA IInvIsLocal == IInv <=> TypeOK /\ \A g \in Cores : Good(g)
  BY DEF IInv, Good, Sound, Blank, LoadedOwnsActions, MountedIsInstalled,
         StartupIsBlank, InstalledAreHooks, ActionsBelong, AnchorHeld,
         ReachableIsLive, FutureIsBlank

LEMMA IInvIsLocalNext == TypeOK' /\ (\A g \in Cores : Good(g)') => IInv'
  BY DEF IInv, Good, Sound, Blank, LoadedOwnsActions, MountedIsInstalled,
         StartupIsBlank, InstalledAreHooks, ActionsBelong, AnchorHeld,
         ReachableIsLive, FutureIsBlank

LEMMA InitIInv == Init => IInv
<1> SUFFICES ASSUME Init PROVE IInv OBVIOUS
<1>1. NoCore \in CoreState
  BY DEF NoCore, CoreState
<1>2. TypeOK
  BY InitTypes
<1>3. ASSUME NEW g \in Cores PROVE Good(g)
  <2>1. g # 0 /\ cur # g /\ \A c \in Components : registered[c] # g
    BY <1>3 DEF Init, Cores
  <2>2. Toggle \in Components
    BY TableAssumption DEF Components
  <2>3. core[g] = NoCore
    BY <1>3 DEF Init
  <2>4. Sound(NoCore, registered, g)
    BY DEF Sound, NoCore
  <2>5. ~NoCore.startup
    BY DEF NoCore
  <2> QED BY <2>1, <2>2, <2>3, <2>4, <2>5 DEF Good
<1> QED BY <1>2, <1>3, IInvIsLocal

LEMMA PluginInitStep == ASSUME IInv, PluginInit PROVE IInv'
<1>1. TypeOK /\ \A g \in Cores : Good(g)
  BY IInvIsLocal
<1>2. PICK S \in ConfigChoices :
         core' = [core EXCEPT ![n + 1] = NewCore(S, TRUE)]
  BY DEF PluginInit
<1> DEFINE k == NewCore(S, TRUE)
           new == n + 1
<1>3. /\ new \in Cores /\ n' = new /\ cur' = new /\ initialized' = TRUE
      /\ registered' = registered /\ headless' = headless
      /\ \A g \in Cores : g >= new => g > n
      /\ \A g \in Cores : ~core[g].startup
  BY <1>1, TypeFacts DEF PluginInit, Good
<1>4. /\ k \in CoreState /\ k.live /\ Blank(k, registered, new)
      /\ ~headless => Anchor \in k.enabled
  <2>1. \A c \in Components : registered[c] # new
    BY <1>1, <1>3, TypeFacts DEF Good
  <2> QED BY <2>1, NewCoreIsBlank DEF Blank
<1>5. TypeOK'
  BY <1>1, NextTypes DEF Next
<1>6. ASSUME NEW g \in Cores PROVE Good(g)'
  <2>1. CASE g = new
    <3>1. core'[g] = k
      BY <1>1, <1>2, <1>3, <2>1 DEF TypeOK
    <3>2. Sound(k, registered, g)
      BY <1>4, <2>1 DEF Sound, Blank
    <3>3. Sound(core[g], registered, g)' /\ Blank(core[g], registered, g)'
      BY <1>3, <1>4, <2>1, <3>1, <3>2 DEF Sound, Blank
    <3>4. ~(g > n') /\ g = n' /\ g = cur' /\ initialized'
      BY <1>1, <1>3, <2>1, TypeFacts
    <3>5. core'[g].live
      BY <1>4, <3>1
    <3> QED BY <3>3, <3>4, <3>5 DEF Good
  <2>2. CASE g # new
    <3>1. core'[g] = core[g]
      BY <1>1, <1>2, <1>3, <2>2 DEF TypeOK
    <3> QED BY <1>1, <1>3, <2>2, <3>1, TypeFacts DEF Good, Sound, Blank
  <2> QED BY <2>1, <2>2
<1> QED BY <1>5, <1>6, IInvIsLocalNext

LEMMA ReadyToRunStep ==
    ASSUME IInv, NEW g \in Cores, ReadyToRun(g) PROVE IInv'
<1>1. TypeOK /\ \A h \in Cores : Good(h)
  BY IInvIsLocal
<1>2. TypeOK'
  BY <1>1, NextTypes DEF Next
<1>3. PICK o, s :
        /\ o \in LoadOutcomes(core[g], registered)
        /\ s \in MountChoices(Load(core[g], o), o, TRUE)
        /\ core' = [core EXCEPT ![g] = Mount(Load(core[g], o), s)]
        /\ registered' = Register(g, core[g], o, registered)
  BY DEF ReadyToRun
<1> DEFINE k == core[g]
           l == Load(k, o)
<1>4. /\ n' = n /\ cur' = cur /\ headless' = headless /\ initialized' = initialized
      /\ k.startup /\ k \in CoreState /\ registered \in Registry
      /\ g = n /\ g = cur /\ k.live /\ Blank(k, registered, g)
      /\ Sound(k, registered, g)
      /\ \A h \in Cores : h \in Nat
  BY <1>1, TypeFacts DEF ReadyToRun, Good
<1>5. registered' \in Registry
  BY <1>3, <1>4, RegisterFrame
<1>6. /\ l \in CoreState /\ l.live /\ ~l.startup
      /\ Mount(l, s).live /\ ~Mount(l, s).startup
  <2>1. l \in CoreState /\ l.live = k.live /\ l.startup = FALSE
    BY <1>4, CoreTypes
  <2>2. Mount(l, s).live = l.live /\ Mount(l, s).startup = l.startup
    BY <2>1, CoreTypes
  <2> QED BY <1>4, <2>1, <2>2
<1>7. Sound(l, registered', g)
  <2>1. ~headless => Anchor \in k.enabled
    BY <1>4 DEF Sound
  <2> QED BY <1>3, <1>4, <2>1, LoadSound
<1>8. Sound(Mount(l, s), registered', g)
  <2>1. s \in MountStops(l) \cup {0}
    BY <1>3 DEF MountChoices
  <2> QED BY <1>5, <1>6, <1>7, <2>1, MountSound
<1>9. ASSUME NEW h \in Cores PROVE Good(h)'
  <2>1. CASE h = g
    <3>1. core'[h] = Mount(l, s)
      BY <1>1, <1>3, <2>1 DEF TypeOK
    <3>2. Sound(core[h], registered, h)'
      BY <1>4, <1>8, <2>1, <3>1 DEF Sound
    <3>3. ~core'[h].startup /\ core'[h].live
      BY <1>6, <3>1
    <3>4. ~(h > n')
      BY <1>4, <2>1
    <3> QED BY <3>2, <3>3, <3>4 DEF Good
  <2>2. CASE h # g
    <3>1. core'[h] = core[h] /\ core[h] \in CoreState
      BY <1>1, <1>3, <2>2, TypeFacts DEF TypeOK
    <3>2. \A c \in Components : registered'[c] = h <=> registered[c] = h
      BY <1>3, <1>4, <2>2, RegisterTakesFree
    <3>3. Sound(core[h], registered', h)
      BY <1>1, <1>4, <1>5, <3>1, <3>2, Frame DEF Good
    <3>4. Sound(core[h], registered, h)'
      BY <1>4, <3>1, <3>3 DEF Sound
    <3>5. ~core[h].startup
      BY <1>1, <1>4, <2>2 DEF Good
    <3>6. Toggle \in Components
      BY TableAssumption DEF Components
    <3> QED BY <1>1, <1>4, <3>1, <3>2, <3>4, <3>5, <3>6 DEF Good
  <2> QED BY <2>1, <2>2
<1> QED BY <1>2, <1>9, IInvIsLocalNext

(* What unloading the current core does to the invariant, whatever is done *)
(* next: term() and a reload that raises stop here.                        *)
LEMMA UnloadCurrent ==
    ASSUME IInv, initialized
    PROVE  LET freed == Unregister(core[cur], registered) IN
           /\ cur \in Cores /\ freed \in Registry
           /\ Unload(core[cur]) \in CoreState
           /\ Unload(core[cur]).live /\ ~Unload(core[cur]).startup
           /\ Sound(Unload(core[cur]), freed, cur)
           /\ \A h \in Cores : h # cur =>
                /\ Sound(core[h], freed, h)
                /\ ~core[h].startup
                /\ \A c \in Components : freed[c] = h <=> registered[c] = h
<1> DEFINE freed == Unregister(core[cur], registered)
<1>1. TypeOK /\ \A h \in Cores : Good(h)
  BY IInvIsLocal
<1>2. cur \in Cores /\ core[cur] \in CoreState /\ registered \in Registry
  BY <1>1, TypeFacts DEF TypeOK
<1>3. Sound(core[cur], registered, cur) /\ core[cur].live
  BY <1>1, <1>2 DEF Good
<1>4. Sound(Unload(core[cur]), freed, cur)
  BY <1>2, <1>3, UnloadSound
<1>5. /\ Unload(core[cur]) \in CoreState
      /\ Unload(core[cur]).live /\ ~Unload(core[cur]).startup
  BY <1>2, <1>3, CoreTypes
<1>6. /\ freed \in Registry
      /\ \A h \in Cores : h # cur =>
           \A c \in Components : freed[c] = h <=> registered[c] = h
  BY <1>2, <1>3, UnregisterFrame
<1>7. ASSUME NEW h \in Cores, h # cur
      PROVE  Sound(core[h], freed, h) /\ ~core[h].startup
  <2>1. core[h] \in CoreState /\ Sound(core[h], registered, h)
    BY <1>1, TypeFacts DEF Good
  <2>2. ~core[h].startup
    BY <1>1, <1>7 DEF Good
  <2> QED BY <1>2, <1>6, <1>7, <2>1, <2>2, Frame
<1> QED BY <1>2, <1>4, <1>5, <1>6, <1>7

LEMMA UnloadOnlyStep ==
    ASSUME IInv, ReloadModulesRaises \/ Term PROVE IInv'
<1> DEFINE freed == Unregister(core[cur], registered)
<1>1. TypeOK /\ \A h \in Cores : Good(h)
  BY IInvIsLocal
<1>2. TypeOK'
  BY <1>1, NextTypes DEF Next
<1>3. /\ initialized /\ n' = n /\ cur' = cur /\ headless' = headless
      /\ core' = [core EXCEPT ![cur] = Unload(core[cur])]
      /\ registered' = freed
  BY DEF ReloadModulesRaises, Term
<1>4. ASSUME NEW h \in Cores PROVE Good(h)'
  <2>1. CASE h = cur
    <3>1. core'[h] = Unload(core[cur])
      BY <1>1, <1>3, <2>1 DEF TypeOK
    <3>2. Sound(core[h], registered, h)'
      BY <1>3, <2>1, <3>1, UnloadCurrent DEF Sound
    <3>3. ~core'[h].startup /\ core'[h].live
      BY <1>3, <3>1, UnloadCurrent
    <3>4. ~(h > n')
      BY <1>1, <1>3, <2>1 DEF Good
    <3> QED BY <3>2, <3>3, <3>4 DEF Good
  <2>2. CASE h # cur
    <3>1. core'[h] = core[h]
      BY <1>1, <1>3, <2>2, UnloadCurrent DEF TypeOK
    <3>2. /\ Sound(core[h], freed, h) /\ ~core[h].startup
          /\ \A c \in Components : freed[c] = h <=> registered[c] = h
      BY <1>3, <2>2, UnloadCurrent
    <3>3. Sound(core[h], registered, h)'
      BY <1>3, <3>1, <3>2 DEF Sound
    <3>4. Toggle \in Components
      BY TableAssumption DEF Components
    <3> QED BY <1>1, <1>3, <3>1, <3>2, <3>3, <3>4 DEF Good
  <2> QED BY <2>1, <2>2
<1> QED BY <1>2, <1>4, IInvIsLocalNext

LEMMA ReloadStep == ASSUME IInv, Reload PROVE IInv'
<1> DEFINE freed == Unregister(core[cur], registered)
           new == n + 1
<1>1. TypeOK /\ \A h \in Cores : Good(h)
  BY IInvIsLocal
<1>2. TypeOK'
  BY <1>1, NextTypes DEF Next
<1>3. PICK S, o, s :
        /\ S \in ConfigChoices
        /\ o \in LoadOutcomes(NewCore(S, FALSE), freed)
        /\ s \in MountChoices(Load(NewCore(S, FALSE), o), o, WasMounted(core[cur]))
        /\ core' = [core EXCEPT ![cur] = Unload(core[cur]),
                                ![new] = Mount(Load(NewCore(S, FALSE), o), s)]
        /\ registered' = Register(new, NewCore(S, FALSE), o, freed)
  BY DEF Reload
<1> DEFINE k == NewCore(S, FALSE)
           l == Load(k, o)
<1>4. /\ initialized /\ n' = new /\ headless' = headless
      /\ cur' \in {new, cur}
      /\ new \in Cores /\ new > n /\ new # cur
      /\ \A h \in Cores : h \in Nat /\ (h > new => h > n)
  <2>1. /\ initialized /\ n' = new /\ headless' = headless
        /\ cur' \in {new, cur} /\ n < MaxCores
    BY DEF Reload, CoreAfterReload
  <2>2. new \in Cores /\ n \in Nat /\ \A h \in Cores : h \in Nat
    BY <1>1, <2>1, TypeFacts
  <2>3. new # cur
    BY <1>1, <2>2 DEF Good
  <2> QED BY <2>1, <2>2, <2>3
<1>5. /\ cur \in Cores /\ freed \in Registry /\ registered' \in Registry
      /\ k \in CoreState
  BY <1>3, <1>4, UnloadCurrent, NewCoreIsBlank, RegisterFrame
<1>6. \A h \in Cores : h # new =>
        \A c \in Components : registered'[c] = h <=> freed[c] = h
  <2>1. ASSUME NEW h \in Cores, h # new
        PROVE  \A c \in Components : registered'[c] = h <=> freed[c] = h
    <3>1. /\ new \in Cores /\ o \in LoadOutcomes(k, freed)
          /\ registered' = Register(new, k, o, freed)
      BY <1>3, <1>4
    <3> HIDE DEF new, freed, k
    <3>2. \A c \in Components : Register(new, k, o, freed)[c] = h <=> freed[c] = h
      BY <1>5, <2>1, <3>1, RegisterTakesFree
    <3> QED BY <3>1, <3>2
  <2> QED BY <2>1
<1>7. Sound(l, registered', new) /\ l \in CoreState /\ l.live /\ ~l.startup
  <2>1. k.live /\ (~headless => Anchor \in k.enabled)
    BY <1>3, NewCoreIsBlank
  <2>2. \A c \in Components : freed[c] # new
    BY <1>1, <1>4, UnloadCurrent DEF Good
  <2>3. Blank(k, freed, new)
    BY <1>3, <2>2, NewCoreIsBlank DEF Blank
  <2>4. Sound(l, registered', new)
    BY <1>3, <1>4, <1>5, <2>1, <2>3, LoadSound
  <2> QED BY <1>5, <2>1, <2>4, CoreTypes
<1>8. /\ Sound(Mount(l, s), registered', new)
      /\ Mount(l, s).live /\ ~Mount(l, s).startup
  <2>1. s \in MountStops(l) \cup {0}
    BY <1>3 DEF MountChoices
  <2>2. Sound(Mount(l, s), registered', new)
    BY <1>4, <1>5, <1>7, <2>1, MountSound
  <2>3. Mount(l, s).live = l.live /\ Mount(l, s).startup = l.startup
    BY <1>7, CoreTypes
  <2> QED BY <1>7, <2>2, <2>3
<1>9. ASSUME NEW h \in Cores PROVE Good(h)'
  <2>1. CASE h = new
    <3>1. core'[h] = Mount(l, s)
      BY <1>1, <1>3, <1>4, <2>1 DEF TypeOK
    <3>2. Sound(core[h], registered, h)'
      BY <1>4, <1>8, <2>1, <3>1 DEF Sound
    <3>3. ~core'[h].startup /\ core'[h].live
      BY <1>8, <3>1
    <3>4. ~(h > n')
      BY <1>4, <2>1
    <3> QED BY <3>2, <3>3, <3>4 DEF Good
  <2>2. CASE h = cur
    <3>1. core'[h] = Unload(core[cur])
      BY <1>1, <1>3, <1>4, <1>5, <2>2 DEF TypeOK
    <3>2. Sound(Unload(core[cur]), registered', h)
      BY <1>4, <1>5, <1>6, <2>2, UnloadCurrent, Frame
    <3>3. Sound(core[h], registered, h)'
      BY <1>4, <3>1, <3>2 DEF Sound
    <3>4. ~core'[h].startup /\ core'[h].live
      BY <1>4, <3>1, UnloadCurrent
    <3>5. ~(h > n')
      BY <1>1, <1>4, <2>2 DEF Good
    <3> QED BY <3>3, <3>4, <3>5 DEF Good
  <2>3. CASE h # new /\ h # cur
    <3>1. core'[h] = core[h] /\ core[h] \in CoreState
      BY <1>1, <1>3, <1>4, <1>5, <2>3, TypeFacts DEF TypeOK
    <3>2. /\ Sound(core[h], freed, h) /\ ~core[h].startup
          /\ \A c \in Components : registered'[c] = h <=> registered[c] = h
      BY <1>4, <1>6, <2>3, UnloadCurrent
    <3>3. Sound(core[h], registered', h)
      BY <1>5, <1>6, <2>3, <3>1, <3>2, Frame
    <3>4. Sound(core[h], registered, h)'
      BY <1>4, <3>1, <3>3 DEF Sound
    <3>5. Toggle \in Components
      BY TableAssumption DEF Components
    <3>6. h # cur' /\ (h > n' => h > n)
      BY <1>4, <2>3
    <3> QED BY <1>1, <2>3, <3>1, <3>2, <3>4, <3>5, <3>6 DEF Good
  <2> QED BY <2>1, <2>2, <2>3
<1> QED BY <1>2, <1>9, IInvIsLocalNext

LEMMA ToggleStep == ASSUME IInv, NEW g \in Cores, ToggleMount(g) PROVE IInv'
<1>1. TypeOK /\ \A h \in Cores : Good(h)
  BY IInvIsLocal
<1>2. TypeOK'
  BY <1>1, NextTypes DEF Next
<1>3. /\ n' = n /\ cur' = cur /\ headless' = headless
      /\ registered' = registered /\ initialized' = initialized
      /\ registered[Toggle] = g
  BY DEF ToggleMount
<1>4. PICK m :
        /\ core' = [core EXCEPT ![g] = m]
        /\ \/ m = Unmount(core[g])
           \/ \E s \in MountStops(core[g]) : m = Mount(core[g], s)
  BY DEF ToggleMount
<1>5. /\ core[g] \in CoreState /\ core[g].live /\ registered \in Registry
      /\ Sound(core[g], registered, g)
  BY <1>1, <1>3, TypeFacts DEF Good
<1>6. Sound(m, registered, g) /\ m.live /\ m.startup = core[g].startup
  <2>1. CASE m = Unmount(core[g])
    BY <1>5, <2>1, UnmountSound, CoreTypes
  <2>2. ASSUME NEW s \in MountStops(core[g]), m = Mount(core[g], s)
        PROVE  Sound(m, registered, g) /\ m.live /\ m.startup = core[g].startup
    <3>1. Sound(m, registered, g)
      BY <1>5, <2>2, MountSound
    <3>2. m.live = core[g].live /\ m.startup = core[g].startup
      BY <1>5, <2>2, CoreTypes
    <3> QED BY <1>5, <3>1, <3>2
  <2> QED BY <1>4, <2>1, <2>2
<1>7. ~core[g].startup
  <2>1. Toggle \in Components
    BY TableAssumption DEF Components
  <2> QED BY <1>1, <1>3, <2>1 DEF Good, Blank
<1>8. ASSUME NEW h \in Cores PROVE Good(h)'
  <2>1. CASE h = g
    <3>1. core'[h] = m
      BY <1>1, <1>4, <2>1 DEF TypeOK
    <3>2. Sound(core[h], registered, h)'
      BY <1>3, <1>6, <2>1, <3>1 DEF Sound
    <3>3. Toggle \in Components
      BY TableAssumption DEF Components
    <3>4. ~(h > n')
      BY <1>1, <1>3, <2>1, <3>3 DEF Good
    <3> QED BY <1>6, <1>7, <3>1, <3>2, <3>4 DEF Good
  <2>2. CASE h # g
    <3>1. core'[h] = core[h]
      BY <1>1, <1>4, <2>2 DEF TypeOK
    <3> QED BY <1>1, <1>3, <3>1 DEF Good, Sound, Blank
  <2> QED BY <2>1, <2>2
<1> QED BY <1>2, <1>8, IInvIsLocalNext

LEMMA CollectStep == ASSUME IInv, NEW g \in Cores, Collect(g) PROVE IInv'
<1>1. TypeOK /\ \A h \in Cores : Good(h)
  BY IInvIsLocal
<1>2. TypeOK'
  BY <1>1, NextTypes DEF Next
<1>3. /\ n' = n /\ cur' = cur /\ headless' = headless
      /\ registered' = registered /\ initialized' = initialized
      /\ core' = [core EXCEPT ![g] = NoCore]
      /\ g # cur /\ registered[Toggle] # g /\ core[g].live
  BY DEF Collect
<1>4. Sound(NoCore, registered, g) /\ ~NoCore.startup
  BY DEF Sound, NoCore
<1>5. ~(g > n)
  BY <1>1, <1>3 DEF Good, NoCore
<1>6. ASSUME NEW h \in Cores PROVE Good(h)'
  <2>1. CASE h = g
    <3>1. core'[h] = NoCore
      BY <1>1, <1>3, <2>1 DEF TypeOK
    <3>2. Sound(core[h], registered, h)'
      BY <1>3, <1>4, <2>1, <3>1 DEF Sound
    <3> QED BY <1>3, <1>4, <1>5, <2>1, <3>1, <3>2 DEF Good
  <2>2. CASE h # g
    <3>1. core'[h] = core[h]
      BY <1>1, <1>3, <2>2 DEF TypeOK
    <3> QED BY <1>1, <1>3, <3>1 DEF Good, Sound, Blank
  <2> QED BY <2>1, <2>2
<1> QED BY <1>2, <1>6, IInvIsLocalNext

LEMMA NextIInv == ASSUME IInv, [Next]_vars PROVE IInv'
<1>1. CASE Next
  BY <1>1, PluginInitStep, UnloadOnlyStep, ReloadStep, ReadyToRunStep,
     ToggleStep, CollectStep DEF Next
<1>2. CASE UNCHANGED vars
  BY <1>2 DEF vars, IInv, TypeOK, LoadedOwnsActions, MountedIsInstalled,
     StartupIsBlank, InstalledAreHooks, ActionsBelong, AnchorHeld,
     ReachableIsLive, FutureIsBlank
<1> QED BY <1>1, <1>2

(* The inductive invariant.                                                *)
THEOREM Invariance == Spec => []IInv
  BY InitIInv, NextIInv, PTL DEF Spec

(* A mounted core has exactly its hooks and optimizers active, and can     *)
(* still remove them.                                                      *)
THEOREM MountedHooks == Spec => []MountedIsInstalled
<1>1. IInv => MountedIsInstalled
  BY DEF IInv
<1> QED BY <1>1, Invariance, PTL

(* Hooks and optimizers act for one generation at a time, whatever failed. *)
THEOREM HooksHaveOneOwner == Spec => []SingleInstaller
<1>1. IInv => SingleInstaller
  BY DEF IInv, SingleInstaller, AnchorHeld, MountedIsInstalled, InstalledAreHooks
<1> QED BY <1>1, Invariance, PTL

(* At most one core is loaded.                                             *)
THEOREM OneLoadedCore == Spec => []AtMostOneLoaded
<1>1. ASSUME IInv PROVE AtMostOneLoaded
  <2>1. SUFFICES ASSUME ~headless, NEW g \in Cores, NEW h \in Cores,
                        core[g].loaded, core[h].loaded
                 PROVE  g = h
    BY DEF AtMostOneLoaded
  <2>2. TypeOK /\ (core[g].live => Anchor \in UiOf(core[g]))
               /\ (core[h].live => Anchor \in UiOf(core[h]))
    BY <1>1, <2>1, AnchorAssumption DEF IInv, AnchorHeld, UiOf
  <2> QED BY <1>1, <2>1, <2>2 DEF IInv, LoadedOwnsActions
<1> QED BY <1>1, Invariance, PTL

(* One generation at a time, hooks and components together.                *)
THEOREM GenerationsDoNotOverlap == Spec => []OneCoreAtATime
<1>1. SingleInstaller /\ AtMostOneLoaded => OneCoreAtATime
  BY DEF OneCoreAtATime
<1> QED BY <1>1, HooksHaveOneOwner, OneLoadedCore, PTL

(***************************************************************************)
(* What a core holds in IDA once it is unloaded.                           *)
(***************************************************************************)
LEMMA UnloadCompleteStep ==
    ASSUME IInv, Next, NEW g \in Cores,
           core[g].loaded, ~core'[g].loaded, core'[g].live
    PROVE  HoldsNothing(g)'
<1> DEFINE freed == Unregister(core[cur], registered)
           empty == /\ Unload(core[cur]).installed = {}
                    /\ Unload(core[cur]).uihooks = {}
                    /\ \A c \in Components : freed[c] # cur
<1>1. /\ TypeOK /\ Good(g) /\ core[g] \in CoreState
      /\ n < MaxCores => n + 1 \in Cores /\ n + 1 # g /\ n + 1 # cur
  <2>1. TypeOK /\ \A h \in Cores : Good(h)
    BY IInvIsLocal
  <2>2. \A h \in Cores : h > n => ~core[h].loaded /\ h # cur
    BY <2>1 DEF Good, NoCore
  <2> QED BY <2>1, <2>2, TypeFacts
<1>2. initialized /\ core[cur].loaded => empty
  BY IInvIsLocal, TypeFacts, UnloadSound DEF TypeOK, Good
<1>3. CASE PluginInit
  <2>1. core'[g] = core[g]
    BY <1>1, <1>3 DEF PluginInit, TypeOK
  <2> QED BY <2>1
<1>4. CASE ReloadModulesRaises \/ Term
  <2>1. /\ initialized /\ registered' = freed
        /\ core' = [core EXCEPT ![cur] = Unload(core[cur])]
    BY <1>4 DEF ReloadModulesRaises, Term
  <2>2. g = cur /\ core'[g] = Unload(core[cur])
    BY <1>1, <2>1 DEF TypeOK
  <2> QED BY <1>2, <2>1, <2>2 DEF HoldsNothing
<1>5. CASE Reload
  <2>1. PICK k, o, m :
          /\ k \in CoreState /\ o \in LoadOutcomes(k, freed)
          /\ core' = [core EXCEPT ![cur] = Unload(core[cur]), ![n + 1] = m]
          /\ registered' = Register(n + 1, k, o, freed)
    BY <1>5, NewCoreIsBlank DEF Reload
  <2>2. initialized /\ n + 1 \in Cores /\ n + 1 # g /\ n + 1 # cur
    BY <1>1, <1>5 DEF Reload
  <2>3. g = cur /\ core'[g] = Unload(core[cur])
    BY <1>1, <2>1, <2>2 DEF TypeOK
  <2>4. freed \in Registry
    BY <2>2, UnloadCurrent
  <2>5. \A c \in Components : registered'[c] = g <=> freed[c] = g
    BY <2>1, <2>2, <2>4, RegisterTakesFree
  <2> QED BY <1>2, <2>2, <2>3, <2>5 DEF HoldsNothing
<1>6. ASSUME NEW h \in Cores, ReadyToRun(h) PROVE FALSE
  <2>1. core[h].startup /\ ~core[h].loaded
    BY <1>6, IInvIsLocal DEF ReadyToRun, Good, Blank
  <2>2. core'[g] = core[g]
    BY <1>1, <1>6, <2>1 DEF ReadyToRun, TypeOK
  <2> QED BY <2>2
<1>7. ASSUME NEW h \in Cores, ToggleMount(h) PROVE FALSE
  <2>1. PICK m : /\ core' = [core EXCEPT ![h] = m]
                 /\ m.loaded = core[h].loaded
    <3>1. core[h] \in CoreState
      BY <1>1, TypeFacts
    <3>2. Unmount(core[h]).loaded = core[h].loaded
      BY <3>1 DEF Unmount, CoreState
    <3>3. \A s : Mount(core[h], s).loaded = core[h].loaded
      BY <3>1 DEF Mount, CoreState
    <3> QED BY <1>7, <3>2, <3>3 DEF ToggleMount
  <2>2. core'[g].loaded = core[g].loaded
    BY <1>1, <2>1 DEF TypeOK
  <2> QED BY <2>2
<1>8. ASSUME NEW h \in Cores, Collect(h) PROVE FALSE
  <2>1. core'[g] = core[g] \/ core'[g] = NoCore
    BY <1>1, <1>8 DEF Collect, TypeOK
  <2> QED BY <2>1 DEF NoCore
<1> QED BY <1>3, <1>4, <1>5, <1>6, <1>7, <1>8 DEF Next

(* Unloading a core that was loaded leaves nothing of it in IDA.           *)
THEOREM UnloadLeavesNothing == Spec => UnloadIsComplete
<1>1. ASSUME IInv, [Next]_vars
      PROVE  [\A g \in Cores :
                 core[g].loaded /\ ~core'[g].loaded /\ core'[g].live
                    => HoldsNothing(g)']_vars
  BY <1>1, UnloadCompleteStep
<1> QED BY <1>1, Invariance, PTL DEF Spec, UnloadIsComplete

(***************************************************************************)
(* The refinement of HookOwnership: each step of the life cycle is a step  *)
(* of the abstract specification, or leaves its variables unchanged.       *)
(***************************************************************************)
owner  == registered[Anchor]
fresh  == n # 0 /\ core[n].startup
acting == IF headless THEN {} ELSE {g \in Cores : core[g].installed # {}}

(* Only the owner's hooks act: SingleInstaller, in the abstract terms.     *)
LEMMA ActingOwns ==
    ASSUME IInv
    PROVE  /\ acting \subseteq {owner}
           /\ owner = 0 => acting = {}
           /\ fresh \in BOOLEAN
<1>1. SingleInstaller
  BY DEF IInv, SingleInstaller, AnchorHeld, MountedIsInstalled, InstalledAreHooks
<1>2. \A g \in Cores : g # 0
  BY DEF Cores
<1>3. fresh \in BOOLEAN
  BY TypeFacts DEF IInv, TypeOK, fresh, Cores, CoreState
<1> QED BY <1>1, <1>2, <1>3 DEF SingleInstaller, acting, owner

LEMMA ActingOwnsNext ==
    ASSUME IInv'
    PROVE  /\ acting' \subseteq {owner'}
           /\ owner' = 0 => acting' = {}
<1>1. SingleInstaller'
  BY DEF IInv, SingleInstaller, AnchorHeld, MountedIsInstalled, InstalledAreHooks
<1>2. \A g \in Cores : g # 0
  BY DEF Cores
<1> QED BY <1>1, <1>2 DEF SingleInstaller, acting, owner

LEMMA TypeFactsNext ==
    TypeOK' => n' = 0 \/ core'[n'] \in CoreState
  BY TableAssumption DEF TypeOK, Cores

(* The generations whose hooks act are the same if each core has something *)
(* installed after the step exactly if it had before.                      *)
LEMMA ActingFrame ==
    ASSUME headless' = headless,
           \A g \in Cores : core'[g].installed = {} <=> core[g].installed = {}
    PROVE  acting' = acting
  BY DEF acting

(* The life cycle's steps, in the abstract variables.                      *)
LEMMA CreateMapped == ASSUME IInv, PluginInit
                      PROVE  /\ n' = n + 1 /\ fresh' \in BOOLEAN
                             /\ owner' = owner /\ acting' = acting
<1>1. TypeOK /\ \A g \in Cores : Good(g)
  BY IInvIsLocal
<1>2. PICK S \in ConfigChoices :
         core' = [core EXCEPT ![n + 1] = NewCore(S, TRUE)]
  BY DEF PluginInit
<1>3. n + 1 \in Cores /\ n' = n + 1 /\ n + 1 # 0 /\ n + 1 > n
  BY <1>1, TypeFacts DEF PluginInit
<1>4. core[n + 1].installed = {} /\ core'[n + 1] = NewCore(S, TRUE)
  BY <1>1, <1>2, <1>3 DEF Good, NoCore, TypeOK
<1>5. \A g \in Cores : core'[g].installed = {} <=> core[g].installed = {}
  BY <1>1, <1>2, <1>3, <1>4, NewCoreIsBlank DEF TypeOK
<1>6. fresh' = TRUE
  BY <1>3, <1>4, NewCoreIsBlank DEF fresh
<1> QED BY <1>3, <1>5, <1>6, ActingFrame DEF PluginInit, owner

LEMMA LoadMapped ==
    ASSUME IInv, NEW g \in Cores, ReadyToRun(g)
    PROVE  /\ n' = n /\ fresh /\ ~fresh'
           /\ owner = 0 => owner' \in {0, n}
           /\ owner # 0 => owner' = owner /\ acting' = acting
<1>1. TypeOK /\ (\A h \in Cores : Good(h)) /\ IInv'
  BY IInvIsLocal, ReadyToRunStep
<1>2. PICK o, s :
        /\ o \in LoadOutcomes(core[g], registered)
        /\ core' = [core EXCEPT ![g] = Mount(Load(core[g], o), s)]
        /\ registered' = Register(g, core[g], o, registered)
  BY DEF ReadyToRun
<1>3. /\ n' = n /\ headless' = headless /\ g = n /\ g # 0
      /\ core[g].startup /\ core[g] \in CoreState /\ registered \in Registry
      /\ Blank(core[g], registered, g)
      /\ Anchor \in Components
  BY <1>1, TypeFacts, AnchorAssumption DEF ReadyToRun, Good, Components
<1>4. core'[g] = Mount(Load(core[g], o), s) /\ ~core'[g].startup
  <2>1. core'[g] = Mount(Load(core[g], o), s)
    BY <1>1, <1>2 DEF TypeOK
  <2>2. Load(core[g], o) \in CoreState /\ Load(core[g], o).startup = FALSE
    BY <1>3, CoreTypes
  <2>3. Mount(Load(core[g], o), s).startup = FALSE
    BY <2>2, CoreTypes
  <2> QED BY <2>1, <2>3
<1>5. owner' \in {g, owner}
  BY <1>2, <1>3, RegisterFrame DEF owner
<1>6. ASSUME owner # 0 PROVE owner' = owner /\ acting' = acting
  <2>1. registered'[Anchor] # g
    <3>1. registered[Anchor] # 0 /\ registered[Anchor] # g
      BY <1>3, <1>6 DEF owner, Blank
    <3>2. Anchor \in UiOf(core[g]) => ~(Anchor < o.stop)
      BY <1>2, <3>1 DEF LoadOutcomes
    <3>3. o.how = "menu" => o.stop # Anchor
      BY <1>2, <3>1 DEF LoadOutcomes
    <3> QED BY <1>2, <1>3, <3>1, <3>2, <3>3 DEF Register
  <2>2. ~headless => core'[g].installed = {}
    BY <1>1, <1>3, <2>1, ActingOwnsNext DEF acting, owner
  <2>3. \A h \in Cores : h # g => core'[h] = core[h]
    BY <1>1, <1>2 DEF TypeOK
  <2>4. acting' = acting
    BY <1>3, <2>2, <2>3 DEF acting, Blank
  <2> QED BY <1>5, <2>1, <2>4 DEF owner
<1> QED BY <1>3, <1>4, <1>5, <1>6 DEF fresh

(* Unloading the current core: it leaves the slot only if it had it, and   *)
(* what stays in the slot keeps its hooks.                                 *)
LEMMA UnloadMapped ==
    ASSUME IInv, initialized
    PROVE  LET freed == Unregister(core[cur], registered) IN
           /\ freed[Anchor] \in {0, owner}
           /\ freed[Anchor] # 0 =>
                 (Unload(core[cur]).installed = {} <=> core[cur].installed = {})
                    \/ freed[Anchor] # cur
           /\ core[cur].startup => Unload(core[cur]).installed = {}
<1> DEFINE freed == Unregister(core[cur], registered)
<1>1. cur \in Cores /\ core[cur] \in CoreState /\ registered \in Registry /\ Good(cur)
  BY IInvIsLocal, TypeFacts DEF TypeOK
<1>2. Anchor \in Components
  BY AnchorAssumption DEF Components
<1>3. freed[Anchor] \in {0, owner}
  BY <1>2 DEF Unregister, owner
<1>4. CASE core[cur].loaded
  <2>1. freed[Anchor] # cur
    BY <1>1, <1>2, <1>4, UnloadSound DEF Good
  <2>2. ~core[cur].startup
    BY <1>1, <1>4 DEF Good, Blank
  <2> QED BY <1>3, <2>1, <2>2
<1>5. CASE ~core[cur].loaded
  <2>1. Unload(core[cur]).installed = core[cur].installed
    BY <1>1, <1>5 DEF Unload, CoreState
  <2>2. core[cur].startup => core[cur].installed = {}
    BY <1>1 DEF Good, Blank
  <2> QED BY <1>3, <2>1, <2>2
<1> QED BY <1>4, <1>5

LEMMA UnloadOnlyMapped ==
    ASSUME IInv, ReloadModulesRaises \/ Term
    PROVE  /\ n' = n /\ ~fresh'
           /\ owner' \in {0, owner}
           /\ fresh /\ owner' = owner => acting' = acting
<1> DEFINE freed == Unregister(core[cur], registered)
<1>1. TypeOK /\ \A h \in Cores : Good(h)
  BY IInvIsLocal
<1>2. /\ initialized /\ n' = n /\ headless' = headless
      /\ core' = [core EXCEPT ![cur] = Unload(core[cur])]
      /\ registered' = freed
  BY DEF ReloadModulesRaises, Term
<1>3. /\ cur \in Cores /\ core'[cur] = Unload(core[cur])
      /\ ~Unload(core[cur]).startup
      /\ \A h \in Cores : h # cur => core'[h] = core[h] /\ ~core[h].startup
  BY <1>1, <1>2, UnloadCurrent DEF TypeOK
<1>4. \A h \in Cores : ~core'[h].startup
  BY <1>3
<1>5. ~fresh'
  <2>1. n # 0 => n \in Cores
    BY <1>1, TypeFacts DEF Cores
  <2> QED BY <1>2, <1>4, <2>1 DEF fresh
<1>6. ASSUME fresh PROVE acting' = acting
  <2>1. core[cur].startup
    BY <1>1, <1>3, <1>6, TypeFacts DEF fresh, Cores
  <2>2. core[cur].installed = {} /\ Unload(core[cur]).installed = {}
    BY <1>1, <1>2, <1>3, <2>1, UnloadMapped DEF Good, Blank
  <2> QED BY <1>2, <1>3, <2>2, ActingFrame
<1> QED BY <1>2, <1>5, <1>6, UnloadMapped DEF owner

LEMMA ReloadMapped ==
    ASSUME IInv, Reload
    PROVE  /\ n' = n + 1 /\ ~fresh'
           /\ owner' \in {0, owner, n + 1}
           /\ owner' = owner => acting' = acting
<1> DEFINE freed == Unregister(core[cur], registered)
           new == n + 1
<1>1. TypeOK /\ (\A h \in Cores : Good(h)) /\ IInv'
  BY IInvIsLocal, ReloadStep
<1>2. PICK k, o, s :
        /\ k \in CoreState /\ k.startup = FALSE
        /\ core' = [core EXCEPT ![cur] = Unload(core[cur]),
                                ![new] = Mount(Load(k, o), s)]
        /\ registered' = Register(new, k, o, freed)
  BY NewCoreIsBlank DEF Reload
<1>3. /\ initialized /\ n' = new /\ headless' = headless
      /\ new \in Cores /\ new # cur /\ new > n /\ new # 0
      /\ cur \in Cores /\ freed \in Registry
  <2>1. n < MaxCores /\ initialized /\ n' = new /\ headless' = headless
    BY DEF Reload
  <2>2. new \in Cores /\ new > n /\ new # 0
    BY <1>1, <2>1, TypeFacts
  <2> QED BY <1>1, <2>1, <2>2, UnloadCurrent DEF Good
<1>4. /\ core'[new] = Mount(Load(k, o), s) /\ core'[cur] = Unload(core[cur])
      /\ \A h \in Cores : h # cur /\ h # new => core'[h] = core[h]
      /\ core[new].installed = {} /\ registered[Anchor] # new
  <2>1. /\ core'[new] = Mount(Load(k, o), s) /\ core'[cur] = Unload(core[cur])
        /\ \A h \in Cores : h # cur /\ h # new => core'[h] = core[h]
    BY <1>1, <1>2, <1>3 DEF TypeOK
  <2>2. core[new].installed = {} /\ \A c \in Components : registered[c] # new
    BY <1>1, <1>3 DEF Good, NoCore
  <2> QED BY <2>1, <2>2, AnchorAssumption DEF Components
<1>5. ~fresh'
  <2>1. Load(k, o) \in CoreState /\ Load(k, o).startup = FALSE
    BY <1>2, CoreTypes
  <2>2. \A t : Mount(Load(k, o), t).startup = Load(k, o).startup
    BY <2>1, CoreTypes
  <2> QED BY <1>3, <1>4, <2>1, <2>2 DEF fresh
<1>6. owner' \in {new, freed[Anchor]}
  BY <1>2, <1>3, RegisterFrame, AnchorAssumption DEF owner, Components
<1>7. ASSUME owner' = owner PROVE acting' = acting
  <2>1. CASE owner = 0
    BY <1>1, <1>7, <2>1, ActingOwns, ActingOwnsNext
  <2>2. CASE owner # 0
    <3>1. freed[Anchor] = owner /\ owner # new
      BY <1>4, <1>6, <1>7 DEF owner
    <3>2. headless \/ core'[new].installed = {}
      BY <1>1, <1>3, <1>7, <3>1, ActingOwnsNext DEF acting
    <3>3. (core'[cur].installed = {} <=> core[cur].installed = {}) \/ owner # cur
      BY <1>3, <1>4, <2>2, <3>1, UnloadMapped
    <3>4. \/ owner = cur
          \/ headless
          \/ core'[cur].installed = {} /\ core[cur].installed = {}
      BY <1>1, <1>3, <1>7, ActingOwns, ActingOwnsNext DEF acting
    <3> QED BY <1>3, <1>4, <3>2, <3>3, <3>4, ActingFrame DEF acting
  <2> QED BY <2>1, <2>2
<1> QED BY <1>3, <1>5, <1>6, <1>7, UnloadMapped

(* Toggling the mount, and collecting a core, only turn hooks on or off.   *)
LEMMA ActMapped ==
    ASSUME IInv, NEW g \in Cores, ToggleMount(g) \/ Collect(g)
    PROVE  n' = n /\ owner' = owner /\ fresh' = fresh
<1>1. TypeOK /\ \A h \in Cores : Good(h)
  BY IInvIsLocal
<1>2. n' = n /\ registered' = registered
  BY DEF ToggleMount, Collect
<1>3. \A h \in Cores : core'[h].startup = core[h].startup
  <2>1. CASE ToggleMount(g)
    <3>1. core[g] \in CoreState
      BY <1>1, TypeFacts
    <3>2. PICK m : core' = [core EXCEPT ![g] = m] /\ m.startup = core[g].startup
      <4>1. Unmount(core[g]).startup = core[g].startup
        BY <3>1, CoreTypes
      <4>2. \A s : Mount(core[g], s).startup = core[g].startup
        BY <3>1, CoreTypes
      <4> QED BY <2>1, <4>1, <4>2 DEF ToggleMount
    <3> QED BY <1>1, <3>2 DEF TypeOK
  <2>2. CASE Collect(g)
    <3>1. core' = [core EXCEPT ![g] = NoCore] /\ g # cur
      BY <2>2 DEF Collect
    <3>2. ~core[g].startup
      BY <1>1, <3>1 DEF Good
    <3>3. core[g].startup = FALSE
      BY <1>1, <3>2, TypeFacts DEF CoreState
    <3> QED BY <1>1, <3>1, <3>3 DEF TypeOK, NoCore
  <2> QED BY <2>1, <2>2
<1>4. fresh' = fresh
  <2>1. n # 0 => n \in Cores
    BY <1>1, TypeFacts DEF Cores
  <2> QED BY <1>2, <1>3, <2>1 DEF fresh
<1> QED BY <1>2, <1>4 DEF owner

LEMMA InitMapped == Init => Ownership!Init
  BY AnchorAssumption DEF Init, NoCore, Components, Ownership!Init

LEMMA NextMapped ==
    ASSUME IInv, [Next]_vars PROVE [Ownership!Next]_(Ownership!vars)
<1> DEFINE Abstract == \/ /\ n' = n + 1 /\ fresh' \in BOOLEAN
                          /\ owner' = owner /\ acting' = acting
                       \/ /\ fresh /\ owner = 0 /\ ~fresh'
                          /\ owner' = n /\ acting' \subseteq {n} /\ n' = n
                       \/ /\ fresh /\ ~fresh'
                          /\ owner' = owner /\ acting' = acting /\ n' = n
                       \/ /\ owner # 0 /\ owner' = 0 /\ acting' = {}
                          /\ n' \in {n, n + 1} /\ ~fresh'
                       \/ /\ n' = n + 1 /\ owner' = n + 1 /\ ~fresh'
                          /\ acting' \subseteq {n + 1}
                       \/ /\ owner # 0 /\ acting' \subseteq {owner}
                          /\ n' = n /\ owner' = owner /\ fresh' = fresh
                       \/ /\ n' = n /\ owner' = owner
                          /\ fresh' = fresh /\ acting' = acting
<1>1. /\ IInv' /\ fresh \in BOOLEAN /\ fresh' \in BOOLEAN
      /\ acting' \subseteq {owner'} /\ (owner' = 0 => acting' = {})
      /\ (owner = 0 => acting = {})
  <2>1. IInv'
    BY NextIInv
  <2>2. fresh' \in BOOLEAN
    BY <2>1, TypeFactsNext DEF IInv, fresh, CoreState
  <2> QED BY <2>1, <2>2, ActingOwns, ActingOwnsNext
<1>2. Abstract
  <2>1. CASE PluginInit
    BY <1>1, <2>1, CreateMapped
  <2>2. CASE ReloadModulesRaises \/ Term
    BY <1>1, <2>2, UnloadOnlyMapped
  <2>3. CASE Reload
    BY <1>1, <2>3, ReloadMapped
  <2>4. ASSUME NEW g \in Cores, ReadyToRun(g) PROVE Abstract
    BY <1>1, <2>4, LoadMapped
  <2>5. ASSUME NEW g \in Cores, ToggleMount(g) \/ Collect(g) PROVE Abstract
    BY <1>1, <2>5, ActMapped
  <2>6. CASE UNCHANGED vars
    BY <2>6 DEF vars, owner, fresh, acting
  <2> QED BY <2>1, <2>2, <2>3, <2>4, <2>5, <2>6 DEF Next
<1> QED BY <1>1, <1>2
    DEF owner, fresh, acting, Ownership!Next, Ownership!vars,
        Ownership!Create, Ownership!Take, Ownership!GiveUp,
        Ownership!Leave, Ownership!Replace, Ownership!Act

(* The life cycle implements the ownership of the hooks.                   *)
THEOREM ImplementsOwnership == Spec => OwnershipSpec
  BY InitMapped, NextMapped, Invariance, PTL
  DEF Spec, OwnershipSpec, Ownership!Spec
=============================================================================
