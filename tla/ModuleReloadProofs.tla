------------------------- MODULE ModuleReloadProofs -------------------------
(***************************************************************************)
(* Proofs about ModuleReload, for every graph of imports, every order of   *)
(* sys.modules, every list of the server and every number of edits.        *)
(***************************************************************************)
EXTENDS ModuleReload, NaturalLemmas, TLAPS

(***************************************************************************)
(* The inductive invariant.                                                *)
(***************************************************************************)

(* What is still to be executed is the end of the list.                    *)
TodoIsRest ==
    /\ Len(todo) <= Len(list)
    /\ \A i \in 1..Len(todo) : todo[i] = list[Len(list) - Len(todo) + i]

(* Only modules that are loaded are reloaded, and sys.modules has them     *)
(* once each.                                                              *)
OrderIsComplete ==
    /\ IsInjective(order)
    /\ ToSet(list) \subseteq ToSet(FirstOrder)

(* In a reload without failure or edit so far, a module that will not be   *)
(* executed again is fresh with respect to any ordered set it is in.       *)
ExecutedIsFresh ==
    clean => \A D \in SUBSET Modules : Ordered(D) =>
        \A m \in D, x \in D :
            m \notin ToSet(todo) => holds[m][x] \subseteq {source[x].version}

(* The hooks of a host that has reloaded run what their modules hold.      *)
HooksAreHeld ==
    phase = "idle" /\ clean =>
        \A h \in live : h[1] \in HookModules /\ h[2] \in HookClasses(h[1])

IInv == /\ TypeOK
        /\ TodoIsRest
        /\ OrderIsComplete
        /\ ExecutedIsFresh
        /\ HooksAreHeld

----------------------------------------------------------------------------
(* Sequences.                                                              *)
LEMMA ToSetFacts ==
    ASSUME NEW q \in Seq(Modules)
    PROVE  /\ Len(q) \in Nat
           /\ ToSet(q) \subseteq Modules
           /\ \A x : x \in ToSet(q) <=> \E i \in 1..Len(q) : q[i] = x
  BY DEF ToSet

LEMMA TailFacts ==
    ASSUME NEW q \in Seq(Modules), q # <<>>
    PROVE  /\ Tail(q) \in Seq(Modules) /\ Len(Tail(q)) = Len(q) - 1
           /\ Len(q) \in Nat \ {0} /\ Head(q) = q[1]
           /\ Head(q) \in Modules
           /\ \A i \in 1..Len(q) - 1 : Tail(q)[i] = q[i + 1]
           /\ \A x : x \in ToSet(q) <=> x = Head(q) \/ x \in ToSet(Tail(q))
<1>1. /\ Tail(q) \in Seq(Modules) /\ Len(Tail(q)) = Len(q) - 1
      /\ Len(q) \in Nat \ {0} /\ Head(q) = q[1]
      /\ Head(q) \in Modules
      /\ \A i \in 1..Len(q) - 1 : Tail(q)[i] = q[i + 1]
  OBVIOUS
<1>2. ASSUME NEW x, x \in ToSet(q), x # Head(q) PROVE x \in ToSet(Tail(q))
  <2>1. PICK i \in 1..Len(q) : q[i] = x
    BY <1>2, ToSetFacts
  <2>2. i - 1 \in 1..Len(Tail(q)) /\ Tail(q)[i - 1] = x
    <3>1. i # 1 /\ i - 1 \in 1..Len(q) - 1
      BY <1>1, <1>2, <2>1
    <3> QED BY <1>1, <2>1, <3>1
  <2> QED BY <1>1, <2>2, ToSetFacts
<1>3. ASSUME NEW x, x = Head(q) \/ x \in ToSet(Tail(q)) PROVE x \in ToSet(q)
  <2>1. CASE x = Head(q)
    BY <1>1, <2>1, ToSetFacts
  <2>2. CASE x \in ToSet(Tail(q))
    <3>1. PICK i \in 1..Len(Tail(q)) : Tail(q)[i] = x
      BY <1>1, <2>2, ToSetFacts
    <3>2. i + 1 \in 1..Len(q) /\ q[i + 1] = x
      BY <1>1, <3>1
    <3> QED BY <3>2, ToSetFacts
  <2> QED BY <1>3, <2>1, <2>2
<1> QED BY <1>1, <1>2, <1>3

(* Moving a module to the end of sys.modules loses and repeats nothing.    *)
LEMMA MoveToEndFacts ==
    ASSUME order \in Seq(Modules), IsInjective(order),
           NEW m \in ToSet(order)
    PROVE  /\ MoveToEnd(m) \in Seq(Modules)
           /\ Len(MoveToEnd(m)) = Len(order)
           /\ ToSet(MoveToEnd(m)) = ToSet(order)
           /\ IsInjective(MoveToEnd(m))
<1> DEFINE n == Len(order)
           i == CHOOSE j \in 1..n : order[j] = m
           r == RemoveAt(order, i)
           q == Append(r, m)
<1>1. n \in Nat /\ i \in 1..n /\ order[i] = m /\ m \in Modules
  BY ToSetFacts
<1>2. q = MoveToEnd(m)
  BY DEF MoveToEnd
<1> HIDE DEF i
<1>3. /\ r \in Seq(Modules) /\ Len(r) = n - 1
      /\ \A j \in 1..(n - 1) : r[j] = IF j < i THEN order[j] ELSE order[j + 1]
  <2>1. /\ SubSeq(order, 1, i - 1) \in Seq(Modules)
        /\ Len(SubSeq(order, 1, i - 1)) = i - 1
        /\ \A j \in 1..(i - 1) : SubSeq(order, 1, i - 1)[j] = order[j]
    BY <1>1
  <2>2. /\ SubSeq(order, i + 1, n) \in Seq(Modules)
        /\ Len(SubSeq(order, i + 1, n)) = n - i
        /\ \A j \in 1..(n - i) : SubSeq(order, i + 1, n)[j] = order[i + j]
    BY <1>1
  <2> DEFINE a == SubSeq(order, 1, i - 1)
             b == SubSeq(order, i + 1, n)
  <2>3. r = a \o b /\ Len(a) = i - 1 /\ Len(b) = n - i
    BY <2>1, <2>2 DEF RemoveAt
  <2> HIDE DEF a, b
  <2>4. /\ a \o b \in Seq(Modules) /\ Len(a \o b) = Len(a) + Len(b)
        /\ \A j \in 1..(Len(a) + Len(b)) :
              (a \o b)[j] = IF j <= Len(a) THEN a[j] ELSE b[j - Len(a)]
    BY <2>1, <2>2 DEF a, b
  <2>5. Len(a) = i - 1 /\ Len(b) = n - i /\ Len(a) + Len(b) = n - 1
    BY <1>1, <2>3
  <2>6. ASSUME NEW j \in 1..(n - 1)
        PROVE  r[j] = IF j < i THEN order[j] ELSE order[j + 1]
    <3>1. r[j] = IF j <= i - 1 THEN a[j] ELSE b[j - (i - 1)]
      BY <2>3, <2>4, <2>5
    <3>2. CASE j < i
      <4>1. j \in 1..(i - 1)
        BY <1>1, <3>2
      <4> QED BY <1>1, <2>1, <3>1, <3>2, <4>1 DEF a
    <3>3. CASE ~(j < i)
      <4>1. j - (i - 1) \in 1..(n - i) /\ i + (j - (i - 1)) = j + 1
        BY <1>1, <3>3
      <4>2. b[j - (i - 1)] = order[j + 1]
        BY <2>2, <4>1 DEF b
      <4> QED BY <1>1, <3>1, <3>3, <4>2
    <3> QED BY <3>2, <3>3
  <2> QED BY <2>3, <2>4, <2>5, <2>6
<1> HIDE DEF r
<1>4. /\ q \in Seq(Modules) /\ Len(q) = n /\ q[n] = m
      /\ \A j \in 1..(n - 1) : q[j] = r[j]
  BY <1>1, <1>3
<1> HIDE DEF q
<1> DEFINE old(j) == IF j = n THEN i ELSE IF j < i THEN j ELSE j + 1
<1>5. \A j \in 1..n : q[j] = order[old(j)] /\ old(j) \in 1..n
  <2>1. SUFFICES ASSUME NEW j \in 1..n
                 PROVE  q[j] = order[old(j)] /\ old(j) \in 1..n
    OBVIOUS
  <2>2. CASE j = n
    BY <1>1, <1>4, <2>2
  <2>3. CASE j # n
    <3>1. j \in 1..(n - 1)
      BY <1>1, <2>3
    <3> QED BY <1>1, <1>3, <1>4, <2>3, <3>1
  <2> QED BY <2>2, <2>3
<1>6. \A j, k \in 1..n : old(j) = old(k) => j = k
  BY <1>1
<1>7. \A k \in 1..n : \E j \in 1..n : old(j) = k
  <2>1. SUFFICES ASSUME NEW k \in 1..n PROVE \E j \in 1..n : old(j) = k
    OBVIOUS
  <2>2. CASE k = i
    <3>1. n \in 1..n /\ old(n) = k
      BY <1>1, <2>2
    <3> QED BY <3>1
  <2>3. CASE k < i
    <3>1. k \in 1..n /\ old(k) = k
      BY <1>1, <2>3
    <3> QED BY <3>1
  <2>4. CASE k > i
    <3>1. k - 1 \in 1..n /\ old(k - 1) = k
      BY <1>1, <2>4
    <3> QED BY <3>1
  <2> QED BY <1>1, <2>2, <2>3, <2>4
<1> HIDE DEF old
<1>8. DOMAIN q = 1..n /\ DOMAIN order = 1..n
  BY <1>1, <1>4
<1>9. ToSet(q) = ToSet(order)
  <2>1. ASSUME NEW x \in ToSet(q) PROVE x \in ToSet(order)
    BY <1>5, <1>8, <2>1 DEF ToSet
  <2>2. ASSUME NEW x \in ToSet(order) PROVE x \in ToSet(q)
    <3>1. PICK k \in 1..n : order[k] = x
      BY <1>8, <2>2 DEF ToSet
    <3>2. PICK j \in 1..n : old(j) = k
      BY <1>7
    <3> QED BY <1>5, <1>8, <3>1, <3>2 DEF ToSet
  <2> QED BY <2>1, <2>2
<1>10. IsInjective(q)
  BY <1>5, <1>6, <1>8 DEF IsInjective
<1> HIDE DEF n
<1> QED BY <1>2, <1>4, <1>9, <1>10 DEF n

(* The versions of the sources have a greatest one.                        *)
LEMMA EditsFacts ==
    ASSUME source \in [Modules -> [version : Versions, state : SourceState]]
    PROVE  Edits \in Versions
<1> DEFINE V == {source[m].version : m \in Modules}
<1>1. V \in SUBSET Versions /\ V # {} /\ MaxVersion \in Nat
  BY ModulesAssumption
<1>2. \E x \in V : \A y \in V : x >= y
  BY <1>1, GreatestElement DEF Versions
<1>3. Max(V) \in V
  BY <1>2 DEF Max
<1> QED BY <1>1, <1>3 DEF Edits

(* Executing a module gives it names of known versions.                    *)
LEMMA ExecuteTypes ==
    ASSUME TypeOK, NEW m \in Modules
    PROVE  /\ Execute(m) \in [Modules -> SUBSET Versions]
           /\ PartlyExecute(m) \in [Modules -> SUBSET Versions]
<1>1. ASSUME NEW x \in Modules
      PROVE  UNION {holds[d][x] : d \in Imports[m]} \subseteq Versions
  BY ModulesAssumption DEF TypeOK
<1>2. source[m].version \in Versions
  BY DEF TypeOK
<1>3. Execute(m) \in [Modules -> SUBSET Versions]
  BY <1>1, <1>2 DEF Execute
<1> HIDE DEF Execute
<1> QED BY <1>3 DEF PartlyExecute, TypeOK

----------------------------------------------------------------------------
LEMMA InitIInv == Init => IInv
<1> SUFFICES ASSUME Init PROVE IInv OBVIOUS
<1> USE ModulesAssumption, OrderAssumption
<1>1. /\ todo = <<>> /\ list = <<>> /\ order = FirstOrder /\ clean = FALSE
      /\ Len(todo) = 0 /\ Len(list) = 0 /\ ToSet(list) = {}
      /\ todo \in Seq(Modules) /\ list \in Seq(Modules)
  <2>1. todo = <<>> /\ list = <<>> /\ order = FirstOrder /\ clean = FALSE
    BY DEF Init
  <2> QED BY <2>1 DEF ToSet
<1>2. 0 \in Versions
  BY DEF Versions
<1>3. holds \in [Modules -> [Modules -> SUBSET Versions]]
  BY <1>2 DEF Init
<1>4. source \in [Modules -> [version : Versions, state : SourceState]]
  BY <1>2 DEF Init, SourceState
<1>5. live \subseteq HookModules \X Versions
  BY <1>2 DEF Init
<1>6. TypeOK
  BY <1>1, <1>3, <1>4, <1>5 DEF Init, TypeOK
<1> QED BY <1>1, <1>6 DEF IInv, TodoIsRest, OrderIsComplete, ExecutedIsFresh,
                         HooksAreHeld

(* The module whose turn it is.                                            *)
LEMMA NextModule ==
    ASSUME IInv, todo # <<>>
    PROVE  /\ Head(todo) \in Modules /\ Head(todo) \in ToSet(order)
           /\ Tail(todo) \in Seq(Modules)
           /\ Len(Tail(todo)) = Len(todo) - 1 /\ Len(todo) \in Nat \ {0}
           /\ Len(list) \in Nat
           /\ Head(todo) = list[Len(list) - Len(Tail(todo))]
           /\ \A i \in 1..Len(Tail(todo)) :
                 Tail(todo)[i] = list[Len(list) - Len(Tail(todo)) + i]
           /\ \A x : x \in ToSet(todo) <=> x = Head(todo) \/ x \in ToSet(Tail(todo))
<1> DEFINE t == Tail(todo)
           n == Len(list)
<1>1. /\ t \in Seq(Modules) /\ Len(t) = Len(todo) - 1 /\ Len(todo) \in Nat \ {0}
      /\ Head(todo) = todo[1] /\ Head(todo) \in Modules
      /\ \A i \in 1..Len(todo) - 1 : t[i] = todo[i + 1]
      /\ \A x : x \in ToSet(todo) <=> x = Head(todo) \/ x \in ToSet(t)
  BY TailFacts DEF IInv, TypeOK
<1>2. /\ n \in Nat /\ Len(todo) <= n
      /\ \A i \in 1..Len(todo) : todo[i] = list[n - Len(todo) + i]
  BY DEF IInv, TypeOK, TodoIsRest
<1> HIDE DEF t, n
<1>3. Head(todo) = list[n - Len(t)] /\ n - Len(t) \in 1..n
  <2>1. n - Len(t) = n - Len(todo) + 1 /\ 1 \in 1..Len(todo)
    BY <1>1, <1>2
  <2> QED BY <1>1, <1>2, <2>1
<1>4. ASSUME NEW i \in 1..Len(t) PROVE t[i] = list[n - Len(t) + i]
  <2>1. i \in 1..Len(todo) - 1 /\ i + 1 \in 1..Len(todo)
    BY <1>1, <1>4
  <2>2. n - Len(todo) + (i + 1) = n - Len(t) + i
    BY <1>1, <1>2, <1>4
  <2> QED BY <1>1, <1>2, <2>1, <2>2
<1>5. Head(todo) \in ToSet(order)
  <2>1. Head(todo) \in ToSet(list)
    BY <1>3, ToSetFacts DEF IInv, TypeOK, n
  <2> QED BY <2>1 DEF IInv, TypeOK, OrderIsComplete
<1> QED BY <1>1, <1>2, <1>3, <1>4, <1>5 DEF t, n

(* An edit, and a step that fails, leave a host that is not clean.         *)
LEMMA DirtyStep ==
    ASSUME TypeOK', TodoIsRest', OrderIsComplete', clean' = FALSE
    PROVE  IInv'
  BY DEF IInv, ExecutedIsFresh, HooksAreHeld

LEMMA EditStep == ASSUME IInv, NEW m \in Modules, Edit(m) PROVE IInv'
<1>1. Edits + 1 \in Versions
  BY EditsFacts, ModulesAssumption DEF IInv, TypeOK, Edit, Versions
<1>2. PICK s \in SourceState :
         source' = [source EXCEPT ![m] = [version |-> Edits + 1, state |-> s]]
  BY DEF Edit
<1> DEFINE e == Edits + 1
<1> HIDE DEF e
<1>3. source' \in [Modules -> [version : Versions, state : SourceState]]
  BY <1>1, <1>2 DEF IInv, TypeOK, e
<1>4. /\ UNCHANGED <<host, holds, order, todo, list, phase, live>>
      /\ clean' = FALSE
  BY DEF Edit
<1>5. TypeOK'
  BY <1>3, <1>4 DEF IInv, TypeOK
<1> QED BY <1>4, <1>5, DirtyStep DEF IInv, TodoIsRest, OrderIsComplete

LEMMA ReloadStep == ASSUME IInv, ReloadPlugin \/ ReloadServer PROVE IInv'
<1> USE ModulesAssumption, OrderAssumption
<1>1. /\ list' \in Seq(Modules) /\ ToSet(list') \subseteq ToSet(FirstOrder)
  <2>1. CASE ReloadServer
    BY <2>1 DEF ReloadServer
  <2>2. CASE ReloadPlugin
    <3>1. /\ PluginList \in Seq(Modules) /\ Len(PluginList) = Len(order) + 1
          /\ Len(order) \in Nat
          /\ \A i \in 1..Len(order) : PluginList[i] = order[i]
          /\ PluginList[Len(order) + 1] = Core
      BY DEF IInv, TypeOK, PluginList
    <3>2. ASSUME NEW x \in ToSet(PluginList) PROVE x = Core \/ x \in ToSet(order)
      <4>1. PICK i \in 1..Len(order) + 1 : PluginList[i] = x
        BY <3>1, <3>2, ToSetFacts
      <4>2. i \in 1..Len(order) \/ i = Len(order) + 1
        BY <3>1
      <4> QED BY <3>1, <4>1, <4>2, ToSetFacts DEF IInv, TypeOK
    <3> QED BY <2>2, <3>1, <3>2 DEF ReloadPlugin, IInv, TypeOK
  <2> QED BY <2>1, <2>2
<1>2. /\ todo' = list' /\ phase' = "reload" /\ live' = {} /\ clean' = TRUE
      /\ UNCHANGED <<host, source, holds, order>>
  BY DEF ReloadPlugin, ReloadServer
<1>3. TypeOK'
  BY <1>1, <1>2 DEF IInv, TypeOK
<1>4. TodoIsRest' /\ OrderIsComplete' /\ HooksAreHeld'
  BY <1>1, <1>2 DEF IInv, TodoIsRest, OrderIsComplete, HooksAreHeld
<1>5. ExecutedIsFresh'
  BY <1>2 DEF ExecutedIsFresh, Ordered
<1> QED BY <1>3, <1>4, <1>5 DEF IInv

LEMMA OrderedFrame ==
    list' = list => \A D : Ordered(D)' <=> Ordered(D)
<1>1. list' = list => \A d, m : Before(d, m)' <=> Before(d, m)
  BY DEF Before
<1> QED BY <1>1 DEF Ordered

(* The heart of the argument: of the modules of an ordered set, a module   *)
(* that now executes for the last time imports only modules that will not  *)
(* execute again, and takes over what they hold.                           *)
LEMMA LoadStep == ASSUME IInv, LoadModule PROVE IInv'
<1> DEFINE m == Head(todo)
<1>1. /\ todo # <<>> /\ phase = "reload"
      /\ holds' = [holds EXCEPT ![m] = Execute(m)]
      /\ order' = MoveToEnd(m) /\ todo' = Tail(todo)
      /\ UNCHANGED <<host, source, list, phase, live, clean>>
  BY DEF LoadModule
<1>2. /\ m \in Modules /\ m \in ToSet(order)
      /\ todo' \in Seq(Modules)
      /\ Len(todo') = Len(todo) - 1 /\ Len(todo) \in Nat \ {0}
      /\ Len(list) \in Nat
      /\ m = list[Len(list) - Len(todo')]
      /\ \A i \in 1..Len(todo') : todo'[i] = list[Len(list) - Len(todo') + i]
      /\ \A x : x \in ToSet(todo) <=> x = m \/ x \in ToSet(todo')
  BY <1>1, NextModule
<1> HIDE DEF m
<1>3. /\ order' \in Seq(Modules) /\ Len(order') = Len(order)
      /\ ToSet(order') = ToSet(order) /\ IsInjective(order')
  BY <1>1, <1>2, MoveToEndFacts DEF IInv, TypeOK, OrderIsComplete
<1>4. Execute(m) \in [Modules -> SUBSET Versions]
  BY <1>2, ExecuteTypes DEF IInv
<1>5. TypeOK'
  BY <1>1, <1>2, <1>3, <1>4 DEF IInv, TypeOK
<1>6. TodoIsRest' /\ OrderIsComplete' /\ HooksAreHeld'
  BY <1>1, <1>2, <1>3 DEF IInv, TodoIsRest, OrderIsComplete, HooksAreHeld
<1>7. ExecutedIsFresh'
  <2>1. SUFFICES ASSUME clean, NEW D \in SUBSET Modules, Ordered(D),
                        NEW d \in D, NEW x \in D, d \notin ToSet(todo')
                 PROVE  holds'[d][x] \subseteq {source[x].version}
    BY <1>1, OrderedFrame DEF ExecutedIsFresh
  <2>2. \A e \in D : e \notin ToSet(todo) => holds[e][x] \subseteq {source[x].version}
    BY <2>1 DEF IInv, ExecutedIsFresh
  <2>3. CASE d # m
    <3>1. holds'[d] = holds[d] /\ d \notin ToSet(todo)
      BY <1>1, <1>2, <2>1, <2>3 DEF IInv, TypeOK
    <3> QED BY <2>1, <2>2, <3>1
  <2>4. CASE d = m
    <3>1. ASSUME NEW e \in Imports[m] PROVE e \in D /\ e \notin ToSet(todo)
      <4>1. e \in D /\ Before(e, m)
        BY <2>1, <2>4, <3>1 DEF Ordered
      <4>2. PICK i \in 1..Len(list) :
               list[i] = m /\ \A j \in i..Len(list) : list[j] # e
        <5>1. list \in Seq(Modules)
          BY DEF IInv, TypeOK
        <5> QED BY <4>1, <5>1 DEF Before
      <4>3. i <= Len(list) - Len(todo')
        <5>1. SUFFICES ASSUME i > Len(list) - Len(todo') PROVE FALSE
          BY <1>2
        <5>2. i - (Len(list) - Len(todo')) \in 1..Len(todo')
          BY <1>2, <4>2, <5>1
        <5>3. todo'[i - (Len(list) - Len(todo'))] = m
          BY <1>2, <4>2, <5>2
        <5> QED BY <1>2, <2>1, <2>4, <5>2, <5>3, ToSetFacts
      <4>4. ASSUME e \in ToSet(todo) PROVE FALSE
        <5>1. e # m
          BY <1>2, <4>2
        <5>2. PICK j \in 1..Len(todo') : todo'[j] = e
          BY <1>2, <4>4, <5>1, ToSetFacts
        <5>3. Len(list) - Len(todo') + j \in i..Len(list)
          BY <1>2, <4>2, <4>3, <5>2
        <5> QED BY <1>2, <4>2, <5>2, <5>3
      <4> QED BY <4>1, <4>4
    <3>2. holds'[m][x] = Execute(m)[x]
      BY <1>1, <1>2 DEF IInv, TypeOK
    <3>3. Execute(m)[x] \subseteq {source[x].version}
      BY <2>1, <2>2, <3>1 DEF Execute
    <3> QED BY <2>4, <3>2, <3>3
  <2> QED BY <2>3, <2>4
<1> QED BY <1>5, <1>6, <1>7 DEF IInv

LEMMA FailStep == ASSUME IInv, SkipMissing \/ SourceRaises PROVE IInv'
<1> DEFINE m == Head(todo)
<1>1. /\ todo # <<>> /\ phase = "reload" /\ clean' = FALSE
      /\ order' = order \/ order' = MoveToEnd(m)
      /\ \/ todo' = Tail(todo) /\ phase' = phase
         \/ todo' = <<>> /\ phase' = "idle"
      /\ holds' = holds \/ holds' = [holds EXCEPT ![m] = PartlyExecute(m)]
      /\ UNCHANGED <<host, source, list, live>>
  BY DEF SkipMissing, SourceRaises, AfterRaise
<1>2. /\ m \in Modules /\ m \in ToSet(order)
      /\ Tail(todo) \in Seq(Modules)
      /\ Len(Tail(todo)) = Len(todo) - 1 /\ Len(todo) \in Nat \ {0}
      /\ Len(list) \in Nat
      /\ \A i \in 1..Len(Tail(todo)) :
            Tail(todo)[i] = list[Len(list) - Len(Tail(todo)) + i]
  BY <1>1, NextModule
<1> HIDE DEF m
<1>3. /\ order' \in Seq(Modules) /\ Len(order') = Len(order)
      /\ ToSet(order') = ToSet(order) /\ IsInjective(order')
  BY <1>1, <1>2, MoveToEndFacts DEF IInv, TypeOK, OrderIsComplete
<1>4. holds' \in [Modules -> [Modules -> SUBSET Versions]]
  BY <1>1, <1>2, ExecuteTypes DEF IInv, TypeOK
<1>5. todo' \in Seq(Modules) /\ TodoIsRest'
  <2>1. CASE todo' = Tail(todo)
    BY <1>1, <1>2, <2>1 DEF IInv, TodoIsRest
  <2>2. CASE todo' = <<>>
    BY <1>1, <1>2, <2>2 DEF TodoIsRest
  <2> QED BY <1>1, <2>1, <2>2
<1>6. TypeOK'
  BY <1>1, <1>3, <1>4, <1>5 DEF IInv, TypeOK
<1>7. OrderIsComplete'
  BY <1>1, <1>3 DEF IInv, OrderIsComplete
<1> QED BY <1>1, <1>5, <1>6, <1>7, DirtyStep

LEMMA InstallStep == ASSUME IInv, Install PROVE IInv'
<1> USE ModulesAssumption
<1>1. /\ todo = <<>> /\ phase' = "idle"
      /\ UNCHANGED <<host, source, holds, order, todo, list, clean>>
  BY DEF Install
<1>2. PICK S \in SUBSET HookModules :
         live' = UNION {{h} \X HookClasses(h) : h \in S}
  BY DEF Install
<1>3. \A h \in HookModules : HookClasses(h) \subseteq Versions
  BY DEF IInv, TypeOK, HookClasses
<1>4. \A h \in live' : /\ h \in HookModules \X Versions
                       /\ h[2] \in HookClasses(h[1])
  BY <1>2, <1>3
<1>5. TypeOK'
  BY <1>1, <1>4 DEF IInv, TypeOK
<1>6. HooksAreHeld'
  BY <1>1, <1>4 DEF HooksAreHeld, HookClasses
<1>7. TodoIsRest' /\ OrderIsComplete' /\ ExecutedIsFresh'
  BY <1>1, OrderedFrame DEF IInv, TodoIsRest, OrderIsComplete, ExecutedIsFresh
<1> QED BY <1>5, <1>6, <1>7 DEF IInv

LEMMA NextIInv == ASSUME IInv, [Next]_vars PROVE IInv'
<1>1. CASE Next
  BY <1>1, EditStep, ReloadStep, LoadStep, FailStep, InstallStep DEF Next
<1>2. CASE UNCHANGED vars
  <2>1. UNCHANGED <<host, source, holds, order, todo, list, phase, live, clean>>
    BY <1>2 DEF vars
  <2>2. TypeOK' /\ TodoIsRest' /\ OrderIsComplete' /\ HooksAreHeld'
    BY <2>1 DEF IInv, TypeOK, TodoIsRest, OrderIsComplete, HooksAreHeld, HookClasses
  <2>3. ExecutedIsFresh'
    BY <2>1, OrderedFrame DEF IInv, ExecutedIsFresh
  <2> QED BY <2>2, <2>3 DEF IInv
<1> QED BY <1>1, <1>2

(* The inductive invariant.                                                *)
THEOREM Invariance == Spec => []IInv
  BY InitIInv, NextIInv, PTL DEF Spec

(* Types; sys.modules neither loses nor repeats a module, whatever raises. *)
THEOREM TypeCorrect == Spec => []TypeOK
<1>1. IInv => TypeOK
  BY DEF IInv
<1> QED BY <1>1, Invariance, PTL

(* Modules reloaded in the order of their imports hold no code but the     *)
(* code on disk, and so do the hooks built from them.                      *)
THEOREM OrderedReloadIsFresh == Spec => []OrderedIsFresh
<1>1. ASSUME IInv PROVE OrderedIsFresh
  <2>1. SUFFICES ASSUME Reloaded, NEW D \in SUBSET Modules, Ordered(D)
                 PROVE  /\ \A m \in D, x \in D : holds[m][x] \subseteq {source[x].version}
                        /\ \A h \in live : h[1] \in D /\ (host = "gui" => Core \in D)
                                              => h[2] = source[h[1]].version
    BY DEF OrderedIsFresh
  <2>2. clean /\ phase = "idle" /\ ToSet(todo) = {}
    BY <1>1, <2>1 DEF Reloaded, IInv, TypeOK, ToSet
  <2>3. \A m \in D, x \in D : holds[m][x] \subseteq {source[x].version}
    BY <1>1, <2>1, <2>2 DEF IInv, ExecutedIsFresh
  <2>4. \A h \in live : h[2] \in HookClasses(h[1])
    BY <1>1, <2>2 DEF IInv, HooksAreHeld
  <2> QED BY <2>3, <2>4 DEF HookClasses
<1> QED BY <1>1, Invariance, PTL
=============================================================================
