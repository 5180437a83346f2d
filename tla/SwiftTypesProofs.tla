-------------------------- MODULE SwiftTypesProofs --------------------------
(***************************************************************************)
(* Proofs about SwiftTypes, for every list of functions, every program and *)
(* every set of prototypes the user may set that SwiftAssumption admits,   *)
(* and about PrologRewrite, for every set of variables, every set of       *)
(* fragments a function may be made of and all the user may have named     *)
(* that LvarsAssumption and PrologAssumption admit.                        *)
(*                                                                         *)
(* What carries the proofs: a prototype that has an X20 argument is one    *)
(* none of the hooks writes over (Keeps), and a function whose stored      *)
(* prototype differs in X20 from the one it was decompiled with is either  *)
(* not cached or not printed yet (Shown).  A name the passes give is new   *)
(* (UniqueIsNew), so names stay distinct (LInv) and only grow (Grows); a   *)
(* statement they remove is not significant to what is left (PassesKeep).  *)
(***************************************************************************)
EXTENDS SwiftTypes, PrologRewrite, NaturalLemmas, SequenceTheorems

DbType == [
    proto : [Funcs -> ProtoType], cache : [Funcs -> ProtoType \cup {NotCached}],
    printed : [Funcs -> BOOLEAN], alloca : [Funcs -> Nat], frame : [Funcs -> Nat],
    grown : [Funcs -> Nat], bodyOf : [Funcs -> Funcs \cup {NoSite}],
    layout : [Funcs -> {"none", "slots", "user"}], started : BOOLEAN]

\* A prototype with captures is written as text and has no self; one with a
\* self is a prototype.
Proper(p) ==
    /\ p.captures # NoSite => p.cc = "special" /\ ~p.self
    /\ p.self => p.cc # "none"

FrameOf(d, f) ==
    /\ d.frame[f] = d.grown[f]
    /\ d.cache[f] # NotCached /\ f \notin code.rigid => d.alloca[f] \in {0, d.grown[f]}

Good(d) ==
    /\ d \in DbType
    /\ \A f \in Funcs : Proper(d.proto[f]) /\ FrameOf(d, f)

\* What was printed from the cache is not stale.
Shown(d) == \A f \in Funcs : d.printed[f] /\ d.cache[f] # NotCached => ~Stale(d, f)

\* A function that was shown stale is decompiled again, with the argument.
Misses == \A f \in Funcs :
    missed[f] > 0 => missed[f] = 1 /\ db.cache[f] = NotCached /\ HasX20(db.proto[f])

BeforeStart == ~db.started => \A f \in Funcs : ~db.printed[f] /\ missed[f] = 0

IInv ==
    /\ code \in Programs /\ present \subseteq Funcs /\ edits \in 0..MaxEdits
    /\ missed \in [Funcs -> Nat]
    /\ Good(db) /\ Shown(db) /\ Misses /\ BeforeStart

----------------------------------------------------------------------------
(* Prototypes.                                                             *)

Keeps(p, q) == q \in ProtoType /\ Proper(q) /\ (HasX20(p) => q = p)
SameX20(p, q) == q.self = p.self /\ q.captures = p.captures

LEMMA KeepsTransitive ==
    ASSUME NEW p, NEW q, NEW r, Keeps(p, q), Keeps(q, r)
    PROVE  Keeps(p, r)
BY DEF Keeps

LEMMA NoProtoProper == NoProto \in ProtoType /\ Proper(NoProto) /\ ~HasX20(NoProto)
BY DEF NoProto, ProtoType, Proper, HasX20

LEMMA CachedIsNot == ASSUME NEW p \in ProtoType PROVE p # NotCached
<1>1. p.cc # "not cached"
  BY DEF ProtoType
<1>2. NotCached.cc = "not cached"
  BY DEF NotCached, NoProto
<1> QED BY <1>1, <1>2

LEMMA ClassCallTypeKeeps ==
    ASSUME NEW p \in ProtoType, Proper(p), Typeable(p)
    PROVE  Keeps(p, ClassCallType(p)) /\ ClassCallType(p).captures = NoSite
<1>1. ~p.self /\ p.captures = NoSite
  BY DEF Typeable, Proper
<1> DEFINE q == ClassCallType(p)
<1>2. q \in ProtoType
  BY DEF ClassCallType, ProtoType
<1>3. q.cc = "swift" /\ q.captures = p.captures
  BY DEF ClassCallType, ProtoType
<1> HIDE DEF q
<1>4. Keeps(p, q) /\ q.captures = NoSite
  BY <1>1, <1>2, <1>3 DEF Keeps, Proper, HasX20
<1> QED BY <1>4 DEF q

LEMMA CapturesKeeps ==
    ASSUME NEW p \in ProtoType, NEW s \in ProtoType, Proper(p), ~HasX20(p), ~HasX20(s),
           NEW site \in Funcs \cup {NoSite}
    PROVE  Keeps(p, [s EXCEPT !.captures = site, !.cc = "special"])
<1> DEFINE q == [s EXCEPT !.captures = site, !.cc = "special"]
<1>1. q \in ProtoType /\ q.cc = "special" /\ q.self = s.self
  BY DEF ProtoType
<1> HIDE DEF q
<1>2. Keeps(p, q)
  BY <1>1 DEF Keeps, Proper, HasX20
<1> QED BY <1>2 DEF q

LEMMA NativeKeeps ==
    ASSUME NEW p \in ProtoType, Proper(p), p.cc = "none"
    PROVE  /\ Keeps(p, [p EXCEPT !.cc = "native"])
           /\ SameX20(p, [p EXCEPT !.cc = "native"])
<1> DEFINE q == [p EXCEPT !.cc = "native"]
<1>1. q \in ProtoType /\ q.self = p.self /\ q.captures = p.captures
  BY DEF ProtoType
<1>2. ~HasX20(p)
  BY DEF HasX20, Proper
<1> HIDE DEF q
<1>3. Keeps(p, q) /\ SameX20(p, q)
  BY <1>1, <1>2 DEF Keeps, Proper, HasX20, SameX20
<1> QED BY <1>3 DEF q

----------------------------------------------------------------------------
(* Steps inside a decompilation of f: prototypes are kept, and a function  *)
(* other than f whose X20 changes is no longer cached.                     *)

SameFrames(d, e) == e.alloca = d.alloca /\ e.frame = d.frame /\ e.grown = d.grown
SameShown(d, e) == e.printed = d.printed /\ e.started = d.started

Uncached(d, e, b) ==
    e.cache[b] = NotCached \/ (e.cache[b] = d.cache[b] /\ SameX20(d.proto[b], e.proto[b]))

Evolves(d, e, f) ==
    /\ e \in DbType /\ SameFrames(d, e) /\ SameShown(d, e)
    /\ \A b \in Funcs : Keeps(d.proto[b], e.proto[b]) /\ (b # f => Uncached(d, e, b))

ProperDb(d) == d \in DbType /\ \A b \in Funcs : Proper(d.proto[b])

LEMMA EvolvesProper ==
    ASSUME NEW d, NEW e, NEW f, Evolves(d, e, f)
    PROVE  ProperDb(e)
BY DEF Evolves, ProperDb, Keeps

LEMMA EvolvesTransitive ==
    ASSUME NEW d, NEW e, NEW x, NEW f, Evolves(d, e, f), Evolves(e, x, f)
    PROVE  Evolves(d, x, f)
<1>1. x \in DbType /\ SameFrames(d, x) /\ SameShown(d, x)
  BY DEF Evolves, SameFrames, SameShown
<1>2. ASSUME NEW b \in Funcs PROVE Keeps(d.proto[b], x.proto[b]) /\ (b # f => Uncached(d, x, b))
  <2>1. Keeps(d.proto[b], x.proto[b])
    BY KeepsTransitive DEF Evolves
  <2>2. b # f => Uncached(d, x, b)
    BY DEF Evolves, Uncached, SameX20
  <2> QED BY <2>1, <2>2
<1> QED BY <1>1, <1>2 DEF Evolves

LEMMA KeepsSelf ==
    ASSUME NEW p \in ProtoType, Proper(p)
    PROVE  Keeps(p, p) /\ SameX20(p, p)
BY DEF Keeps, SameX20

LEMMA EvolvesSelf ==
    ASSUME NEW d, ProperDb(d), NEW f
    PROVE  Evolves(d, d, f)
<1>1. \A b \in Funcs : d.proto[b] \in ProtoType
  BY DEF ProperDb, DbType
<1>2. \A b \in Funcs : Keeps(d.proto[b], d.proto[b]) /\ Uncached(d, d, b)
  BY <1>1, KeepsSelf DEF ProperDb, Uncached
<1> QED BY <1>2 DEF Evolves, ProperDb, SameFrames, SameShown

\* A step that changes prototypes only.
LEMMA ProtoEvolves ==
    ASSUME NEW d, ProperDb(d), NEW f, NEW g,
           \A b \in Funcs : Keeps(d.proto[b], g[b]) /\ (b # f => SameX20(d.proto[b], g[b])),
           g \in [Funcs -> ProtoType]
    PROVE  Evolves(d, [d EXCEPT !.proto = g], f)
<1> DEFINE e == [d EXCEPT !.proto = g]
<1>1. e \in DbType
  BY DEF ProperDb, DbType
<1>2. /\ e.proto = g /\ e.cache = d.cache /\ e.alloca = d.alloca /\ e.frame = d.frame
      /\ e.grown = d.grown /\ e.printed = d.printed /\ e.started = d.started
  BY DEF ProperDb, DbType
<1> HIDE DEF e
<1>3. Evolves(d, e, f)
  BY <1>1, <1>2 DEF Evolves, SameFrames, SameShown, Uncached
<1> QED BY <1>3 DEF e

\* A step that changes one prototype.
LEMMA OneProtoEvolves ==
    ASSUME NEW d, ProperDb(d), NEW f \in Funcs, NEW q, Keeps(d.proto[f], q)
    PROVE  Evolves(d, [d EXCEPT !.proto[f] = q], f)
<1> DEFINE g == [d.proto EXCEPT ![f] = q]
<1>1. d.proto \in [Funcs -> ProtoType] /\ q \in ProtoType
  BY DEF ProperDb, DbType, Keeps
<1>2. g \in [Funcs -> ProtoType] /\ g[f] = q /\ \A b \in Funcs : b # f => g[b] = d.proto[b]
  BY <1>1
<1>3. \A b \in Funcs : Keeps(d.proto[b], d.proto[b]) /\ SameX20(d.proto[b], d.proto[b])
  BY <1>1, KeepsSelf DEF ProperDb
<1>4. [d EXCEPT !.proto[f] = q] = [d EXCEPT !.proto = g]
  BY DEF ProperDb, DbType
<1> HIDE DEF g
<1>5. \A b \in Funcs : Keeps(d.proto[b], g[b]) /\ (b # f => SameX20(d.proto[b], g[b]))
  BY <1>2, <1>3
<1>6. Evolves(d, [d EXCEPT !.proto = g], f)
  BY <1>2, <1>5, ProtoEvolves
<1> QED BY <1>4, <1>6

LEMMA ClassCallEvolves ==
    ASSUME NEW d, ProperDb(d), NEW f \in Funcs
    PROVE  Evolves(d, ClassCall(d, f), f)
<1>1. CASE UsesX20(f) /\ Typeable(d.proto[f])
  <2>1. d.proto[f] \in ProtoType /\ Proper(d.proto[f])
    BY DEF ProperDb, DbType
  <2>2. Keeps(d.proto[f], ClassCallType(d.proto[f]))
    BY <1>1, <2>1, ClassCallTypeKeeps
  <2>3. ClassCall(d, f) = [d EXCEPT !.proto[f] = ClassCallType(d.proto[f])]
    BY <1>1 DEF ClassCall
  <2> QED BY <2>2, <2>3, OneProtoEvolves
<1>2. CASE ~(UsesX20(f) /\ Typeable(d.proto[f]))
  BY <1>2, EvolvesSelf DEF ClassCall
<1> QED BY <1>1, <1>2

LEMMA InferredEvolves ==
    ASSUME NEW d, ProperDb(d), NEW f \in Funcs
    PROVE  Evolves(d, Inferred(d, f), f)
<1> DEFINE Q(g) == g \in code.calls[f] \cap code.imports /\ d.proto[g].cc = "none"
           h == [g \in Funcs |-> IF Q(g) THEN [d.proto[g] EXCEPT !.cc = "native"] ELSE d.proto[g]]
<1>1. Inferred(d, f) = [d EXCEPT !.proto = h]
  BY DEF Inferred
<1>2. ASSUME NEW b \in Funcs
      PROVE  Keeps(d.proto[b], h[b]) /\ SameX20(d.proto[b], h[b])
  <2>1. d.proto[b] \in ProtoType /\ Proper(d.proto[b])
    BY DEF ProperDb, DbType
  <2>2. CASE Q(b)
    BY <2>1, <2>2, NativeKeeps
  <2>3. CASE ~Q(b)
    BY <2>1, <2>3, KeepsSelf
  <2> QED BY <2>2, <2>3
<1>3. h \in [Funcs -> ProtoType]
  <2>1. \A b \in Funcs : h[b] \in ProtoType
    <3> HIDE DEF h
    <3> QED BY <1>2 DEF Keeps
  <2> QED BY <2>1
<1> HIDE DEF h
<1> QED BY <1>1, <1>2, <1>3, ProtoEvolves

LEMMA TypeBodyEvolves ==
    ASSUME NEW d, ProperDb(d), NEW f \in Funcs,
           NEW seen \in ProtoType, Keeps(seen, d.proto[f])
    PROVE  Evolves(d, TypeBody(d, f, seen), f)
<1>1. CASE d.bodyOf[f] = NoSite \/ HasX20(d.proto[f])
  BY <1>1, EvolvesSelf DEF TypeBody
<1>2. CASE ~(d.bodyOf[f] = NoSite \/ HasX20(d.proto[f]))
  <2> DEFINE q == [seen EXCEPT !.captures = d.bodyOf[f], !.cc = "special"]
  <2>1. d.proto[f] \in ProtoType /\ Proper(d.proto[f]) /\ d.bodyOf[f] \in Funcs \cup {NoSite}
    BY DEF ProperDb, DbType
  <2>2. ~HasX20(seen)
    BY <1>2 DEF Keeps
  <2>3. Keeps(d.proto[f], q)
    BY <1>2, <2>1, <2>2, CapturesKeeps
  <2>4. TypeBody(d, f, seen) = [d EXCEPT !.proto[f] = q]
    BY <1>2 DEF TypeBody
  <2> HIDE DEF q
  <2> QED BY <2>3, <2>4, OneProtoEvolves
<1> QED BY <1>1, <1>2

LEMMA TypeClosuresEvolves ==
    ASSUME NEW d, ProperDb(d), NEW f \in Funcs
    PROVE  Evolves(d, TypeClosures(d, f), f)
<1> DEFINE B == ClosureBodies(f)
           e == TypeClosures(d, f)
           lay == IF B = {} THEN d.layout ELSE EnsureLayout(d.layout, f)
           bod == [b \in Funcs |-> IF b \in B THEN f ELSE d.bodyOf[b]]
           pro == [b \in Funcs |->
                     IF b \in B /\ IsTrampoline(b) THEN ApplyCaptures(d.proto[b], f) ELSE d.proto[b]]
           cac == [b \in Funcs |-> IF b \in B THEN NotCached ELSE d.cache[b]]
<1>1. d \in DbType /\ \A b \in Funcs : d.proto[b] \in ProtoType /\ Proper(d.proto[b])
  BY DEF ProperDb, DbType
<1>2. \A b \in Funcs : Keeps(d.proto[b], d.proto[b]) /\ SameX20(d.proto[b], d.proto[b])
  BY <1>1, KeepsSelf
<1>3. ASSUME NEW b \in Funcs PROVE Keeps(d.proto[b], ApplyCaptures(d.proto[b], f))
  BY <1>1, <1>2, CapturesKeeps DEF ApplyCaptures
<1>4. ASSUME NEW b \in Funcs
      PROVE  /\ Keeps(d.proto[b], pro[b])
             /\ cac[b] = NotCached \/ (cac[b] = d.cache[b] /\ SameX20(d.proto[b], pro[b]))
  BY <1>2, <1>3
<1>5. lay \in [Funcs -> {"none", "slots", "user"}]
  BY <1>1 DEF DbType, EnsureLayout
<1>6. bod \in [Funcs -> Funcs \cup {NoSite}] /\ cac \in [Funcs -> ProtoType \cup {NotCached}]
  BY <1>1 DEF DbType
<1>7. pro \in [Funcs -> ProtoType]
  <2>1. \A b \in Funcs : pro[b] \in ProtoType
    <3> HIDE DEF pro
    <3> QED BY <1>4 DEF Keeps
  <2> QED BY <2>1
<1>8. e = [d EXCEPT !.layout = lay, !.bodyOf = bod, !.proto = pro, !.cache = cac]
  BY DEF TypeClosures
<1> HIDE DEF e, lay, bod, pro, cac
<1>9. /\ e \in DbType
      /\ e.proto = pro /\ e.cache = cac /\ e.alloca = d.alloca /\ e.frame = d.frame
      /\ e.grown = d.grown /\ e.printed = d.printed /\ e.started = d.started
  BY <1>1, <1>5, <1>6, <1>7, <1>8 DEF DbType
<1>10. Evolves(d, e, f)
  BY <1>4, <1>9 DEF Evolves, SameFrames, SameShown, Uncached
<1> QED BY <1>10 DEF e

LEMMA PrologEvolves ==
    ASSUME NEW d, ProperDb(d), NEW f \in Funcs,
           NEW seen \in ProtoType, Keeps(seen, d.proto[f])
    PROVE  Evolves(d, PrologCpa(d, f, seen), f)
<1> DEFINE e == TypeClosures(d, f)
<1>1. Evolves(d, e, f)
  BY TypeClosuresEvolves
<1> HIDE DEF e
<1>2. Keeps(seen, e.proto[f]) /\ ProperDb(e)
  BY <1>1, KeepsTransitive, EvolvesProper DEF Evolves
<1>3. Evolves(e, TypeBody(e, f, seen), f)
  BY <1>2, TypeBodyEvolves
<1>4. Evolves(d, TypeBody(e, f, seen), f)
  BY <1>1, <1>3, EvolvesTransitive
<1> QED BY <1>4 DEF PrologCpa, e

----------------------------------------------------------------------------
(* A decompilation: the frame, the hooks, the storage.                     *)

LEMMA ExpandFrameEffect ==
    ASSUME NEW d, Good(d), NEW f \in Funcs, NEW e, e = ExpandFrame(d, f)
    PROVE  /\ ProperDb(e) /\ SameShown(d, e)
           /\ e.proto = d.proto /\ e.cache = d.cache /\ e.alloca = d.alloca
           /\ \A b \in Funcs : e.frame[b] = e.grown[b] /\ (b # f => e.grown[b] = d.grown[b])
           /\ f \notin code.rigid => e.alloca[f] \in {0, e.grown[f]}
<1>1. d \in DbType /\ ProperDb(d) /\ \A b \in Funcs : d.frame[b] = d.grown[b]
  BY DEF Good, ProperDb, FrameOf
<1>2. CASE d.alloca[f] \in {0, d.grown[f]} \/ f \in code.rigid
  <2>1. e = d
    BY <1>2 DEF ExpandFrame, DynamicAlloca
  <2> QED BY <1>1, <1>2, <2>1 DEF SameShown
<1>3. CASE ~(d.alloca[f] \in {0, d.grown[f]} \/ f \in code.rigid)
  <2> DEFINE fr == [d.frame EXCEPT ![f] = d.frame[f] - d.grown[f] + d.alloca[f]]
             gr == [d.grown EXCEPT ![f] = d.alloca[f]]
  <2>1. e = [d EXCEPT !.frame = fr, !.grown = gr]
    <3>1. e = [d EXCEPT !.frame[f] = d.frame[f] - d.grown[f] + d.alloca[f], !.grown[f] = d.alloca[f]]
      BY <1>3 DEF ExpandFrame, DynamicAlloca
    <3> QED BY <1>1, <3>1 DEF DbType
  <2>2. d.frame \in [Funcs -> Nat] /\ d.grown \in [Funcs -> Nat] /\ d.alloca \in [Funcs -> Nat]
    BY <1>1 DEF DbType
  <2>3. d.frame[f] - d.grown[f] + d.alloca[f] = d.alloca[f]
    BY <1>1, <2>2
  <2>4. fr \in [Funcs -> Nat] /\ gr \in [Funcs -> Nat] /\ fr[f] = d.alloca[f] /\ gr[f] = d.alloca[f]
        /\ \A b \in Funcs : b # f => fr[b] = d.frame[b] /\ gr[b] = d.grown[b]
    BY <2>2, <2>3
  <2> HIDE DEF fr, gr
  <2>5. /\ e \in DbType /\ e.frame = fr /\ e.grown = gr /\ e.proto = d.proto
        /\ e.cache = d.cache /\ e.alloca = d.alloca /\ SameShown(d, e)
    BY <1>1, <2>1, <2>4 DEF DbType, SameShown
  <2>6. \A b \in Funcs : fr[b] = gr[b]
    BY <1>1, <2>4
  <2>7. ProperDb(e)
    BY <1>1, <2>5 DEF ProperDb
  <2> QED BY <2>4, <2>5, <2>6, <2>7
<1> QED BY <1>2, <1>3

\* What a decompilation of f does to every function.
Decompiled(d, r, f) ==
    /\ Good(r) /\ r.started = d.started
    /\ r.cache[f] = d.proto[f] /\ ~r.printed[f]
    /\ \A b \in Funcs :
         /\ Keeps(d.proto[b], r.proto[b])
         /\ b # f => Uncached(d, r, b) /\ r.printed[b] = d.printed[b]

LEMMA DecompileEffect ==
    ASSUME NEW d, Good(d), NEW f \in Funcs, NEW first, d.cache[f] = NotCached
    PROVE  Decompiled(d, Decompile(d, f, first), f)
<1> DEFINE seen == d.proto[f]
           e == ExpandFrame(d, f)
           start == Inferred(e, f)
           cpa == IF first = "class" THEN PrologCpa(ClassCall(start, f), f, seen)
                  ELSE ClassCall(PrologCpa(start, f, seen), f)
           x == ClassCall(cpa, f)
           r == StoreResult(x, f, seen)
<1>1. Decompile(d, f, first) = r
  BY DEF Decompile
<1>2. seen \in ProtoType /\ Proper(seen) /\ Keeps(seen, seen) /\ seen # NotCached
  BY KeepsSelf, CachedIsNot DEF Good, DbType
<1>3. /\ ProperDb(e) /\ SameShown(d, e)
      /\ e.proto = d.proto /\ e.cache = d.cache /\ e.alloca = d.alloca
      /\ \A b \in Funcs : e.frame[b] = e.grown[b] /\ (b # f => e.grown[b] = d.grown[b])
      /\ f \notin code.rigid => e.alloca[f] \in {0, e.grown[f]}
  BY ExpandFrameEffect
<1> HIDE DEF e
<1>4. Evolves(e, start, f)
  BY <1>3, InferredEvolves
<1>5. Keeps(seen, start.proto[f])
  BY <1>3, <1>4 DEF Evolves
<1> HIDE DEF start, seen
<1>6. Evolves(e, cpa, f)
  <2>1. ProperDb(start)
    BY <1>4, EvolvesProper
  <2>2. CASE first = "class"
    <3> DEFINE y == ClassCall(start, f)
    <3>1. Evolves(start, y, f)
      BY <2>1, ClassCallEvolves
    <3> HIDE DEF y
    <3>2. ProperDb(y) /\ Keeps(seen, y.proto[f])
      BY <1>5, <3>1, EvolvesProper, KeepsTransitive DEF Evolves
    <3>3. Evolves(y, PrologCpa(y, f, seen), f)
      BY <1>2, <3>2, PrologEvolves
    <3>4. Evolves(e, PrologCpa(y, f, seen), f)
      BY <1>4, <3>1, <3>3, EvolvesTransitive
    <3> QED BY <2>2, <3>4 DEF y
  <2>3. CASE first # "class"
    <3> DEFINE y == PrologCpa(start, f, seen)
    <3>1. Evolves(start, y, f)
      BY <1>2, <1>5, <2>1, PrologEvolves
    <3> HIDE DEF y
    <3>2. Evolves(y, ClassCall(y, f), f)
      BY <3>1, EvolvesProper, ClassCallEvolves
    <3>3. Evolves(e, ClassCall(y, f), f)
      BY <1>4, <3>1, <3>2, EvolvesTransitive
    <3> QED BY <2>3, <3>3 DEF y
  <2> QED BY <2>2, <2>3
<1> HIDE DEF cpa
<1>7. Evolves(e, x, f)
  <2>1. Evolves(cpa, x, f)
    BY <1>6, EvolvesProper, ClassCallEvolves
  <2> HIDE DEF x
  <2> QED BY <1>6, <2>1, EvolvesTransitive
<1> HIDE DEF x
<1>8. /\ r \in DbType /\ r.proto = x.proto /\ r.alloca = x.alloca /\ r.frame = x.frame
      /\ r.grown = x.grown /\ r.started = x.started /\ ~r.printed[f] /\ r.cache[f] = seen
      /\ \A b \in Funcs : b # f => r.cache[b] = x.cache[b] /\ r.printed[b] = x.printed[b]
  BY <1>2, <1>7 DEF Evolves, DbType, StoreResult
<1> HIDE DEF r
<1>9. ASSUME NEW b \in Funcs
      PROVE  /\ Keeps(d.proto[b], r.proto[b])
             /\ b # f => Uncached(d, r, b) /\ r.printed[b] = d.printed[b]
             /\ Proper(r.proto[b]) /\ FrameOf(r, b)
  <2>1. Keeps(d.proto[b], r.proto[b]) /\ Proper(r.proto[b])
    BY <1>3, <1>7, <1>8 DEF Evolves, Keeps
  <2>2. b # f => Uncached(d, r, b)
    BY <1>3, <1>7, <1>8 DEF Evolves, Uncached
  <2>3. b # f => r.printed[b] = d.printed[b]
    BY <1>3, <1>7, <1>8 DEF Evolves, SameShown
  <2>4. r.alloca = d.alloca /\ r.frame[b] = r.grown[b] /\ (b # f => r.grown[b] = d.grown[b])
        /\ (f \notin code.rigid => r.alloca[f] \in {0, r.grown[f]})
    BY <1>3, <1>7, <1>8 DEF Evolves, SameFrames
  <2>5. FrameOf(d, b)
    BY DEF Good
  <2>6. FrameOf(r, b)
    BY <2>2, <2>4, <2>5 DEF FrameOf, Uncached
  <2> QED BY <2>1, <2>2, <2>3, <2>6
<1>10. Decompiled(d, r, f)
  BY <1>3, <1>7, <1>8, <1>9 DEF Decompiled, Good, seen, Evolves, SameShown
<1> QED BY <1>1, <1>10

----------------------------------------------------------------------------
(* The start: Throwing is a recursive function over the list of functions. *)

Fresh(d) == Good(d) /\ ~d.started /\ \A b \in Funcs : ~d.printed[b]

LEMMA ProtoFresh ==
    ASSUME NEW d, Fresh(d), NEW g \in [Funcs -> ProtoType], \A b \in Funcs : Proper(g[b])
    PROVE  Fresh([d EXCEPT !.proto = g])
<1> DEFINE e == [d EXCEPT !.proto = g]
<1>1. /\ e \in DbType /\ e.proto = g /\ e.cache = d.cache /\ e.alloca = d.alloca
      /\ e.frame = d.frame /\ e.grown = d.grown /\ e.printed = d.printed /\ e.started = d.started
  BY DEF Fresh, Good, DbType
<1> HIDE DEF e
<1>2. Fresh(e)
  BY <1>1 DEF Fresh, Good, FrameOf
<1> QED BY <1>2 DEF e

LEMMA ResolveFresh ==
    ASSUME SwiftAssumption, NEW d, Fresh(d), NEW f \in Funcs
    PROVE  Fresh(ResolveType(d, f))
<1>1. CASE HasArguments(d, f) \/ Callers(f) = {}
  BY <1>1 DEF ResolveType
<1>2. CASE ~HasArguments(d, f) /\ Callers(f) # {}
  <2> DEFINE i == CHOOSE i \in Callers(f) : \A j \in Callers(f) : i <= j
             g == Order[i]
             r == Decompile(d, g, "class")
  <2>1. Callers(f) \in SUBSET Nat
    BY DEF Callers, SwiftAssumption
  <2>2. \E k \in Callers(f) : \A j \in Callers(f) : k <= j
    BY <1>2, <2>1, LeastElement
  <2>3. i \in Callers(f)
    BY <2>2
  <2>4. g \in Funcs
    BY <2>3 DEF Callers, Funcs
  <2>5. ResolveType(d, f) = r
    BY <1>2 DEF ResolveType
  <2> HIDE DEF g, i
  <2>6. CASE d.cache[g] # NotCached
    BY <2>5, <2>6 DEF Decompile
  <2>7. CASE d.cache[g] = NotCached
    <3>1. Decompiled(d, r, g)
      BY <2>4, <2>7, DecompileEffect DEF Fresh
    <3> HIDE DEF r
    <3>2. Fresh(r)
      BY <3>1 DEF Fresh, Decompiled
    <3> QED BY <2>5, <3>2
  <2> QED BY <2>6, <2>7
<1> QED BY <1>1, <1>2

LEMMA SpoilsFresh ==
    ASSUME NEW d, Fresh(d), NEW f \in Funcs
    PROVE  Fresh(EnsureSpoils(d, f))
<1>1. CASE ~(HasArguments(d, f) /\ ~d.proto[f].spoils)
  BY <1>1 DEF EnsureSpoils
<1>2. CASE HasArguments(d, f) /\ ~d.proto[f].spoils
  <2> DEFINE q == [d.proto[f] EXCEPT !.spoils = TRUE, !.cc = "special"]
             g == [d.proto EXCEPT ![f] = q]
  <2>1. d.proto \in [Funcs -> ProtoType] /\ d.proto[f] \in ProtoType
        /\ \A b \in Funcs : Proper(d.proto[b])
    BY DEF Fresh, Good, DbType
  <2>2. q \in ProtoType /\ q.cc = "special" /\ q.self = d.proto[f].self
        /\ q.captures = d.proto[f].captures
    BY <2>1 DEF ProtoType
  <2>3. EnsureSpoils(d, f) = [d EXCEPT !.proto = g]
    <3>1. EnsureSpoils(d, f) = [d EXCEPT !.proto[f] = q]
      <4>1. EnsureSpoils(d, f) = [d EXCEPT !.proto[f].spoils = TRUE, !.proto[f].cc = "special"]
        BY <1>2 DEF EnsureSpoils
      <4>2. d \in DbType
        BY DEF Fresh, Good
      <4> QED BY <2>1, <4>1, <4>2 DEF DbType
    <3> QED BY <3>1 DEF Fresh, Good, DbType
  <2> HIDE DEF q
  <2>4. Proper(q)
    BY <2>1, <2>2 DEF Proper
  <2>5. g \in [Funcs -> ProtoType] /\ \A b \in Funcs : Proper(g[b])
    BY <2>1, <2>2, <2>4
  <2> HIDE DEF g
  <2> QED BY <2>3, <2>5, ProtoFresh
<1> QED BY <1>1, <1>2

LEMMA ThrowingFresh ==
    ASSUME SwiftAssumption, NEW d, Fresh(d), d \in DbType
    PROVE  Fresh(Throwing(d))
<1> DEFINE n == Len(Order)
           G == {e \in DbType : Fresh(e)}
           Ensure(e, i) == IF Throws(Order[i])
                           THEN EnsureSpoils(ResolveType(e, Order[i]), Order[i]) ELSE e
           E(f) == [i \in 0..n |->
                      IF i = 0 THEN d
                      ELSE IF Throws(Order[i])
                           THEN CHOOSE r \in {EnsureSpoils(e, Order[i]) :
                                              e \in {ResolveType(f[i - 1], Order[i])}} : TRUE
                      ELSE f[i - 1]]
           F == CHOOSE f : f = E(f)
           step == [i \in Nat |-> [e \in G |-> IF i \in 1..n THEN Ensure(e, i) ELSE e]]
<1>1. n \in Nat /\ d \in G /\ \A i \in 1..n : Order[i] \in Funcs
  BY DEF SwiftAssumption, Funcs
<1>2. Throwing(d) = F[n]
  BY DEF Throwing
<1>3. \A f : \A i \in 0..n : E(f)[i] = IF i = 0 THEN d ELSE Ensure(f[i - 1], i)
  OBVIOUS
<1>4. ASSUME NEW e \in G, NEW i \in 1..n PROVE Ensure(e, i) \in G
  <2>1. Order[i] \in Funcs
    BY <1>1
  <2>2. Fresh(e)
    OBVIOUS
  <2>3. Fresh(ResolveType(e, Order[i]))
    BY <2>1, <2>2, ResolveFresh
  <2>4. Fresh(EnsureSpoils(ResolveType(e, Order[i]), Order[i]))
    BY <2>1, <2>3, SpoilsFresh
  <2>5. Fresh(Ensure(e, i))
    BY <2>2, <2>4
  <2> HIDE DEF Ensure
  <2> QED BY <2>5 DEF Fresh, Good
<1> HIDE DEF G, E, Ensure
<1>5. step \in [Nat -> [G -> G]]
  BY <1>4
<1>6. PICK g : IsRecursion(g, n, G, d, step)
  <2> HIDE DEF step, n
  <2> QED BY <1>1, <1>5, RecursionExists
<1>7. g \in [0..n -> G] /\ g[0] = d /\ \A i \in 1..n : g[i] = Ensure(g[i - 1], i)
  <2>1. g \in [0..n -> G] /\ g[0] = d /\ \A i \in 1..n : g[i] = step[i][g[i - 1]]
    <3> HIDE DEF step
    <3> QED BY <1>6 DEF IsRecursion
  <2>2. ASSUME NEW i \in 1..n PROVE g[i] = Ensure(g[i - 1], i)
    <3>1. g[i - 1] \in G /\ i \in Nat
      <4> HIDE DEF n, step
      <4>1. i - 1 \in 0..n /\ i \in Nat
        BY <1>1
      <4> QED BY <2>1, <4>1
    <3>2. step[i][g[i - 1]] = Ensure(g[i - 1], i)
      BY <3>1
    <3> QED BY <2>1, <3>2
  <2> QED BY <2>1, <2>2
<1> HIDE DEF step
<1>8. g = E(g)
  <2>1. \A i \in 0..n : g[i] = E(g)[i]
    BY <1>1, <1>3, <1>7
  <2>2. E(g) = [i \in 0..n |-> E(g)[i]] /\ g = [i \in 0..n |-> g[i]]
    BY <1>7 DEF E
  <2>3. [i \in 0..n |-> E(g)[i]] = [i \in 0..n |-> g[i]]
    <3> HIDE DEF n
    <3> QED BY <2>1
  <2> QED BY <2>2, <2>3
<1>9. F = E(F)
  <2>1. \E f : f = E(f)
    BY <1>8
  <2> QED BY <2>1
<1>10. F[0] = d /\ \A i \in 1..n : F[i] = Ensure(F[i - 1], i)
  <2> HIDE DEF F
  <2>1. \A i \in 0..n : F[i] = IF i = 0 THEN d ELSE Ensure(F[i - 1], i)
    BY <1>3, <1>9
  <2> QED BY <1>1, <2>1
<1> HIDE DEF F
<1>11. n \in {i \in 0..n : F[i] \in G}
  <2> DEFINE S == {i \in 0..n : F[i] \in G}
  <2>1. 0 \in S
    BY <1>1, <1>10
  <2>2. \A i \in 1..n : i - 1 \in S => i \in S
    BY <1>1, <1>4, <1>10
  <2> HIDE DEF S
  <2>3. 0..n \subseteq S
    BY <1>1, <2>1, <2>2, IntervalInduction
  <2>4. n \in 0..n
    BY <1>1
  <2> QED BY <2>3, <2>4 DEF S
<1> QED BY <1>2, <1>11 DEF G

LEMMA SignedFresh ==
    ASSUME SwiftAssumption, code \in Programs, NEW d, Fresh(d)
    PROVE  Fresh(Signed(d))
<1> DEFINE g == [f \in Funcs |-> IF Signature(f) # NoProto THEN Adapted(Signature(f)) ELSE d.proto[f]]
<1>1. Signed(d) = [d EXCEPT !.proto = g]
  BY DEF Signed
<1>2. ASSUME NEW f \in Funcs PROVE g[f] \in ProtoType /\ Proper(g[f])
  <2>1. d.proto[f] \in ProtoType /\ Proper(d.proto[f])
    BY DEF Fresh, Good, DbType
  <2> DEFINE p == Signature(f)
  <2>2. p \in ProtoType /\ Foreign(p)
    BY DEF Signature, SwiftAssumption, ProgramType
  <2> HIDE DEF p
  <2>3. Adapted(p) \in ProtoType
    BY <2>2 DEF Adapted, ProtoType
  <2>4. Proper(Adapted(p))
    <3>1. CASE p.cc = "swift"
      <4>1. Adapted(p) = [p EXCEPT !.self = p.self \/ ~NativeSwift]
        BY <3>1 DEF Adapted
      <4>2. Adapted(p).cc = "swift" /\ Adapted(p).captures = NoSite
        BY <2>2, <3>1, <4>1 DEF ProtoType, Foreign
      <4> QED BY <4>2 DEF Proper
    <3>2. CASE p.cc # "swift"
      BY <2>2, <3>2 DEF Adapted, Proper, Foreign
    <3> QED BY <3>1, <3>2
  <2> QED BY <2>1, <2>3, <2>4 DEF p
<1>3. g \in [Funcs -> ProtoType]
  BY <1>2
<1> HIDE DEF g
<1> QED BY <1>1, <1>2, <1>3, ProtoFresh

LEMMA ClassCallAllFresh ==
    ASSUME NEW d, Fresh(d)
    PROVE  Fresh(ClassCallAll(d))
<1> DEFINE Q(f) == f \in present /\ UsesX20(f) /\ Typeable(d.proto[f])
           g == [f \in Funcs |-> IF Q(f) THEN ClassCallType(d.proto[f]) ELSE d.proto[f]]
<1>1. ClassCallAll(d) = [d EXCEPT !.proto = g]
  BY DEF ClassCallAll
<1>2. ASSUME NEW f \in Funcs PROVE g[f] \in ProtoType /\ Proper(g[f])
  <2>1. d.proto[f] \in ProtoType /\ Proper(d.proto[f])
    BY DEF Fresh, Good, DbType
  <2>2. CASE Q(f)
    BY <2>1, <2>2, ClassCallTypeKeeps DEF Keeps
  <2>3. CASE ~Q(f)
    BY <2>1, <2>3
  <2> QED BY <2>2, <2>3
<1>3. g \in [Funcs -> ProtoType]
  BY <1>2
<1> HIDE DEF g
<1> QED BY <1>1, <1>2, <1>3, ProtoFresh

----------------------------------------------------------------------------
(* Steps outside a decompilation: one function is marked dirty.            *)

Dirtied(d, e, f) ==
    /\ e \in DbType /\ e.frame = d.frame /\ e.grown = d.grown /\ e.started = d.started
    /\ e.cache[f] = NotCached /\ Proper(e.proto[f])
    /\ \A b \in Funcs : b # f => /\ e.proto[b] = d.proto[b] /\ e.cache[b] = d.cache[b]
                                 /\ e.alloca[b] = d.alloca[b] /\ e.printed[b] = d.printed[b]

LEMMA DirtiedGood ==
    ASSUME NEW d, Good(d), NEW f \in Funcs, NEW e, Dirtied(d, e, f)
    PROVE  Good(e)
<1>1. ASSUME NEW b \in Funcs PROVE Proper(e.proto[b]) /\ FrameOf(e, b)
  BY DEF Good, FrameOf, Dirtied
<1> QED BY <1>1 DEF Good, Dirtied

LEMMA DirtiedShown ==
    ASSUME NEW d, NEW f \in Funcs, NEW e, Dirtied(d, e, f),
           \A b \in Funcs : b # f /\ d.printed[b] /\ d.cache[b] # NotCached => ~Stale(d, b)
    PROVE  Shown(e)
BY DEF Shown, Stale, Dirtied

LEMMA MarkDirtied ==
    ASSUME NEW d, Good(d), NEW f \in Funcs, NEW e, e = MarkDirty(d, f)
    PROVE  Dirtied(d, e, f) /\ e.proto = d.proto /\ e.alloca = d.alloca /\ e.printed = d.printed
<1> DEFINE c == [d.cache EXCEPT ![f] = NotCached]
<1>1. d \in DbType /\ Proper(d.proto[f])
  BY DEF Good
<1>2. e = [d EXCEPT !.cache = c]
  BY <1>1 DEF MarkDirty, DbType
<1>3. c \in [Funcs -> ProtoType \cup {NotCached}] /\ c[f] = NotCached
      /\ \A b \in Funcs : b # f => c[b] = d.cache[b]
  BY <1>1 DEF DbType
<1> HIDE DEF c
<1>4. /\ e \in DbType /\ e.cache = c /\ e.frame = d.frame /\ e.grown = d.grown /\ e.started = d.started
      /\ e.proto = d.proto /\ e.alloca = d.alloca /\ e.printed = d.printed
  BY <1>1, <1>2, <1>3 DEF DbType
<1> QED BY <1>1, <1>3, <1>4 DEF Dirtied

\* What MarkDirty makes of a database that was changed at f only.
LEMMA MarkAfter ==
    ASSUME NEW d, Good(d), NEW f \in Funcs, NEW x, NEW e, e = MarkDirty(x, f),
           x \in DbType, x.frame = d.frame, x.grown = d.grown, x.started = d.started,
           x.cache = d.cache, x.printed = d.printed, Proper(x.proto[f]),
           \A b \in Funcs : b # f => x.proto[b] = d.proto[b] /\ x.alloca[b] = d.alloca[b]
    PROVE  Dirtied(d, e, f) /\ e.proto = x.proto
<1> DEFINE c == [x.cache EXCEPT ![f] = NotCached]
<1>1. e = [x EXCEPT !.cache = c]
  BY DEF MarkDirty, DbType
<1>2. c \in [Funcs -> ProtoType \cup {NotCached}] /\ c[f] = NotCached
      /\ \A b \in Funcs : b # f => c[b] = d.cache[b]
  BY DEF DbType
<1> HIDE DEF c
<1>3. /\ e \in DbType /\ e.cache = c /\ e.frame = x.frame /\ e.grown = x.grown
      /\ e.started = x.started /\ e.proto = x.proto /\ e.alloca = x.alloca /\ e.printed = x.printed
  BY <1>1, <1>2 DEF DbType
<1> QED BY <1>2, <1>3 DEF Dirtied

----------------------------------------------------------------------------
(* The invariant holds at first and every action keeps it.                 *)

LEMMA FrameLemma ==
    ASSUME code' = code, Good(db')
    PROVE  Good(db)'
BY DEF Good, FrameOf

LEMMA InitIInv == SwiftAssumption /\ SInit => IInv
<1> SUFFICES ASSUME SwiftAssumption, SInit PROVE IInv
  OBVIOUS
<1>1. code \in Programs /\ present \subseteq Funcs /\ edits \in 0..MaxEdits
      /\ missed \in [Funcs -> Nat] /\ \A f \in Funcs : missed[f] = 0
  BY DEF SInit, SwiftAssumption
<1>2. code.alloca \in [Funcs -> Nat]
  BY <1>1 DEF SwiftAssumption, ProgramType
<1>3. /\ db \in DbType
      /\ \A f \in Funcs : /\ db.proto[f] = NoProto /\ db.cache[f] = NotCached /\ ~db.printed[f]
                          /\ db.frame[f] = 0 /\ db.grown[f] = 0
  BY <1>2, NoProtoProper DEF SInit, Loaded, DbType
<1>4. Good(db)
  BY <1>3, NoProtoProper DEF Good, FrameOf
<1> QED BY <1>1, <1>3, <1>4 DEF IInv, Shown, Misses, BeforeStart

LEMMA FixIInv ==
    ASSUME SwiftAssumption, IInv, FixSwiftTypes
    PROVE  IInv'
<1> DEFINE x == ClassCallAll(Throwing(Signed(db)))
<1>1. Fresh(db) /\ \A f \in Funcs : missed[f] = 0
  BY DEF FixSwiftTypes, IInv, Fresh, BeforeStart
<1>2. Fresh(x)
  <2>1. Fresh(Signed(db))
    BY <1>1, SignedFresh DEF IInv
  <2>2. Fresh(Throwing(Signed(db)))
    BY <2>1, ThrowingFresh DEF Fresh, Good
  <2> QED BY <2>2, ClassCallAllFresh
<1>3. db' = [x EXCEPT !.started = TRUE] /\ UNCHANGED <<code, present, missed, edits>>
  BY DEF FixSwiftTypes
<1> HIDE DEF x
<1>4. /\ db' \in DbType /\ db'.proto = x.proto /\ db'.cache = x.cache /\ db'.alloca = x.alloca
      /\ db'.frame = x.frame /\ db'.grown = x.grown /\ db'.printed = x.printed /\ db'.started
  BY <1>2, <1>3 DEF Fresh, Good, DbType
<1>5. Good(db') /\ Shown(db')
  BY <1>2, <1>4 DEF Fresh, Good, FrameOf, Shown
<1>6. Good(db)'
  BY <1>3, <1>5, FrameLemma
<1> QED BY <1>1, <1>3, <1>4, <1>5, <1>6 DEF IInv, Shown, Misses, BeforeStart, Stale

LEMMA ViewIInv ==
    ASSUME SwiftAssumption, IInv, NEW f \in Funcs, View(f)
    PROVE  IInv'
<1>1. PICK first : \E d \in {Decompile(db, f, first)} :
              /\ db' = FuncPrinted(d, f)
              /\ missed' = [missed EXCEPT ![f] = IF Stale(d, f) THEN missed[f] + 1 ELSE 0]
  BY DEF View
<1> DEFINE d == Decompile(db, f, first)
<1>2. /\ db' = FuncPrinted(d, f)
      /\ missed' = [missed EXCEPT ![f] = IF Stale(d, f) THEN missed[f] + 1 ELSE 0]
  BY <1>1
<1>3. UNCHANGED <<code, present, edits>> /\ db.started
  BY DEF View
<1>4. missed \in [Funcs -> Nat] /\ Good(db) /\ Shown(db) /\ Misses
  BY DEF IInv
<1>5. /\ Good(d) /\ d.started /\ d.cache[f] # NotCached
      /\ d.printed[f] => ~Stale(d, f)
      /\ missed[f] > 0 => ~Stale(d, f)
      /\ \A b \in Funcs : b # f => Uncached(db, d, b) /\ d.printed[b] = db.printed[b]
      /\ \A b \in Funcs : HasX20(db.proto[b]) => d.proto[b] = db.proto[b]
  <2>1. CASE db.cache[f] # NotCached
    <3>1. d = db
      BY <2>1 DEF Decompile
    <3> HIDE DEF d
    <3> QED BY <1>3, <1>4, <2>1, <3>1 DEF Shown, Misses, Uncached, SameX20
  <2>2. CASE db.cache[f] = NotCached
    <3>1. Decompiled(db, d, f)
      BY <1>4, <2>2, DecompileEffect
    <3> HIDE DEF d
    <3>2. d.cache[f] # NotCached
      <4>1. db.proto[f] \in ProtoType
        BY <1>4 DEF Good, DbType
      <4> QED BY <3>1, <4>1, CachedIsNot DEF Decompiled
    <3>3. missed[f] > 0 => ~Stale(d, f)
      <4>1. SUFFICES ASSUME missed[f] > 0 PROVE ~Stale(d, f)
        OBVIOUS
      <4>2. d.proto[f] = db.proto[f] /\ d.cache[f] = db.proto[f]
        BY <1>4, <3>1, <4>1 DEF Misses, Decompiled, Keeps
      <4> QED BY <4>2 DEF Stale
    <3> QED BY <1>3, <3>1, <3>2, <3>3 DEF Decompiled, Keeps
  <2> QED BY <2>1, <2>2
<1> HIDE DEF d
<1>6. \A b \in Funcs : b # f /\ d.printed[b] /\ d.cache[b] # NotCached => ~Stale(d, b)
  BY <1>4, <1>5 DEF Shown, Uncached, SameX20, Stale
<1>7. /\ Good(db') /\ Shown(db') /\ db'.started /\ db'.proto = d.proto
      /\ \A b \in Funcs : b # f => db'.cache[b] = d.cache[b]
      /\ Stale(d, f) => db'.cache[f] = NotCached
  <2>1. CASE d.printed[f]
    <3>1. db' = d
      BY <1>2, <2>1 DEF FuncPrinted
    <3> QED BY <1>5, <1>6, <2>1, <3>1 DEF Shown
  <2>2. CASE ~d.printed[f] /\ Stale(d, f)
    <3>1. Dirtied(d, db', f) /\ db'.proto = d.proto
      BY <1>2, <1>5, <2>2, MarkDirtied DEF FuncPrinted
    <3>2. Good(db') /\ Shown(db')
      BY <1>5, <1>6, <3>1, DirtiedGood, DirtiedShown
    <3> QED BY <1>5, <3>1, <3>2 DEF Dirtied
  <2>3. CASE ~d.printed[f] /\ ~Stale(d, f)
    <3>1. db' = [d EXCEPT !.printed = [d.printed EXCEPT ![f] = TRUE]]
      <4>1. db' = [d EXCEPT !.printed[f] = TRUE]
        BY <1>2, <2>3 DEF FuncPrinted
      <4> QED BY <1>5, <4>1 DEF Good, DbType
    <3>2. /\ db' \in DbType /\ db'.proto = d.proto /\ db'.cache = d.cache /\ db'.alloca = d.alloca
          /\ db'.frame = d.frame /\ db'.grown = d.grown /\ db'.started
          /\ \A b \in Funcs : b # f => db'.printed[b] = d.printed[b]
      BY <1>5, <3>1 DEF Good, DbType
    <3>3. Good(db')
      BY <1>5, <3>2 DEF Good, FrameOf
    <3>4. Shown(db')
      BY <1>6, <2>3, <3>2 DEF Shown, Stale
    <3> QED BY <2>3, <3>2, <3>3, <3>4
  <2> QED BY <2>1, <2>2, <2>3
<1>8. Misses'
  <2>1. ASSUME NEW b \in Funcs, missed'[b] > 0
        PROVE  missed'[b] = 1 /\ db'.cache[b] = NotCached /\ HasX20(db'.proto[b])
    <3>1. CASE b = f
      <4>1. missed'[f] = (IF Stale(d, f) THEN missed[f] + 1 ELSE 0) /\ missed[f] \in Nat
        BY <1>2, <1>4
      <4>2. Stale(d, f) /\ missed[f] = 0 /\ missed'[f] = 1
        BY <1>5, <2>1, <3>1, <4>1
      <4>3. HasX20(d.proto[f])
        BY <4>2 DEF Stale, HasX20
      <4> QED BY <1>7, <3>1, <4>2, <4>3
    <3>2. CASE b # f
      <4>1. missed'[b] = missed[b]
        BY <1>2, <1>4, <3>2
      <4>2. missed[b] = 1 /\ db.cache[b] = NotCached /\ HasX20(db.proto[b])
        BY <1>4, <2>1, <4>1 DEF Misses
      <4>3. d.cache[b] = NotCached /\ d.proto[b] = db.proto[b]
        BY <1>5, <3>2, <4>2 DEF Uncached
      <4> QED BY <1>7, <3>2, <4>1, <4>2, <4>3
    <3> QED BY <3>1, <3>2
  <2> QED BY <2>1 DEF Misses
<1>9. missed' \in [Funcs -> Nat]
  BY <1>2, <1>4
<1>10. Good(db)'
  BY <1>3, <1>7, FrameLemma
<1> QED BY <1>3, <1>7, <1>8, <1>9, <1>10 DEF IInv, Shown, BeforeStart, Stale

LEMMA AddIInv ==
    ASSUME SwiftAssumption, IInv, NEW f \in Funcs, AddFunction(f)
    PROVE  IInv'
<1>1. Good(db) /\ Shown(db) /\ Misses /\ ProperDb(db)
  BY DEF IInv, Good, ProperDb
<1>2. /\ db.started /\ db' = FuncAdded(db, f) /\ present' = present \cup {f}
      /\ UNCHANGED <<code, missed, edits>>
  BY DEF AddFunction
<1>3. CASE ~(UsesX20(f) /\ Typeable(db.proto[f]))
  <2>1. db' = db
    BY <1>2, <1>3 DEF FuncAdded
  <2> QED BY <1>2, <2>1 DEF IInv, Good, FrameOf, Shown, Misses, BeforeStart, Stale
<1>4. CASE UsesX20(f) /\ Typeable(db.proto[f])
  <2> DEFINE q == ClassCallType(db.proto[f])
             g == [db.proto EXCEPT ![f] = q]
             x == [db EXCEPT !.proto = g]
  <2>1. db \in DbType /\ db.proto[f] \in ProtoType /\ Proper(db.proto[f])
    BY <1>1 DEF ProperDb, DbType
  <2>2. Keeps(db.proto[f], q)
    BY <1>4, <2>1, ClassCallTypeKeeps
  <2>3. ~HasX20(db.proto[f])
    BY <1>4, <2>1 DEF HasX20, Typeable, Proper
  <2> HIDE DEF q
  <2>4. g \in [Funcs -> ProtoType] /\ g[f] = q /\ \A b \in Funcs : b # f => g[b] = db.proto[b]
    BY <2>1, <2>2 DEF DbType, Keeps
  <2>5. ClassCall(db, f) = x
    <3>1. ClassCall(db, f) = [db EXCEPT !.proto[f] = q]
      BY <1>4 DEF ClassCall, q
    <3> QED BY <2>1, <3>1 DEF DbType
  <2> HIDE DEF g
  <2>6. /\ x \in DbType /\ x.proto = g /\ x.cache = db.cache /\ x.alloca = db.alloca
        /\ x.frame = db.frame /\ x.grown = db.grown /\ x.printed = db.printed
        /\ x.started = db.started
    BY <2>1, <2>4 DEF DbType
  <2>7. db' = MarkDirty(x, f)
    BY <1>2, <1>4, <2>5 DEF FuncAdded
  <2> HIDE DEF x
  <2>8. Dirtied(db, db', f)
    BY <1>1, <2>2, <2>4, <2>6, <2>7, MarkAfter DEF Keeps
  <2>9. Good(db') /\ Shown(db')
    BY <1>1, <2>8, DirtiedGood, DirtiedShown DEF Shown
  <2>10. Misses'
    BY <1>1, <1>2, <2>3, <2>8 DEF Misses, Dirtied
  <2>11. Good(db)' /\ db'.started
    BY <1>2, <2>8, <2>9, FrameLemma DEF Dirtied
  <2> QED BY <1>2, <2>9, <2>10, <2>11 DEF IInv, Shown, BeforeStart, Stale
<1> QED BY <1>3, <1>4

LEMMA EditTypeIInv ==
    ASSUME SwiftAssumption, IInv, NEW f \in Funcs, NEW p \in UserTypes, EditType(f, p)
    PROVE  IInv'
<1> DEFINE g == [db.proto EXCEPT ![f] = p]
           x == [db EXCEPT !.proto = g]
<1>1. Good(db) /\ Shown(db) /\ Misses /\ missed \in [Funcs -> Nat] /\ edits \in 0..MaxEdits
      /\ MaxEdits \in Nat /\ db \in DbType
  BY DEF IInv, Good, SwiftAssumption
<1>2. /\ db.started /\ db' = MarkDirty([db EXCEPT !.proto[f] = p], f) /\ edits < MaxEdits
      /\ edits' = edits + 1 /\ missed' = [missed EXCEPT ![f] = 0] /\ UNCHANGED <<code, present>>
  BY DEF EditType, Edit
<1>3. p \in ProtoType /\ Proper(p)
  BY DEF SwiftAssumption, Foreign, Proper
<1>4. g \in [Funcs -> ProtoType] /\ g[f] = p /\ \A b \in Funcs : b # f => g[b] = db.proto[b]
  BY <1>1, <1>3 DEF DbType
<1>5. db' = MarkDirty(x, f)
  BY <1>1, <1>2 DEF DbType
<1> HIDE DEF g
<1>6. /\ x \in DbType /\ x.proto = g /\ x.cache = db.cache /\ x.alloca = db.alloca
      /\ x.frame = db.frame /\ x.grown = db.grown /\ x.printed = db.printed
      /\ x.started = db.started
  BY <1>1, <1>4 DEF DbType
<1> HIDE DEF x
<1>7. Dirtied(db, db', f)
  BY <1>1, <1>3, <1>4, <1>5, <1>6, MarkAfter
<1>8. Good(db') /\ Shown(db')
  BY <1>1, <1>7, DirtiedGood, DirtiedShown DEF Shown
<1>9. Misses'
  <2> SUFFICES ASSUME NEW b \in Funcs, missed'[b] > 0
               PROVE  missed'[b] = 1 /\ db'.cache[b] = NotCached /\ HasX20(db'.proto[b])
    BY DEF Misses
  <2>1. b # f /\ missed'[b] = missed[b]
    BY <1>1, <1>2
  <2>2. db'.cache[b] = db.cache[b] /\ db'.proto[b] = db.proto[b]
    BY <1>7, <2>1 DEF Dirtied
  <2> QED BY <1>1, <2>1, <2>2 DEF Misses
<1>10. missed' \in [Funcs -> Nat] /\ edits' \in 0..MaxEdits
  BY <1>1, <1>2
<1>11. Good(db)' /\ db'.started
  BY <1>2, <1>7, <1>8, FrameLemma DEF Dirtied
<1> QED BY <1>2, <1>8, <1>9, <1>10, <1>11 DEF IInv, Shown, BeforeStart, Stale

LEMMA EditLayoutIInv ==
    ASSUME SwiftAssumption, IInv, NEW f \in Funcs, EditLayout(f)
    PROVE  IInv'
<1>1. Good(db) /\ Shown(db) /\ Misses /\ edits \in 0..MaxEdits /\ MaxEdits \in Nat /\ db \in DbType
  BY DEF IInv, Good, SwiftAssumption
<1>2. /\ db.started /\ db' = [db EXCEPT !.layout = [db.layout EXCEPT ![f] = "user"]]
      /\ edits < MaxEdits /\ edits' = edits + 1 /\ UNCHANGED <<code, present, missed>>
  BY <1>1 DEF EditLayout, Edit, DbType
<1>3. /\ db' \in DbType /\ db'.proto = db.proto /\ db'.cache = db.cache /\ db'.alloca = db.alloca
      /\ db'.frame = db.frame /\ db'.grown = db.grown /\ db'.printed = db.printed
      /\ db'.started = db.started
  BY <1>1, <1>2 DEF DbType
<1>4. edits' \in 0..MaxEdits
  BY <1>1, <1>2
<1> QED BY <1>2, <1>3, <1>4 DEF IInv, Good, FrameOf, Shown, Misses, BeforeStart, Stale

LEMMA PatchIInv ==
    ASSUME SwiftAssumption, IInv, NEW f \in Funcs, NEW size \in Sizes, Patch(f, size)
    PROVE  IInv'
<1> DEFINE a == [db.alloca EXCEPT ![f] = size]
           x == [db EXCEPT !.alloca = a]
<1>1. Good(db) /\ Shown(db) /\ Misses /\ edits \in 0..MaxEdits /\ MaxEdits \in Nat
      /\ db \in DbType /\ size \in Nat /\ Proper(db.proto[f])
  BY DEF IInv, Good, SwiftAssumption
<1>2. /\ db.started /\ db' = MarkDirty(x, f) /\ edits < MaxEdits /\ edits' = edits + 1
      /\ UNCHANGED <<code, present, missed>>
  BY <1>1 DEF Patch, Edit, DbType
<1>3. a \in [Funcs -> Nat] /\ \A b \in Funcs : b # f => a[b] = db.alloca[b]
  BY <1>1 DEF DbType
<1> HIDE DEF a
<1>4. /\ x \in DbType /\ x.proto = db.proto /\ x.cache = db.cache /\ x.alloca = a
      /\ x.frame = db.frame /\ x.grown = db.grown /\ x.printed = db.printed
      /\ x.started = db.started
  BY <1>1, <1>3 DEF DbType
<1> HIDE DEF x
<1>5. Dirtied(db, db', f) /\ db'.proto = db.proto
  <2>1. /\ Proper(x.proto[f])
        /\ \A b \in Funcs : b # f => x.proto[b] = db.proto[b] /\ x.alloca[b] = db.alloca[b]
    BY <1>1, <1>3, <1>4
  <2>2. Good(db) /\ db' = MarkDirty(x, f)
    BY <1>1, <1>2
  <2>3. Dirtied(db, db', f) /\ db'.proto = x.proto
    BY <1>4, <2>1, <2>2, MarkAfter
  <2> QED BY <1>4, <2>3
<1>6. Good(db') /\ Shown(db')
  BY <1>1, <1>5, DirtiedGood, DirtiedShown DEF Shown
<1>7. Misses'
  BY <1>1, <1>2, <1>5 DEF Misses, Dirtied
<1>8. edits' \in 0..MaxEdits
  BY <1>1, <1>2
<1>9. Good(db)' /\ db'.started
  BY <1>2, <1>5, <1>6, FrameLemma DEF Dirtied
<1> QED BY <1>2, <1>6, <1>7, <1>8, <1>9 DEF IInv, Shown, BeforeStart, Stale

LEMMA NextIInv == SwiftAssumption /\ IInv /\ [SNext]_swiftVars => IInv'
<1> SUFFICES ASSUME SwiftAssumption, IInv, [SNext]_swiftVars PROVE IInv'
  OBVIOUS
<1>1. CASE FixSwiftTypes
  BY <1>1, FixIInv
<1>2. CASE \E f \in Funcs : View(f)
  BY <1>2, ViewIInv
<1>3. CASE \E f \in Funcs : AddFunction(f)
  BY <1>3, AddIInv
<1>4. CASE \E f \in Funcs : EditLayout(f)
  BY <1>4, EditLayoutIInv
<1>5. CASE \E f \in Funcs : \E p \in UserTypes : EditType(f, p)
  BY <1>5, EditTypeIInv
<1>6. CASE \E f \in Funcs : \E size \in Sizes : Patch(f, size)
  BY <1>6, PatchIInv
<1>7. CASE UNCHANGED swiftVars
  BY <1>7 DEF swiftVars, IInv, Good, FrameOf, Shown, Misses, BeforeStart, Stale
<1> QED BY <1>1, <1>2, <1>3, <1>4, <1>5, <1>6, <1>7 DEF SNext

(* The inductive invariant: the database is well formed and agrees with    *)
(* the frames on record, and what was printed or missed is accounted for.  *)
THEOREM Invariance == SwiftSpec => []IInv
<1>1. SInit => IInv
  BY SwiftAssumption, InitIInv
<1>2. IInv /\ [SNext]_swiftVars => IInv'
  BY SwiftAssumption, NextIInv
<1> QED BY <1>1, <1>2, PTL DEF SwiftSpec

(* The prototypes, caches, frames and counters always have their types.    *)
THEOREM TypeCorrect == SwiftSpec => []SwiftTypeOK
<1>1. IInv => SwiftTypeOK
  BY DEF IInv, Good, DbType, SwiftTypeOK
<1> QED BY <1>1, Invariance, PTL

(* Whatever the order of the hooks, the start, the user's types and the    *)
(* functions found later: no function has two arguments in X20             *)
(* (prolog_rewrite.py, apply_closure_captures; swift_types.py, the         *)
(* class-call hook).                                                       *)
THEOREM X20IsOne == SwiftSpec => []OneX20Argument
<1>1. IInv => OneX20Argument
  BY DEF IInv, Good, Proper, OneX20Argument
<1> QED BY <1>1, Invariance, PTL

(* A function whose stored prototype has the X20 argument is shown without *)
(* it once at most (SwiftClassCallHook.func_printed and its like in the    *)
(* prolog hook).                                                           *)
THEOREM StaleOnce == SwiftSpec => []StaleShownOnce
<1>1. IInv => StaleShownOnce
  <2> SUFFICES ASSUME IInv, NEW f \in Funcs PROVE missed[f] <= 1
    BY DEF StaleShownOnce
  <2>1. missed[f] \in Nat /\ (missed[f] > 0 => missed[f] = 1)
    BY DEF IInv, Misses
  <2> QED BY <2>1
<1> QED BY <1>1, Invariance, PTL

(* A frame has grown by what is on record, and what is cached was          *)
(* decompiled with room for its allocas                                    *)
(* (_expand_frame_for_swift_dynamic_allocas).                              *)
THEOREM FramesMatch == SwiftSpec => []FrameMatchesRecord
<1>1. IInv => FrameMatchesRecord
  BY DEF IInv, Good, FrameOf, FrameMatchesRecord
<1> QED BY <1>1, Invariance, PTL

----------------------------------------------------------------------------
(* Names of variables (LvarNames).                                         *)

IsLvar(x) ==
    /\ x = [name |-> x.name, user |-> x.user, own |-> x.own, typed |-> x.typed, vwt |-> x.vwt]
    /\ x.user \in BOOLEAN /\ x.typed \in BOOLEAN /\ x.vwt \in BOOLEAN

\* Names are distinct, and a variable that nobody named has its own.
Distinct(l) == \A v, w \in Lvars : l[v].name = l[w].name => v = w

LInv(l) ==
    /\ l = [v \in Lvars |-> l[v]]
    /\ \A v \in Lvars : IsLvar(l[v]) /\ (~l[v].user => l[v].name = <<v>>)
    /\ Distinct(l)

\* From l to m, names are given to variables that had none, with one of the
\* tags in the second place, and none is taken.
Grows(l, m, tags) == \A v \in Lvars :
    /\ m[v].own = l[v].own
    /\ l[v].user => m[v].user /\ m[v].name = l[v].name
    /\ m[v].user /\ ~l[v].user => m[v].name[2] \in tags

LEMMA GrowsTransitive ==
    ASSUME NEW l, NEW m, NEW o, NEW tags, Grows(l, m, tags), Grows(m, o, tags),
           \A v \in Lvars : m[v].user \in BOOLEAN
    PROVE  Grows(l, o, tags)
BY DEF Grows

LEMMA GrowsSelf == ASSUME NEW l, NEW tags PROVE Grows(l, l, tags)
BY DEF Grows

(* There are more numbered names than variables have: one of them is new.  *)
LEMMA UniqueIsNew ==
    ASSUME NEW l, NEW a, NEW b
    PROVE  LET u == UniqueName(l, <<a, b>>)
           IN  u \notin {l[v].name : v \in Lvars} /\ u[1] = a /\ u[2] = b
<1> DEFINE u == UniqueName(l, <<a, b>>)
           base == <<a, b>>
           used == {l[v].name : v \in Lvars}
           C == Cardinality(Lvars)
           numbered == {Append(base, n) : n \in 1..C} \ used
           name(n) == IF n = 0 THEN base ELSE Append(base, n)
<1>1. C \in Nat
  BY LvarsAssumption, FS_CardinalityType
<1>2. /\ base[1] = a /\ base[2] = b /\ Len(base) = 2
      /\ \A n : /\ Append(base, n)[1] = a /\ Append(base, n)[2] = b
                /\ Append(base, n)[3] = n /\ Len(Append(base, n)) = 3
  OBVIOUS
<1>3. u = IF base \notin used THEN base
          ELSE CHOOSE x \in numbered : \A y \in numbered : x[Len(x)] <= y[Len(y)]
  BY DEF UniqueName
<1>4. CASE base \notin used
  <2>1. u = base
    BY <1>3, <1>4
  <2> HIDE DEF u, base
  <2> QED BY <1>2, <1>4, <2>1 DEF u
<1>5. CASE base \in used
  <2> HIDE DEF u, C
  <2>1. \E n \in 1..C : Append(base, n) \notin used
    <3>1. SUFFICES ASSUME \A n \in 1..C : Append(base, n) \in used PROVE FALSE
      OBVIOUS
    <3>2. \A n \in 0..C : name(n) \in used
      <4>1. \A n \in 0..C : n = 0 \/ n \in 1..C
        BY <1>1
      <4> HIDE DEF base, used
      <4> QED BY <1>5, <3>1, <4>1
    <3>3. \A m, n \in 0..C : name(m) = name(n) => m = n
      <4>1. name(0) = base /\ Len(name(0)) = 2
        BY <1>2
      <4>2. \A n \in 0..C : n # 0 => Len(name(n)) = 3 /\ name(n)[3] = n
        BY <1>2
      <4> HIDE DEF base, name
      <4> QED BY <4>1, <4>2
    <3> HIDE DEF name
    <3> DEFINE f == [n \in 0..C |-> CHOOSE v \in Lvars : l[v].name = name(n)]
    <3>4. \A n \in 0..C : f[n] \in Lvars /\ l[f[n]].name = name(n)
      BY <3>2
    <3>5. f \in [0..C -> Lvars]
      BY <3>4
    <3>6. IsFiniteSet(0..C) /\ Cardinality(0..C) = C + 1
      <4>1. 0 \in Int /\ C \in Int /\ ~(0 > C)
        BY <1>1
      <4>2. C - 0 + 1 = C + 1
        BY <1>1
      <4> QED BY <4>1, <4>2, FS_Interval
    <3>7. Cardinality(Lvars) < Cardinality(0..C)
      BY <1>1, <3>6 DEF C
    <3> HIDE DEF f
    <3>8. PICK m, n \in 0..C : m # n /\ f[m] = f[n]
      BY <3>5, <3>6, <3>7, LvarsAssumption, FS_PigeonHole
    <3> QED BY <3>3, <3>4, <3>8
  <2> DEFINE T == {n \in 1..C : Append(base, n) \notin used}
  <2>2. T \in SUBSET Nat /\ T # {}
    BY <2>1
  <2>3. PICK n \in T : \A k \in T : n <= k
    <3> HIDE DEF T
    <3> QED BY <2>2, LeastElement
  <2>4. Append(base, n) \in numbered
    BY <2>3
  <2>5. \A y \in numbered : \E k \in T : y = Append(base, k)
    OBVIOUS
  <2> HIDE DEF base, used
  <2>6. \A y \in numbered : Append(base, n)[Len(Append(base, n))] <= y[Len(y)]
    BY <1>2, <2>3, <2>5
  <2>7. u \in numbered
    <3> HIDE DEF numbered
    <3> QED BY <1>3, <1>5, <2>4, <2>6
  <2>8. PICK k \in 1..C : u = Append(base, k)
    BY <2>7
  <2>9. u \notin used
    BY <2>7
  <2> QED BY <1>2, <2>8, <2>9 DEF u, used
<1> QED BY <1>4, <1>5

(* A record of a variable, one field at a time.                            *)
Lvar(p, q, r, s, t) == [name |-> p, user |-> q, own |-> r, typed |-> s, vwt |-> t]

LEMMA LvarFields == \A p, q, r, s, t :
    /\ Lvar(p, q, r, s, t).name = p /\ Lvar(p, q, r, s, t).user = q
    /\ Lvar(p, q, r, s, t).own = r /\ Lvar(p, q, r, s, t).typed = s /\ Lvar(p, q, r, s, t).vwt = t
BY DEF Lvar

LEMMA LvarExcept == \A p, q, r, s, t, n :
    /\ [Lvar(p, q, r, s, t) EXCEPT !.name = n] = Lvar(n, q, r, s, t)
    /\ [Lvar(p, q, r, s, t) EXCEPT !.user = n] = Lvar(p, n, r, s, t)
    /\ [Lvar(p, q, r, s, t) EXCEPT !.typed = n] = Lvar(p, q, r, n, t)
    /\ [Lvar(p, q, r, s, t) EXCEPT !.vwt = n] = Lvar(p, q, r, s, n)
BY DEF Lvar

\* What naming a variable does to the variables.
Given(l, v, u) == [l EXCEPT ![v].name = u, ![v].user = TRUE]

LEMMA NamedLvar ==
    ASSUME NEW l, LInv(l), NEW v \in Lvars, ~l[v].user, NEW u, u \notin {l[w].name : w \in Lvars}
    PROVE  LET m == Given(l, v, u)
           IN  /\ LInv(m)
               /\ m[v].name = u /\ m[v].user /\ m[v].own = l[v].own
               /\ \A w \in Lvars \ {v} : m[w] = l[w]
<1>0. PICK yes : yes = TRUE
  OBVIOUS
<1> DEFINE m == Given(l, v, u)
           x == l[v]
           y == [[x EXCEPT !.name = u] EXCEPT !.user = yes]
<1>3. PICK p, q, r, s, t : x = Lvar(p, q, r, s, t)
  BY DEF LInv, IsLvar, Lvar
<1>31. x.own = r /\ x.typed = s /\ x.vwt = t
  BY <1>3, LvarFields
<1>32. x.typed \in BOOLEAN /\ x.vwt \in BOOLEAN
  BY DEF LInv, IsLvar
<1>4. m = [l EXCEPT ![v] = y]
  BY <1>0 DEF Given
<1>5. l = [w \in Lvars |-> l[w]]
  BY DEF LInv
<1> HIDE DEF x, m
<1> DEFINE x1 == [x EXCEPT !.name = u]
<1>6. x1 = Lvar(u, q, r, s, t)
  BY <1>3, LvarExcept
<1> HIDE DEF x1
<1>7. [x1 EXCEPT !.user = yes] = Lvar(u, yes, r, s, t)
  BY <1>6, LvarExcept
<1>8. y = Lvar(u, yes, r, s, t)
  BY <1>7 DEF x1
<1> HIDE DEF y
<1>81. y.name = u /\ y.user = yes /\ y.own = r /\ y.typed = s /\ y.vwt = t
  BY <1>8, LvarFields
<1>82. IsLvar(y)
  BY <1>0, <1>31, <1>32, <1>8, <1>81 DEF IsLvar, Lvar
<1>9. m = [w \in Lvars |-> m[w]] /\ m[v] = y /\ \A w \in Lvars \ {v} : m[w] = l[w]
  <2>1. m = [w \in Lvars |-> IF w = v THEN y ELSE l[w]]
    BY <1>4, <1>5
  <2> QED BY <2>1
<1>10. LInv(m)
  <2>1. \A w \in Lvars : IsLvar(m[w]) /\ (~m[w].user => m[w].name = <<w>>)
    BY <1>0, <1>81, <1>82, <1>9 DEF LInv
  <2>2. Distinct(m)
    BY <1>0, <1>81, <1>9 DEF LInv, Distinct
  <2> QED BY <1>9, <2>1, <2>2 DEF LInv
<1> QED BY <1>0, <1>31, <1>81, <1>9, <1>10 DEF x, m

(* A variable that has no name is given a unique one.                      *)
Renamed(l, m, v, a, b) ==
    /\ LInv(m) /\ Grows(l, m, {b})
    /\ \A w \in Lvars : m[w].user /\ ~l[w].user => w = v /\ m[w].name[1] = a

LEMMA GivenUnique ==
    ASSUME NEW l, LInv(l), NEW v, NEW a, NEW b, NEW base, base = <<a, b>>, NEW m,
           m = l \/ (~l[v].user /\ m = Given(l, v, UniqueName(l, base)))
    PROVE  Renamed(l, m, v, a, b)
<1> USE DEF Renamed
<1> DEFINE u == UniqueName(l, <<a, b>>)
<1>1. CASE m = l
  <2>1. \A w \in Lvars : ~(m[w].user /\ ~l[w].user)
    BY <1>1
  <2> QED BY <1>1, <2>1, GrowsSelf
<1>2. CASE m # l
  <2>1. m = Given(l, v, u) /\ ~l[v].user
    BY <1>2
  <2>2. u \notin {l[w].name : w \in Lvars} /\ u[1] = a /\ u[2] = b
    BY UniqueIsNew
  <2> HIDE DEF u
  <2>3. v \in Lvars
    <3>1. SUFFICES ASSUME v \notin Lvars PROVE m = l
      BY <1>2
    <3>2. l = [w \in Lvars |-> l[w]]
      BY DEF LInv
    <3> QED BY <2>1, <3>1, <3>2 DEF Given
  <2>4. /\ LInv(m)
        /\ m[v].name = u /\ m[v].user /\ m[v].own = l[v].own
        /\ \A w \in Lvars \ {v} : m[w] = l[w]
    BY <2>1, <2>2, <2>3, NamedLvar
  <2>5. Grows(l, m, {b})
    BY <2>1, <2>2, <2>4 DEF Grows
  <2> QED BY <2>2, <2>4, <2>5
<1> QED BY <1>1, <1>2

(* Rename gives the name it is asked for, or one that begins with it.      *)
LEMMA RenameNames ==
    ASSUME NEW l, LInv(l), NEW v, NEW a, NEW b
    PROVE  Renamed(l, Rename(l, v, <<a, b>>), v, a, b)
<1> DEFINE base == <<a, b>>
           m == Rename(l, v, base)
<1>1. m = l \/ (~l[v].user /\ m = Given(l, v, UniqueName(l, base)))
  BY DEF Rename, Given
<1>0. base = <<a, b>>
  OBVIOUS
<1> HIDE DEF m, base
<1>2. Renamed(l, m, v, a, b)
  BY <1>0, <1>1, GivenUnique
<1> QED BY <1>2 DEF m, base

LEMMA RetypeKeeps ==
    ASSUME NEW l, LInv(l), NEW v, NEW tags
    PROVE  LInv(Retype(l, v)) /\ Grows(l, Retype(l, v), tags)
<1>0. PICK yes : yes = TRUE
  OBVIOUS
<1> DEFINE m == Retype(l, v)
           x == l[v]
           y == [[x EXCEPT !.typed = yes] EXCEPT !.vwt = yes]
<1>1. CASE m = l
  BY <1>1, GrowsSelf
<1>2. CASE m # l
  <2>3. m = [l EXCEPT ![v] = y]
    BY <1>0, <1>2 DEF Retype
  <2>4. l = [w \in Lvars |-> l[w]]
    BY DEF LInv
  <2> HIDE DEF m
  <2>5. v \in Lvars
    BY <1>2, <2>3, <2>4
  <2>6. PICK p, q, r, s, t : x = Lvar(p, q, r, s, t)
    BY <2>5 DEF LInv, IsLvar, Lvar
  <2>7. m = [w \in Lvars |-> m[w]] /\ m[v] = y /\ \A w \in Lvars \ {v} : m[w] = l[w]
    <3> HIDE DEF y
    <3>1. m = [w \in Lvars |-> IF w = v THEN y ELSE l[w]]
      BY <2>3, <2>4
    <3> QED BY <2>5, <3>1
  <2> HIDE DEF x
  <2> DEFINE x1 == [x EXCEPT !.typed = yes]
  <2>1. x1 = Lvar(p, q, r, yes, t)
    BY <2>6, LvarExcept DEF x1
  <2> HIDE DEF x1
  <2>2. [x1 EXCEPT !.vwt = yes] = Lvar(p, q, r, yes, yes)
    BY <2>1, LvarExcept
  <2>8. y = Lvar(p, q, r, yes, yes)
    BY <2>2 DEF x1, y
  <2> HIDE DEF y
  <2>80. x.name = p /\ x.user = q /\ x.own = r
    BY <2>6, LvarFields
  <2>81. y.name = p /\ y.user = q /\ y.own = r /\ y.typed = yes /\ y.vwt = yes
    BY <2>8, LvarFields
  <2>9. y.name = x.name /\ y.user = x.user /\ y.own = x.own
    BY <2>80, <2>81
  <2>10. IsLvar(x) /\ (~x.user => x.name = <<v>>)
    BY <2>5 DEF LInv, x
  <2>11. IsLvar(y)
    BY <1>0, <2>8, <2>81, <2>9, <2>10 DEF IsLvar, Lvar
  <2>12. \A w \in Lvars : m[w].name = l[w].name /\ m[w].user = l[w].user /\ m[w].own = l[w].own
    BY <2>7, <2>9 DEF x
  <2>13. \A w \in Lvars : IsLvar(m[w]) /\ (~m[w].user => m[w].name = <<w>>)
    BY <2>7, <2>11, <2>12 DEF LInv
  <2>14. Distinct(m)
    BY <2>12 DEF LInv, Distinct
  <2>15. LInv(m)
    BY <2>7, <2>13, <2>14 DEF LInv
  <2>16. Grows(l, m, tags)
    BY <2>12 DEF Grows
  <2> QED BY <2>15, <2>16 DEF m
<1> QED BY <1>1, <1>2

----------------------------------------------------------------------------
(* The passes (PrologRewrite).                                             *)

Found == [lv : Lvars \cup {NoVar}, type : STRING \cup {"none"}, suffix : {"md", "vwt"}]

(* What the scanner finds: a variable, a type, a suffix.                   *)
LEMMA ScannedFound ==
    ASSUME NEW stmts, stmts \in Seq(Statement)
    PROVE  Scanned(stmts) \in Seq(Found)
<1> DEFINE n == Len(stmts)
           c0 == <<>>
           MdType(v, found) ==
             LET at == {k \in 1..Len(found) : found[k].lv = v /\ found[k].suffix = "md"}
             IN  IF at = {} THEN "none" ELSE found[CHOOSE k \in at : \A o \in at : o <= k].type
           Value(found, i) ==
             LET s == stmts[i]
             IN  IF s.op = "md" THEN Append(found, [lv |-> s.lv, type |-> SwiftType(s), suffix |-> "md"])
                 ELSE IF s.op = "vwt" /\ MdType(s.arg, found) # "none"
                 THEN Append(found, [lv |-> s.lv, type |-> MdType(s.arg, found), suffix |-> "vwt"])
                 ELSE found
           Next1(x, i) == CHOOSE r \in {Value(found, i) : found \in {x}} : TRUE
           E(f) == [i \in 0..n |->
                      IF i = 0 THEN c0
                      ELSE CHOOSE r \in {Value(found, i) : found \in {f[i - 1]}} : TRUE]
           F == CHOOSE f : f = E(f)
           P(g, k) == /\ g = [i \in 0..k |-> g[i]] /\ g[0] = c0
                      /\ \A i \in 1..k : g[i] = Next1(g[i - 1], i)
<1>1. n \in Nat
  OBVIOUS
<1>2. Scanned(stmts) = F[n]
  BY DEF Scanned
<1>3. \A f : \A i \in 0..n : E(f)[i] = IF i = 0 THEN c0 ELSE Next1(f[i - 1], i)
  OBVIOUS
<1>4. \A f : E(f) = [i \in 0..n |-> E(f)[i]]
  OBVIOUS
<1>5. \A x, i : Next1(x, i) = Value(x, i)
  <2> HIDE DEF Value
  <2> QED OBVIOUS
<1>51. ASSUME NEW v, NEW x \in Seq(Found) PROVE MdType(v, x) \in STRING \cup {"none"}
  <2> DEFINE at == {k \in 1..Len(x) : x[k].lv = v /\ x[k].suffix = "md"}
  <2>1. CASE at = {}
    <3>1. MdType(v, x) = "none"
      BY <2>1
    <3> HIDE DEF MdType
    <3> QED BY <3>1
  <2>2. CASE at # {}
    <3>1. Len(x) \in Nat /\ at \in SUBSET (0..Len(x))
      OBVIOUS
    <3>2. \E k \in at : \A o \in at : k >= o
      <4> HIDE DEF at
      <4> QED BY <2>2, <3>1, GreatestElement
    <3> DEFINE k == CHOOSE k \in at : \A o \in at : o <= k
    <3>3. k \in at
      <4>1. \E j \in at : \A o \in at : o <= j
        BY <3>2
      <4> HIDE DEF at
      <4> QED BY <4>1
    <3>4. MdType(v, x) = x[k].type
      BY <2>2
    <3> HIDE DEF k
    <3>5. x[k] \in Found
      BY <3>3
    <3> QED BY <3>4, <3>5 DEF Found
  <2> QED BY <2>1, <2>2
<1> HIDE DEF n, E, Next1, Value, c0, MdType
<1> DEFINE ex == {k \in 0..n : \E g : P(g, k)}
<1>7. 0 \in ex
  <2> DEFINE g == [i \in 0..0 |-> c0]
  <2>1. g = [i \in 0..0 |-> g[i]] /\ g[0] = c0 /\ 0 \in 0..n
    BY <1>1
  <2> HIDE DEF g
  <2>2. P(g, 0)
    BY <2>1
  <2> QED BY <2>1, <2>2
<1>8. ASSUME NEW k \in 1..n, k - 1 \in ex PROVE k \in ex
  <2>1. PICK g : P(g, k - 1)
    BY <1>8
  <2> DEFINE h == [i \in 0..k |-> IF i = k THEN Next1(g[k - 1], k) ELSE g[i]]
  <2>2. h = [i \in 0..k |-> h[i]]
    OBVIOUS
  <2>3. \A i \in 0..(k - 1) : h[i] = g[i]
    BY <1>1
  <2>4. h[k] = Next1(g[k - 1], k)
    BY <1>1
  <2> HIDE DEF h
  <2>5. h[0] = c0
    BY <1>1, <2>1, <2>3
  <2>6. ASSUME NEW i \in 1..k PROVE h[i] = Next1(h[i - 1], i)
    <3>1. i - 1 \in 0..(k - 1)
      BY <1>1
    <3>2. CASE i = k
      BY <2>3, <2>4, <3>1, <3>2
    <3>3. CASE i # k
      <4>1. i \in 1..(k - 1) /\ i \in 0..(k - 1)
        BY <1>1, <3>3
      <4> QED BY <2>1, <2>3, <3>1, <4>1
    <3> QED BY <3>2, <3>3
  <2>7. P(h, k)
    BY <2>2, <2>5, <2>6
  <2>8. k \in 0..n
    BY <1>1
  <2> HIDE DEF P
  <2> QED BY <2>7, <2>8
<1>9. \E g : P(g, n)
  <2> HIDE DEF ex
  <2>1. 0..n \subseteq ex
    BY <1>1, <1>7, <1>8, IntervalInduction
  <2>2. n \in 0..n
    BY <1>1
  <2> QED BY <2>1, <2>2 DEF ex
<1>10. PICK h : P(h, n)
  BY <1>9
<1>11. h = E(h)
  <2>1. \A i \in 0..n : h[i] = E(h)[i]
    <3>1. \A i \in 0..n : i = 0 \/ i \in 1..n
      BY <1>1
    <3> QED BY <1>3, <1>10, <3>1
  <2>2. [i \in 0..n |-> h[i]] = [i \in 0..n |-> E(h)[i]]
    BY <2>1
  <2> QED BY <1>4, <1>10, <2>2
<1>12. F = E(F)
  BY <1>11
<1> HIDE DEF F
<1>13. F[0] = c0
  BY <1>1, <1>3, <1>12
<1>14. ASSUME NEW i \in 1..n PROVE F[i] = Next1(F[i - 1], i)
  <2>1. i \in 0..n /\ i # 0
    BY <1>1
  <2> QED BY <1>3, <1>12, <2>1
<1> DEFINE ok == {i \in 0..n : F[i] \in Seq(Found)}
<1>15. 0 \in ok
  <2>1. <<>> \in Seq(Found) /\ 0 \in 0..n
    BY <1>1
  <2> QED BY <1>13, <2>1 DEF c0
<1>16. ASSUME NEW i \in 1..n, i - 1 \in ok PROVE i \in ok
  <2> DEFINE x == F[i - 1]
             s == stmts[i]
             t == MdType(s.arg, x)
  <2>1. x \in Seq(Found)
    BY <1>16
  <2>2. s \in Statement
    BY DEF n
  <2>3. t \in STRING \cup {"none"}
    BY <1>51, <2>1
  <2>4. F[i] = IF s.op = "md" THEN Append(x, [lv |-> s.lv, type |-> SwiftType(s), suffix |-> "md"])
               ELSE IF s.op = "vwt" /\ t # "none" THEN Append(x, [lv |-> s.lv, type |-> t, suffix |-> "vwt"])
               ELSE x
    BY <1>5, <1>14 DEF Value
  <2>5. i \in 0..n
    BY <1>1
  <2> HIDE DEF x, s, t
  <2>6. [lv |-> s.lv, type |-> SwiftType(s), suffix |-> "md"] \in Found
    BY <2>2 DEF Statement, Found, SwiftType
  <2>7. [lv |-> s.lv, type |-> t, suffix |-> "vwt"] \in Found
    BY <2>2, <2>3 DEF Statement, Found
  <2>8. \A y \in Found : Append(x, y) \in Seq(Found)
    BY <2>1
  <2>9. F[i] \in Seq(Found)
    BY <2>1, <2>4, <2>6, <2>7, <2>8
  <2> QED BY <2>5, <2>9
<1> HIDE DEF ok
<1>17. n \in ok
  <2>1. 0..n \subseteq ok
    BY <1>1, <1>15, <1>16, IntervalInduction
  <2> QED BY <1>1, <2>1
<1> QED BY <1>2, <1>17 DEF ok
(* A pass over what was found gives names with its suffix.                 *)
LEMMA RenameAllNames ==
    ASSUME NEW l, LInv(l), NEW found, found \in Seq(Found), NEW suffix
    PROVE  LInv(RenameAll(l, found, suffix)) /\ Grows(l, RenameAll(l, found, suffix), {suffix})
<1> DEFINE n == Len(found)
           c0 == l
           Next1(x, i) == IF found[i].suffix # suffix THEN x
                           ELSE CHOOSE r \in {
                             LET named == Rename(d, found[i].lv, <<found[i].type, suffix>>)
                             IN  IF suffix = "vwt" THEN Retype(named, found[i].lv) ELSE named : d \in {x}} : TRUE
           E(f) == [i \in 0..n |->
                      IF i = 0 THEN c0
                      ELSE IF found[i].suffix # suffix THEN f[i - 1]
                           ELSE CHOOSE r \in {
                             LET named == Rename(d, found[i].lv, <<found[i].type, suffix>>)
                             IN  IF suffix = "vwt" THEN Retype(named, found[i].lv) ELSE named : d \in {f[i - 1]}} : TRUE]
           F == CHOOSE f : f = E(f)
           P(g, k) == /\ g = [i \in 0..k |-> g[i]] /\ g[0] = c0
                      /\ \A i \in 1..k : g[i] = Next1(g[i - 1], i)
<1>1. n \in Nat
  OBVIOUS
<1>2. RenameAll(l, found, suffix) = F[n]
  BY DEF RenameAll
<1>3. \A f : \A i \in 0..n : E(f)[i] = IF i = 0 THEN c0 ELSE Next1(f[i - 1], i)
  OBVIOUS
<1>4. \A f : E(f) = [i \in 0..n |-> E(f)[i]]
  OBVIOUS
<1>5. \A x, i : Next1(x, i) =
        IF found[i].suffix # suffix THEN x
        ELSE IF suffix = "vwt" THEN Retype(Rename(x, found[i].lv, <<found[i].type, suffix>>), found[i].lv)
        ELSE Rename(x, found[i].lv, <<found[i].type, suffix>>)
  OBVIOUS
<1> HIDE DEF n, E, Next1, c0
<1> DEFINE ex == {k \in 0..n : \E g : P(g, k)}
<1>7. 0 \in ex
  <2> DEFINE g == [i \in 0..0 |-> c0]
  <2>1. g = [i \in 0..0 |-> g[i]] /\ g[0] = c0 /\ 0 \in 0..n
    BY <1>1
  <2> HIDE DEF g
  <2>2. P(g, 0)
    BY <2>1
  <2> QED BY <2>1, <2>2
<1>8. ASSUME NEW k \in 1..n, k - 1 \in ex PROVE k \in ex
  <2>1. PICK g : P(g, k - 1)
    BY <1>8
  <2> DEFINE h == [i \in 0..k |-> IF i = k THEN Next1(g[k - 1], k) ELSE g[i]]
  <2>2. h = [i \in 0..k |-> h[i]]
    OBVIOUS
  <2>3. \A i \in 0..(k - 1) : h[i] = g[i]
    BY <1>1
  <2>4. h[k] = Next1(g[k - 1], k)
    BY <1>1
  <2> HIDE DEF h
  <2>5. h[0] = c0
    BY <1>1, <2>1, <2>3
  <2>6. ASSUME NEW i \in 1..k PROVE h[i] = Next1(h[i - 1], i)
    <3>1. i - 1 \in 0..(k - 1)
      BY <1>1
    <3>2. CASE i = k
      BY <2>3, <2>4, <3>1, <3>2
    <3>3. CASE i # k
      <4>1. i \in 1..(k - 1) /\ i \in 0..(k - 1)
        BY <1>1, <3>3
      <4> QED BY <2>1, <2>3, <3>1, <4>1
    <3> QED BY <3>2, <3>3
  <2>7. P(h, k)
    BY <2>2, <2>5, <2>6
  <2>8. k \in 0..n
    BY <1>1
  <2> HIDE DEF P
  <2> QED BY <2>7, <2>8
<1>9. \E g : P(g, n)
  <2> HIDE DEF ex
  <2>1. 0..n \subseteq ex
    BY <1>1, <1>7, <1>8, IntervalInduction
  <2>2. n \in 0..n
    BY <1>1
  <2> QED BY <2>1, <2>2 DEF ex
<1>10. PICK h : P(h, n)
  BY <1>9
<1>11. h = E(h)
  <2>1. \A i \in 0..n : h[i] = E(h)[i]
    <3>1. \A i \in 0..n : i = 0 \/ i \in 1..n
      BY <1>1
    <3> QED BY <1>3, <1>10, <3>1
  <2>2. [i \in 0..n |-> h[i]] = [i \in 0..n |-> E(h)[i]]
    BY <2>1
  <2> QED BY <1>4, <1>10, <2>2
<1>12. F = E(F)
  BY <1>11
<1> HIDE DEF F
<1>13. F[0] = c0
  BY <1>1, <1>3, <1>12
<1>14. ASSUME NEW i \in 1..n PROVE F[i] = Next1(F[i - 1], i)
  <2>1. i \in 0..n /\ i # 0
    BY <1>1
  <2> QED BY <1>3, <1>12, <2>1
<1> DEFINE ok == {i \in 0..n : LInv(F[i]) /\ Grows(l, F[i], {suffix})}
<1>15. 0 \in ok
  BY <1>1, <1>13, GrowsSelf DEF c0
<1>16. ASSUME NEW i \in 1..n, i - 1 \in ok PROVE i \in ok
  <2> DEFINE x == F[i - 1]
             v == found[i].lv
             y == Rename(x, v, <<found[i].type, suffix>>)
             z == Retype(y, v)
  <2>1. LInv(x) /\ Grows(l, x, {suffix})
    BY <1>16
  <2>2. F[i] = x \/ F[i] = y \/ F[i] = z
    BY <1>5, <1>14
  <2>3. i \in 0..n
    BY <1>1
  <2>4. LInv(y) /\ Grows(x, y, {suffix})
    <3> HIDE DEF x, v
    <3> QED BY <2>1, RenameNames DEF Renamed
  <2>5. LInv(z) /\ Grows(y, z, {suffix})
    <3> HIDE DEF y, v
    <3> QED BY <2>4, RetypeKeeps
  <2> HIDE DEF x, v, y, z
  <2>6. Grows(l, y, {suffix})
    BY <2>1, <2>4, GrowsTransitive DEF LInv, IsLvar
  <2>7. Grows(l, z, {suffix})
    BY <2>4, <2>5, <2>6, GrowsTransitive DEF LInv, IsLvar
  <2> QED BY <2>1, <2>2, <2>3, <2>4, <2>5, <2>6, <2>7
<1> HIDE DEF ok
<1>17. n \in ok
  <2>1. 0..n \subseteq ok
    BY <1>1, <1>15, <1>16, IntervalInduction
  <2> QED BY <1>1, <2>1
<1> QED BY <1>2, <1>17 DEF ok
LEMMA PrologNames ==
    ASSUME NEW l, LInv(l), NEW stmts, stmts \in Seq(Statement)
    PROVE  LInv(PrologRewrites(l, stmts)) /\ Grows(l, PrologRewrites(l, stmts), {"md", "vwt"})
<1> DEFINE found == Scanned(stmts)
           m == RenameAll(l, found, "md")
           o == RenameAll(m, found, "vwt")
<1>1. PrologRewrites(l, stmts) = o
  BY DEF PrologRewrites
<1>2. found \in Seq(Found)
  BY ScannedFound
<1> HIDE DEF found
<1>3. LInv(m) /\ Grows(l, m, {"md"})
  BY <1>2, RenameAllNames
<1> HIDE DEF m
<1>4. LInv(o) /\ Grows(m, o, {"vwt"})
  BY <1>2, <1>3, RenameAllNames
<1> HIDE DEF o
<1>5. Grows(l, o, {"md", "vwt"})
  BY <1>3, <1>4 DEF Grows, LInv, IsLvar
<1> QED BY <1>1, <1>4, <1>5

\* The statement that made v a buffer of the type.
BufferAt(l, stmts, i, v, type) ==
    /\ stmts[i].lv = v /\ IsAlignedAlloca(stmts[i])
    /\ PendingType(l, stmts, i - 1) # "none" /\ PendingType(l, stmts, i - 1) = type

(* A buffer has the type that its statement shows.                         *)
LEMMA BufNames ==
    ASSUME NEW l, LInv(l), NEW stmts, stmts \in Seq(Statement)
    PROVE  LET m == BufRewrites(l, stmts)
           IN  /\ LInv(m) /\ Grows(l, m, {"buf"})
               /\ \A v \in Lvars : m[v].user /\ ~l[v].user =>
                     \E i \in 1..Len(stmts) : BufferAt(l, stmts, i, v, m[v].name[1])
<1> DEFINE n == Len(stmts)
           c0 == l
           Next1(x, i) == IF IsAlignedAlloca(stmts[i]) /\ PendingType(l, stmts, i - 1) # "none"
                           THEN CHOOSE r \in {Rename(d, stmts[i].lv, <<PendingType(l, stmts, i - 1), "buf">>) : d \in {x}} : TRUE
                           ELSE x
           E(f) == [i \in 0..n |->
                      IF i = 0 THEN c0
                      ELSE IF IsAlignedAlloca(stmts[i]) /\ PendingType(l, stmts, i - 1) # "none"
                           THEN CHOOSE r \in {Rename(d, stmts[i].lv, <<PendingType(l, stmts, i - 1), "buf">>) : d \in {f[i - 1]}} : TRUE
                           ELSE f[i - 1]]
           F == CHOOSE f : f = E(f)
           P(g, k) == /\ g = [i \in 0..k |-> g[i]] /\ g[0] = c0
                      /\ \A i \in 1..k : g[i] = Next1(g[i - 1], i)
<1>1. n \in Nat
  OBVIOUS
<1>2. BufRewrites(l, stmts) = F[n]
  BY DEF BufRewrites
<1>3. \A f : \A i \in 0..n : E(f)[i] = IF i = 0 THEN c0 ELSE Next1(f[i - 1], i)
  OBVIOUS
<1>4. \A f : E(f) = [i \in 0..n |-> E(f)[i]]
  OBVIOUS
<1>5. \A x, i : Next1(x, i) =
        IF IsAlignedAlloca(stmts[i]) /\ PendingType(l, stmts, i - 1) # "none"
        THEN Rename(x, stmts[i].lv, <<PendingType(l, stmts, i - 1), "buf">>) ELSE x
  OBVIOUS
<1> HIDE DEF n, E, Next1, c0
<1> DEFINE ex == {k \in 0..n : \E g : P(g, k)}
<1>7. 0 \in ex
  <2> DEFINE g == [i \in 0..0 |-> c0]
  <2>1. g = [i \in 0..0 |-> g[i]] /\ g[0] = c0 /\ 0 \in 0..n
    BY <1>1
  <2> HIDE DEF g
  <2>2. P(g, 0)
    BY <2>1
  <2> QED BY <2>1, <2>2
<1>8. ASSUME NEW k \in 1..n, k - 1 \in ex PROVE k \in ex
  <2>1. PICK g : P(g, k - 1)
    BY <1>8
  <2> DEFINE h == [i \in 0..k |-> IF i = k THEN Next1(g[k - 1], k) ELSE g[i]]
  <2>2. h = [i \in 0..k |-> h[i]]
    OBVIOUS
  <2>3. \A i \in 0..(k - 1) : h[i] = g[i]
    BY <1>1
  <2>4. h[k] = Next1(g[k - 1], k)
    BY <1>1
  <2> HIDE DEF h
  <2>5. h[0] = c0
    BY <1>1, <2>1, <2>3
  <2>6. ASSUME NEW i \in 1..k PROVE h[i] = Next1(h[i - 1], i)
    <3>1. i - 1 \in 0..(k - 1)
      BY <1>1
    <3>2. CASE i = k
      BY <2>3, <2>4, <3>1, <3>2
    <3>3. CASE i # k
      <4>1. i \in 1..(k - 1) /\ i \in 0..(k - 1)
        BY <1>1, <3>3
      <4> QED BY <2>1, <2>3, <3>1, <4>1
    <3> QED BY <3>2, <3>3
  <2>7. P(h, k)
    BY <2>2, <2>5, <2>6
  <2>8. k \in 0..n
    BY <1>1
  <2> HIDE DEF P
  <2> QED BY <2>7, <2>8
<1>9. \E g : P(g, n)
  <2> HIDE DEF ex
  <2>1. 0..n \subseteq ex
    BY <1>1, <1>7, <1>8, IntervalInduction
  <2>2. n \in 0..n
    BY <1>1
  <2> QED BY <2>1, <2>2 DEF ex
<1>10. PICK h : P(h, n)
  BY <1>9
<1>11. h = E(h)
  <2>1. \A i \in 0..n : h[i] = E(h)[i]
    <3>1. \A i \in 0..n : i = 0 \/ i \in 1..n
      BY <1>1
    <3> QED BY <1>3, <1>10, <3>1
  <2>2. [i \in 0..n |-> h[i]] = [i \in 0..n |-> E(h)[i]]
    BY <2>1
  <2> QED BY <1>4, <1>10, <2>2
<1>12. F = E(F)
  BY <1>11
<1> HIDE DEF F
<1>13. F[0] = c0
  BY <1>1, <1>3, <1>12
<1>14. ASSUME NEW i \in 1..n PROVE F[i] = Next1(F[i - 1], i)
  <2>1. i \in 0..n /\ i # 0
    BY <1>1
  <2> QED BY <1>3, <1>12, <2>1
<1> DEFINE Made(m) == \A v \in Lvars : m[v].user /\ ~l[v].user =>
                        \E i \in 1..n : BufferAt(l, stmts, i, v, m[v].name[1])
           ok == {i \in 0..n : LInv(F[i]) /\ Grows(l, F[i], {"buf"}) /\ Made(F[i])}
<1>15. 0 \in ok
  <2>1. Made(l)
    OBVIOUS
  <2> HIDE DEF Made
  <2> QED BY <1>1, <1>13, <2>1, GrowsSelf DEF c0
<1>16. ASSUME NEW i \in 1..n, i - 1 \in ok PROVE i \in ok
  <2> DEFINE x == F[i - 1]
             t == PendingType(l, stmts, i - 1)
             v == stmts[i].lv
             y == Rename(x, v, <<t, "buf">>)
  <2>1. LInv(x) /\ Grows(l, x, {"buf"}) /\ Made(x)
    BY <1>16
  <2>2. F[i] = x \/ (F[i] = y /\ IsAlignedAlloca(stmts[i]) /\ t # "none")
    BY <1>5, <1>14
  <2>3. i \in 0..n
    BY <1>1
  <2> HIDE DEF x
  <2>4. CASE F[i] = x
    BY <2>1, <2>3, <2>4
  <2>5. CASE F[i] = y /\ IsAlignedAlloca(stmts[i]) /\ t # "none"
    <3>1. \A w : w = v => BufferAt(l, stmts, i, w, t)
      BY <2>5 DEF BufferAt
    <3> HIDE DEF t, v
    <3>2. /\ LInv(y) /\ Grows(x, y, {"buf"})
          /\ \A w \in Lvars : y[w].user /\ ~x[w].user => w = v /\ y[w].name[1] = t
      BY <2>1, RenameNames DEF Renamed
    <3> HIDE DEF y
    <3>3. Grows(l, y, {"buf"})
      BY <2>1, <3>2, GrowsTransitive DEF LInv, IsLvar
    <3>4. ASSUME NEW w \in Lvars, y[w].user, ~l[w].user
          PROVE  \E k \in 1..n : BufferAt(l, stmts, k, w, y[w].name[1])
      <4>1. CASE x[w].user
        <5>1. PICK k \in 1..n : BufferAt(l, stmts, k, w, x[w].name[1])
          BY <2>1, <3>4, <4>1
        <5>2. y[w].name = x[w].name
          BY <3>2, <4>1 DEF Grows
        <5> QED BY <5>1, <5>2
      <4>2. CASE ~x[w].user
        <5>1. w = v /\ y[w].name[1] = t
          BY <3>2, <3>4, <4>2
        <5> QED BY <3>1, <5>1
      <4> QED BY <4>1, <4>2
    <3>5. Made(y)
      BY <3>4
    <3> HIDE DEF Made
    <3> QED BY <2>3, <2>5, <3>2, <3>3, <3>5
  <2> QED BY <2>2, <2>4, <2>5
<1> HIDE DEF ok
<1>17. n \in ok
  <2>1. 0..n \subseteq ok
    BY <1>1, <1>15, <1>16, IntervalInduction
  <2> QED BY <1>1, <2>1
<1> QED BY <1>2, <1>17 DEF ok, n
(* The pass over the errors gives no names but theirs.                     *)
LEMMA ErrorNames ==
    ASSUME NEW l, LInv(l), NEW stmts, stmts \in Seq(Statement)
    PROVE  LInv(RenameErrors(l, stmts)) /\ Grows(l, RenameErrors(l, stmts), {"error"})
<1> DEFINE n == Len(stmts)
           c0 == l
           Next1(x, i) == IF IsThrowsCall(stmts[i]) /\ Tested(stmts, i) # NoVar
                           THEN CHOOSE r \in {IF d[Tested(stmts, i)].user THEN d
                                              ELSE [d EXCEPT ![Tested(stmts, i)].name = UniqueName(d, Error),
                                                             ![Tested(stmts, i)].user = TRUE] : d \in {x}} : TRUE
                           ELSE x
           E(f) == [i \in 0..n |->
                      IF i = 0 THEN c0
                      ELSE IF IsThrowsCall(stmts[i]) /\ Tested(stmts, i) # NoVar
                           THEN CHOOSE r \in {IF d[Tested(stmts, i)].user THEN d
                                              ELSE [d EXCEPT ![Tested(stmts, i)].name = UniqueName(d, Error),
                                                             ![Tested(stmts, i)].user = TRUE] : d \in {f[i - 1]}} : TRUE
                           ELSE f[i - 1]]
           F == CHOOSE f : f = E(f)
           P(g, k) == /\ g = [i \in 0..k |-> g[i]] /\ g[0] = c0
                      /\ \A i \in 1..k : g[i] = Next1(g[i - 1], i)
<1>1. n \in Nat
  OBVIOUS
<1>2. RenameErrors(l, stmts) = F[n]
  BY DEF RenameErrors
<1>3. \A f : \A i \in 0..n : E(f)[i] = IF i = 0 THEN c0 ELSE Next1(f[i - 1], i)
  OBVIOUS
<1>4. \A f : E(f) = [i \in 0..n |-> E(f)[i]]
  OBVIOUS
<1>5. \A x, i :
        \/ Next1(x, i) = x
        \/ /\ ~x[Tested(stmts, i)].user
           /\ Next1(x, i) = [x EXCEPT ![Tested(stmts, i)].name = UniqueName(x, Error),
                                      ![Tested(stmts, i)].user = TRUE]
  OBVIOUS
<1> HIDE DEF n, E, Next1, c0
<1> DEFINE ex == {k \in 0..n : \E g : P(g, k)}
<1>7. 0 \in ex
  <2> DEFINE g == [i \in 0..0 |-> c0]
  <2>1. g = [i \in 0..0 |-> g[i]] /\ g[0] = c0 /\ 0 \in 0..n
    BY <1>1
  <2> HIDE DEF g
  <2>2. P(g, 0)
    BY <2>1
  <2> QED BY <2>1, <2>2
<1>8. ASSUME NEW k \in 1..n, k - 1 \in ex PROVE k \in ex
  <2>1. PICK g : P(g, k - 1)
    BY <1>8
  <2> DEFINE h == [i \in 0..k |-> IF i = k THEN Next1(g[k - 1], k) ELSE g[i]]
  <2>2. h = [i \in 0..k |-> h[i]]
    OBVIOUS
  <2>3. \A i \in 0..(k - 1) : h[i] = g[i]
    BY <1>1
  <2>4. h[k] = Next1(g[k - 1], k)
    BY <1>1
  <2> HIDE DEF h
  <2>5. h[0] = c0
    BY <1>1, <2>1, <2>3
  <2>6. ASSUME NEW i \in 1..k PROVE h[i] = Next1(h[i - 1], i)
    <3>1. i - 1 \in 0..(k - 1)
      BY <1>1
    <3>2. CASE i = k
      BY <2>3, <2>4, <3>1, <3>2
    <3>3. CASE i # k
      <4>1. i \in 1..(k - 1) /\ i \in 0..(k - 1)
        BY <1>1, <3>3
      <4> QED BY <2>1, <2>3, <3>1, <4>1
    <3> QED BY <3>2, <3>3
  <2>7. P(h, k)
    BY <2>2, <2>5, <2>6
  <2>8. k \in 0..n
    BY <1>1
  <2> HIDE DEF P
  <2> QED BY <2>7, <2>8
<1>9. \E g : P(g, n)
  <2> HIDE DEF ex
  <2>1. 0..n \subseteq ex
    BY <1>1, <1>7, <1>8, IntervalInduction
  <2>2. n \in 0..n
    BY <1>1
  <2> QED BY <2>1, <2>2 DEF ex
<1>10. PICK h : P(h, n)
  BY <1>9
<1>11. h = E(h)
  <2>1. \A i \in 0..n : h[i] = E(h)[i]
    <3>1. \A i \in 0..n : i = 0 \/ i \in 1..n
      BY <1>1
    <3> QED BY <1>3, <1>10, <3>1
  <2>2. [i \in 0..n |-> h[i]] = [i \in 0..n |-> E(h)[i]]
    BY <2>1
  <2> QED BY <1>4, <1>10, <2>2
<1>12. F = E(F)
  BY <1>11
<1> HIDE DEF F
<1>13. F[0] = c0
  BY <1>1, <1>3, <1>12
<1>14. ASSUME NEW i \in 1..n PROVE F[i] = Next1(F[i - 1], i)
  <2>1. i \in 0..n /\ i # 0
    BY <1>1
  <2> QED BY <1>3, <1>12, <2>1
<1> DEFINE ok == {i \in 0..n : LInv(F[i]) /\ Grows(l, F[i], {"error"})}
<1>15. 0 \in ok
  BY <1>1, <1>13, GrowsSelf DEF c0
<1>16. ASSUME NEW i \in 1..n, i - 1 \in ok PROVE i \in ok
  <2> DEFINE x == F[i - 1]
             v == Tested(stmts, i)
             y == F[i]
  <2>1. LInv(x) /\ Grows(l, x, {"error"})
    BY <1>16
  <2>2. y = x \/ (~x[v].user /\ y = Given(x, v, UniqueName(x, <<"", "error">>)))
    <3> HIDE DEF v
    <3> QED BY <1>5, <1>14 DEF Given, Error, v
  <2>3. i \in 0..n
    BY <1>1
  <2> HIDE DEF x, v, y
  <2>4. LInv(y) /\ Grows(x, y, {"error"})
    BY <2>1, <2>2, GivenUnique DEF Renamed
  <2>5. Grows(l, y, {"error"})
    BY <2>1, <2>4, GrowsTransitive DEF LInv, IsLvar
  <2> QED BY <2>3, <2>4, <2>5 DEF y
<1> HIDE DEF ok
<1>17. n \in ok
  <2>1. 0..n \subseteq ok
    BY <1>1, <1>15, <1>16, IntervalInduction
  <2> QED BY <1>1, <2>1
<1> QED BY <1>2, <1>17 DEF ok
----------------------------------------------------------------------------
(* The invariant: when the ctree is built only the user has named          *)
(* variables; the prolog's names are no buffers; a buffer has its type.    *)

PInv ==
    /\ body \in [1..2 -> Seq(Statement)]
    /\ phase \in {"code", "built", "final"}
    /\ LInv(lvars)
    /\ phase = "code" => \A v \in Lvars : lvars[v].user => lvars[v].own
    /\ phase = "built" => \A v \in Lvars :
          lvars[v].user /\ ~lvars[v].own => lvars[v].name[2] \in {"md", "vwt"}
    /\ NamesTellTheType

LEMMA PInvInit == PrologAssumption /\ PInit => PInv
<1> SUFFICES ASSUME PrologAssumption, PInit PROVE PInv
  OBVIOUS
<1>1. PICK touched \in Touched :
        lvars = [v \in Lvars |->
             [name |-> IF \E t \in touched : t.lv = v THEN (CHOOSE t \in touched : t.lv = v).name ELSE <<v>>,
              user |-> \E t \in touched : t.lv = v, own |-> \E t \in touched : t.lv = v,
              typed |-> \E t \in touched : t.lv = v /\ t.typed,
              vwt |-> \E t \in touched : t.lv = v /\ t.typed /\ t.name[2] = "vwt"]]
  BY DEF PInit
<1>2. /\ \A t, u \in touched : t.lv = u.lv \/ t.name = u.name => t = u
      /\ \A t \in touched : \A v \in Lvars : t.name # <<v>>
  BY DEF PrologAssumption
<1> DEFINE Is(v) == \E t \in touched : t.lv = v
           Of(v) == CHOOSE t \in touched : t.lv = v
<1>3. \A v : Is(v) => Of(v) \in touched /\ Of(v).lv = v
  OBVIOUS
<1>4. ASSUME NEW v \in Lvars
      PROVE  /\ lvars[v].name = IF Is(v) THEN Of(v).name ELSE <<v>>
             /\ lvars[v].user <=> Is(v)
             /\ lvars[v].own <=> Is(v)
             /\ lvars[v].user \in BOOLEAN /\ lvars[v].typed \in BOOLEAN /\ lvars[v].vwt \in BOOLEAN
             /\ lvars[v] = [name |-> lvars[v].name, user |-> lvars[v].user, own |-> lvars[v].own,
                            typed |-> lvars[v].typed, vwt |-> lvars[v].vwt]
  BY <1>1
<1>5. lvars = [v \in Lvars |-> lvars[v]]
  BY <1>1
<1> HIDE DEF Is, Of
<1>7. Distinct(lvars)
  <2> SUFFICES ASSUME NEW v \in Lvars, NEW w \in Lvars, lvars[v].name = lvars[w].name PROVE v = w
    BY DEF Distinct
  <2>1. CASE Is(v) /\ Is(w)
    <3>1. Of(v).name = Of(w).name
      BY <1>4, <2>1
    <3>2. Of(v) \in touched /\ Of(w) \in touched /\ Of(v).lv = v /\ Of(w).lv = w
      BY <1>3, <2>1
    <3> QED BY <1>2, <3>1, <3>2
  <2>2. CASE Is(v) /\ ~Is(w)
    <3>1. Of(v).name = <<w>>
      BY <1>4, <2>2
    <3>2. Of(v) \in touched
      BY <1>3, <2>2
    <3> QED BY <1>2, <3>1, <3>2
  <2>3. CASE ~Is(v) /\ Is(w)
    <3>1. Of(w).name = <<v>>
      BY <1>4, <2>3
    <3>2. Of(w) \in touched
      BY <1>3, <2>3
    <3> QED BY <1>2, <3>1, <3>2
  <2>4. CASE ~Is(v) /\ ~Is(w)
    <3>1. lvars[v].name = <<v>> /\ lvars[w].name = <<w>>
      BY <1>4, <2>4
    <3>2. <<v>> = <<w>>
      BY <3>1
    <3> QED BY <3>2
  <2> QED BY <2>1, <2>2, <2>3, <2>4
<1>8. LInv(lvars)
  BY <1>4, <1>5, <1>7 DEF LInv, IsLvar
<1>9. body \in [1..2 -> Seq(Statement)]
  <2>1. <<>> \in Seq(Statement)
    OBVIOUS
  <2>2. \A S : \A x \in S : <<x, x>> \in [1..2 -> S]
    OBVIOUS
  <2>3. body = << <<>>, <<>> >>
    BY DEF PInit
  <2> QED BY <2>1, <2>2, <2>3
<1> QED BY <1>4, <1>8, <1>9 DEF PInv, PInit, NamesTellTheType

LEMMA PInvEmit == PrologAssumption /\ PInv /\ EmitFragment => PInv'
<1> SUFFICES ASSUME PrologAssumption, PInv, EmitFragment PROVE PInv'
  OBVIOUS
<1>1. PICK stmts \in Fragments, k \in 1..2 : body' = [body EXCEPT ![k] = @ \o stmts]
  BY DEF EmitFragment
<1>2. stmts \in Seq(Statement) /\ body[k] \in Seq(Statement) /\ body \in [1..2 -> Seq(Statement)]
  BY DEF PrologAssumption, PInv
<1>3. body[k] \o stmts \in Seq(Statement)
  BY <1>2
<1>4. body' \in [1..2 -> Seq(Statement)]
  BY <1>1, <1>2, <1>3
<1> QED BY <1>4 DEF PInv, EmitFragment, NamesTellTheType

LEMMA PInvLabel == PInv /\ PlaceLabel => PInv'
<1> SUFFICES ASSUME PInv, PlaceLabel PROVE PInv'
  OBVIOUS
<1>1. PICK k \in 1..2 : \E i \in 1..Len(body[k]) : body' = [body EXCEPT ![k][i].label = 1]
  BY DEF PlaceLabel
<1>2. PICK i \in 1..Len(body[k]) : body' = [body EXCEPT ![k][i].label = 1]
  BY <1>1
<1> DEFINE s == [body[k][i] EXCEPT !.label = 1]
           b == [body[k] EXCEPT ![i] = s]
<1>3. body[k] \in Seq(Statement) /\ body \in [1..2 -> Seq(Statement)]
  BY DEF PInv
<1>4. body[k][i] \in Statement
  BY <1>3
<1>5. s \in Statement
  BY <1>4 DEF Statement
<1>6. body' = [body EXCEPT ![k] = b]
  BY <1>2
<1> HIDE DEF s
<1>7. b \in Seq(Statement)
  BY <1>3, <1>5
<1> HIDE DEF b
<1>8. body' \in [1..2 -> Seq(Statement)]
  BY <1>3, <1>6, <1>7
<1> QED BY <1>8 DEF PInv, PlaceLabel, NamesTellTheType

LEMMA PInvBuilt == PInv /\ Built => PInv'
<1> SUFFICES ASSUME PInv, Built PROVE PInv'
  OBVIOUS
<1> DEFINE stmts == Both(body)
<1>1. body[1] \in Seq(Statement) /\ body[2] \in Seq(Statement)
  BY DEF PInv
<1>2. stmts \in Seq(Statement)
  BY <1>1 DEF Both
<1>3. LInv(lvars) /\ lvars' = PrologRewrites(lvars, stmts)
  BY DEF PInv, Built
<1> HIDE DEF stmts
<1>4. LInv(lvars') /\ Grows(lvars, lvars', {"md", "vwt"})
  BY <1>2, <1>3, PrologNames
<1>5. \A v \in Lvars : lvars[v].user => lvars[v].own
  BY DEF PInv, Built
<1>6. \A v \in Lvars : lvars'[v].user /\ ~lvars'[v].own => lvars'[v].name[2] \in {"md", "vwt"}
  BY <1>4, <1>5 DEF Grows
<1> QED BY <1>4, <1>6 DEF PInv, Built, NamesTellTheType

LEMMA PInvFinal == PrologAssumption /\ PInv /\ Final => PInv'
<1> SUFFICES ASSUME PrologAssumption, PInv, Final PROVE PInv'
  OBVIOUS
<1> DEFINE stmts == body[1]
           m == BufRewrites(lvars, stmts)
           o == RenameErrors(m, stmts)
           p == lvars'
<1>1. stmts \in Seq(Statement) /\ body[2] \in Seq(Statement) /\ LInv(lvars)
  BY DEF PInv
<1>2. p = RenameErrors(o, body[2])
  BY DEF Final
<1>3. \A v \in Lvars : lvars[v].user /\ ~lvars[v].own => lvars[v].name[2] \in {"md", "vwt"}
  BY DEF PInv, Final
<1> HIDE DEF stmts
<1>4. /\ LInv(m) /\ Grows(lvars, m, {"buf"})
      /\ \A v \in Lvars : m[v].user /\ ~lvars[v].user =>
            \E i \in 1..Len(stmts) : BufferAt(lvars, stmts, i, v, m[v].name[1])
  BY <1>1, BufNames
<1> HIDE DEF m
<1>5. LInv(o) /\ Grows(m, o, {"error"})
  BY <1>1, <1>4, ErrorNames
<1> HIDE DEF o
<1>6. LInv(RenameErrors(o, body[2])) /\ Grows(o, RenameErrors(o, body[2]), {"error"})
  BY <1>1, <1>5, ErrorNames
<1>7. LInv(p) /\ Grows(o, p, {"error"})
  BY <1>2, <1>6
<1> HIDE DEF p
<1>8. Grows(m, p, {"error"})
  BY <1>5, <1>7, GrowsTransitive DEF LInv, IsLvar
<1>9. ASSUME NEW v \in Lvars, ~p[v].own, Len(p[v].name) > 1, p[v].name[2] = "buf"
      PROVE  \E i \in 2..Len(stmts) :
                 /\ stmts[i].lv = v /\ stmts[i].op = "alloca" /\ stmts[i - 1].op = "chkstk"
                 /\ p[stmts[i - 1].arg].name[1] = p[v].name[1]
  <2>1. p[v].user
    <3>1. SUFFICES ASSUME ~p[v].user PROVE FALSE
      OBVIOUS
    <3>2. p[v].name = <<v>>
      BY <1>7, <3>1 DEF LInv
    <3> QED BY <1>9, <3>2
  <2>2. m[v].user /\ p[v].name = m[v].name
    BY <1>8, <1>9, <2>1 DEF Grows
  <2>3. ~lvars[v].user
    BY <1>3, <1>4, <1>8, <1>9, <2>2 DEF Grows
  <2>4. PICK i \in 1..Len(stmts) : BufferAt(lvars, stmts, i, v, m[v].name[1])
    BY <1>4, <2>2, <2>3
  <2> DEFINE arg == stmts[i - 1].arg
  <2>5. /\ i - 1 > 0 /\ stmts[i - 1].op = "chkstk" /\ IsVwt(lvars, arg)
        /\ lvars[arg].name[1] = m[v].name[1]
    BY <2>4 DEF BufferAt, PendingType
  <2>6. i \in 2..Len(stmts) /\ stmts[i - 1] \in Statement
    BY <1>1, <2>5
  <2>7. arg \in Lvars /\ Len(lvars[arg].name) = 2
    BY <2>5, <2>6 DEF IsVwt, Statement
  <2> HIDE DEF arg
  <2>8. lvars[arg].user
    <3>1. SUFFICES ASSUME ~lvars[arg].user PROVE FALSE
      OBVIOUS
    <3>2. lvars[arg].name = <<arg>>
      BY <1>1, <2>7, <3>1 DEF LInv
    <3> QED BY <2>7, <3>2
  <2>9. p[arg].name = lvars[arg].name
    BY <1>4, <1>8, <2>7, <2>8 DEF Grows
  <2>10. p[arg].name[1] = p[v].name[1]
    BY <2>2, <2>5, <2>9
  <2>11. stmts[i].lv = v /\ stmts[i].op = "alloca"
    BY <2>4 DEF BufferAt, IsAlignedAlloca
  <2> QED BY <2>5, <2>6, <2>10, <2>11 DEF arg
<1>10. \A v, w \in Lvars : p[v].name = p[w].name => v = w
  BY <1>7 DEF LInv, Distinct
<1>11. body' = body /\ phase' = "final"
  BY DEF Final
<1>12. NamesTellTheType'
  BY <1>9, <1>10, <1>11 DEF NamesTellTheType, stmts, p
<1> QED BY <1>7, <1>11, <1>12 DEF PInv, p

LEMMA PInvariance == PSpec => []PInv
<1>1. PInit => PInv
  BY PrologAssumption, PInvInit
<1>2. PInv /\ [PNext]_prologVars => PInv'
  <2> SUFFICES ASSUME PInv, [PNext]_prologVars PROVE PInv'
    OBVIOUS
  <2>1. CASE EmitFragment
    BY <2>1, PrologAssumption, PInvEmit
  <2>2. CASE PlaceLabel
    BY <2>2, PInvLabel
  <2>3. CASE Built
    BY <2>3, PInvBuilt
  <2>4. CASE Final
    BY <2>4, PrologAssumption, PInvFinal
  <2>5. CASE UNCHANGED prologVars
    BY <2>5 DEF prologVars, PInv, NamesTellTheType
  <2> QED BY <2>1, <2>2, <2>3, <2>4, <2>5 DEF PNext
<1> QED BY <1>1, <1>2, PTL DEF PSpec

(* However many types a prolog has and whatever the user named before:     *)
(* names stay distinct, and a buffer is named for the type whose size was  *)
(* probed for it by the statement before (prolog_rewrite.py,               *)
(* _apply_buf_rewrites and the passes around it).                          *)
THEOREM NamesDoTell == PSpec => []NamesTellTheType
<1>1. PInv => NamesTellTheType
  BY DEF PInv
<1> QED BY <1>1, PInvariance, PTL


----------------------------------------------------------------------------
(* The statements of a block (Only).  Proofs follow the recursion, with    *)
(* IntervalInduction.                                                      *)

(* The recursion of Only, for a sequence over S.                           *)
Picks(f, s, those) ==
    /\ f[0] = <<>>
    /\ \A i \in 1..Len(s) :
         f[i] = IF s[i] \in those THEN Append(f[i - 1], s[i]) ELSE f[i - 1]

LEMMA OnlyPicks ==
    ASSUME NEW S, NEW s \in Seq(S), NEW those
    PROVE  \E f \in [0..Len(s) -> Seq(S)] : Picks(f, s, those) /\ Only(s, those) = f[Len(s)]
<1> DEFINE n == Len(s)
           E(f) == [i \in 0..n |->
                      IF i = 0 THEN <<>>
                      ELSE IF s[i] \in those THEN Append(f[i - 1], s[i]) ELSE f[i - 1]]
           F == CHOOSE f : f = E(f)
           step == [i \in Nat |-> [x \in Seq(S) |->
                      IF i \in 1..n /\ s[i] \in those THEN Append(x, s[i]) ELSE x]]
<1>1. n \in Nat /\ <<>> \in Seq(S) /\ \A i \in 1..n : s[i] \in S
  OBVIOUS
<1>2. Only(s, those) = F[n]
  BY DEF Only
<1>3. \A f : \A i \in 0..n : E(f)[i] = IF i = 0 THEN <<>>
                      ELSE IF s[i] \in those THEN Append(f[i - 1], s[i]) ELSE f[i - 1]
  OBVIOUS
<1>4. \A f : E(f) = [i \in 0..n |-> E(f)[i]]
  OBVIOUS
<1>5. step \in [Nat -> [Seq(S) -> Seq(S)]]
  <2>1. \A i \in Nat, x \in Seq(S) : (IF i \in 1..n /\ s[i] \in those THEN Append(x, s[i]) ELSE x) \in Seq(S)
    BY <1>1
  <2> QED BY <2>1
<1>6. \A i \in 1..n : \A x \in Seq(S) : step[i][x] = IF s[i] \in those THEN Append(x, s[i]) ELSE x
  BY <1>1
<1> HIDE DEF E, step, n
<1>7. PICK g : IsRecursion(g, n, Seq(S), <<>>, step)
  BY <1>1, <1>5, RecursionExists
<1>8. g \in [0..n -> Seq(S)] /\ g[0] = <<>>
      /\ \A i \in 1..n : g[i] = IF s[i] \in those THEN Append(g[i - 1], s[i]) ELSE g[i - 1]
  <2>1. g \in [0..n -> Seq(S)] /\ g[0] = <<>> /\ \A i \in 1..n : g[i] = step[i][g[i - 1]]
    BY <1>7 DEF IsRecursion
  <2>2. \A i \in 1..n : g[i - 1] \in Seq(S)
    BY <1>1, <2>1
  <2> QED BY <1>6, <2>1, <2>2
<1>9. g = E(g)
  <2>1. \A i \in 0..n : i = 0 \/ i \in 1..n
    BY <1>1
  <2>2. \A i \in 0..n : g[i] = E(g)[i]
    BY <1>3, <1>8, <2>1
  <2>3. g = [i \in 0..n |-> g[i]]
    BY <1>8
  <2> QED BY <1>4, <2>2, <2>3
<1>10. F = E(F)
  BY <1>9
<1> HIDE DEF F
<1>11. F[0] = <<>> /\ \A i \in 1..n : F[i] = IF s[i] \in those THEN Append(F[i - 1], s[i]) ELSE F[i - 1]
  <2>1. 0 \in 0..n /\ \A i \in 1..n : i \in 0..n /\ i # 0
    BY <1>1
  <2> QED BY <1>3, <1>10, <2>1
<1>12. F \in [0..n -> Seq(S)]
  <2> DEFINE T == {i \in 0..n : F[i] \in Seq(S)}
  <2>1. 0 \in T
    <3>1. 0 \in 0..n
      BY <1>1
    <3> QED BY <1>1, <1>11, <3>1
  <2>2. ASSUME NEW i \in 1..n, i - 1 \in T PROVE i \in T
    <3>1. F[i - 1] \in Seq(S) /\ i \in 0..n /\ s[i] \in S
      BY <1>1, <2>2
    <3>2. F[i] = Append(F[i - 1], s[i]) \/ F[i] = F[i - 1]
      BY <1>11
    <3> HIDE DEF n
    <3>3. Append(F[i - 1], s[i]) \in Seq(S)
      BY <3>1, AppendProperties
    <3>4. F[i] \in Seq(S)
      BY <3>1, <3>2, <3>3
    <3> QED BY <3>1, <3>4
  <2> HIDE DEF T
  <2>3. 0..n \subseteq T
    BY <1>1, <2>1, <2>2, IntervalInduction
  <2>4. \A i \in 0..n : F[i] \in Seq(S)
    BY <2>3 DEF T
  <2>5. F = [i \in 0..n |-> F[i]]
    BY <1>4, <1>10
  <2> QED BY <2>4, <2>5
<1>13. Picks(F, s, those)
  BY <1>11 DEF Picks, n
<1> QED BY <1>2, <1>12, <1>13 DEF n

LEMMA OnlyAppend ==
    ASSUME NEW S, NEW s \in Seq(S), NEW x \in S, NEW those
    PROVE  Only(Append(s, x), those) = IF x \in those THEN Append(Only(s, those), x) ELSE Only(s, those)
<1> DEFINE t == Append(s, x)
<1>1. /\ t \in Seq(S) /\ Len(t) = Len(s) + 1 /\ t[Len(t)] = x /\ Len(s) \in Nat
      /\ \A i \in 1..Len(s) : s[i] = t[i]
  OBVIOUS
<1> HIDE DEF t
<1>2. PICK f \in [0..Len(s) -> Seq(S)] : Picks(f, s, those) /\ Only(s, those) = f[Len(s)]
  BY OnlyPicks
<1>3. PICK g \in [0..Len(t) -> Seq(S)] : Picks(g, t, those) /\ Only(t, those) = g[Len(t)]
  BY <1>1, OnlyPicks
<1>4. Len(s) <= Len(t) /\ Len(s) \in 0..Len(s) /\ Len(t) \in 1..Len(t) /\ Len(t) - 1 = Len(s)
  BY <1>1
<1>5. \A i \in 0..Len(s) : f[i] = g[i]
  <2> DEFINE T == {i \in 0..Len(s) : f[i] = g[i]}
  <2>1. 0 \in T
    BY <1>1, <1>2, <1>3 DEF Picks
  <2>2. ASSUME NEW i \in 1..Len(s), i - 1 \in T PROVE i \in T
    <3>1. i \in 1..Len(t) /\ i \in 0..Len(s) /\ s[i] = t[i] /\ f[i - 1] = g[i - 1]
      BY <1>1, <2>2
    <3>2. f[i] = IF s[i] \in those THEN Append(f[i - 1], s[i]) ELSE f[i - 1]
      BY <1>2 DEF Picks
    <3>3. g[i] = IF t[i] \in those THEN Append(g[i - 1], t[i]) ELSE g[i - 1]
      BY <1>3, <3>1 DEF Picks
    <3>4. f[i] = g[i]
      BY <3>1, <3>2, <3>3
    <3> QED BY <3>1, <3>4
  <2> HIDE DEF T
  <2>3. 0..Len(s) \subseteq T
    BY <1>1, <2>1, <2>2, IntervalInduction
  <2> QED BY <2>3 DEF T
<1>6. g[Len(t)] = IF t[Len(t)] \in those THEN Append(g[Len(t) - 1], t[Len(t)]) ELSE g[Len(t) - 1]
  BY <1>3, <1>4 DEF Picks
<1> QED BY <1>1, <1>2, <1>3, <1>4, <1>5, <1>6 DEF t

LEMMA OnlyNone == ASSUME NEW those, NEW S PROVE Only(<<>>, those) = <<>>
<1> DEFINE s == <<>>
<1>1. s \in Seq(S)
  OBVIOUS
<1>3. Len(s) = 0 /\ s = <<>>
  OBVIOUS
<1> HIDE DEF s
<1>2. PICK f \in [0..Len(s) -> Seq(S)] : Picks(f, s, those) /\ Only(s, those) = f[Len(s)]
  BY <1>1, OnlyPicks
<1> QED BY <1>2, <1>3 DEF Picks

(* What is taken twice is what is in both sets.                            *)
LEMMA OnlyOnly ==
    ASSUME NEW S, NEW s \in Seq(S), NEW kept, NEW those, \A i \in 1..Len(s) : s[i] \in those => s[i] \in kept
    PROVE  Only(Only(s, kept), those) = Only(s, those)
<1>1. PICK f \in [0..Len(s) -> Seq(S)] : Picks(f, s, kept) /\ Only(s, kept) = f[Len(s)]
  BY OnlyPicks
<1>2. PICK g \in [0..Len(s) -> Seq(S)] : Picks(g, s, those) /\ Only(s, those) = g[Len(s)]
  BY OnlyPicks
<1> DEFINE T == {i \in 0..Len(s) : Only(f[i], those) = g[i]}
<1>3. Len(s) \in Nat
  OBVIOUS
<1>4. 0 \in T
  BY <1>1, <1>2, <1>3, OnlyNone DEF Picks
<1>5. ASSUME NEW i \in 1..Len(s), i - 1 \in T PROVE i \in T
  <2>1. i \in 0..Len(s) /\ i - 1 \in 0..Len(s) /\ s[i] \in S
    BY <1>3
  <2>0. f[i - 1] \in Seq(S)
    BY <1>1, <2>1
  <2>2. Only(f[i - 1], those) = g[i - 1]
    BY <1>5
  <2>3. f[i] = IF s[i] \in kept THEN Append(f[i - 1], s[i]) ELSE f[i - 1]
    BY <1>1 DEF Picks
  <2>4. g[i] = IF s[i] \in those THEN Append(g[i - 1], s[i]) ELSE g[i - 1]
    BY <1>2 DEF Picks
  <2>5. Only(Append(f[i - 1], s[i]), those) = IF s[i] \in those THEN Append(g[i - 1], s[i]) ELSE g[i - 1]
    <3> DEFINE a == f[i - 1]
               x == s[i]
    <3>1. a \in Seq(S) /\ x \in S /\ Only(a, those) = g[i - 1]
      BY <2>0, <2>1, <2>2
    <3> HIDE DEF a, x
    <3>2. Only(Append(a, x), those) = IF x \in those THEN Append(Only(a, those), x) ELSE Only(a, those)
      BY <3>1, OnlyAppend
    <3> QED BY <3>1, <3>2 DEF a, x
  <2>6. CASE s[i] \in kept
    <3>1. f[i] = Append(f[i - 1], s[i])
      BY <2>3, <2>6
    <3> QED BY <2>1, <2>4, <2>5, <3>1
  <2>7. CASE s[i] \notin kept
    <3>1. f[i] = f[i - 1] /\ g[i] = g[i - 1]
      BY <2>3, <2>4, <2>7
    <3> QED BY <2>1, <2>2, <3>1
  <2> QED BY <2>6, <2>7
<1> HIDE DEF T
<1>6. 0..Len(s) \subseteq T
  BY <1>3, <1>4, <1>5, IntervalInduction
<1>7. Len(s) \in 0..Len(s)
  BY <1>3
<1> QED BY <1>1, <1>2, <1>6, <1>7 DEF T

(* What is not taken may differ.                                           *)
LEMMA OnlySame ==
    ASSUME NEW S, NEW s \in Seq(S), NEW t \in Seq(S), Len(s) = Len(t), NEW those,
           \A i \in 1..Len(s) : s[i] = t[i] \/ (s[i] \notin those /\ t[i] \notin those)
    PROVE  Only(s, those) = Only(t, those)
<1>1. PICK f \in [0..Len(s) -> Seq(S)] : Picks(f, s, those) /\ Only(s, those) = f[Len(s)]
  BY OnlyPicks
<1>2. PICK g \in [0..Len(t) -> Seq(S)] : Picks(g, t, those) /\ Only(t, those) = g[Len(t)]
  BY OnlyPicks
<1> DEFINE T == {i \in 0..Len(s) : f[i] = g[i]}
<1>3. Len(s) \in Nat
  OBVIOUS
<1>4. 0 \in T
  BY <1>1, <1>2, <1>3 DEF Picks
<1>5. ASSUME NEW i \in 1..Len(s), i - 1 \in T PROVE i \in T
  <2>1. i \in 0..Len(s) /\ f[i - 1] = g[i - 1]
    BY <1>3, <1>5
  <2>2. f[i] = IF s[i] \in those THEN Append(f[i - 1], s[i]) ELSE f[i - 1]
    BY <1>1 DEF Picks
  <2>3. g[i] = IF t[i] \in those THEN Append(g[i - 1], t[i]) ELSE g[i - 1]
    BY <1>2 DEF Picks
  <2>4. f[i] = g[i]
    BY <2>1, <2>2, <2>3
  <2> QED BY <2>1, <2>4
<1> HIDE DEF T
<1>6. 0..Len(s) \subseteq T
  BY <1>3, <1>4, <1>5, IntervalInduction
<1>7. Len(s) \in 0..Len(s)
  BY <1>3
<1> QED BY <1>1, <1>2, <1>6, <1>7 DEF T

(* The elements taken are those of the sequence that are in the set.       *)
LEMMA OnlyElements ==
    ASSUME NEW S, NEW s \in Seq(S), NEW those
    PROVE  /\ Only(s, those) \in Seq(S)
           /\ \A i \in 1..Len(s) : s[i] \in those => \E j \in 1..Len(Only(s, those)) : Only(s, those)[j] = s[i]
           /\ \A j \in 1..Len(Only(s, those)) : \E i \in 1..Len(s) : Only(s, those)[j] = s[i] /\ s[i] \in those
<1>1. PICK f \in [0..Len(s) -> Seq(S)] : Picks(f, s, those) /\ Only(s, those) = f[Len(s)]
  BY OnlyPicks
<1> DEFINE Has(k) == /\ \A i \in 1..k : s[i] \in those => \E j \in 1..Len(f[k]) : f[k][j] = s[i]
                     /\ \A j \in 1..Len(f[k]) : \E i \in 1..k : f[k][j] = s[i] /\ s[i] \in those
           T == {k \in 0..Len(s) : Has(k)}
<1>2. Len(s) \in Nat
  OBVIOUS
<1>3. 0 \in T
  <2>1. f[0] = <<>> /\ 1..0 = {} /\ Len(f[0]) = 0 /\ 0 \in 0..Len(s)
    BY <1>1, <1>2 DEF Picks
  <2> QED BY <2>1
<1>4. ASSUME NEW k \in 1..Len(s), k - 1 \in T PROVE k \in T
  <2>1. k \in 0..Len(s) /\ k - 1 \in 0..Len(s) /\ Has(k - 1) /\ s[k] \in S
    BY <1>2, <1>4
  <2>2. f[k] = IF s[k] \in those THEN Append(f[k - 1], s[k]) ELSE f[k - 1]
    BY <1>1 DEF Picks
  <2>3. f[k - 1] \in Seq(S) /\ Len(f[k - 1]) \in Nat
    BY <1>1, <2>1
  <2>4. \A i \in 1..k : i = k \/ i \in 1..(k - 1)
    BY <2>1
  <2>5. \A i \in 1..(k - 1) : i \in 1..k
    BY <2>1
  <2> DEFINE old == f[k - 1]
             new == Append(f[k - 1], s[k])
  <2>6. CASE s[k] \notin those
    <3>1. f[k] = f[k - 1]
      BY <2>2, <2>6
    <3>2. \A i \in 1..k : s[i] \in those => \E j \in 1..Len(f[k]) : f[k][j] = s[i]
      BY <2>1, <2>4, <2>6, <3>1
    <3>3. \A j \in 1..Len(f[k]) : \E i \in 1..k : f[k][j] = s[i] /\ s[i] \in those
      BY <2>1, <2>5, <3>1
    <3> QED BY <2>1, <3>2, <3>3
  <2>7. CASE s[k] \in those
    <3>1. f[k] = new
      BY <2>2, <2>7
    <3>2. /\ Len(new) = Len(old) + 1 /\ new[Len(old) + 1] = s[k]
          /\ \A j \in 1..Len(old) : new[j] = old[j] /\ j \in 1..Len(new)
          /\ \A j \in 1..Len(new) : j = Len(old) + 1 \/ j \in 1..Len(old)
          /\ Len(old) + 1 \in 1..Len(new)
      BY <2>1, <2>3
    <3>3. k \in 1..k
      BY <2>1
    <3>4. /\ \A i \in 1..(k - 1) : s[i] \in those => \E j \in 1..Len(old) : old[j] = s[i]
          /\ \A j \in 1..Len(old) : \E i \in 1..(k - 1) : old[j] = s[i] /\ s[i] \in those
      BY <2>1
    <3> HIDE DEF new, old
    <3>5. \A i \in 1..k : s[i] \in those => \E j \in 1..Len(new) : new[j] = s[i]
      BY <2>4, <3>2, <3>4
    <3>6. \A j \in 1..Len(new) : \E i \in 1..k : new[j] = s[i] /\ s[i] \in those
      <4> TAKE j \in 1..Len(new)
      <4>1. CASE j = Len(old) + 1
        BY <2>7, <3>2, <3>3, <4>1
      <4>2. CASE j \in 1..Len(old)
        <5>1. PICK i \in 1..(k - 1) : old[j] = s[i] /\ s[i] \in those
          BY <3>4, <4>2
        <5> QED BY <2>5, <3>2, <4>2, <5>1
      <4> QED BY <3>2, <4>1, <4>2
    <3> QED BY <2>1, <3>1, <3>5, <3>6
  <2> QED BY <2>6, <2>7
<1> HIDE DEF Has
<1>5. 0..Len(s) \subseteq T
  <2> HIDE DEF T
  <2> QED BY <1>2, <1>3, <1>4, IntervalInduction
<1>6. Has(Len(s)) /\ Len(s) \in 0..Len(s)
  BY <1>2, <1>5
<1> QED BY <1>1, <1>6 DEF Has


----------------------------------------------------------------------------
(* How often a variable occurs.                                            *)
Occurs(s, v) == (IF s.lv = v THEN 1 ELSE 0) + (IF s.arg = v THEN 1 ELSE 0)

(* A variable that two statements have occurs twice.                       *)
LEMMA UsesCount ==
    ASSUME NEW S, NEW b, Both(b) \in Seq(S), NEW v
    PROVE  /\ Uses(b, v) \in Nat
           /\ \A i, j \in 1..Len(Both(b)) :
                i < j /\ Occurs(Both(b)[i], v) >= 1 /\ Occurs(Both(b)[j], v) >= 1 => Uses(b, v) >= 2
<1> DEFINE stmts == Both(b)
           n == Len(stmts)
           E(f) == [i \in 0..n |->
                      IF i = 0 THEN 0
                      ELSE f[i - 1] + (IF stmts[i].lv = v THEN 1 ELSE 0) + (IF stmts[i].arg = v THEN 1 ELSE 0)]
           F == CHOOSE f : f = E(f)
           occ == [i \in Nat |-> Occurs(stmts[i], v)]
           step == [i \in Nat |-> [x \in Nat |-> x + occ[i]]]
<1>1. Uses(b, v) = F[n]
  BY DEF Uses
<1>2. \A f : \A i \in 0..n : E(f)[i] = IF i = 0 THEN 0
                      ELSE f[i - 1] + (IF stmts[i].lv = v THEN 1 ELSE 0) + (IF stmts[i].arg = v THEN 1 ELSE 0)
  OBVIOUS
<1>3. \A f : E(f) = [i \in 0..n |-> E(f)[i]]
  OBVIOUS
<1>4. \A i \in Nat : occ[i] = (IF stmts[i].lv = v THEN 1 ELSE 0) + (IF stmts[i].arg = v THEN 1 ELSE 0)
  BY DEF Occurs
<1>5. n \in Nat
  OBVIOUS
<1> HIDE DEF E, n, stmts
<1>6. \A i \in Nat : occ[i] \in Nat
  BY <1>4
<1> HIDE DEF occ
<1>7. step \in [Nat -> [Nat -> Nat]]
  BY <1>6
<1>8. \A i \in 1..n : \A x \in Nat : step[i][x] = x + occ[i]
  BY <1>5
<1> HIDE DEF step
<1>9. PICK g : IsRecursion(g, n, Nat, 0, step)
  BY <1>5, <1>7, RecursionExists
<1>10. g \in [0..n -> Nat] /\ g[0] = 0 /\ \A i \in 1..n : g[i] = g[i - 1] + occ[i]
  <2>1. g \in [0..n -> Nat] /\ g[0] = 0 /\ \A i \in 1..n : g[i] = step[i][g[i - 1]]
    BY <1>9 DEF IsRecursion
  <2>2. \A i \in 1..n : i - 1 \in 0..n
    BY <1>5
  <2> QED BY <1>8, <2>1, <2>2
<1>11. ASSUME NEW f, NEW i \in 1..n, f[i - 1] \in Nat
       PROVE  E(f)[i] = f[i - 1] + occ[i]
  <2>1. i \in 0..n /\ i # 0 /\ i \in Nat
    BY <1>5
  <2>2. E(f)[i] = f[i - 1] + (IF stmts[i].lv = v THEN 1 ELSE 0) + (IF stmts[i].arg = v THEN 1 ELSE 0)
    BY <1>2, <2>1
  <2>3. occ[i] = (IF stmts[i].lv = v THEN 1 ELSE 0) + (IF stmts[i].arg = v THEN 1 ELSE 0)
    BY <1>4, <2>1
  <2> QED BY <1>11, <2>2, <2>3
<1>12. g = E(g)
  <2>1. 0 \in 0..n /\ \A i \in 0..n : i = 0 \/ (i \in 1..n /\ i - 1 \in 0..n)
    BY <1>5
  <2>2. \A i \in 1..n : g[i - 1] \in Nat
    <3>1. \A i \in 1..n : i - 1 \in 0..n
      BY <1>5
    <3> QED BY <1>10, <3>1
  <2>3. \A i \in 1..n : g[i] = E(g)[i]
    BY <1>10, <1>11, <2>2
  <2>4. g[0] = E(g)[0]
    BY <1>2, <1>10, <2>1
  <2>5. \A i \in 0..n : g[i] = E(g)[i]
    BY <2>1, <2>3, <2>4
  <2>6. g = [i \in 0..n |-> g[i]]
    BY <1>10
  <2> QED BY <1>3, <2>5, <2>6
<1>13. F = E(F)
  BY <1>12
<1> HIDE DEF F
<1> DEFINE Ok(k) == /\ F[k] \in Nat
                    /\ \A i \in 1..k : occ[i] >= 1 => F[k] >= 1
                    /\ \A i, j \in 1..k : i < j /\ occ[i] >= 1 /\ occ[j] >= 1 => F[k] >= 2
           T == {k \in 0..n : Ok(k)}
<1>14. 0 \in T
  <2>1. 0 \in 0..n
    BY <1>5
  <2>2. F[0] = 0
    BY <1>2, <1>13, <2>1
  <2> QED BY <2>1, <2>2
<1>15. ASSUME NEW k \in 1..n, k - 1 \in T PROVE k \in T
  <2>1. k \in 0..n /\ k \in Nat /\ k - 1 \in Nat /\ Ok(k - 1)
    BY <1>5, <1>15
  <2>2. E(F)[k] = F[k - 1] + occ[k]
    BY <1>11, <2>1
  <2>3. F[k] = F[k - 1] + occ[k]
    BY <1>13, <2>2
  <2>4. occ[k] \in Nat /\ F[k - 1] \in Nat
    BY <1>6, <2>1
  <2>5. \A i \in 1..k : i = k \/ i \in 1..(k - 1)
    BY <2>1
  <2>6. /\ \A i \in 1..(k - 1) : occ[i] >= 1 => F[k - 1] >= 1
        /\ \A i, j \in 1..(k - 1) : i < j /\ occ[i] >= 1 /\ occ[j] >= 1 => F[k - 1] >= 2
    BY <2>1
  <2>7. F[k] \in Nat /\ F[k] >= F[k - 1]
    BY <2>3, <2>4
  <2>8. ASSUME NEW i \in 1..k, occ[i] >= 1 PROVE F[k] >= 1
    BY <2>3, <2>4, <2>5, <2>6, <2>8
  <2>9. ASSUME NEW i \in 1..k, NEW j \in 1..k, i < j, occ[i] >= 1, occ[j] >= 1 PROVE F[k] >= 2
    <3>1. i \in 1..(k - 1)
      BY <2>1, <2>9
    <3>2. F[k - 1] >= 1
      BY <2>6, <2>9, <3>1
    <3>3. CASE j = k
      BY <2>3, <2>4, <2>9, <3>2, <3>3
    <3>4. CASE j # k
      <4>1. j \in 1..(k - 1)
        BY <2>5, <3>4
      <4>2. F[k - 1] >= 2
        BY <2>6, <2>9, <3>1, <4>1
      <4> QED BY <2>3, <2>4, <4>2
    <3> QED BY <3>3, <3>4
  <2> QED BY <2>1, <2>7, <2>8, <2>9
<1> HIDE DEF Ok
<1>16. Ok(n)
  <2> HIDE DEF T
  <2>1. 0..n \subseteq T
    BY <1>5, <1>14, <1>15, IntervalInduction
  <2>2. n \in 0..n
    BY <1>5
  <2> QED BY <2>1, <2>2 DEF T
<1>17. \A i \in 1..n : occ[i] = Occurs(stmts[i], v)
  <2>1. \A i \in 1..n : i \in Nat
    BY <1>5
  <2> QED BY <1>4, <2>1 DEF Occurs
<1> QED BY <1>1, <1>16, <1>17 DEF Ok, n, stmts

----------------------------------------------------------------------------
(* What the passes of the last maturity leave of the statements.           *)

Left == Statement \cup {Nop(s) : s \in Statement}
Pos(b, k, i) == IF k = 1 THEN i ELSE Len(b[1]) + i

Placed(S, b) ==
    /\ Both(b) \in Seq(S)
    /\ \A k \in 1..2 : \A i \in 1..Len(b[k]) :
         Pos(b, k, i) \in 1..Len(Both(b)) /\ Both(b)[Pos(b, k, i)] = b[k][i]
    /\ \A p \in 1..Len(Both(b)) : \E k \in 1..2 : \E i \in 1..Len(b[k]) : p = Pos(b, k, i)

LEMMA BothAt ==
    ASSUME NEW S, NEW b, b[1] \in Seq(S), b[2] \in Seq(S)
    PROVE  Placed(S, b)
<1> DEFINE s == b[1]
           t == b[2]
           w == s \o t
<1>1. /\ s \in Seq(S) /\ t \in Seq(S) /\ Both(b) = w
  BY DEF Both
<1> HIDE DEF s, t
<1>2. /\ w \in Seq(S) /\ Len(w) = Len(s) + Len(t) /\ Len(s) \in Nat /\ Len(t) \in Nat
      /\ \A i \in 1..Len(s) : w[i] = s[i] /\ i \in 1..Len(w)
      /\ \A i \in 1..Len(t) : w[Len(s) + i] = t[i] /\ Len(s) + i \in 1..Len(w)
      /\ \A p \in 1..Len(w) : p \in 1..Len(s) \/ (p - Len(s) \in 1..Len(t) /\ p = Len(s) + (p - Len(s)))
  BY <1>1
<1> HIDE DEF w
<1>3. /\ \A i \in 1..Len(b[1]) : Pos(b, 1, i) \in 1..Len(w) /\ w[Pos(b, 1, i)] = b[1][i]
      /\ \A i \in 1..Len(b[2]) : Pos(b, 2, i) \in 1..Len(w) /\ w[Pos(b, 2, i)] = b[2][i]
  BY <1>2 DEF Pos, s, t
<1>4. \A k \in 1..2 : k = 1 \/ k = 2
  OBVIOUS
<1>5. \A k \in 1..2 : \A i \in 1..Len(b[k]) : Pos(b, k, i) \in 1..Len(w) /\ w[Pos(b, k, i)] = b[k][i]
  BY <1>3, <1>4
<1>6. ASSUME NEW p \in 1..Len(w) PROVE \E k \in 1..2 : \E i \in 1..Len(b[k]) : p = Pos(b, k, i)
  <2>1. CASE p \in 1..Len(s)
    <3>1. p = Pos(b, 1, p) /\ p \in 1..Len(b[1]) /\ 1 \in 1..2
      BY <2>1 DEF Pos, s
    <3> QED BY <3>1
  <2>2. CASE p \notin 1..Len(s)
    <3>1. p - Len(s) \in 1..Len(t) /\ p = Len(s) + (p - Len(s))
      BY <1>2, <2>2
    <3>2. p = Pos(b, 2, p - Len(s)) /\ p - Len(s) \in 1..Len(b[2]) /\ 2 \in 1..2
      BY <3>1 DEF Pos, s, t
    <3> QED BY <3>2
  <2> QED BY <2>1, <2>2
<1> QED BY <1>1, <1>2, <1>5, <1>6 DEF Placed

LEMMA NopFields ==
    ASSUME NEW s \in Statement
    PROVE  Nop(s).op = "empty" /\ Nop(s).lv = NoVar /\ Nop(s).arg = NoVar /\ Nop(s).label = s.label
<1>1. s = [op |-> s.op, lv |-> s.lv, arg |-> s.arg, type |-> s.type, label |-> s.label]
  BY DEF Statement
<1>2. Nop(s).op = "empty"
  BY <1>1 DEF Nop
<1>3. Nop(s).lv = NoVar
  BY <1>1 DEF Nop
<1>4. Nop(s).arg = NoVar
  BY <1>1 DEF Nop
<1>5. Nop(s).label = s.label
  BY <1>1 DEF Nop
<1> QED BY <1>2, <1>3, <1>4, <1>5

LEMMA NopStatementIs ==
    ASSUME NEW s PROVE NopStatement(s) = IF s.label # NoLabel THEN s ELSE Nop(s)
BY DEF NopStatement

ErasedCall(s) == IF s.op = "chkstk" THEN NopStatement(s) ELSE s
ErasedUse(b, lvs, s) == IF Unused(b, lvs, s) THEN NopStatement(s) ELSE s

LEMMA ErasedBlocks ==
    ASSUME NEW b, NEW lvs
    PROVE  /\ EraseChkstk(b)[1] = [i \in 1..Len(b[1]) |-> ErasedCall(b[1][i])]
           /\ EraseChkstk(b)[2] = [i \in 1..Len(b[2]) |-> ErasedCall(b[2][i])]
           /\ EraseUnused(b, lvs)[1] = [i \in 1..Len(b[1]) |-> ErasedUse(b, lvs, b[1][i])]
           /\ EraseUnused(b, lvs)[2] = [i \in 1..Len(b[2]) |-> ErasedUse(b, lvs, b[2][i])]
BY DEF EraseChkstk, EraseUnused, Each, ErasedCall, ErasedUse

\* A statement is read in a body by what has it as an argument or tests it.
ReadIn(b, v) == \E j \in 1..Len(Both(b)) :
    Both(b)[j].arg = v \/ (Both(b)[j].op \in {"if", "use"} /\ Both(b)[j].lv = v)
Matters(b, lvs, s) ==
    /\ s.op \notin {"chkstk", "empty"}
    /\ s.op \in Differences => ReadIn(b, s.lv) \/ lvs[s.lv].user \/ lvs[s.lv].typed

Kept(b) ==
    LET all == Both(b)
    IN  {s \in {all[i] : i \in 1..Len(all)} : s.op # "empty" \/ s.label # NoLabel}

\* From b to z.
OnlyNoise(b, z, lvs) ==
    /\ \A i \in 1..Len(Both(b)) :
         Both(b)[i].label # NoLabel => \E j \in 1..Len(Both(z)) : Both(z)[j] = Both(b)[i]
    /\ \A k \in 1..2 : Only(b[k], {s \in Statement : Matters(z, lvs, s)}) =
                       Only(z[k], {s \in Statement : Matters(z, lvs, s)})
    /\ \A j \in 1..Len(Both(z)) : Both(z)[j].op = "empty" => Both(z)[j].label # NoLabel

(* Only noise is removed, whatever the names and types are.                *)
LEMMA PassesKeep ==
    ASSUME NEW b, b[1] \in Seq(Statement), b[2] \in Seq(Statement), NEW lvs,
           \A k \in 1..2 : \A i \in 1..Len(b[k]) : Assigns(b[k][i]),
           NEW z, z = Purge(EraseUnused(EraseChkstk(b), lvs))
    PROVE  OnlyNoise(b, z, lvs)
<1> DEFINE c == EraseChkstk(b)
           e == EraseUnused(c, lvs)
           matter == {s \in Statement : Matters(z, lvs, s)}
<1>1. \A k \in 1..2 : b[k] \in Seq(Statement) /\ Len(b[k]) \in Nat
  <2>1. \A k \in 1..2 : k = 1 \/ k = 2
    OBVIOUS
  <2> QED BY <2>1
<1>2. /\ c[1] = [i \in 1..Len(b[1]) |-> ErasedCall(b[1][i])]
      /\ c[2] = [i \in 1..Len(b[2]) |-> ErasedCall(b[2][i])]
      /\ e[1] = [i \in 1..Len(c[1]) |-> ErasedUse(c, lvs, c[1][i])]
      /\ e[2] = [i \in 1..Len(c[2]) |-> ErasedUse(c, lvs, c[2][i])]
  BY ErasedBlocks
<1>3. z = <<Only(e[1], Kept(e)), Only(e[2], Kept(e))>>
  BY DEF Purge, Kept
<1> HIDE DEF c, e
<1>4. \A k \in 1..2 : k = 1 \/ k = 2
  OBVIOUS
<1>5. \A k \in 1..2 : /\ c[k] = [i \in 1..Len(b[k]) |-> ErasedCall(b[k][i])]
                      /\ e[k] = [i \in 1..Len(c[k]) |-> ErasedUse(c, lvs, c[k][i])]
                      /\ z[k] = Only(e[k], Kept(e))
  <2>1. z[1] = Only(e[1], Kept(e)) /\ z[2] = Only(e[2], Kept(e))
    BY <1>3
  <2> QED BY <1>2, <1>4, <2>1
<1>6. ASSUME NEW s \in Statement
      PROVE  /\ ErasedCall(s) = IF s.op = "chkstk" /\ s.label = NoLabel THEN Nop(s) ELSE s
             /\ ErasedCall(s) \in Left
  BY NopStatementIs DEF ErasedCall, Left
<1>7. ASSUME NEW k \in 1..2
      PROVE  /\ Len(c[k]) = Len(b[k]) /\ c[k] \in Seq(Left)
             /\ \A i \in 1..Len(b[k]) :
                  /\ b[k][i] \in Statement
                  /\ c[k][i] = IF b[k][i].op = "chkstk" /\ b[k][i].label = NoLabel THEN Nop(b[k][i]) ELSE b[k][i]
  <2>1. \A i \in 1..Len(b[k]) : b[k][i] \in Statement
    BY <1>1
  <2>2. \A i \in 1..Len(b[k]) : c[k][i] = ErasedCall(b[k][i]) /\ c[k][i] \in Left
    BY <1>5, <1>6, <2>1
  <2>3. c[k] \in [1..Len(b[k]) -> Left]
    BY <1>5, <2>2
  <2>4. Len(c[k]) = Len(b[k]) /\ c[k] \in Seq(Left)
    BY <1>1, <2>3
  <2> QED BY <1>6, <2>1, <2>2, <2>4
<1>8. ASSUME NEW k \in 1..2
      PROVE  /\ Len(e[k]) = Len(b[k]) /\ e[k] \in Seq(Left)
             /\ \A i \in 1..Len(b[k]) :
                  e[k][i] = IF Unused(c, lvs, c[k][i]) /\ c[k][i].label = NoLabel THEN Nop(c[k][i]) ELSE c[k][i]
  <2>1. \A i \in 1..Len(b[k]) :
          e[k][i] = IF Unused(c, lvs, c[k][i]) /\ c[k][i].label = NoLabel THEN Nop(c[k][i]) ELSE c[k][i]
    <3> TAKE i \in 1..Len(b[k])
    <3>1. e[k][i] = ErasedUse(c, lvs, c[k][i])
      BY <1>5, <1>7
    <3>2. \A s : ErasedUse(c, lvs, s) = IF Unused(c, lvs, s) /\ s.label = NoLabel THEN Nop(s) ELSE s
      BY NopStatementIs DEF ErasedUse
    <3> QED BY <3>1, <3>2
  <2>2. ASSUME NEW i \in 1..Len(b[k]) PROVE e[k][i] \in Left
    <3>1. c[k][i] \in Left
      BY <1>7
    <3>2. CASE c[k][i] \in Statement
      BY <2>1, <3>2 DEF Left
    <3>3. CASE c[k][i] \notin Statement
      <4>1. PICK s \in Statement : c[k][i] = Nop(s)
        BY <3>1, <3>3 DEF Left
      <4>2. ~Unused(c, lvs, c[k][i])
        <5>1. c[k][i].op = "empty"
          BY <4>1, NopFields
        <5> QED BY <5>1 DEF Unused, Differences
      <4> QED BY <2>1, <3>1, <4>2
    <3> QED BY <3>2, <3>3
  <2>3. e[k] \in [1..Len(b[k]) -> Left]
    BY <1>5, <1>7, <2>2
  <2>4. Len(e[k]) = Len(b[k]) /\ e[k] \in Seq(Left)
    BY <1>1, <2>3
  <2> QED BY <2>1, <2>4
\* A statement is removed only when it has no label.
<1>9. ASSUME NEW k \in 1..2, NEW i \in 1..Len(b[k]), b[k][i].label # NoLabel
      PROVE  e[k][i] = b[k][i]
  BY <1>7, <1>8, <1>9
\* What a removed statement has become.
<1>10. ASSUME NEW k \in 1..2, NEW i \in 1..Len(b[k]), e[k][i] # b[k][i]
       PROVE  /\ e[k][i].op = "empty" /\ e[k][i].lv = NoVar /\ e[k][i].arg = NoVar
              /\ b[k][i].op = "chkstk" \/ (c[k][i] = b[k][i] /\ Unused(c, lvs, b[k][i]))
  <2>0. b[k][i] \in Statement
    BY <1>7
  <2>1. CASE c[k][i] = b[k][i]
    <3>1. Unused(c, lvs, b[k][i]) /\ e[k][i] = Nop(b[k][i])
      BY <1>8, <1>10, <2>1
    <3> QED BY <2>0, <2>1, <3>1, NopFields
  <2>2. CASE c[k][i] # b[k][i]
    <3>1. b[k][i].op = "chkstk" /\ c[k][i] = Nop(b[k][i])
      BY <1>7, <2>2
    <3>2. c[k][i].op = "empty"
      BY <2>0, <3>1, NopFields
    <3>3. e[k][i] = c[k][i]
      BY <1>8, <3>2 DEF Unused, Differences
    <3> QED BY <2>0, <3>1, <3>3, NopFields
  <2> QED BY <2>1, <2>2
<1>11. /\ Both(e) \in Seq(Left)
       /\ \A k \in 1..2 : \A i \in 1..Len(e[k]) :
                Pos(e, k, i) \in 1..Len(Both(e)) /\ Both(e)[Pos(e, k, i)] = e[k][i]
       /\ \A p \in 1..Len(Both(e)) : \E k \in 1..2 : \E i \in 1..Len(e[k]) : p = Pos(e, k, i)
  <2>1. e[1] \in Seq(Left) /\ e[2] \in Seq(Left)
    BY <1>8
  <2>2. Placed(Left, e)
    BY <2>1, BothAt
  <2> QED BY <2>2 DEF Placed
<1>12. /\ Both(c) \in Seq(Left)
       /\ \A k \in 1..2 : \A i \in 1..Len(c[k]) :
                Pos(c, k, i) \in 1..Len(Both(c)) /\ Both(c)[Pos(c, k, i)] = c[k][i]
  <2>1. c[1] \in Seq(Left) /\ c[2] \in Seq(Left)
    BY <1>7
  <2>2. Placed(Left, c)
    BY <2>1, BothAt
  <2> QED BY <2>2 DEF Placed
<1>13. \A k \in 1..2 :
           /\ z[k] \in Seq(Left)
           /\ \A i \in 1..Len(e[k]) : e[k][i] \in Kept(e) => \E j \in 1..Len(z[k]) : z[k][j] = e[k][i]
           /\ \A j \in 1..Len(z[k]) : \E i \in 1..Len(e[k]) : z[k][j] = e[k][i] /\ e[k][i] \in Kept(e)
  <2> TAKE k \in 1..2
  <2>1. e[k] \in Seq(Left) /\ z[k] = Only(e[k], Kept(e))
    BY <1>5, <1>8
  <2>2. /\ Only(e[k], Kept(e)) \in Seq(Left)
        /\ \A i \in 1..Len(e[k]) : e[k][i] \in Kept(e) =>
              \E j \in 1..Len(Only(e[k], Kept(e))) : Only(e[k], Kept(e))[j] = e[k][i]
        /\ \A j \in 1..Len(Only(e[k], Kept(e))) :
              \E i \in 1..Len(e[k]) : Only(e[k], Kept(e))[j] = e[k][i] /\ e[k][i] \in Kept(e)
    BY <1>8, OnlyElements
  <2> QED BY <2>1, <2>2
<1>14. /\ Both(z) \in Seq(Left)
       /\ \A k \in 1..2 : \A i \in 1..Len(z[k]) :
                Pos(z, k, i) \in 1..Len(Both(z)) /\ Both(z)[Pos(z, k, i)] = z[k][i]
       /\ \A p \in 1..Len(Both(z)) : \E k \in 1..2 : \E i \in 1..Len(z[k]) : p = Pos(z, k, i)
  <2>1. z[1] \in Seq(Left) /\ z[2] \in Seq(Left)
    BY <1>13
  <2>2. Placed(Left, z)
    BY <2>1, BothAt
  <2> QED BY <2>2 DEF Placed
<1>15. /\ Both(b) \in Seq(Statement)
       /\ \A k \in 1..2 : \A i \in 1..Len(b[k]) :
                Pos(b, k, i) \in 1..Len(Both(b)) /\ Both(b)[Pos(b, k, i)] = b[k][i]
       /\ \A p \in 1..Len(Both(b)) : \E k \in 1..2 : \E i \in 1..Len(b[k]) : p = Pos(b, k, i)
  <2>1. Placed(Statement, b)
    BY BothAt
  <2> QED BY <2>1 DEF Placed
<1>16. \A k \in 1..2 : \A i \in 1..Len(b[k]) :
         (e[k][i].op # "empty" \/ e[k][i].label # NoLabel) <=> e[k][i] \in Kept(e)
  <2>1. \A k \in 1..2 : \A i \in 1..Len(b[k]) : e[k][i] \in {Both(e)[p] : p \in 1..Len(Both(e))}
    <3> TAKE k \in 1..2
    <3> TAKE i \in 1..Len(b[k])
    <3>1. i \in 1..Len(e[k])
      BY <1>8
    <3>2. Pos(e, k, i) \in 1..Len(Both(e)) /\ Both(e)[Pos(e, k, i)] = e[k][i]
      BY <1>11, <3>1
    <3> QED BY <3>2
  <2> QED BY <2>1 DEF Kept
<1> HIDE DEF matter
<1>17. \A i \in 1..Len(Both(b)) :
         Both(b)[i].label # NoLabel => \E j \in 1..Len(Both(z)) : Both(z)[j] = Both(b)[i]
  <2> SUFFICES ASSUME NEW p \in 1..Len(Both(b)), Both(b)[p].label # NoLabel
               PROVE  \E j \in 1..Len(Both(z)) : Both(z)[j] = Both(b)[p]
    OBVIOUS
  <2>1. PICK k \in 1..2 : \E i \in 1..Len(b[k]) : p = Pos(b, k, i)
    BY <1>15
  <2>2. PICK i \in 1..Len(b[k]) : p = Pos(b, k, i)
    BY <2>1
  <2>3. Both(b)[p] = b[k][i]
    BY <1>15, <2>2
  <2>4. e[k][i] = b[k][i] /\ e[k][i].label # NoLabel
    BY <1>9, <2>3
  <2>5. e[k][i] \in Kept(e) /\ i \in 1..Len(e[k])
    BY <1>8, <1>16, <2>4
  <2>6. PICK j \in 1..Len(z[k]) : z[k][j] = e[k][i]
    BY <1>13, <2>5
  <2>7. Pos(z, k, j) \in 1..Len(Both(z)) /\ Both(z)[Pos(z, k, j)] = z[k][j]
    BY <1>14
  <2> QED BY <2>3, <2>4, <2>6, <2>7
\* A difference that is removed is not read by what is left.
<1>18. ASSUME NEW k \in 1..2, NEW i \in 1..Len(b[k]), e[k][i] # b[k][i],
              b[k][i].op \in Differences, c[k][i] = b[k][i], Unused(c, lvs, b[k][i])
       PROVE  ~ReadIn(z, b[k][i].lv)
  <2> DEFINE v == b[k][i].lv
  <2>1. v # NoVar
    BY <1>18 DEF Assigns
  <2>2. SUFFICES ASSUME NEW p \in 1..Len(Both(z)),
                        Both(z)[p].arg = v \/ (Both(z)[p].op \in {"if", "use"} /\ Both(z)[p].lv = v)
                 PROVE  FALSE
    BY DEF ReadIn
  <2>3. PICK l \in 1..2 : \E j \in 1..Len(z[l]) : p = Pos(z, l, j)
    BY <1>14
  <2>4. PICK j \in 1..Len(z[l]) : p = Pos(z, l, j)
    BY <2>3
  <2>5. Both(z)[p] = z[l][j]
    BY <1>14, <2>4
  <2>6. PICK h \in 1..Len(e[l]) : z[l][j] = e[l][h]
    BY <1>13
  <2>7. h \in 1..Len(b[l]) /\ (e[l][h].arg = v \/ (e[l][h].op \in {"if", "use"} /\ e[l][h].lv = v))
    BY <1>8, <2>2, <2>5, <2>6
  <2>8. e[l][h] = b[l][h]
    BY <1>10, <2>1, <2>7
  <2>9. c[l][h] = b[l][h]
    <3>1. SUFFICES ASSUME c[l][h] # b[l][h] PROVE FALSE
      OBVIOUS
    <3>2. c[l][h] = Nop(b[l][h]) /\ b[l][h] \in Statement /\ b[l][h].op = "chkstk"
      BY <1>7, <2>7, <3>1
    <3>3. c[l][h].op = "empty"
      BY <3>2, NopFields
    <3>4. e[l][h] = c[l][h]
      BY <1>8, <2>7, <3>3 DEF Unused, Differences
    <3> QED BY <2>8, <3>2, <3>3, <3>4
  <2>10. Pos(c, k, i) # Pos(c, l, h)
    <3>1. k # l \/ i # h
      BY <1>18, <2>8
    <3>2. CASE k = l
      BY <1>1, <1>7, <2>7, <3>1, <3>2 DEF Pos
    <3>3. CASE k # l
      <4>1. Len(c[1]) = Len(b[1]) /\ Len(b[1]) \in Nat
        BY <1>1, <1>7
      <4>2. \/ k = 1 /\ l = 2 /\ i \in 1..Len(b[1]) /\ h \in Nat \ {0}
            \/ k = 2 /\ l = 1 /\ h \in 1..Len(b[1]) /\ i \in Nat \ {0}
        BY <1>1, <1>4, <2>7, <3>3
      <4> QED BY <4>1, <4>2 DEF Pos
    <3> QED BY <3>2, <3>3
  <2>11. /\ Pos(c, k, i) \in 1..Len(Both(c)) /\ Both(c)[Pos(c, k, i)] = b[k][i]
         /\ Pos(c, l, h) \in 1..Len(Both(c)) /\ Both(c)[Pos(c, l, h)] = b[l][h]
    BY <1>7, <1>12, <1>18, <2>7, <2>9
  <2>12. Occurs(b[k][i], v) >= 1
    BY DEF Occurs
  <2>13. Occurs(b[l][h], v) >= 1
    <3>1. b[l][h].arg = v \/ b[l][h].lv = v
      BY <2>7, <2>8
    <3> HIDE DEF v
    <3> QED BY <3>1 DEF Occurs
  <2>14. Uses(c, v) \in Nat /\ Uses(c, v) <= 1
    <3>1. Uses(c, v) \in Nat
      BY <1>12, UsesCount
    <3>2. Uses(c, v) <= 1
      BY <1>18 DEF Unused
    <3> QED BY <3>1, <3>2
  <2> HIDE DEF v
  <2>15. \A q, r \in 1..Len(Both(c)) :
           q < r /\ Occurs(Both(c)[q], v) >= 1 /\ Occurs(Both(c)[r], v) >= 1 => Uses(c, v) >= 2
    BY <1>12, UsesCount
  <2>16. CASE Pos(c, k, i) < Pos(c, l, h)
    <3>1. Uses(c, v) >= 2
      BY <2>11, <2>12, <2>13, <2>15, <2>16
    <3> QED BY <2>14, <3>1
  <2>17. CASE Pos(c, l, h) < Pos(c, k, i)
    <3>1. Uses(c, v) >= 2
      BY <2>11, <2>12, <2>13, <2>15, <2>17
    <3> QED BY <2>14, <3>1
  <2>18. Pos(c, k, i) < Pos(c, l, h) \/ Pos(c, l, h) < Pos(c, k, i)
    <3>1. \A x, y \in 1..Len(Both(c)) : x # y => x < y \/ y < x
      OBVIOUS
    <3> QED BY <2>10, <2>11, <3>1
  <2> QED BY <2>16, <2>17, <2>18
<1>19. ASSUME NEW k \in 1..2, NEW i \in 1..Len(b[k]), e[k][i] # b[k][i]
       PROVE  e[k][i] \notin matter /\ b[k][i] \notin matter
  <2>1. e[k][i].op = "empty"
    BY <1>10, <1>19
  <2>2. e[k][i] \notin matter
    BY <2>1 DEF matter, Matters
  <2>3. CASE b[k][i].op = "chkstk"
    BY <2>2, <2>3 DEF matter, Matters
  <2>4. CASE b[k][i].op # "chkstk"
    <3>1. c[k][i] = b[k][i] /\ Unused(c, lvs, b[k][i])
      BY <1>10, <1>19, <2>4
    <3>2. b[k][i].op \in Differences /\ ~lvs[b[k][i].lv].user /\ ~lvs[b[k][i].lv].typed
      BY <3>1 DEF Unused
    <3>3. ~ReadIn(z, b[k][i].lv)
      BY <1>18, <1>19, <3>1, <3>2
    <3> QED BY <2>2, <3>2, <3>3 DEF matter, Matters
  <2> QED BY <2>3, <2>4
<1>20. ASSUME NEW k \in 1..2 PROVE Only(b[k], matter) = Only(z[k], matter)
  <2>1. Only(z[k], matter) = Only(e[k], matter)
    <3>1. \A i \in 1..Len(e[k]) : e[k][i] \in matter => e[k][i] \in Kept(e)
      BY <1>8, <1>16 DEF matter, Matters
    <3>2. Only(Only(e[k], Kept(e)), matter) = Only(e[k], matter)
      BY <1>8, <3>1, OnlyOnly
    <3> QED BY <1>5, <3>2
  <2>2. Only(e[k], matter) = Only(b[k], matter)
    <3> DEFINE s == e[k]
               t == b[k]
    <3>1. s \in Seq(Left) /\ t \in Seq(Left) /\ Len(s) = Len(t)
      <4>1. t \in Seq(Statement) /\ Statement \subseteq Left
        BY <1>1 DEF Left
      <4>2. t \in Seq(Left)
        BY <4>1
      <4> QED BY <1>8, <4>2
    <3>2. \A i \in 1..Len(s) : s[i] = t[i] \/ (s[i] \notin matter /\ t[i] \notin matter)
      BY <1>8, <1>19
    <3> HIDE DEF s, t
    <3>3. Only(s, matter) = Only(t, matter)
      BY <3>1, <3>2, OnlySame
    <3> QED BY <3>3 DEF s, t
  <2> QED BY <2>1, <2>2
<1>21. ASSUME NEW p \in 1..Len(Both(z)), Both(z)[p].op = "empty"
       PROVE  Both(z)[p].label # NoLabel
  <2>1. PICK k \in 1..2 : \E j \in 1..Len(z[k]) : p = Pos(z, k, j)
    BY <1>14
  <2>2. PICK j \in 1..Len(z[k]) : p = Pos(z, k, j)
    BY <2>1
  <2>0. \A h \in 1..Len(z[k]) : \E i \in 1..Len(e[k]) : z[k][h] = e[k][i] /\ e[k][i] \in Kept(e)
    BY <1>13
  <2>3. PICK i \in 1..Len(e[k]) : z[k][j] = e[k][i] /\ e[k][i] \in Kept(e)
    BY <2>0
  <2>4. Both(z)[p] = e[k][i]
    BY <1>14, <2>2, <2>3
  <2> QED BY <1>8, <1>16, <1>21, <2>3, <2>4
<1> QED BY <1>17, <1>20, <1>21 DEF matter, OnlyNoise

----------------------------------------------------------------------------
OInv ==
    /\ \A k \in 1..2 : \A i \in 1..Len(body[k]) : Assigns(body[k][i])
    /\ phase = "final" => final = Purge(EraseUnused(EraseChkstk(body), lvars))

LEMMA OInvEmit == PrologAssumption /\ PInv /\ OInv /\ EmitFragment => OInv'
<1> SUFFICES ASSUME PrologAssumption, PInv, OInv, EmitFragment PROVE OInv'
  OBVIOUS
<1>1. PICK stmts \in Fragments, k \in 1..2 : body' = [body EXCEPT ![k] = @ \o stmts]
  BY DEF EmitFragment
<1>2. /\ stmts \in Seq(Statement) /\ \A i \in 1..Len(stmts) : Assigns(stmts[i])
      /\ body \in [1..2 -> Seq(Statement)]
  BY DEF PrologAssumption, PInv
<1>3. ASSUME NEW l \in 1..2, NEW i \in 1..Len(body'[l]) PROVE Assigns(body'[l][i])
  <2>1. CASE l # k
    <3>1. body'[l] = body[l]
      BY <1>1, <1>2, <2>1
    <3> QED BY <3>1 DEF OInv
  <2>2. CASE l = k
    <3> DEFINE s == body[k]
    <3>1. body'[l] = s \o stmts /\ s \in Seq(Statement)
      BY <1>1, <1>2, <2>2
    <3>2. \A j \in 1..Len(s) : Assigns(s[j])
      BY DEF OInv
    <3> HIDE DEF s
    <3>3. i \in 1..(Len(s) + Len(stmts))
      BY <1>2, <3>1
    <3>4. CASE i \in 1..Len(s)
      <4>1. body'[l][i] = s[i]
        BY <1>2, <3>1, <3>4
      <4> QED BY <3>2, <3>4, <4>1
    <3>5. CASE i \notin 1..Len(s)
      <4>1. i - Len(s) \in 1..Len(stmts) /\ (s \o stmts)[i] = stmts[i - Len(s)]
        BY <1>2, <3>1, <3>3, <3>5
      <4> QED BY <1>2, <3>1, <4>1
    <3> QED BY <3>4, <3>5
  <2> QED BY <2>1, <2>2
<1>4. phase' # "final"
  BY DEF EmitFragment
<1> QED BY <1>3, <1>4 DEF OInv

LEMMA OInvLabel == PInv /\ OInv /\ PlaceLabel => OInv'
<1> SUFFICES ASSUME PInv, OInv, PlaceLabel PROVE OInv'
  OBVIOUS
<1>0. PICK k \in 1..2 : \E i \in 1..Len(body[k]) : body' = [body EXCEPT ![k][i].label = 1]
  BY DEF PlaceLabel
<1>1. PICK i \in 1..Len(body[k]) : body' = [body EXCEPT ![k][i].label = 1]
  BY <1>0
<1>2. body \in [1..2 -> Seq(Statement)]
  BY DEF PInv
<1> DEFINE s == body[k]
           t == [s EXCEPT ![i] = [@ EXCEPT !.label = 1]]
<1>3. body' = [body EXCEPT ![k] = t]
  BY <1>1
<1>4. s \in Seq(Statement) /\ \A j \in 1..Len(s) : Assigns(s[j]) /\ s[j] \in Statement
  BY <1>2 DEF OInv
<1>5. Len(t) = Len(s) /\ \A j \in 1..Len(s) : t[j] = IF j = i THEN [s[j] EXCEPT !.label = 1] ELSE s[j]
  BY <1>4
<1>6. ASSUME NEW j \in 1..Len(t) PROVE Assigns(t[j])
  <2>1. s[j] \in Statement /\ Assigns(s[j])
    BY <1>4, <1>5
  <2>2. s[j] = [op |-> s[j].op, lv |-> s[j].lv, arg |-> s[j].arg, type |-> s[j].type, label |-> s[j].label]
    BY <2>1 DEF Statement
  <2>3. t[j].op = s[j].op
    BY <1>5, <2>2
  <2>4. t[j].lv = s[j].lv
    BY <1>5, <2>2
  <2> QED BY <2>1, <2>3, <2>4 DEF Assigns
<1> HIDE DEF t
<1>7. ASSUME NEW l \in 1..2, NEW j \in 1..Len(body'[l]) PROVE Assigns(body'[l][j])
  <2>1. CASE l = k
    <3>1. body'[l] = t
      BY <1>2, <1>3, <2>1
    <3> QED BY <1>6, <3>1
  <2>2. CASE l # k
    <3>1. body'[l] = body[l]
      BY <1>2, <1>3, <2>2
    <3> QED BY <3>1 DEF OInv
  <2> QED BY <2>1, <2>2
<1>8. phase' # "final"
  BY DEF PlaceLabel
<1> QED BY <1>7, <1>8 DEF OInv

LEMMA OInvariance == PSpec => []OInv
<1>1. PrologAssumption
  BY PrologAssumption
<1>2. PInit => OInv
  <2> SUFFICES ASSUME PInit PROVE OInv
    OBVIOUS
  <2>1. body = << <<>>, <<>> >> /\ phase = "code"
    BY DEF PInit
  <2>2. \A k \in 1..2 : body[k] = <<>>
    BY <2>1
  <2> QED BY <2>1, <2>2 DEF OInv
<1>3. PInv /\ OInv /\ [PNext]_prologVars => OInv'
  <2> SUFFICES ASSUME PInv, OInv, [PNext]_prologVars PROVE OInv'
    OBVIOUS
  <2>1. CASE EmitFragment
    BY <1>1, <2>1, OInvEmit
  <2>2. CASE PlaceLabel
    BY <2>2, OInvLabel
  <2>3. CASE Built
    BY <2>3 DEF Built, OInv
  <2>4. CASE Final
    <3>1. body' = body
      BY <2>4 DEF Final
    <3>2. final' = Purge(EraseUnused(EraseChkstk(body), lvars'))
      BY <2>4 DEF Final
    <3> QED BY <3>1, <3>2 DEF OInv
  <2>5. CASE UNCHANGED prologVars
    BY <2>5 DEF prologVars, OInv
  <2> QED BY <2>1, <2>2, <2>3, <2>4, <2>5 DEF PNext
<1> QED BY <1>2, <1>3, PInvariance, PTL DEF PSpec

LEMMA FinalIsNoise == PInv /\ OInv /\ phase = "final" => OnlyNoise(body, final, lvars)
<1> SUFFICES ASSUME PInv, OInv, phase = "final" PROVE OnlyNoise(body, final, lvars)
  OBVIOUS
<1>1. /\ body[1] \in Seq(Statement) /\ body[2] \in Seq(Statement)
      /\ \A k \in 1..2 : \A i \in 1..Len(body[k]) : Assigns(body[k][i])
      /\ final = Purge(EraseUnused(EraseChkstk(body), lvars))
  BY DEF PInv, OInv
<1> QED BY <1>1, PassesKeep

(* The passes over a function remove chkstk calls, empty statements and    *)
(* differences that nothing reads and nobody touched, and none of these    *)
(* where a goto leads: for every function that fragments can make.         *)
THEOREM NoiseIsErased == PSpec => []OnlyNoiseIsErased
<1>1. PInv /\ OInv => OnlyNoiseIsErased
  BY FinalIsNoise DEF OnlyNoiseIsErased, OnlyNoise, Matters, ReadIn
<1> QED BY <1>1, PInvariance, OInvariance, PTL

(* The type invariant: the passes leave no empty statement without a label.*)
THEOREM PrologTypes == PSpec => []PrologTypeOK
<1> DEFINE TInv == /\ fragments \in 0..MaxFragments
                   /\ phase # "final" => final = << <<>>, <<>> >>
<1>1. PrologAssumption
  BY PrologAssumption
<1>2. PInit => TInv
  BY <1>1 DEF PInit, PrologAssumption
<1>3. TInv /\ PInv /\ PInv' /\ [PNext]_prologVars => TInv'
  <2> SUFFICES ASSUME TInv, PInv, [PNext]_prologVars PROVE TInv'
    OBVIOUS
  <2>0. MaxFragments \in Nat
    BY <1>1 DEF PrologAssumption
  <2>1. CASE EmitFragment
    BY <2>0, <2>1 DEF EmitFragment
  <2>2. CASE PlaceLabel
    BY <2>2 DEF PlaceLabel
  <2>3. CASE Built
    BY <2>3 DEF Built
  <2>4. CASE Final
    BY <2>4 DEF Final
  <2>5. CASE UNCHANGED prologVars
    BY <2>5 DEF prologVars
  <2> QED BY <2>1, <2>2, <2>3, <2>4, <2>5 DEF PNext
<1>4. TInv /\ PInv /\ OInv => PrologTypeOK
  <2> SUFFICES ASSUME TInv, PInv, OInv PROVE PrologTypeOK
    OBVIOUS
  <2>1. \A v \in Lvars : lvars[v].user \in BOOLEAN /\ lvars[v].typed \in BOOLEAN /\ lvars[v].vwt \in BOOLEAN
    BY DEF PInv, LInv, IsLvar
  <2>2. ASSUME NEW i \in 1..Len(Both(final)), Both(final)[i].op = "empty"
        PROVE  Both(final)[i].label # NoLabel
    <3>1. CASE phase = "final"
      BY <2>2, <3>1, FinalIsNoise DEF OnlyNoise
    <3>2. CASE phase # "final"
      <4>1. final = << <<>>, <<>> >>
        BY <3>2
      <4>2. Len(Both(final)) = 0
        BY <4>1 DEF Both
      <4> QED BY <4>2
    <3> QED BY <3>1, <3>2
  <2> QED BY <2>1, <2>2 DEF PrologTypeOK, PInv
<1>5. PSpec => []TInv
  <2> HIDE DEF TInv
  <2> QED BY <1>2, <1>3, PInvariance, PTL DEF PSpec
<1> HIDE DEF TInv
<1> QED BY <1>4, <1>5, PInvariance, OInvariance, PTL
=============================================================================
