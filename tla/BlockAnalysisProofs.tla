------------------------ MODULE BlockAnalysisProofs -------------------------
(***************************************************************************)
(* Proofs about BlockAnalysis, for every function, every list of captures, *)
(* and every choice of options and names that BlocksAssumption admits.     *)
(*                                                                         *)
(* The names are distinct because unique_name finds a free one (a pigeon-  *)
(* hole argument) and because the planned names are numbered per kind.     *)
(* That a run leaves nothing to do is carried by Done: what the last       *)
(* completed run saw, named and typed is what the next one would.          *)
(***************************************************************************)
EXTENDS BlockAnalysis, NaturalLemmas, FiniteSetTheorems

DbType == [vname : [Vars -> Names], vuser : SUBSET Vars,
           vtype : [Vars -> VarTypes], vtyped : SUBSET Vars,
           fname : [Fields -> Names],
           ftype : [Fields -> {"val", "ptr"} \X (VarTypes \cup {"member"})]]

Distinct(d) ==
    /\ \A u, v \in Vars : u # v => d.vname[u] # d.vname[v]
    /\ \A f \in Fields : d.fname[f] \notin Siblings(d, f)

\* Names of variables: the user's, IDA's or the analyzer's, never a field's;
\* IDA's names for blocks carry the variable's own number.
NamesOf(d) ==
    \A v \in Vars :
        /\ d.vname[v] \in UserNames \/ d.vname[v][1] \in GivenBases \ {"lvar"}
        /\ v \notin d.vuser => IsDefaultName(d.vname[v])
        /\ IsGenericBlock(d.vname[v]) => d.vname[v] = <<"block", v, 0>>

Good(d) == d \in DbType /\ Distinct(d) /\ NamesOf(d)

\* The synced captures that type field f, if the run sees database d.
Writers(d, plan, f) ==
    {i \in Synced(d) : /\ Captures[i].field = f /\ Captures[i].fits
                       /\ Source(d, plan, Captures[i]).type # NoType}

\* A run with these options would change nothing.
Done(d, opt) ==
    /\ \A b \in StackBlocks : d.vtype[b] # "raw"
    /\ "byref" \in opt => ByrefFound(d) = {}
    /\ "rename_blocks" \in opt => Unnamed(d) = {}
    /\ "rename_fields" \in opt =>
          \A i \in Synced(d) : Source(d, NoPlan, Captures[i]).name # NoName =>
                                   ~IsDefaultUdmName(d.fname[Captures[i].field])
    /\ "retype_fields" \in opt =>
          \A f \in Fields : MayTouch(d, f) =>
              \A j \in Writers(d, NoPlan, f) :
                  (\A k \in Writers(d, NoPlan, f) : k <= j) =>
                      d.ftype[f] = Source(d, NoPlan, Captures[j]).type

IInv ==
    /\ Good(db)
    /\ marker \in BOOLEAN /\ queue \in Seq(OptionChoices) /\ opts \in OptionChoices
    /\ edits \in 0..MaxEdits /\ views \in 0..MaxViews
    /\ autoRuns \in 0..1 /\ (autoRuns > 0 => marker)
    /\ settled \in SUBSET OptionChoices
    /\ \A opt \in settled : Done(db, opt)

----------------------------------------------------------------------------
(* Names: a free one is found.                                             *)

LEMMA FreeName ==
    ASSUME NEW taken, IsFiniteSet(taken), NEW b, NEW i, NEW m \in Nat
    PROVE  \E s \in m..(m + Cardinality(taken)) : <<b, i, s>> \notin taken
<1> DEFINE k == Cardinality(taken)
           I == m..(m + k)
           f == [s \in I |-> <<b, i, s>>]
<1>1. SUFFICES ASSUME \A s \in I : <<b, i, s>> \in taken PROVE FALSE
  OBVIOUS
<1>2. k \in Nat
  BY FS_CardinalityType
<1>3. IsFiniteSet(I) /\ Cardinality(I) = k + 1
  <2> HIDE DEF k
  <2>1. m \in Int /\ m + k \in Int /\ ~(m > m + k) /\ (m + k) - m + 1 = k + 1
    BY <1>2
  <2> QED BY <2>1, FS_Interval
<1>4. f \in [I -> taken]
  BY <1>1
<1>5. \E x, y \in I : x # y /\ f[x] = f[y]
  <2>1. Cardinality(taken) < Cardinality(I)
    BY <1>2, <1>3
  <2> HIDE DEF f, I, k
  <2> QED BY <1>3, <1>4, <2>1, FS_PigeonHole
<1>6. \A x, y \in I : f[x] = f[y] => x = y
  OBVIOUS
<1> QED BY <1>5, <1>6

LEMMA UniqueNameIsFree ==
    ASSUME NEW taken, IsFiniteSet(taken), NEW n \in Names
    PROVE  /\ UniqueName(n, taken) \notin taken
           /\ \E s \in Nat : UniqueName(n, taken) = <<n[1], n[2], s>>
<1> DEFINE k == Cardinality(taken)
           b == n[1]
           i == n[2]
           m == n[3]
           T == {s \in m..(m + k) : <<b, i, s>> \notin taken}
           U == {<<b, i, s>> : s \in m..(m + k)}
           P(u) == u \notin taken /\ \A s \in m..(u[3] - 1) : <<b, i, s>> \in taken
<1>1. m \in Nat /\ k \in Nat
  BY FS_CardinalityType DEF Names
<1>2. T # {}
  BY <1>1, FreeName
<1>3. T \in SUBSET Nat
  BY <1>1
<1>4. PICK s \in T : \A t \in T : s <= t
  <2> HIDE DEF T
  <2> QED BY <1>2, <1>3, LeastElement
<1> DEFINE w == <<b, i, s>>
<1>5. w \in U /\ P(w)
  <2>1. w \in U /\ w \notin taken /\ w[3] = s
    OBVIOUS
  <2>2. ASSUME NEW t \in m..(s - 1) PROVE <<b, i, t>> \in taken
    <3>1. s \in m..(m + k) /\ k \in Nat /\ m \in Nat
      BY <1>1
    <3> HIDE DEF k, m
    <3>2. t \in m..(m + k) /\ ~(s <= t)
      BY <3>1
    <3> QED BY <1>4, <3>2
  <2> QED BY <2>1, <2>2
<1>6. UniqueName(n, taken) = CHOOSE u \in U : P(u)
  BY DEF UniqueName
<1> HIDE DEF P, U, w
<1>7. UniqueName(n, taken) \in U /\ P(UniqueName(n, taken))
  BY <1>5, <1>6
<1>8. UniqueName(n, taken) \notin taken
  BY <1>7 DEF P
<1>9. \E t \in Nat : UniqueName(n, taken) = <<b, i, t>>
  BY <1>1, <1>7 DEF U
<1> QED BY <1>8, <1>9

LEMMA NamesFinite ==
    ASSUME BlocksAssumption, NEW d, NEW f
    PROVE  IsFiniteSet(VarNames(d)) /\ IsFiniteSet(Siblings(d, f))
<1>1. IsFiniteSet(Vars)
  BY FS_Interval DEF Vars, BlocksAssumption
<1>2. IsFiniteSet(VarNames(d))
  BY <1>1, ImageFinite DEF VarNames
<1> DEFINE all == {d.fname[g] : g \in Fields}
<1>3. IsFiniteSet(all)
  BY ImageFinite DEF BlocksAssumption
<1>4. Siblings(d, f) \in SUBSET all
  BY DEF Siblings
<1> HIDE DEF all
<1>5. IsFiniteSet(Siblings(d, f))
  BY <1>3, <1>4, FS_Subset
<1> QED BY <1>2, <1>5

----------------------------------------------------------------------------
(* The steps of the pipeline before the renaming.                          *)

\* What a run may not do to names and types the user gave.
Keeps(d, e) ==
    /\ \A v \in Vars : d.vname[v] \in UserNames => e.vname[v] = d.vname[v]
    /\ \A f \in Fields : ~IsDefaultUdmName(d.fname[f]) =>
          e.fname[f] = d.fname[f] /\ e.ftype[f] \in {d.ftype[f], <<"ptr", "byref">>}

LEMMA KeepsTransitive ==
    ASSUME NEW d, NEW e, NEW x, Keeps(d, e), Keeps(e, x)
    PROVE  Keeps(d, x)
BY DEF Keeps

LEMMA KeepsSelf == ASSUME NEW d PROVE Keeps(d, d)
BY DEF Keeps

SameFields(d, e) == e.fname = d.fname /\ e.ftype = d.ftype
SameVars(d, e) ==
    e.vname = d.vname /\ e.vuser = d.vuser /\ e.vtype = d.vtype /\ e.vtyped = d.vtyped

LEMMA SiblingsSame ==
    ASSUME NEW d, NEW e, e.fname = d.fname
    PROVE  \A f : Siblings(e, f) = Siblings(d, f)
BY DEF Siblings

LEMMA UserNamesAreNames ==
    ASSUME BlocksAssumption
    PROVE  \A n \in UserNames : n \in Names /\ n[1] \notin GivenBases
BY DEF BlocksAssumption, AnyName, Names, Bases

LEMMA StackGood ==
    ASSUME BlocksAssumption, NEW d, Good(d), NEW a, a = StackAnalysis(d)
    PROVE  /\ Good(a) /\ Keeps(d, a) /\ SameFields(d, a)
           /\ \A b \in StackBlocks : a.vtype[b] # "raw"
<1> DEFINE new == {b \in StackBlocks : d.vtype[b] = "raw"}
           vt == [v \in Vars |-> IF v \in new THEN "block" ELSE d.vtype[v]]
           vn == [v \in Vars |-> IF v \in new /\ IsDefaultName(d.vname[v])
                                 THEN <<"block", v, 0>> ELSE d.vname[v]]
           vu == d.vuser \cup new
<1>1. a = [d EXCEPT !.vtype = vt, !.vname = vn, !.vuser = vu]
  BY DEF StackAnalysis
<1>2. StackBlocks \subseteq Vars /\ d \in DbType /\ Distinct(d) /\ NamesOf(d)
  BY DEF BlocksAssumption, Good
<1>3. vt \in [Vars -> VarTypes] /\ vu \in SUBSET Vars
  BY <1>2 DEF DbType, VarTypes
<1>4. vn \in [Vars -> Names]
  <2>1. \A v \in Vars : d.vname[v] \in Names /\ <<"block", v, 0>> \in Names
    BY <1>2 DEF DbType, Names, Bases, GivenBases, Vars
  <2> QED BY <2>1
<1>5. ASSUME NEW v \in Vars
      PROVE  \/ vn[v] = d.vname[v] /\ (v \notin vu => v \notin d.vuser)
             \/ vn[v] = <<"block", v, 0>> /\ v \in vu /\ IsDefaultName(d.vname[v])
  OBVIOUS
<1>6. \A b \in StackBlocks : vt[b] # "raw"
  BY <1>2
<1> HIDE DEF new, vt, vn, vu
<1>7. /\ a \in DbType /\ a.vtype = vt /\ a.vname = vn /\ a.vuser = vu
      /\ a.fname = d.fname /\ a.ftype = d.ftype
  BY <1>1, <1>2, <1>3, <1>4 DEF DbType
<1>8. NamesOf(a)
  <2> SUFFICES ASSUME NEW v \in Vars
               PROVE  /\ vn[v] \in UserNames \/ vn[v][1] \in GivenBases \ {"lvar"}
                      /\ v \notin vu => IsDefaultName(vn[v])
                      /\ IsGenericBlock(vn[v]) => vn[v] = <<"block", v, 0>>
    BY <1>7 DEF NamesOf
  <2>1. CASE vn[v] = d.vname[v] /\ (v \notin vu => v \notin d.vuser)
    BY <1>2, <2>1 DEF NamesOf
  <2>2. CASE vn[v] = <<"block", v, 0>> /\ v \in vu
    BY <2>2 DEF GivenBases
  <2> QED BY <1>5, <2>1, <2>2
<1>9. ASSUME NEW u \in Vars, NEW v \in Vars, u # v PROVE vn[u] # vn[v]
  <2>1. d.vname[u] # d.vname[v]
    BY <1>2, <1>9 DEF Distinct
  <2>2. IsGenericBlock(d.vname[u]) => d.vname[u] = <<"block", u, 0>>
    BY <1>2 DEF NamesOf
  <2>3. IsGenericBlock(d.vname[v]) => d.vname[v] = <<"block", v, 0>>
    BY <1>2 DEF NamesOf
  <2>4. <<"block", u, 0>> # <<"block", v, 0>>
    BY <1>9
  <2>5. \A w : d.vname[w] = <<"block", v, 0>> \/ d.vname[w] = <<"block", u, 0>> => IsGenericBlock(d.vname[w])
    BY DEF IsGenericBlock
  <2> QED BY <1>5, <2>1, <2>2, <2>3, <2>4, <2>5
<1>10. Distinct(a)
  BY <1>2, <1>7, <1>9, SiblingsSame DEF Distinct
<1>11. Keeps(d, a)
  <2>1. \A v \in Vars : IsDefaultName(d.vname[v]) => d.vname[v] \notin UserNames
    BY UserNamesAreNames DEF IsDefaultName, GivenBases
  <2> QED BY <1>5, <1>7, <2>1 DEF Keeps
<1> QED BY <1>6, <1>7, <1>8, <1>10, <1>11 DEF Good, SameFields

LEMMA CapturesTyped ==
    ASSUME BlocksAssumption
    PROVE  /\ Len(Captures) \in Nat /\ DOMAIN Captures = 1..Len(Captures)
           /\ \A i \in DOMAIN Captures :
                 /\ Captures[i].block \in StackBlocks /\ Captures[i].var \in Vars
                 /\ Captures[i].field \in Fields
                 /\ Captures[i].name \in {NoName} \cup UserNames
<1>1. Captures \in Seq(Capture)
  BY DEF BlocksAssumption
<1>2. \A i \in DOMAIN Captures : Captures[i] \in Capture
  BY <1>1
<1>3. Len(Captures) \in Nat /\ DOMAIN Captures = 1..Len(Captures)
  BY <1>1
<1> QED BY <1>2, <1>3 DEF Capture

LEMMA ByrefFieldsGood ==
    ASSUME BlocksAssumption, NEW d, Good(d), NEW e, e = TypeByrefFields(d)
    PROVE  Good(e) /\ Keeps(d, e) /\ SameVars(d, e)
<1> DEFINE typed == ByrefFields(d)
           ft == [f \in Fields |-> IF f \in typed THEN <<"ptr", "byref">> ELSE d.ftype[f]]
<1>1. e = [d EXCEPT !.ftype = ft] /\ d \in DbType
  BY DEF TypeByrefFields, Good
<1>2. ft \in [Fields -> {"val", "ptr"} \X (VarTypes \cup {"member"})]
  BY <1>1 DEF DbType, VarTypes
<1>3. \A f \in Fields : ft[f] \in {d.ftype[f], <<"ptr", "byref">>}
  OBVIOUS
<1> HIDE DEF ft
<1>4. e \in DbType /\ e.ftype = ft /\ e.fname = d.fname /\ SameVars(d, e)
  BY <1>1, <1>2 DEF DbType, SameVars
<1>5. Good(e)
  BY <1>4, SiblingsSame DEF Good, Distinct, NamesOf, SameVars
<1> QED BY <1>3, <1>4, <1>5 DEF Keeps, SameVars

LEMMA ByrefsGood ==
    ASSUME BlocksAssumption, NEW d, Good(d), NEW e, e = TypeByrefs(d)
    PROVE  /\ Good(e) /\ Keeps(d, e)
           /\ \A b \in StackBlocks : e.vtype[b] = d.vtype[b]
           /\ ByrefFound(e) = {}
<1> DEFINE x == TypeByrefFields(d)
           found == ByrefFound(d)
           vt == [v \in Vars |-> IF v \in found THEN "byref" ELSE x.vtype[v]]
           vy == x.vtyped \cup found
<1>1. Good(x) /\ Keeps(d, x) /\ SameVars(d, x)
  BY ByrefFieldsGood
<1>2. e = [x EXCEPT !.vtype = vt, !.vtyped = vy]
  BY DEF TypeByrefs
<1> HIDE DEF x
<1>3. \A i \in DOMAIN Captures : Captures[i].block \in StackBlocks /\ Captures[i].var \in Vars
  BY CapturesTyped
<1>4. found \subseteq ByrefInits /\ found \subseteq Vars
  BY <1>3 DEF ByrefFound, ByrefCaptures, RefCaptures
<1>5. vt \in [Vars -> VarTypes] /\ vy \in SUBSET Vars
  BY <1>1, <1>4 DEF Good, DbType, VarTypes
<1>6. \A b \in StackBlocks : b \in Vars /\ b \notin found
  BY <1>4 DEF BlocksAssumption
<1>7. \A v \in Vars : vt[v] = IF v \in found THEN "byref" ELSE d.vtype[v]
  BY <1>1 DEF SameVars
<1> HIDE DEF vt, vy, found
<1>8. /\ e \in DbType /\ e.vtype = vt /\ e.vname = x.vname /\ e.vuser = x.vuser
      /\ e.fname = x.fname /\ e.ftype = x.ftype
  BY <1>1, <1>2, <1>5 DEF Good, DbType
<1>9. Good(e)
  BY <1>1, <1>8, SiblingsSame DEF Good, Distinct, NamesOf
<1>10. Keeps(d, e)
  BY <1>1, <1>8 DEF Keeps
<1>11. \A b \in StackBlocks : e.vtype[b] = d.vtype[b]
  BY <1>6, <1>7, <1>8
<1>12. ASSUME NEW i \in ByrefCaptures(e) PROVE FALSE
  <2> DEFINE c == Captures[i]
  <2>1. i \in RefCaptures /\ e.vtype[c.block] = "block" /\ e.vtype[c.var] # "byref"
        /\ c.block \in StackBlocks /\ c.var \in Vars
    BY <1>3, <1>12 DEF ByrefCaptures, RefCaptures, Seen
  <2>2. c.var \notin found /\ d.vtype[c.var] # "byref" /\ d.vtype[c.block] = "block"
    BY <1>7, <1>8, <1>11, <2>1
  <2>3. i \in ByrefCaptures(d)
    BY <2>1, <2>2 DEF ByrefCaptures, Seen
  <2> QED BY <2>2, <2>3 DEF found, ByrefFound
<1>13. ByrefFound(e) = {}
  BY <1>12 DEF ByrefFound
<1> QED BY <1>9, <1>10, <1>11, <1>13

----------------------------------------------------------------------------
(* What a capture contributes, and one field synced.                       *)

FieldTypes == {"val", "ptr"} \X (VarTypes \cup {"member"})
PlanBases == {"stack_block", "byref_block", "global_block"}
PlanOK(plan) ==
    /\ DOMAIN plan \subseteq Vars
    /\ \A v \in DOMAIN plan : plan[v] \in Names /\ plan[v][1] \in PlanBases

LEMMA SourceTyped ==
    ASSUME BlocksAssumption, NEW d, Good(d), NEW plan, PlanOK(plan),
           NEW i \in DOMAIN Captures, NEW s, s = Source(d, plan, Captures[i])
    PROVE  /\ s.name # NoName => s.name \in Names /\ s.name[1] # "lvar"
           /\ s.type # NoType => s.type \in FieldTypes
<1> DEFINE c == Captures[i]
           v == c.var
           n == IF v \in DOMAIN plan THEN plan[v] ELSE d.vname[v]
           m == CaptureName(d, plan, v)
<1>1. v \in Vars /\ c.name \in {NoName} \cup UserNames
  BY CapturesTyped
<1>2. n \in Names /\ n[1] # "lvar"
  <2>1. d.vname[v] \in Names /\ d.vname[v][1] # "lvar"
    BY <1>1, UserNamesAreNames DEF Good, NamesOf, DbType, GivenBases
  <2> QED BY <2>1 DEF PlanOK, PlanBases
<1>3. TypeName[v] \in Names /\ TypeName[v][1] # "lvar"
  BY <1>1 DEF BlocksAssumption, AnyName, Names, Bases, GivenBases
<1>4. m \in Names /\ m[1] # "lvar"
  <2>1. m = IF IsRoleName(n) /\ TypeName[v] # NoName THEN TypeName[v] ELSE n
    BY DEF CaptureName
  <2> QED BY <1>2, <1>3, <2>1
<1>5. d.vtype[v] \in VarTypes
  BY <1>1 DEF Good, DbType
<1>6. CASE c.kind \in {"var", "ref"}
  <2>1. s = VariableSource(d, plan, v, c.kind)
    BY <1>6 DEF Source
  <2>2. s.name = IF IsDefaultName(m) THEN NoName ELSE m
    BY <2>1 DEF VariableSource
  <2>3. s.type = NoType \/ s.type = <<"ptr", d.vtype[v]>> \/ s.type = <<"val", d.vtype[v]>>
    BY <2>1 DEF VariableSource
  <2>4. s.type # NoType => s.type \in FieldTypes
    <3>1. \A t \in VarTypes : <<"ptr", t>> \in FieldTypes /\ <<"val", t>> \in FieldTypes
      BY DEF FieldTypes
    <3> HIDE DEF v
    <3> QED BY <1>5, <2>3, <3>1
  <2> HIDE DEF m
  <2> QED BY <1>4, <2>2, <2>4
<1>7. CASE ~(c.kind \in {"var", "ref"}) /\ c.kind = "member" /\ c.name # NoName
  <2>1. s = [name |-> c.name, type |-> <<"val", "member">>]
    BY <1>7 DEF Source
  <2>2. s.name \in UserNames /\ s.type = <<"val", "member">>
    BY <1>1, <1>7, <2>1
  <2>3. s.type \in FieldTypes
    BY <2>2 DEF FieldTypes
  <2> QED BY <2>2, <2>3, UserNamesAreNames DEF GivenBases
<1>8. CASE ~(c.kind \in {"var", "ref"}) /\ ~(c.kind = "member" /\ c.name # NoName)
  BY <1>8 DEF Source, NoSource
<1> QED BY <1>6, <1>7, <1>8

\* What SyncField does to the field c of capture i, and to nothing else.
SyncedField(now, r, d, plan, i, opt) ==
    LET f == Captures[i].field
        s == Source(d, plan, Captures[i])
        named == MayTouch(d, f) /\ "rename_fields" \in opt /\ s.name # NoName
        typed == MayTouch(d, f) /\ "retype_fields" \in opt /\ s.type # NoType /\ Captures[i].fits
    IN  /\ r \in DbType /\ SameVars(now, r)
        /\ \A g \in Fields : g # f => r.fname[g] = now.fname[g] /\ r.ftype[g] = now.ftype[g]
        /\ IF named THEN r.fname[f][1] # "lvar" /\ r.fname[f] \notin Siblings(now, f)
           ELSE r.fname[f] = now.fname[f]
        /\ r.ftype[f] = IF typed THEN s.type ELSE now.ftype[f]

LEMMA SyncFieldEffect ==
    ASSUME BlocksAssumption, NEW d, Good(d), NEW plan, PlanOK(plan),
           NEW i \in DOMAIN Captures, NEW opt, NEW now \in DbType
    PROVE  SyncedField(now, SyncField(now, d, plan, Captures[i], opt), d, plan, i, opt)
<1> DEFINE c == Captures[i]
           f == c.field
           s == Source(d, plan, c)
           q == UniqueName(s.name, Siblings(now, f))
           touch == MayTouch(d, f)
           ren == "rename_fields" \in opt /\ s.name # NoName
           ret == "retype_fields" \in opt /\ s.type # NoType /\ c.fits
           named == IF ren THEN [now EXCEPT !.fname[f] = q] ELSE now
           r == SyncField(now, d, plan, c, opt)
<1>1. f \in Fields
  BY CapturesTyped
<1>2. s.name # NoName => s.name \in Names /\ s.name[1] # "lvar"
  BY SourceTyped
<1>3. s.type # NoType => s.type \in FieldTypes
  BY SourceTyped
<1>4. ren => q \in Names /\ q[1] # "lvar" /\ q \notin Siblings(now, f)
  <2> SUFFICES ASSUME ren PROVE q \in Names /\ q[1] # "lvar" /\ q \notin Siblings(now, f)
    OBVIOUS
  <2>1. s.name \in Names /\ s.name[1] # "lvar"
    BY <1>2
  <2>2. q \notin Siblings(now, f) /\ \E t \in Nat : q = <<s.name[1], s.name[2], t>>
    BY <2>1, NamesFinite, UniqueNameIsFree
  <2> HIDE DEF q, s
  <2> QED BY <2>1, <2>2 DEF Names
<1>5. r = IF ~touch THEN now
          ELSE IF ret THEN [named EXCEPT !.ftype[f] = s.type] ELSE named
  BY DEF SyncField
<1> HIDE DEF r, s, q, touch
<1>6. /\ named \in DbType /\ SameVars(now, named) /\ named.ftype = now.ftype
      /\ \A g \in Fields : g # f => named.fname[g] = now.fname[g]
      /\ named.fname[f] = IF ren THEN q ELSE now.fname[f]
  <2>1. CASE ren
    <3> DEFINE h == [now.fname EXCEPT ![f] = q]
    <3>1. now.fname \in [Fields -> Names] /\ q \in Names
      BY <1>4, <2>1 DEF DbType
    <3>2. h \in [Fields -> Names] /\ h[f] = q /\ \A g \in Fields : g # f => h[g] = now.fname[g]
      BY <1>1, <3>1
    <3>3. named = [now EXCEPT !.fname = h]
      BY <2>1 DEF DbType
    <3> HIDE DEF h, named, ren
    <3>4. named \in DbType /\ SameVars(now, named) /\ named.ftype = now.ftype /\ named.fname = h
      BY <3>2, <3>3 DEF DbType, SameVars
    <3> QED BY <2>1, <3>2, <3>4
  <2>2. CASE ~ren
    BY <2>2 DEF SameVars
  <2> QED BY <2>1, <2>2
<1> HIDE DEF named
<1>7. CASE touch /\ ret
  <2> DEFINE h == [named.ftype EXCEPT ![f] = s.type]
  <2>1. named.ftype \in [Fields -> FieldTypes] /\ s.type \in FieldTypes
    BY <1>3, <1>6, <1>7 DEF DbType, FieldTypes
  <2>2. h \in [Fields -> FieldTypes] /\ h[f] = s.type /\ \A g \in Fields : g # f => h[g] = named.ftype[g]
    BY <1>1, <2>1
  <2>3. r = [named EXCEPT !.ftype = h]
    BY <1>5, <1>6, <1>7 DEF DbType
  <2> HIDE DEF h, ren, ret
  <2>4. r \in DbType /\ SameVars(named, r) /\ r.fname = named.fname /\ r.ftype = h
    BY <1>6, <2>2, <2>3 DEF DbType, SameVars, FieldTypes
  <2>5. SameVars(now, r)
    BY <1>6, <2>4 DEF SameVars
  <2> QED BY <1>4, <1>6, <1>7, <2>2, <2>4, <2>5 DEF SyncedField, touch, r, s, ren, ret
<1>8. CASE touch /\ ~ret
  <2>1. r = named
    BY <1>5, <1>8
  <2> HIDE DEF ren, ret
  <2> QED BY <1>4, <1>6, <1>8, <2>1 DEF SyncedField, touch, r, s, ren, ret
<1>9. CASE ~touch
  <2>1. r = now
    BY <1>5, <1>9
  <2> HIDE DEF ren, ret
  <2> QED BY <1>9, <2>1 DEF SyncedField, touch, r, s, SameVars
<1> QED BY <1>7, <1>8, <1>9

----------------------------------------------------------------------------
(* All fields synced: SyncFields is a recursive function over the captures.*)

Synching(opt) == opt \cap {"rename_fields", "retype_fields"} # {}

LEMMA SyncFieldsRecursion ==
    ASSUME BlocksAssumption, NEW d, Good(d), NEW plan, PlanOK(plan), NEW opt, Synching(opt)
    PROVE  \E g \in [0..Len(Captures) -> DbType] :
              /\ g[0] = d /\ SyncFields(d, plan, opt) = g[Len(Captures)]
              /\ \A i \in 1..Len(Captures) :
                    g[i] = IF i \in Synced(d) THEN SyncField(g[i - 1], d, plan, Captures[i], opt)
                           ELSE g[i - 1]
<1> DEFINE n == Len(Captures)
           Sync(now, i) == IF i \in Synced(d) THEN SyncField(now, d, plan, Captures[i], opt) ELSE now
           E(f) == [i \in 0..Len(Captures) |->
                      IF i = 0 THEN d
                      ELSE IF i \in FirstCaptures /\ Seen(d, Captures[i])
                           THEN CHOOSE r \in {SyncField(now, d, plan, Captures[i], opt) :
                                              now \in {f[i - 1]}} : TRUE
                      ELSE f[i - 1]]
           F == CHOOSE f : f = E(f)
           step == [i \in Nat |-> [e \in DbType |-> IF i \in 1..n THEN Sync(e, i) ELSE e]]
<1>1. n \in Nat /\ d \in DbType /\ DOMAIN Captures = 1..n
  BY CapturesTyped DEF Good
<1>2. SyncFields(d, plan, opt) = F[n]
  BY DEF SyncFields, Synching
<1>3. \A f : \A i \in 0..n : E(f)[i] = IF i = 0 THEN d ELSE Sync(f[i - 1], i)
  BY DEF Synced
<1>4. ASSUME NEW e \in DbType, NEW i \in 1..n PROVE Sync(e, i) \in DbType
  <2>1. i \in DOMAIN Captures
    BY <1>1
  <2>2. SyncedField(e, SyncField(e, d, plan, Captures[i], opt), d, plan, i, opt)
    BY <2>1, SyncFieldEffect
  <2> QED BY <2>2 DEF SyncedField
<1> HIDE DEF E, Sync
<1>5. step \in [Nat -> [DbType -> DbType]]
  BY <1>4
<1>6. PICK g : IsRecursion(g, n, DbType, d, step)
  <2> HIDE DEF step, n
  <2> QED BY <1>1, <1>5, RecursionExists
<1>7. g \in [0..n -> DbType] /\ g[0] = d /\ \A i \in 1..n : g[i] = Sync(g[i - 1], i)
  <2>1. g \in [0..n -> DbType] /\ g[0] = d /\ \A i \in 1..n : g[i] = step[i][g[i - 1]]
    <3> HIDE DEF step
    <3> QED BY <1>6 DEF IsRecursion
  <2>2. ASSUME NEW i \in 1..n PROVE g[i] = Sync(g[i - 1], i)
    <3>1. g[i - 1] \in DbType /\ i \in Nat
      <4> HIDE DEF n, step
      <4>1. i - 1 \in 0..n /\ i \in Nat
        BY <1>1
      <4> QED BY <2>1, <4>1
    <3>2. step[i][g[i - 1]] = Sync(g[i - 1], i)
      BY <3>1
    <3> QED BY <2>1, <3>2
  <2> QED BY <2>1, <2>2
<1> HIDE DEF step
<1>8. g = E(g)
  <2>1. \A i \in 0..n : g[i] = E(g)[i]
    BY <1>1, <1>3, <1>7
  <2>2. E(g) = [i \in 0..n |-> E(g)[i]] /\ g = [i \in 0..n |-> g[i]]
    BY <1>7 DEF E
  <2>3. [i \in 0..n |-> E(g)[i]] = [i \in 0..n |-> g[i]]
    <3> HIDE DEF n
    <3> QED BY <2>1
  <2> QED BY <2>2, <2>3
<1>9. F = E(F)
  <2>1. \E f : f = E(f)
    BY <1>8
  <2> QED BY <2>1
<1> HIDE DEF F
<1>10. /\ F[0] = d /\ \A i \in 1..n : F[i] = Sync(F[i - 1], i)
       /\ F = [i \in 0..n |-> F[i]]
  <2>1. \A i \in 0..n : F[i] = IF i = 0 THEN d ELSE Sync(F[i - 1], i)
    BY <1>3, <1>9
  <2>2. E(F) = [i \in 0..n |-> E(F)[i]]
    BY DEF E
  <2> HIDE DEF n
  <2>3. 0 \in 0..n /\ \A i \in 1..n : i \in 0..n /\ i # 0
    BY <1>1
  <2>4. F[0] = d /\ \A i \in 1..n : F[i] = Sync(F[i - 1], i)
    BY <2>1, <2>3
  <2> QED BY <1>9, <2>2, <2>4
<1>11. F \in [0..n -> DbType]
  <2> DEFINE S == {i \in 0..n : F[i] \in DbType}
  <2>1. 0 \in S
    BY <1>1, <1>10
  <2>2. ASSUME NEW i \in 1..n, i - 1 \in S PROVE i \in S
    <3> HIDE DEF n
    <3>1. i \in 0..n /\ F[i - 1] \in DbType
      BY <2>2
    <3>2. F[i] \in DbType
      BY <1>4, <1>10, <3>1
    <3> QED BY <3>1, <3>2
  <2> HIDE DEF S
  <2>3. 0..n \subseteq S
    BY <1>1, <2>1, <2>2, IntervalInduction
  <2> QED BY <1>10, <2>3 DEF S
<1> QED BY <1>2, <1>10, <1>11 DEF Sync

FieldsDistinct(d) == \A f \in Fields : d.fname[f] \notin Siblings(d, f)

Named(d, plan, opt, f, m) ==
    {j \in Synced(d) : /\ j <= m /\ Captures[j].field = f /\ MayTouch(d, f)
                       /\ "rename_fields" \in opt /\ Source(d, plan, Captures[j]).name # NoName}
Typed(d, plan, opt, f, m) ==
    {j \in Writers(d, plan, f) : j <= m /\ MayTouch(d, f) /\ "retype_fields" \in opt}

\* The database after the first m captures.
SyncInv(now, m, d, plan, opt) ==
    /\ now \in DbType /\ SameVars(d, now) /\ FieldsDistinct(now)
    /\ \A f \in Fields :
         /\ Named(d, plan, opt, f, m) = {} => now.fname[f] = d.fname[f]
         /\ Named(d, plan, opt, f, m) # {} => now.fname[f][1] # "lvar"
         /\ Typed(d, plan, opt, f, m) = {} => now.ftype[f] = d.ftype[f]
         /\ \A j \in Typed(d, plan, opt, f, m) :
               (\A k \in Typed(d, plan, opt, f, m) : k <= j) =>
                   now.ftype[f] = Source(d, plan, Captures[j]).type

LEMMA RenamedDistinct ==
    ASSUME NEW now, FieldsDistinct(now), NEW r, NEW f \in Fields,
           \A g \in Fields : g # f => r.fname[g] = now.fname[g],
           r.fname[f] = now.fname[f] \/ r.fname[f] \notin Siblings(now, f)
    PROVE  FieldsDistinct(r)
<1> SUFFICES ASSUME NEW g \in Fields, NEW h \in Fields, h[1] = g[1], h # g
             PROVE  r.fname[g] # r.fname[h]
  BY DEF FieldsDistinct, Siblings
<1>1. now.fname[g] # now.fname[h]
  BY DEF FieldsDistinct, Siblings
<1>2. r.fname[f] \notin Siblings(now, f)
  BY DEF FieldsDistinct
<1>3. \A x \in Fields : x[1] = f[1] /\ x # f => r.fname[f] # now.fname[x]
  BY <1>2 DEF Siblings
<1> QED BY <1>1, <1>3

LEMMA SyncSets ==
    ASSUME BlocksAssumption, NEW d, NEW plan, NEW opt, NEW i \in 1..Len(Captures), NEW g
    PROVE  /\ Named(d, plan, opt, g, i) =
                Named(d, plan, opt, g, i - 1) \cup {j \in Named(d, plan, opt, g, i) : j = i}
           /\ Typed(d, plan, opt, g, i) =
                Typed(d, plan, opt, g, i - 1) \cup {j \in Typed(d, plan, opt, g, i) : j = i}
           /\ \A j \in Typed(d, plan, opt, g, i - 1) : ~(i <= j)
<1>1. \A j \in Synced(d) : j \in Nat /\ (j <= i <=> (j <= i - 1 \/ j = i)) /\ ~(j <= i - 1 /\ i <= j)
  <2>1. \A j \in Synced(d) : j \in Nat
    BY CapturesTyped DEF Synced, FirstCaptures
  <2>2. i \in Nat
    BY CapturesTyped
  <2> QED BY <2>1, <2>2
<1> QED BY <1>1 DEF Named, Typed, Writers

LEMMA SyncStep ==
    ASSUME BlocksAssumption, NEW d, Good(d), NEW plan, PlanOK(plan), NEW opt,
           NEW i \in 1..Len(Captures), NEW now, SyncInv(now, i - 1, d, plan, opt),
           NEW r, r = IF i \in Synced(d) THEN SyncField(now, d, plan, Captures[i], opt) ELSE now
    PROVE  SyncInv(r, i, d, plan, opt)
<1> DEFINE N(g, k) == Named(d, plan, opt, g, k)
           T(g, k) == Typed(d, plan, opt, g, k)
           type(j) == Source(d, plan, Captures[j]).type
           Field(x, g, k) ==
               /\ N(g, k) = {} => x.fname[g] = d.fname[g]
               /\ N(g, k) # {} => x.fname[g][1] # "lvar"
               /\ T(g, k) = {} => x.ftype[g] = d.ftype[g]
               /\ \A j \in T(g, k) : (\A l \in T(g, k) : l <= j) => x.ftype[g] = type(j)
<1>1. now \in DbType /\ SameVars(d, now) /\ FieldsDistinct(now) /\ \A g \in Fields : Field(now, g, i - 1)
  BY DEF SyncInv
<1>2. \A g : /\ N(g, i) = N(g, i - 1) \cup {j \in N(g, i) : j = i}
             /\ T(g, i) = T(g, i - 1) \cup {j \in T(g, i) : j = i}
             /\ \A j \in T(g, i - 1) : ~(i <= j)
  BY SyncSets
<1>3. ASSUME NEW g, i \notin N(g, i) PROVE N(g, i) = N(g, i - 1)
  <2>1. N(g, i) = N(g, i - 1) \cup {j \in N(g, i) : j = i}
    BY <1>2
  <2> HIDE DEF N, T
  <2>2. {j \in N(g, i) : j = i} = {}
    BY <1>3
  <2> QED BY <2>1, <2>2
<1>4. ASSUME NEW g, i \notin T(g, i) PROVE T(g, i) = T(g, i - 1)
  <2>1. T(g, i) = T(g, i - 1) \cup {j \in T(g, i) : j = i}
    BY <1>2
  <2> HIDE DEF N, T
  <2>2. {j \in T(g, i) : j = i} = {}
    BY <1>4
  <2> QED BY <2>1, <2>2
<1>5. \A g : (i \in N(g, i) \/ i \in T(g, i)) => i \in Synced(d) /\ Captures[i].field = g
  BY DEF Named, Typed, Writers
<1>6. SUFFICES r \in DbType /\ SameVars(d, r) /\ FieldsDistinct(r) /\ \A g \in Fields : Field(r, g, i)
  BY DEF SyncInv
<1>7. CASE i \notin Synced(d)
  <2>1. r = now
    BY <1>7
  <2>2. \A g : N(g, i) = N(g, i - 1) /\ T(g, i) = T(g, i - 1)
    BY <1>3, <1>4, <1>5, <1>7
  <2> HIDE DEF N, T
  <2> QED BY <1>1, <2>1, <2>2
<1>8. CASE i \in Synced(d)
  <2> DEFINE f == Captures[i].field
  <2>1. i \in DOMAIN Captures /\ f \in Fields /\ i <= i
    BY CapturesTyped
  <2>2. SyncedField(now, r, d, plan, i, opt)
    BY <1>1, <1>8, <2>1, SyncFieldEffect
  <2>3. i \in N(f, i) <=> MayTouch(d, f) /\ "rename_fields" \in opt /\ Source(d, plan, Captures[i]).name # NoName
    BY <1>8, <2>1 DEF Named
  <2>4. i \in T(f, i) <=> /\ MayTouch(d, f) /\ "retype_fields" \in opt
                          /\ Source(d, plan, Captures[i]).type # NoType /\ Captures[i].fits
    BY <1>8, <2>1 DEF Typed, Writers
  <2>5. /\ r \in DbType /\ SameVars(now, r)
        /\ \A g \in Fields : g # f => r.fname[g] = now.fname[g] /\ r.ftype[g] = now.ftype[g]
        /\ IF i \in N(f, i) THEN r.fname[f][1] # "lvar" /\ r.fname[f] \notin Siblings(now, f)
           ELSE r.fname[f] = now.fname[f]
        /\ r.ftype[f] = IF i \in T(f, i) THEN type(i) ELSE now.ftype[f]
    BY <2>2, <2>3, <2>4 DEF SyncedField
  <2>6. SameVars(d, r)
    BY <1>1, <2>5 DEF SameVars
  <2>7. FieldsDistinct(r)
    <3>1. r.fname[f] = now.fname[f] \/ r.fname[f] \notin Siblings(now, f)
      BY <2>5
    <3> HIDE DEF f
    <3> QED BY <1>1, <2>1, <2>5, <3>1, RenamedDistinct
  <2>8. ASSUME NEW g \in Fields PROVE Field(r, g, i)
    <3>1. Field(now, g, i - 1)
      BY <1>1
    <3>2. CASE g # f
      <4>1. N(g, i) = N(g, i - 1) /\ T(g, i) = T(g, i - 1)
        BY <1>3, <1>4, <1>5, <3>2
      <4> HIDE DEF N, T, f, type
      <4>2. r.fname[g] = now.fname[g] /\ r.ftype[g] = now.ftype[g]
        BY <2>5, <3>2
      <4> QED BY <3>1, <4>1, <4>2
    <3>3. CASE g = f
      <4>1. /\ N(g, i) = {} => r.fname[g] = d.fname[g]
            /\ N(g, i) # {} => r.fname[g][1] # "lvar"
        <5>1. CASE i \in N(f, i)
          <6> HIDE DEF N
          <6> QED BY <2>5, <5>1, <3>3
        <5>2. CASE i \notin N(f, i)
          <6>1. N(f, i) = N(f, i - 1)
            BY <1>3, <5>2
          <6> HIDE DEF N, T, f
          <6> QED BY <2>5, <3>1, <3>3, <5>2, <6>1
        <5> QED BY <5>1, <5>2
      <4>2. /\ T(g, i) = {} => r.ftype[g] = d.ftype[g]
            /\ \A j \in T(g, i) : (\A l \in T(g, i) : l <= j) => r.ftype[g] = type(j)
        <5>1. CASE i \in T(f, i)
          <6>1. ASSUME NEW j \in T(f, i), \A l \in T(f, i) : l <= j PROVE j = i
            BY <1>2, <5>1, <6>1
          <6> HIDE DEF T, type
          <6> QED BY <2>5, <3>3, <5>1, <6>1
        <5>2. CASE i \notin T(f, i)
          <6>1. T(f, i) = T(f, i - 1)
            BY <1>4, <5>2
          <6> HIDE DEF N, T, f, type
          <6> QED BY <2>5, <3>1, <3>3, <5>2, <6>1
        <5> QED BY <5>1, <5>2
      <4> HIDE DEF N, T, type
      <4> QED BY <4>1, <4>2
    <3> QED BY <3>2, <3>3
  <2> QED BY <2>5, <2>6, <2>7, <2>8
<1> QED BY <1>7, <1>8

LEMMA SyncFieldsEffect ==
    ASSUME BlocksAssumption, NEW d, Good(d), NEW plan, PlanOK(plan), NEW opt, Synching(opt)
    PROVE  SyncInv(SyncFields(d, plan, opt), Len(Captures), d, plan, opt)
<1> DEFINE n == Len(Captures)
<1>1. PICK g \in [0..n -> DbType] :
         /\ g[0] = d /\ SyncFields(d, plan, opt) = g[n]
         /\ \A i \in 1..n : g[i] = IF i \in Synced(d) THEN SyncField(g[i - 1], d, plan, Captures[i], opt)
                                   ELSE g[i - 1]
  BY SyncFieldsRecursion
<1>2. n \in Nat
  BY CapturesTyped
<1> DEFINE S == {i \in 0..n : SyncInv(g[i], i, d, plan, opt)}
<1>3. 0 \in S
  <2>1. \A j \in Synced(d) : ~(j <= 0)
    BY CapturesTyped DEF Synced, FirstCaptures
  <2>2. \A f : Named(d, plan, opt, f, 0) = {} /\ Typed(d, plan, opt, f, 0) = {}
    BY <2>1 DEF Named, Typed, Writers
  <2>3. SyncInv(d, 0, d, plan, opt)
    BY <2>2 DEF SyncInv, Good, SameVars, FieldsDistinct, Distinct
  <2> QED BY <1>1, <1>2, <2>3
<1>4. ASSUME NEW i \in 1..n, i - 1 \in S PROVE i \in S
  <2>1. SyncInv(g[i - 1], i - 1, d, plan, opt) /\ i \in 0..n
    BY <1>2, <1>4
  <2>2. SyncInv(g[i], i, d, plan, opt)
    BY <1>1, <2>1, SyncStep
  <2> QED BY <2>1, <2>2
<1>5. 0..n \subseteq S
  <2> HIDE DEF S, n
  <2> QED BY <1>2, <1>3, <1>4, IntervalInduction
<1>6. n \in S
  <2> HIDE DEF S
  <2> QED BY <1>2, <1>5
<1> QED BY <1>1, <1>6

LEMMA SyncFieldsGood ==
    ASSUME BlocksAssumption, NEW d, Good(d), NEW plan, PlanOK(plan), NEW opt,
           NEW e, e = SyncFields(d, plan, opt)
    PROVE  Good(e) /\ Keeps(d, e) /\ SameVars(d, e)
<1>1. CASE ~Synching(opt)
  <2>1. e = d
    BY <1>1 DEF SyncFields, Synching
  <2> QED BY <2>1 DEF Keeps, SameVars
<1>2. CASE Synching(opt)
  <2>1. SyncInv(e, Len(Captures), d, plan, opt)
    BY <1>2, SyncFieldsEffect
  <2>2. e \in DbType /\ SameVars(d, e) /\ FieldsDistinct(e)
    BY <2>1 DEF SyncInv
  <2>3. Good(e)
    BY <2>2 DEF Good, Distinct, FieldsDistinct, NamesOf, SameVars
  <2>4. ASSUME NEW f \in Fields, ~IsDefaultUdmName(d.fname[f])
        PROVE  e.fname[f] = d.fname[f] /\ e.ftype[f] = d.ftype[f]
    <3>1. Named(d, plan, opt, f, Len(Captures)) = {} /\ Typed(d, plan, opt, f, Len(Captures)) = {}
      BY <2>4 DEF Named, Typed, MayTouch
    <3> QED BY <2>1, <3>1 DEF SyncInv
  <2> QED BY <2>2, <2>3, <2>4 DEF Keeps, SameVars
<1> QED BY <1>1, <1>2

----------------------------------------------------------------------------
(* The planned names.                                                      *)

PlanFor(d, plan) ==
    /\ PlanOK(plan)
    /\ \A u, v \in DOMAIN plan : u # v => plan[u] # plan[v]
    /\ \A v \in DOMAIN plan : plan[v] \notin VarNames(d) /\ d.vname[v] \notin UserNames

LEMMA NoPlanFits == ASSUME NEW d PROVE DOMAIN NoPlan = {} /\ PlanFor(d, NoPlan)
<1>1. DOMAIN NoPlan = {}
  BY DEF NoPlan
<1> HIDE DEF NoPlan
<1> QED BY <1>1 DEF PlanFor, PlanOK

LEMMA PlannedNamesFit ==
    ASSUME BlocksAssumption, NEW d, Good(d)
    PROVE  DOMAIN PlannedNames(d) = Unnamed(d) /\ PlanFor(d, PlannedNames(d))
<1> DEFINE new == Unnamed(d)
           peers(v) == {u \in new : u <= v /\ KindOf(d, u) = KindOf(d, v)}
           number(v) == Cardinality(peers(v))
           wanted(v) == <<KindOf(d, v), number(v), 0>>
           plan == PlannedNames(d)
<1>1. plan = [v \in new |-> UniqueName(wanted(v), VarNames(d))]
  BY DEF PlannedNames
<1>2. new \subseteq Vars /\ IsFiniteSet(new)
  <2>1. new \subseteq Vars
    BY DEF Unnamed, BlockVars
  <2>2. IsFiniteSet(Vars)
    BY FS_Interval DEF Vars, BlocksAssumption
  <2> HIDE DEF new
  <2> QED BY <2>1, <2>2, FS_Subset
<1>3. ASSUME NEW v \in new
      PROVE  /\ IsFiniteSet(peers(v)) /\ number(v) \in Nat /\ v \in peers(v)
             /\ KindOf(d, v) \in PlanBases
  <2>1. IsFiniteSet(peers(v))
    <3>1. peers(v) \in SUBSET new
      OBVIOUS
    <3> HIDE DEF peers, new
    <3> QED BY <1>2, <3>1, FS_Subset
  <2>2. number(v) \in Nat
    <3> HIDE DEF peers
    <3> QED BY <2>1, FS_CardinalityType
  <2>3. v \in Nat
    BY <1>2 DEF Vars
  <2>4. v \in peers(v)
    <3> HIDE DEF new
    <3> QED BY <2>3
  <2>5. KindOf(d, v) \in PlanBases
    BY DEF Unnamed, BlockVars, KindOf, PlanBases
  <2> QED BY <2>1, <2>2, <2>4, <2>5
<1>4. ASSUME NEW u \in new, NEW v \in new, u < v, KindOf(d, u) = KindOf(d, v)
      PROVE  number(u) # number(v)
  <2>1. peers(u) \in SUBSET peers(v) /\ v \notin peers(u)
    <3>1. u \in Nat /\ v \in Nat /\ \A w \in new : w \in Nat
      BY <1>2 DEF Vars
    <3>2. \A w \in new : w <= u => w <= v
      BY <1>4, <3>1
    <3>3. ~(v <= u)
      BY <1>4, <3>1
    <3> HIDE DEF new
    <3> QED BY <1>4, <3>2, <3>3
  <2>2. v \in peers(v) /\ IsFiniteSet(peers(v))
    BY <1>3
  <2> HIDE DEF peers
  <2> QED BY <2>1, <2>2, FS_Subset
<1>5. ASSUME NEW v \in new
      PROVE  /\ plan[v] \in Names /\ plan[v] \notin VarNames(d)
             /\ plan[v][1] = KindOf(d, v) /\ plan[v][2] = number(v)
  <2> DEFINE w == wanted(v)
  <2>1. w \in Names /\ w[1] = KindOf(d, v) /\ w[2] = number(v)
    <3>1. \A b \in PlanBases : b \in Bases
      BY DEF PlanBases, Bases, GivenBases
    <3>2. KindOf(d, v) \in Bases /\ number(v) \in Nat /\ 0 \in Nat
      BY <1>3, <3>1
    <3> HIDE DEF number
    <3> QED BY <3>2 DEF Names
  <2>2. plan[v] = UniqueName(w, VarNames(d))
    BY <1>1
  <2> HIDE DEF w, plan, number
  <2>3. plan[v] \notin VarNames(d) /\ \E s \in Nat : plan[v] = <<w[1], w[2], s>>
    <3>1. IsFiniteSet(VarNames(d)) /\ w \in Names
      BY <2>1, NamesFinite
    <3> QED BY <2>2, <3>1, UniqueNameIsFree
  <2> QED BY <2>1, <2>3 DEF Names
<1>6. DOMAIN plan = new
  BY <1>1
<1>7. ASSUME NEW u \in new, NEW v \in new, u # v PROVE plan[u] # plan[v]
  <2>1. u \in Nat /\ v \in Nat
    BY <1>2 DEF Vars
  <2>2. CASE KindOf(d, u) # KindOf(d, v)
    BY <1>5, <2>2
  <2>3. CASE KindOf(d, u) = KindOf(d, v)
    <3>1. number(u) # number(v)
      <4> HIDE DEF number, new
      <4>1. u < v \/ v < u
        BY <1>7, <2>1
      <4> QED BY <1>4, <2>3, <4>1
    <3> HIDE DEF number, plan
    <3> QED BY <1>5, <3>1
  <2> QED BY <2>2, <2>3
<1>8. ASSUME NEW v \in new PROVE d.vname[v] \notin UserNames
  <2>1. v \in Vars /\ ~HasBetterName(d, v)
    BY <1>2 DEF Unnamed
  <2>2. IsDefaultName(d.vname[v]) \/ IsGenericBlock(d.vname[v])
    BY <2>1 DEF HasBetterName, Good, NamesOf
  <2> QED BY <2>2, UserNamesAreNames DEF IsDefaultName, IsGenericBlock, GivenBases
<1>9. PlanOK(plan)
  <2>1. \A v \in new : plan[v] \in Names /\ plan[v][1] \in PlanBases
    BY <1>3, <1>5
  <2> HIDE DEF plan, new
  <2> QED BY <1>2, <1>6, <2>1 DEF PlanOK
<1> HIDE DEF plan, new
<1> QED BY <1>5, <1>6, <1>7, <1>8, <1>9 DEF PlanFor, new, plan

LEMMA NameBlocksGood ==
    ASSUME BlocksAssumption, NEW d, Good(d), NEW plan, PlanFor(d, plan),
           NEW e, e = NameBlocks(d, plan)
    PROVE  /\ Good(e) /\ Keeps(d, e) /\ SameFields(d, e)
           /\ e.vtype = d.vtype /\ e.vtyped = d.vtyped /\ e.vuser = d.vuser \cup DOMAIN plan
           /\ \A v \in Vars : e.vname[v] = IF v \in DOMAIN plan THEN plan[v] ELSE d.vname[v]
<1> DEFINE vn == [v \in Vars |-> IF v \in DOMAIN plan THEN plan[v] ELSE d.vname[v]]
           vu == d.vuser \cup DOMAIN plan
<1>1. e = [d EXCEPT !.vname = vn, !.vuser = vu]
  BY DEF NameBlocks
<1>2. d \in DbType /\ Distinct(d) /\ NamesOf(d) /\ PlanOK(plan)
  BY DEF Good, PlanFor
<1>3. vn \in [Vars -> Names] /\ vu \in SUBSET Vars
  BY <1>2 DEF DbType, PlanOK
<1>4. \A v \in Vars : vn[v] = IF v \in DOMAIN plan THEN plan[v] ELSE d.vname[v]
  OBVIOUS
<1> HIDE DEF vn
<1>5. /\ e \in DbType /\ e.vname = vn /\ e.vuser = vu /\ e.vtype = d.vtype /\ e.vtyped = d.vtyped
      /\ e.fname = d.fname /\ e.ftype = d.ftype
  BY <1>1, <1>2, <1>3 DEF DbType
<1>6. ASSUME NEW u \in Vars, NEW v \in Vars, u # v PROVE vn[u] # vn[v]
  <2>1. d.vname[u] # d.vname[v] /\ d.vname[u] \in VarNames(d) /\ d.vname[v] \in VarNames(d)
    BY <1>2, <1>6 DEF Distinct, VarNames
  <2> QED BY <1>4, <1>6, <2>1 DEF PlanFor
<1>7. Distinct(e)
  BY <1>2, <1>5, <1>6, SiblingsSame DEF Distinct
<1>8. NamesOf(e)
  <2> SUFFICES ASSUME NEW v \in Vars
               PROVE  /\ vn[v] \in UserNames \/ vn[v][1] \in GivenBases \ {"lvar"}
                      /\ v \notin vu => IsDefaultName(vn[v])
                      /\ IsGenericBlock(vn[v]) => vn[v] = <<"block", v, 0>>
    BY <1>5 DEF NamesOf
  <2>1. CASE v \in DOMAIN plan
    <3>1. vn[v][1] \in PlanBases
      BY <1>2, <1>4, <2>1 DEF PlanOK
    <3> QED BY <2>1, <3>1 DEF PlanBases, GivenBases, IsGenericBlock
  <2>2. CASE v \notin DOMAIN plan
    BY <1>2, <1>4, <2>2 DEF NamesOf
  <2> QED BY <2>1, <2>2
<1>9. Keeps(d, e)
  BY <1>4, <1>5 DEF Keeps, PlanFor
<1> QED BY <1>4, <1>5, <1>7, <1>8, <1>9 DEF Good, SameFields

----------------------------------------------------------------------------
(* rename_blocks_in_func as a whole, and what it leaves to do.             *)

PlanOf(d, opt) == IF "rename_blocks" \in opt THEN PlannedNames(d) ELSE NoPlan
Renamed(d, opt) == NameBlocks(SyncFields(d, PlanOf(d, opt), opt), PlanOf(d, opt))

LEMMA RenameAllIs ==
    ASSUME NEW d, NEW opt
    PROVE  RenameAll(d, opt) = {Renamed(d, opt)}
<1> DEFINE plan == PlanOf(d, opt)
           f == SyncFields(d, plan, opt)
<1>1. RenameAll(d, opt) = UNION {{NameBlocks(g, p) : g \in {SyncFields(d, p, opt)}} : p \in {plan}}
  BY DEF RenameAll, PlanOf
<1> HIDE DEF plan
<1>2. RenameAll(d, opt) = {NameBlocks(g, plan) : g \in {f}}
  BY <1>1
<1> HIDE DEF f
<1>3. RenameAll(d, opt) = {NameBlocks(f, plan)}
  BY <1>2
<1> QED BY <1>3 DEF f, plan, Renamed

LEMMA PlanOfFits ==
    ASSUME BlocksAssumption, NEW d, Good(d), NEW opt
    PROVE  /\ PlanFor(d, PlanOf(d, opt))
           /\ "rename_blocks" \in opt => DOMAIN PlanOf(d, opt) = Unnamed(d)
           /\ "rename_blocks" \notin opt => DOMAIN PlanOf(d, opt) = {}
BY PlannedNamesFit, NoPlanFits DEF PlanOf

LEMMA SourceSame ==
    ASSUME NEW d, NEW plan, NEW e, NEW q, NEW c,
           LET v == c.var IN
               /\ e.vtype[v] = d.vtype[v] /\ e.vtyped = d.vtyped
               /\ (IF v \in DOMAIN q THEN q[v] ELSE e.vname[v])
                      = (IF v \in DOMAIN plan THEN plan[v] ELSE d.vname[v])
    PROVE  Source(e, q, c) = Source(d, plan, c)
<1>1. CaptureName(e, q, c.var) = CaptureName(d, plan, c.var)
  BY DEF CaptureName
<1> QED BY <1>1 DEF Source, VariableSource

LEMMA SeenSame ==
    ASSUME NEW d, NEW e, e.vtype = d.vtype
    PROVE  /\ Synced(e) = Synced(d) /\ ByrefFound(e) = ByrefFound(d)
           /\ BlockVars(e) = BlockVars(d) /\ \A v : KindOf(e, v) = KindOf(d, v)
<1>1. \A c : Seen(e, c) = Seen(d, c)
  BY DEF Seen
<1>2. \A v : KindOf(e, v) = KindOf(d, v)
  BY DEF KindOf
<1> QED BY <1>1, <1>2 DEF Synced, ByrefFound, ByrefCaptures, BlockVars

\* A renaming keeps what may not be touched; the fields as SyncFields left them.
LEMMA RenamedEffect ==
    ASSUME BlocksAssumption, NEW d, Good(d), NEW opt, NEW r, r = Renamed(d, opt),
           NEW plan, plan = PlanOf(d, opt), NEW e, e = SyncFields(d, plan, opt)
    PROVE  /\ Good(r) /\ Keeps(d, r) /\ SameFields(e, r)
           /\ r.vtype = d.vtype /\ r.vtyped = d.vtyped /\ r.vuser = d.vuser \cup DOMAIN plan
           /\ \A v \in Vars : r.vname[v] = IF v \in DOMAIN plan THEN plan[v] ELSE d.vname[v]
<1>1. PlanFor(d, plan) /\ PlanOK(plan)
  BY PlanOfFits DEF PlanFor
<1>2. Good(e) /\ Keeps(d, e) /\ SameVars(d, e)
  BY <1>1, SyncFieldsGood
<1>3. PlanFor(e, plan)
  BY <1>1, <1>2 DEF PlanFor, SameVars, VarNames
<1>4. r = NameBlocks(e, plan)
  BY DEF Renamed
<1>5. /\ Good(r) /\ Keeps(e, r) /\ SameFields(e, r)
      /\ r.vtype = e.vtype /\ r.vtyped = e.vtyped /\ r.vuser = e.vuser \cup DOMAIN plan
      /\ \A v \in Vars : r.vname[v] = IF v \in DOMAIN plan THEN plan[v] ELSE e.vname[v]
  BY <1>2, <1>3, <1>4, NameBlocksGood
<1> QED BY <1>2, <1>5, KeepsTransitive DEF SameVars

LEMMA RenamedDone ==
    ASSUME BlocksAssumption, NEW d, Good(d), NEW opt, NEW r, r = Renamed(d, opt),
           \A b \in StackBlocks : d.vtype[b] # "raw",
           "byref" \in opt => ByrefFound(d) = {}
    PROVE  Done(r, opt)
<1> DEFINE plan == PlanOf(d, opt)
           e == SyncFields(d, plan, opt)
           n == Len(Captures)
<1>1. /\ PlanFor(d, plan) /\ PlanOK(plan)
      /\ "rename_blocks" \in opt => DOMAIN plan = Unnamed(d)
  BY PlanOfFits DEF PlanFor
<1>2. /\ Good(r) /\ SameFields(e, r)
      /\ r.vtype = d.vtype /\ r.vtyped = d.vtyped /\ r.vuser = d.vuser \cup DOMAIN plan
      /\ \A v \in Vars : r.vname[v] = IF v \in DOMAIN plan THEN plan[v] ELSE d.vname[v]
  BY RenamedEffect
<1>3. Synching(opt) => SyncInv(e, n, d, plan, opt)
  BY <1>1, SyncFieldsEffect
<1> HIDE DEF e, plan
<1>4. /\ Synced(r) = Synced(d) /\ ByrefFound(r) = ByrefFound(d)
      /\ BlockVars(r) = BlockVars(d)
  BY <1>2, SeenSame
<1>5. ASSUME NEW i \in Synced(d)
      PROVE  /\ Source(r, NoPlan, Captures[i]) = Source(d, plan, Captures[i])
             /\ i <= n /\ Captures[i].field \in Fields
  <2>1. i \in DOMAIN Captures /\ Captures[i].var \in Vars /\ i <= n /\ Captures[i].field \in Fields
    BY CapturesTyped DEF Synced, FirstCaptures
  <2>2. Source(r, NoPlan, Captures[i]) = Source(d, plan, Captures[i])
    <3> DEFINE c == Captures[i]
    <3>1. c.var \in Vars /\ DOMAIN NoPlan = {}
      BY <2>1, NoPlanFits
    <3> HIDE DEF c
    <3>2. r.vtype[c.var] = d.vtype[c.var] /\ r.vtyped = d.vtyped
      BY <1>2
    <3>3. (IF c.var \in DOMAIN NoPlan THEN NoPlan[c.var] ELSE r.vname[c.var])
              = (IF c.var \in DOMAIN plan THEN plan[c.var] ELSE d.vname[c.var])
      BY <1>2, <3>1
    <3>4. Source(r, NoPlan, c) = Source(d, plan, c)
      BY <3>2, <3>3, SourceSame
    <3> QED BY <3>4 DEF c
  <2> QED BY <2>1, <2>2
<1>6. ASSUME "rename_blocks" \in opt PROVE Unnamed(r) = {}
  <2>1. SUFFICES ASSUME NEW v \in BlockVars(d) PROVE HasBetterName(r, v)
    BY <1>4 DEF Unnamed
  <2>2. v \in Vars
    BY DEF BlockVars
  <2>3. CASE v \in DOMAIN plan
    <3>1. r.vname[v] = plan[v] /\ plan[v][1] \in PlanBases /\ v \in r.vuser
      BY <1>1, <1>2, <2>2, <2>3 DEF PlanOK
    <3> QED BY <3>1 DEF HasBetterName, IsDefaultName, IsGenericBlock, PlanBases
  <2>4. CASE v \notin DOMAIN plan
    <3>1. HasBetterName(d, v)
      BY <1>1, <1>6, <2>4 DEF Unnamed
    <3> QED BY <1>2, <2>2, <2>4, <3>1 DEF HasBetterName
  <2> QED BY <2>3, <2>4
<1>7. ASSUME "rename_fields" \in opt, NEW i \in Synced(r),
             Source(r, NoPlan, Captures[i]).name # NoName
      PROVE  ~IsDefaultUdmName(r.fname[Captures[i].field])
  <2> DEFINE f == Captures[i].field
  <2>1. i \in Synced(d) /\ f \in Fields /\ i <= n /\ Source(d, plan, Captures[i]).name # NoName
    BY <1>4, <1>5, <1>7
  <2>2. SyncInv(e, n, d, plan, opt) /\ r.fname = e.fname
    BY <1>2, <1>3, <1>7 DEF Synching, SameFields
  <2>3. CASE MayTouch(d, f)
    <3>1. i \in Named(d, plan, opt, f, n)
      BY <1>7, <2>1, <2>3 DEF Named
    <3> QED BY <2>1, <2>2, <3>1 DEF SyncInv, IsDefaultUdmName
  <2>4. CASE ~MayTouch(d, f)
    <3>1. Named(d, plan, opt, f, n) = {}
      BY <2>4 DEF Named
    <3>2. r.fname[f] = d.fname[f]
      BY <2>1, <2>2, <3>1 DEF SyncInv
    <3> QED BY <2>4, <3>2 DEF MayTouch
  <2> QED BY <2>3, <2>4
<1>8. ASSUME "retype_fields" \in opt, NEW f \in Fields, MayTouch(r, f),
             NEW j \in Writers(r, NoPlan, f), \A k \in Writers(r, NoPlan, f) : k <= j
      PROVE  r.ftype[f] = Source(r, NoPlan, Captures[j]).type
  <2>1. SyncInv(e, n, d, plan, opt) /\ r.fname = e.fname /\ r.ftype = e.ftype
    BY <1>2, <1>3, <1>8 DEF Synching, SameFields
  <2>2. Named(d, plan, opt, f, n) = {}
    BY <1>8, <2>1 DEF SyncInv, MayTouch, IsDefaultUdmName
  <2>3. MayTouch(d, f)
    BY <1>8, <2>1, <2>2 DEF SyncInv, MayTouch
  <2>4. Writers(r, NoPlan, f) = Writers(d, plan, f)
    BY <1>4, <1>5 DEF Writers
  <2>5. Typed(d, plan, opt, f, n) = Writers(d, plan, f)
    BY <1>5, <1>8, <2>3 DEF Typed, Writers
  <2>6. j \in Synced(d)
    BY <1>4, <1>8 DEF Writers
  <2> QED BY <1>5, <1>8, <2>1, <2>4, <2>5, <2>6 DEF SyncInv
<1> QED BY <1>2, <1>4, <1>6, <1>7, <1>8 DEF Done

----------------------------------------------------------------------------
(* Where a run is done, the next one changes nothing.                      *)

LEMMA SameDb ==
    ASSUME NEW d \in DbType, NEW e \in DbType, SameVars(d, e), SameFields(d, e)
    PROVE  e = d
BY DEF DbType, SameVars, SameFields

LEMMA StackNoop ==
    ASSUME BlocksAssumption, NEW d \in DbType, \A b \in StackBlocks : d.vtype[b] # "raw"
    PROVE  StackAnalysis(d) = d
<1> DEFINE new == {b \in StackBlocks : d.vtype[b] = "raw"}
           vt == [v \in Vars |-> IF v \in new THEN "block" ELSE d.vtype[v]]
           vn == [v \in Vars |-> IF v \in new /\ IsDefaultName(d.vname[v])
                                 THEN <<"block", v, 0>> ELSE d.vname[v]]
           vu == d.vuser \cup new
<1>1. StackAnalysis(d) = [d EXCEPT !.vtype = vt, !.vname = vn, !.vuser = vu]
  BY DEF StackAnalysis
<1>2. new = {}
  OBVIOUS
<1>3. d.vtype \in [Vars -> VarTypes] /\ d.vname \in [Vars -> Names]
  BY DEF DbType
<1> HIDE DEF new
<1>4. vt = d.vtype /\ vn = d.vname /\ vu = d.vuser
  BY <1>2, <1>3
<1> HIDE DEF vt, vn, vu
<1> QED BY <1>1, <1>4 DEF DbType

LEMMA NameBlocksNoop ==
    ASSUME NEW d \in DbType, NEW plan, DOMAIN plan = {}
    PROVE  NameBlocks(d, plan) = d
<1> DEFINE vn == [v \in Vars |-> IF v \in DOMAIN plan THEN plan[v] ELSE d.vname[v]]
           vu == d.vuser \cup DOMAIN plan
<1>1. NameBlocks(d, plan) = [d EXCEPT !.vname = vn, !.vuser = vu]
  BY DEF NameBlocks
<1>2. d.vname \in [Vars -> Names]
  BY DEF DbType
<1>3. vn = d.vname /\ vu = d.vuser
  BY <1>2
<1> HIDE DEF vn, vu
<1> QED BY <1>1, <1>3 DEF DbType

LEMMA SyncNoop ==
    ASSUME BlocksAssumption, NEW d, Good(d), NEW opt, Done(d, opt),
           NEW plan, DOMAIN plan = {}
    PROVE  SyncFields(d, plan, opt) = d
<1> DEFINE n == Len(Captures)
           e == SyncFields(d, plan, opt)
<1>1. CASE ~Synching(opt)
  BY <1>1 DEF SyncFields, Synching
<1>2. CASE Synching(opt)
  <2>1. PlanOK(plan)
    BY DEF PlanOK
  <2>2. SyncInv(e, n, d, plan, opt)
    BY <1>2, <2>1, SyncFieldsEffect
  <2> HIDE DEF e
  <2>3. ASSUME NEW i PROVE Source(d, plan, Captures[i]) = Source(d, NoPlan, Captures[i])
    <3> DEFINE c == Captures[i]
    <3>1. DOMAIN NoPlan = {}
      BY NoPlanFits
    <3> HIDE DEF c
    <3>2. (IF c.var \in DOMAIN plan THEN plan[c.var] ELSE d.vname[c.var])
              = (IF c.var \in DOMAIN NoPlan THEN NoPlan[c.var] ELSE d.vname[c.var])
      BY <3>1
    <3>3. Source(d, plan, c) = Source(d, NoPlan, c)
      BY <3>2, SourceSame
    <3> QED BY <3>3 DEF c
  <2>4. ASSUME NEW f \in Fields PROVE e.fname[f] = d.fname[f]
    <3>1. Named(d, plan, opt, f, n) = {}
      BY <2>3 DEF Named, Done, MayTouch
    <3> QED BY <2>2, <3>1 DEF SyncInv
  <2>5. ASSUME NEW f \in Fields PROVE e.ftype[f] = d.ftype[f]
    <3> DEFINE T == Typed(d, plan, opt, f, n)
    <3>1. CASE T = {}
      BY <2>2, <3>1 DEF SyncInv
    <3>2. CASE T # {}
      <4>1. T \in SUBSET (0..n) /\ n \in Nat
        BY CapturesTyped DEF Typed, Writers, Synced, FirstCaptures
      <4>2. PICK j \in T : \A k \in T : j >= k
        <5> HIDE DEF T, n
        <5> QED BY <3>2, <4>1, GreatestElement
      <4>3. \A k \in T : k <= j
        <5>1. \A k \in T : k \in Int
          BY <4>1
        <5> HIDE DEF T
        <5> QED BY <4>2, <5>1
      <4>4. e.ftype[f] = Source(d, plan, Captures[j]).type
        BY <2>2, <4>2, <4>3 DEF SyncInv
      <4>5. MayTouch(d, f) /\ "retype_fields" \in opt
        BY <4>2 DEF Typed
      <4>6. T = Writers(d, NoPlan, f)
        <5>1. \A k \in Synced(d) : k <= n
          BY CapturesTyped DEF Synced, FirstCaptures
        <5>2. Writers(d, plan, f) = Writers(d, NoPlan, f)
          BY <2>3 DEF Writers
        <5>3. \A k \in Writers(d, plan, f) : k \in Synced(d)
          BY DEF Writers
        <5> QED BY <4>5, <5>1, <5>2, <5>3 DEF Typed
      <4>7. d.ftype[f] = Source(d, NoPlan, Captures[j]).type
        <5> HIDE DEF T
        <5> QED BY <4>2, <4>3, <4>5, <4>6 DEF Done
      <4> QED BY <2>3, <4>4, <4>7
    <3> QED BY <3>1, <3>2
  <2>6. /\ e \in DbType /\ d \in DbType /\ SameVars(d, e)
    BY <2>2 DEF SyncInv, Good
  <2>7. e.fname = d.fname /\ e.ftype = d.ftype
    <3>1. e.fname \in [Fields -> Names] /\ d.fname \in [Fields -> Names]
      BY <2>6 DEF DbType
    <3>2. e.ftype \in [Fields -> FieldTypes] /\ d.ftype \in [Fields -> FieldTypes]
      BY <2>6 DEF DbType, FieldTypes
    <3>3. e.fname = d.fname
      BY <2>4, <3>1
    <3>4. e.ftype = d.ftype
      BY <2>5, <3>2
    <3> QED BY <3>3, <3>4
  <2>8. e = d
    BY <2>6, <2>7, SameDb DEF SameFields
  <2> QED BY <2>8 DEF e
<1> QED BY <1>1, <1>2

LEMMA RenamedNoop ==
    ASSUME BlocksAssumption, NEW d, Good(d), NEW opt, Done(d, opt)
    PROVE  Renamed(d, opt) = d
<1>1. DOMAIN PlanOf(d, opt) = {}
  BY PlanOfFits DEF Done
<1>2. SyncFields(d, PlanOf(d, opt), opt) = d
  BY <1>1, SyncNoop
<1>3. NameBlocks(d, PlanOf(d, opt)) = d
  BY <1>1, NameBlocksNoop DEF Good
<1> QED BY <1>2, <1>3 DEF Renamed

----------------------------------------------------------------------------
(* The pipeline.                                                           *)

\* Where its ways to end leave the database.
LEMMA PipelineEnds ==
    ASSUME NEW d, NEW opt, NEW r \in Pipeline(d, opt),
           NEW a, a = StackAnalysis(d)
    PROVE  /\ r.completed \in BOOLEAN
           /\ IF "byref" \in opt /\ ByrefFound(a) # {}
              THEN \/ r.db = Renamed(TypeByrefs(a), opt)
                   \/ r.end # "done" /\ r.db \in {a, TypeByrefs(a), TypeByrefFields(a),
                                                  Renamed(TypeByrefFields(a), opt)}
              ELSE \/ r.db = Renamed(a, opt)
                   \/ r.end # "done" /\ r.db = a
<1> DEFINE byrefs == "byref" \in opt /\ ByrefFound(a) # {}
<1>1. r \in {Result("nodecompile", a, FALSE)} \cup (IF byrefs THEN Recover(a, opt) ELSE Rename(a, opt, FALSE))
  BY DEF Pipeline
<1>2. ASSUME NEW b, NEW changed, NEW x \in Rename(b, opt, changed)
      PROVE  /\ x.db = Renamed(b, opt) /\ x.completed = TRUE
             /\ x = [end |-> "done", db |-> x.db, changed |-> x.changed, completed |-> TRUE]
  <2>1. PICK c \in RenameAll(b, opt) : x = Result("done", c, changed \/ c # b)
    BY <1>2 DEF Rename
  <2>2. c = Renamed(b, opt)
    BY <2>1, RenameAllIs
  <2>3. x = [end |-> "done", db |-> c, changed |-> changed \/ c # b, completed |-> TRUE]
    BY <2>1 DEF Result
  <2> QED BY <2>2, <2>3
<1>4. CASE r = Result("nodecompile", a, FALSE)
  <2>1. r.db = a /\ r.end = "nodecompile" /\ r.completed \in BOOLEAN
    <3> HIDE DEF byrefs
    <3> QED BY <1>4 DEF Result
  <2> QED BY <2>1
<1>5. CASE ~byrefs /\ r \in Rename(a, opt, FALSE)
  BY <1>2, <1>5
<1>6. CASE byrefs /\ r \in Recover(a, opt)
  <2>1. \/ r \in Rename(TypeByrefs(a), opt, TRUE)
        \/ \E x \in Rename(TypeByrefFields(a), opt, TRUE) : r = [x EXCEPT !.end = "refused"]
        \/ r = Result("lost", TypeByrefs(a), TRUE)
        \/ \E b \in {a, TypeByrefFields(a)} : r = Result("raise", b, FALSE)
    <3> DEFINE Refused(y) == {[x EXCEPT !.end = "refused"] : x \in Rename(y, opt, TRUE)}
               W == UNION {Rename(y, opt, TRUE) : y \in {TypeByrefs(a)}}
               X == UNION {Refused(y) : y \in {TypeByrefFields(a)}}
               Y == {Result("lost", y, TRUE) : y \in {TypeByrefs(a)}}
               Z == {Result("raise", y, FALSE) : y \in {a, TypeByrefFields(a)}}
    <3>1. Recover(a, opt) = W \cup X \cup Y \cup Z
      BY DEF Recover
    <3>2. r \in X => \E x \in Rename(TypeByrefFields(a), opt, TRUE) : r = [x EXCEPT !.end = "refused"]
      <4>1. r \in X => r \in Refused(TypeByrefFields(a))
        <5> HIDE DEF Refused, byrefs
        <5> QED OBVIOUS
      <4> HIDE DEF X, byrefs
      <4> QED BY <4>1
    <3>3. r \in W => r \in Rename(TypeByrefs(a), opt, TRUE)
      <4> HIDE DEF byrefs
      <4> QED OBVIOUS
    <3>4. r \in Y => r = Result("lost", TypeByrefs(a), TRUE)
      <4> HIDE DEF byrefs
      <4> QED OBVIOUS
    <3>5. r \in Z => \E y \in {a, TypeByrefFields(a)} : r = Result("raise", y, FALSE)
      <4> HIDE DEF byrefs
      <4> QED OBVIOUS
    <3> HIDE DEF W, X, Y, Z
    <3>6. r \in W \/ r \in X \/ r \in Y \/ r \in Z
      BY <1>6, <3>1
    <3> QED BY <3>2, <3>3, <3>4, <3>5, <3>6
  <2>2. CASE r \in Rename(TypeByrefs(a), opt, TRUE)
    BY <1>2, <1>6, <2>2
  <2>3. ASSUME NEW x \in Rename(TypeByrefFields(a), opt, TRUE), r = [x EXCEPT !.end = "refused"]
        PROVE  r.db = Renamed(TypeByrefFields(a), opt) /\ r.end # "done" /\ r.completed \in BOOLEAN
    <3>1. /\ x.db = Renamed(TypeByrefFields(a), opt)
          /\ x = [end |-> "done", db |-> x.db, changed |-> x.changed, completed |-> TRUE]
      BY <1>2, <2>3
    <3> DEFINE y == x.db
               z == x.changed
    <3>2. x = [end |-> "done", db |-> y, changed |-> z, completed |-> TRUE]
      BY <3>1
    <3> HIDE DEF y, z
    <3>3. r.db = y /\ r.end = "refused" /\ r.completed = TRUE
      BY <2>3, <3>2
    <3> QED BY <3>1, <3>3 DEF y
  <2>4. CASE r = Result("lost", TypeByrefs(a), TRUE)
    <3>1. r.db = TypeByrefs(a) /\ r.end = "lost" /\ r.completed \in BOOLEAN
      BY <2>4 DEF Result
    <3> QED BY <1>6, <3>1
  <2>5. ASSUME NEW b \in {a, TypeByrefFields(a)}, r = Result("raise", b, FALSE)
        PROVE  r.db = b /\ r.end # "done" /\ r.completed \in BOOLEAN
    <3>1. r.db = b /\ r.end = "raise" /\ r.completed \in BOOLEAN
      BY <2>5 DEF Result
    <3> QED BY <3>1
  <2> QED BY <1>6, <2>1, <2>2, <2>3, <2>4, <2>5
<1> QED BY <1>1, <1>4, <1>5, <1>6

LEMMA PipelineGood ==
    ASSUME BlocksAssumption, NEW d, Good(d), NEW opt, NEW r \in Pipeline(d, opt)
    PROVE  /\ Good(r.db) /\ Keeps(d, r.db) /\ r.completed \in BOOLEAN
           /\ r.end = "done" => Done(r.db, opt)
<1> DEFINE a == StackAnalysis(d)
           b == TypeByrefs(a)
           c == TypeByrefFields(a)
<1>1. Good(a) /\ Keeps(d, a) /\ \A s \in StackBlocks : a.vtype[s] # "raw"
  BY StackGood
<1> HIDE DEF a
<1>2. /\ Good(b) /\ Keeps(a, b) /\ \A s \in StackBlocks : b.vtype[s] # "raw"
      /\ ByrefFound(b) = {}
  BY <1>1, ByrefsGood
<1>3. Good(c) /\ Keeps(a, c)
  BY <1>1, ByrefFieldsGood
<1> HIDE DEF b, c
<1>4. Keeps(d, b) /\ Keeps(d, c)
  BY <1>1, <1>2, <1>3, KeepsTransitive
<1>5. ASSUME NEW x, Good(x), Keeps(d, x)
      PROVE  Good(Renamed(x, opt)) /\ Keeps(d, Renamed(x, opt))
  <2>1. Good(Renamed(x, opt)) /\ Keeps(x, Renamed(x, opt))
    BY <1>5, RenamedEffect
  <2> QED BY <1>5, <2>1, KeepsTransitive
<1>6. /\ r.completed \in BOOLEAN
      /\ IF "byref" \in opt /\ ByrefFound(a) # {}
         THEN \/ r.db = Renamed(b, opt)
              \/ r.end # "done" /\ r.db \in {a, b, c, Renamed(c, opt)}
         ELSE \/ r.db = Renamed(a, opt)
              \/ r.end # "done" /\ r.db = a
  BY PipelineEnds DEF a, b, c
<1>7. Good(r.db) /\ Keeps(d, r.db)
  <2>1. r.db \in {a, b, c, Renamed(a, opt), Renamed(b, opt), Renamed(c, opt)}
    BY <1>6
  <2> QED BY <1>1, <1>2, <1>3, <1>4, <1>5, <2>1
<1>8. ASSUME r.end = "done" PROVE Done(r.db, opt)
  <2>1. CASE "byref" \in opt /\ ByrefFound(a) # {}
    <3>1. r.db = Renamed(b, opt)
      BY <1>6, <1>8, <2>1
    <3> QED BY <1>2, <3>1, RenamedDone
  <2>2. CASE ~("byref" \in opt /\ ByrefFound(a) # {})
    <3>1. r.db = Renamed(a, opt)
      BY <1>6, <1>8, <2>2
    <3>2. "byref" \in opt => ByrefFound(a) = {}
      BY <2>2
    <3> QED BY <1>1, <3>1, <3>2, RenamedDone
  <2> QED BY <2>1, <2>2
<1> QED BY <1>6, <1>7, <1>8

LEMMA PipelineNoop ==
    ASSUME BlocksAssumption, NEW d, Good(d), NEW opt, Done(d, opt), NEW r \in Pipeline(d, opt)
    PROVE  r.db = d
<1>1. StackAnalysis(d) = d
  BY StackNoop DEF Good, Done
<1>2. "byref" \in opt => ByrefFound(d) = {}
  BY DEF Done
<1>3. Renamed(d, opt) = d
  BY RenamedNoop
<1> QED BY <1>1, <1>2, <1>3, PipelineEnds

----------------------------------------------------------------------------
(* The invariant holds at first, and every step keeps it.                  *)

LEMMA InitGood ==
    ASSUME BlocksAssumption, Init
    PROVE  Good(db)
<1> DEFINE vn == [v \in Vars |-> <<"v", v, 0>>]
           vt == [v \in Vars |-> "raw"]
           fn == [f \in Fields |-> <<"lvar", f[2], 0>>]
           ft == [f \in Fields |-> <<"val", "raw">>]
<1>1. db = [vname |-> vn, vuser |-> {}, vtype |-> vt, vtyped |-> {}, fname |-> fn, ftype |-> ft]
  BY DEF Init
<1>2. vn \in [Vars -> Names]
  <2>1. "v" \in Bases /\ \A v \in Vars : v \in Nat
    BY DEF Bases, GivenBases, Vars
  <2> QED BY <2>1 DEF Names
<1>3. fn \in [Fields -> Names]
  <2>1. "lvar" \in Bases /\ \A f \in Fields : f[2] \in Nat
    BY DEF Bases, GivenBases, BlocksAssumption
  <2> QED BY <2>1 DEF Names
<1>4. vt \in [Vars -> VarTypes] /\ ft \in [Fields -> FieldTypes]
  BY DEF VarTypes, FieldTypes
<1>5. \A f \in Fields : f = <<f[1], f[2]>>
  BY DEF BlocksAssumption
<1>6. \A u, v \in Vars : u # v => vn[u] # vn[v]
  OBVIOUS
<1>7. \A f, g \in Fields : g[1] = f[1] /\ g # f => fn[f] # fn[g]
  BY <1>5
<1>8. \A v \in Vars : vn[v] = <<"v", v, 0>>
  OBVIOUS
<1> HIDE DEF vn, vt, fn, ft
<1>9. /\ db \in DbType /\ db.vname = vn /\ db.fname = fn
  BY <1>1, <1>2, <1>3, <1>4 DEF DbType, FieldTypes
<1>10. Distinct(db)
  BY <1>6, <1>7, <1>9 DEF Distinct, Siblings
<1>11. NamesOf(db)
  BY <1>8, <1>9 DEF NamesOf, IsDefaultName, IsGenericBlock, GivenBases
<1> QED BY <1>9, <1>10, <1>11 DEF Good

LEMMA InitInv == ASSUME BlocksAssumption, Init PROVE IInv
<1>1. MaxEdits \in Nat /\ MaxViews \in Nat
  BY DEF BlocksAssumption
<1>2. /\ marker = FALSE /\ queue = <<>> /\ opts \in OptionChoices /\ edits = 0 /\ views = 0
      /\ settled = {} /\ autoRuns = 0
  BY DEF Init
<1>3. edits \in 0..MaxEdits /\ views \in 0..MaxViews /\ autoRuns \in 0..1 /\ ~(autoRuns > 0)
  BY <1>1, <1>2
<1>4. queue \in Seq(OptionChoices) /\ marker \in BOOLEAN
  <2>1. <<>> \in Seq(OptionChoices)
    OBVIOUS
  <2> QED BY <1>2, <2>1
<1> QED BY <1>2, <1>3, <1>4, InitGood DEF IInv

\* A run leaves of settled what is still settled.
LEMMA SettledStep ==
    ASSUME BlocksAssumption, IInv, NEW opt \in OptionChoices, NEW r \in Pipeline(db, opt)
    PROVE  /\ SettledAfter(r, opt) \in SUBSET OptionChoices
           /\ \A o \in SettledAfter(r, opt) : Done(r.db, o)
<1>1. r.end = "done" => Done(r.db, opt)
  BY PipelineGood DEF IInv
<1>2. settled \in SUBSET OptionChoices /\ \A o \in settled : Done(db, o)
  BY DEF IInv
<1> QED BY <1>1, <1>2 DEF SettledAfter

LEMMA ViewStep == ASSUME BlocksAssumption, IInv, View PROVE IInv' /\ db' = db
<1>1. queue \in Seq(OptionChoices) /\ opts \in OptionChoices
  BY DEF IInv
<1>2. queue' \in Seq(OptionChoices)
  <2>1. Append(queue, opts) \in Seq(OptionChoices)
    BY <1>1
  <2> QED BY <1>1, <2>1 DEF View
<1>3. views' \in 0..MaxViews
  BY DEF View, IInv, BlocksAssumption
<1>4. UNCHANGED <<db, marker, opts, edits, settled, autoRuns>>
  BY DEF View
<1> QED BY <1>2, <1>3, <1>4 DEF IInv

LEMMA RunQueuedStep ==
    ASSUME BlocksAssumption, IInv, RunQueued
    PROVE  IInv' /\ Keeps(db, db')
<1> DEFINE opt == Head(queue)
<1>1. /\ opt \in OptionChoices /\ Tail(queue) \in Seq(OptionChoices)
      /\ Append(Tail(queue), opt) \in Seq(OptionChoices)
  <2>1. queue \in Seq(OptionChoices) /\ queue # <<>>
    BY DEF IInv, RunQueued
  <2>2. opt \in OptionChoices /\ Tail(queue) \in Seq(OptionChoices)
    BY <2>1
  <2> QED BY <2>2
<1>2. queue' \in Seq(OptionChoices) /\ UNCHANGED <<opts, edits, views>>
  BY <1>1 DEF RunQueued, user
<1>3. CASE Skips /\ UNCHANGED <<db, marker, settled, autoRuns>>
  <2>1. IInv'
    BY <1>2, <1>3 DEF IInv
  <2> QED BY <1>3, <2>1, KeepsSelf
<1>4. ASSUME ~Skips, NEW r \in Pipeline(db, opt), db' = r.db, marker' = MarkedAfter(r),
             settled' = SettledAfter(r, opt),
             autoRuns' = IF r.completed THEN autoRuns + 1 ELSE autoRuns
      PROVE  IInv' /\ Keeps(db, db')
  <2>1. Good(r.db) /\ Keeps(db, r.db) /\ r.completed \in BOOLEAN
    BY <1>4, PipelineGood DEF IInv
  <2>2. marker = FALSE /\ autoRuns = 0
    BY <1>4 DEF Skips, IInv
  <2>3. marker' \in BOOLEAN /\ autoRuns' \in 0..1 /\ (autoRuns' > 0 => marker')
    BY <1>4, <2>1, <2>2 DEF MarkedAfter
  <2>4. settled' \in SUBSET OptionChoices /\ \A o \in settled' : Done(db', o)
    BY <1>1, <1>4, SettledStep
  <2>5. Good(db')
    BY <1>4, <2>1
  <2> QED BY <1>2, <1>4, <2>1, <2>3, <2>4, <2>5 DEF IInv
<1> QED BY <1>3, <1>4 DEF RunQueued

LEMMA AnalyzeActionStep ==
    ASSUME BlocksAssumption, IInv, AnalyzeAction
    PROVE  IInv' /\ Keeps(db, db')
<1>1. PICK r \in Pipeline(db, opts) :
         db' = r.db /\ marker' = MarkedAfter(r) /\ settled' = SettledAfter(r, opts)
  BY DEF AnalyzeAction
<1>2. Good(r.db) /\ Keeps(db, r.db) /\ r.completed \in BOOLEAN
  BY PipelineGood DEF IInv
<1>3. UNCHANGED <<queue, opts, edits, views, autoRuns>>
  BY DEF AnalyzeAction, user
<1>4. marker' \in BOOLEAN /\ (autoRuns' > 0 => marker')
  BY <1>1, <1>2, <1>3 DEF MarkedAfter, IInv
<1>5. settled' \in SUBSET OptionChoices /\ \A o \in settled' : Done(db', o)
  <2>1. opts \in OptionChoices
    BY DEF IInv
  <2> QED BY <1>1, <2>1, SettledStep
<1> QED BY <1>1, <1>2, <1>3, <1>4, <1>5 DEF IInv

LEMMA FieldsActionStep ==
    ASSUME BlocksAssumption, IInv, FieldsAction
    PROVE  IInv' /\ Keeps(db, db')
<1>1. Good(db') /\ Keeps(db, db')
  <2>1. PlanOK(NoPlan)
    BY NoPlanFits DEF PlanFor
  <2> QED BY <2>1, SyncFieldsGood DEF FieldsAction, IInv
<1>2. settled' \in SUBSET OptionChoices /\ \A o \in settled' : Done(db', o)
  BY DEF FieldsAction, IInv
<1>3. UNCHANGED <<marker, queue, opts, edits, views, autoRuns>>
  BY DEF FieldsAction, user
<1> QED BY <1>1, <1>2, <1>3 DEF IInv

LEMMA SetOptionsStep == ASSUME IInv, SetOptions PROVE IInv' /\ db' = db
BY DEF IInv, SetOptions, user

\* What an edit leaves alone.
LEMMA EditStep ==
    ASSUME BlocksAssumption, IInv, NEW d, Good(d), Edit(d)
    PROVE  IInv' /\ edits' # edits
<1>1. edits' \in 0..MaxEdits /\ edits' # edits
  BY DEF Edit, IInv, BlocksAssumption
<1>2. Good(db') /\ settled' = {} /\ UNCHANGED <<marker, queue, opts, views, autoRuns>>
  BY DEF Edit
<1> QED BY <1>1, <1>2 DEF IInv

LEMMA EditVariableStep ==
    ASSUME BlocksAssumption, IInv, EditVariable
    PROVE  IInv' /\ edits' # edits
<1>1. EditedVars \subseteq Vars /\ db \in DbType /\ Distinct(db) /\ NamesOf(db)
  BY DEF BlocksAssumption, IInv, Good
<1>2. ASSUME NEW v \in EditedVars, NEW n \in UserNames \ VarNames(db)
      PROVE  Good([db EXCEPT !.vname[v] = n, !.vuser = @ \cup {v}])
  <2> DEFINE h == [db.vname EXCEPT ![v] = n]
             vu == db.vuser \cup {v}
             e == [db EXCEPT !.vname = h, !.vuser = vu]
  <2>1. n \in Names /\ n[1] \notin GivenBases /\ v \in Vars
    BY <1>1, UserNamesAreNames
  <2>2. db.vname \in [Vars -> Names] /\ db.vuser \in SUBSET Vars
    BY <1>1 DEF DbType
  <2>3. h \in [Vars -> Names] /\ h[v] = n /\ \A u \in Vars : u # v => h[u] = db.vname[u]
    BY <2>1, <2>2
  <2>4. vu \in SUBSET Vars
    BY <2>1, <2>2
  <2>5. [db EXCEPT !.vname[v] = n, !.vuser = @ \cup {v}] = e
    BY <1>1 DEF DbType
  <2> HIDE DEF h
  <2>6. e \in DbType /\ e.vname = h /\ e.vuser = vu /\ e.fname = db.fname
    BY <1>1, <2>3, <2>4 DEF DbType
  <2> HIDE DEF e
  <2>7. Distinct(e)
    <3>1. \A u \in Vars : db.vname[u] # n
      BY DEF VarNames
    <3>2. \A u, w \in Vars : u # w => h[u] # h[w]
      BY <1>1, <2>3, <3>1 DEF Distinct
    <3> QED BY <1>1, <2>6, <3>2, SiblingsSame DEF Distinct
  <2>8. NamesOf(e)
    <3> SUFFICES ASSUME NEW u \in Vars
                 PROVE  /\ h[u] \in UserNames \/ h[u][1] \in GivenBases \ {"lvar"}
                        /\ u \notin vu => IsDefaultName(h[u])
                        /\ IsGenericBlock(h[u]) => h[u] = <<"block", u, 0>>
      BY <2>6 DEF NamesOf
    <3>1. CASE u = v
      BY <2>1, <2>3, <3>1 DEF IsGenericBlock, GivenBases
    <3>2. CASE u # v
      BY <1>1, <2>3, <3>2 DEF NamesOf
    <3> QED BY <3>1, <3>2
  <2> QED BY <2>5, <2>6, <2>7, <2>8 DEF Good
<1>3. ASSUME NEW v \in EditedVars
      PROVE  Good([db EXCEPT !.vtype[v] = "user", !.vtyped = @ \cup {v}])
  <2> DEFINE h == [db.vtype EXCEPT ![v] = "user"]
             vy == db.vtyped \cup {v}
             e == [db EXCEPT !.vtype = h, !.vtyped = vy]
  <2>1. h \in [Vars -> VarTypes] /\ vy \in SUBSET Vars
    BY <1>1 DEF DbType, VarTypes
  <2>2. [db EXCEPT !.vtype[v] = "user", !.vtyped = @ \cup {v}] = e
    BY <1>1 DEF DbType
  <2> HIDE DEF h, vy
  <2>3. e \in DbType /\ e.vname = db.vname /\ e.vuser = db.vuser /\ e.fname = db.fname
    BY <1>1, <2>1 DEF DbType
  <2> HIDE DEF e
  <2>4. Good(e)
    BY <1>1, <2>3, SiblingsSame DEF Good, Distinct, NamesOf
  <2> QED BY <2>2, <2>4
<1> QED BY <1>2, <1>3, EditStep DEF EditVariable

LEMMA EditFieldStep ==
    ASSUME BlocksAssumption, IInv, EditField
    PROVE  IInv' /\ edits' # edits
<1>1. EditedFields \subseteq Fields /\ db \in DbType /\ Distinct(db) /\ NamesOf(db)
  BY DEF BlocksAssumption, IInv, Good
<1>2. ASSUME NEW f \in EditedFields, NEW n \in UserNames \ Siblings(db, f)
      PROVE  Good([db EXCEPT !.fname[f] = n])
  <2> DEFINE h == [db.fname EXCEPT ![f] = n]
             e == [db EXCEPT !.fname = h]
  <2>1. n \in Names /\ f \in Fields /\ db.fname \in [Fields -> Names]
    BY <1>1, UserNamesAreNames DEF DbType
  <2>2. h \in [Fields -> Names] /\ h[f] = n /\ \A g \in Fields : g # f => h[g] = db.fname[g]
    BY <2>1
  <2>3. [db EXCEPT !.fname[f] = n] = e
    BY <1>1 DEF DbType
  <2> HIDE DEF h
  <2>4. e \in DbType /\ e.fname = h /\ e.vname = db.vname /\ e.vuser = db.vuser
    BY <1>1, <2>2 DEF DbType
  <2> HIDE DEF e
  <2>5. FieldsDistinct(e)
    <3>1. FieldsDistinct(db)
      BY <1>1 DEF Distinct, FieldsDistinct
    <3> QED BY <2>1, <2>2, <2>4, <3>1, RenamedDistinct
  <2>6. Good(e)
    BY <1>1, <2>4, <2>5 DEF Good, Distinct, FieldsDistinct, NamesOf
  <2> QED BY <2>3, <2>6
<1>3. ASSUME NEW f \in EditedFields
      PROVE  Good([db EXCEPT !.ftype[f] = <<"val", "user">>])
  <2> DEFINE h == [db.ftype EXCEPT ![f] = <<"val", "user">>]
             e == [db EXCEPT !.ftype = h]
  <2>1. db.ftype \in [Fields -> FieldTypes] /\ <<"val", "user">> \in FieldTypes
    BY <1>1 DEF DbType, FieldTypes, VarTypes
  <2>2. h \in [Fields -> FieldTypes]
    BY <2>1
  <2>3. [db EXCEPT !.ftype[f] = <<"val", "user">>] = e
    BY <1>1 DEF DbType
  <2> HIDE DEF h
  <2>4. e \in DbType /\ e.fname = db.fname /\ e.vname = db.vname /\ e.vuser = db.vuser
    BY <1>1, <2>2 DEF DbType, FieldTypes
  <2> HIDE DEF e
  <2>5. Good(e)
    BY <1>1, <2>4, SiblingsSame DEF Good, Distinct, NamesOf
  <2> QED BY <2>3, <2>5
<1> QED BY <1>2, <1>3, EditStep DEF EditField

LEMMA NextStep ==
    ASSUME BlocksAssumption, IInv, [Next]_vars
    PROVE  IInv' /\ (edits' = edits => Keeps(db, db'))
<1>1. CASE View
  BY <1>1, ViewStep, KeepsSelf
<1>2. CASE RunQueued
  BY <1>2, RunQueuedStep
<1>3. CASE AnalyzeAction
  BY <1>3, AnalyzeActionStep
<1>4. CASE FieldsAction
  BY <1>4, FieldsActionStep
<1>5. CASE SetOptions
  BY <1>5, SetOptionsStep, KeepsSelf
<1>6. CASE EditVariable
  BY <1>6, EditVariableStep
<1>7. CASE EditField
  BY <1>7, EditFieldStep
<1>8. CASE UNCHANGED vars
  <2>1. IInv'
    BY <1>8 DEF IInv, vars
  <2> QED BY <1>8, <2>1, KeepsSelf DEF vars
<1> QED BY <1>1, <1>2, <1>3, <1>4, <1>5, <1>6, <1>7, <1>8 DEF Next

----------------------------------------------------------------------------
(* The theorems.                                                           *)

\* The inductive invariant: names and types are well formed and distinct, and
\* the options of a completed run have nothing left to do.
THEOREM Invariance == Spec => []IInv
<1>1. Init => IInv
  BY BlocksAssumption, InitInv
<1>2. IInv /\ [Next]_vars => IInv'
  BY BlocksAssumption, NextStep
<1> QED BY <1>1, <1>2, PTL DEF Spec

\* Types; one run from the queue completes, and leaves the marker.
THEOREM TypeCorrect == Spec => []TypeOK
<1>1. IInv => TypeOK
  BY DEF IInv, Good, DbType, TypeOK
<1> QED BY <1>1, Invariance, PTL

\* Whatever the user and the pipeline rename, and in whichever order, no two
\* variables of the function and no two fields of a block share a name.
THEOREM NamesStayDistinct == Spec => []NamesDistinct
<1>1. IInv => NamesDistinct
  BY DEF IInv, Good, Distinct, NamesDistinct
<1> QED BY <1>1, Invariance, PTL

\* A completed run left nothing to do: no block variable keeps an empty name,
\* no byref struct is found again, no synced field is still called lvarN.
THEOREM Complete == Spec => []AnalysisIsComplete
<1>1. IInv => AnalysisIsComplete
  <2> SUFFICES ASSUME IInv, NEW opt \in settled
               PROVE  /\ "rename_blocks" \in opt =>
                            \A v \in BlockVars(db) : /\ ~IsDefaultName(db.vname[v])
                                                     /\ ~IsGenericBlock(db.vname[v])
                      /\ "byref" \in opt => ByrefFound(db) = {}
                      /\ "rename_fields" \in opt =>
                            \A i \in Synced(db) :
                                Source(db, NoPlan, Captures[i]).name # NoName =>
                                    ~IsDefaultUdmName(db.fname[Captures[i].field])
    BY DEF AnalysisIsComplete
  <2>1. Done(db, opt)
    BY DEF IInv
  <2>2. ASSUME "rename_blocks" \in opt, NEW v \in BlockVars(db)
        PROVE  ~IsDefaultName(db.vname[v]) /\ ~IsGenericBlock(db.vname[v])
    <3>1. HasBetterName(db, v)
      BY <2>1, <2>2 DEF Done, Unnamed
    <3> QED BY <3>1 DEF HasBetterName
  <2> QED BY <2>1, <2>2 DEF Done
<1> QED BY <1>1, Invariance, PTL

\* No run clobbers a name the user gave, nor the name or, but for a pointer to
\* a recovered byref struct, the type of a field that has a name of its own.
THEOREM EditsKept == Spec => UserEditsKept
<1> DEFINE Kept ==
        edits' = edits =>
          /\ \A v \in Vars : db.vname[v] \in UserNames => db'.vname[v] = db.vname[v]
          /\ \A f \in Fields : ~IsDefaultUdmName(db.fname[f]) =>
                /\ db'.fname[f] = db.fname[f]
                /\ db'.ftype[f] \in {db.ftype[f], <<"ptr", "byref">>}
<1>1. IInv /\ [Next]_vars => [Kept]_vars
  BY BlocksAssumption, NextStep DEF Keeps
<1>2. Spec => [][Kept]_vars
  BY <1>1, Invariance, PTL DEF Spec
<1> QED BY <1>2 DEF UserEditsKept

\* The menu action right after a completed run with the same options, nothing
\* edited in between, leaves the database as it is.
THEOREM RerunNoop == Spec => RerunIsNoop
<1> DEFINE Noop == settled = {opts} /\ db' # db /\ edits' = edits => ~AnalyzeAction
<1>1. IInv /\ [Next]_vars => [Noop]_vars
  <2> SUFFICES ASSUME IInv, settled = {opts}, AnalyzeAction PROVE db' = db
    OBVIOUS
  <2>1. PICK r \in Pipeline(db, opts) : db' = r.db
    BY DEF AnalyzeAction
  <2>2. Good(db) /\ Done(db, opts)
    BY DEF IInv
  <2> QED BY <2>1, <2>2, BlocksAssumption, PipelineNoop
<1>2. Spec => [][Noop]_vars
  BY <1>1, Invariance, PTL DEF Spec
<1> QED BY <1>2 DEF RerunIsNoop

=============================================================================
