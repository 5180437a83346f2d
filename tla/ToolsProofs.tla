---------------------------- MODULE ToolsProofs -----------------------------
(***************************************************************************)
(* What is proved of the folders of the shared cache (FunctionFolders), of *)
(* the types that signatures give (PacApplier), of the names and types that*)
(* calls give (FuncRenamer) and of the names that selectors give           *)
(* (ObjcLvarRenamer), for any database.                                    *)
(***************************************************************************)
EXTENDS FunctionFolders, PacApplier, FuncRenamer, ObjcLvarRenamer, NaturalLemmas, SequenceTheorems

----------------------------------------------------------------------------
(* Folders: paths and trees of them.                                       *)

PathNames == {StubFolder, OtherFolder} \cup Modules \cup {SegmentOf[f].kind : f \in Functions} \cup UserNames
Paths == Seq(PathNames) \ {<<>>}

Closed(dirs) == \A p \in dirs : PathsTo(p) \subseteq dirs
Tree(dirs) == IsFiniteSet(dirs) /\ dirs \subseteq Paths /\ Closed(dirs)

(* What _make_folder makes for a path is a tree.                           *)
LEMMA PathsToTree ==
    ASSUME NEW p \in Seq(PathNames)
    PROVE  /\ Tree(PathsTo(p))
           /\ p # <<>> => p \in PathsTo(p)
<1>1. Len(p) \in Nat /\ DOMAIN p = 1..Len(p)
  OBVIOUS
<1>2. ASSUME NEW n \in 1..Len(p)
      PROVE  SubSeq(p, 1, n) \in Seq(PathNames) /\ Len(SubSeq(p, 1, n)) = n
  <2>1. \A i \in 1..n : p[i] \in PathNames
    BY <1>1
  <2>2. 1 \in Int /\ n \in Int /\ 1 <= n
    BY <1>1
  <2>3. SubSeq(p, 1, n) \in Seq(PathNames) /\ Len(SubSeq(p, 1, n)) = IF 1 <= n THEN n - 1 + 1 ELSE 0
    BY <2>1, <2>2, SubSeqProperties
  <2> QED BY <2>2, <2>3
<1>3. PathsTo(p) \subseteq Paths
  <2>1. \A n \in 1..Len(p) : SubSeq(p, 1, n) # <<>>
    BY <1>2
  <2> QED BY <1>2, <2>1 DEF PathsTo, Paths
<1>4. IsFiniteSet(PathsTo(p))
  <2> DEFINE g == [n \in 1..Len(p) |-> SubSeq(p, 1, n)]
  <2>1. IsFiniteSet(1..Len(p))
    BY <1>1, FS_Interval
  <2>2. IsFiniteSet({g[n] : n \in 1..Len(p)})
    <3> HIDE DEF g
    <3> QED BY <2>1, ImageFinite
  <2>3. {g[n] : n \in 1..Len(p)} = PathsTo(p)
    BY DEF PathsTo
  <2> QED BY <2>2, <2>3
<1>5. ASSUME NEW n \in 1..Len(p), NEW m \in 1..Len(SubSeq(p, 1, n))
      PROVE  SubSeq(SubSeq(p, 1, n), 1, m) \in PathsTo(p)
  <2>1. m \in 1..n /\ m \in 1..Len(p) /\ 1 \in 1..Len(p) /\ 1 \in 1..n
    BY <1>1, <1>2
  <2>2. 1..(n - 1 + 1) = 1..n /\ 1 + 1 - 1 = 1 /\ 1 + m - 1 = m
    BY <1>1, <2>1
  <2>3. SubSeq(SubSeq(p, 1, n), 1, m) = SubSeq(p, 1 + 1 - 1, 1 + m - 1)
    BY <2>1, <2>2, SubSeqOfSubSeq
  <2> QED BY <2>1, <2>2, <2>3 DEF PathsTo
<1>6. Closed(PathsTo(p))
  BY <1>5 DEF Closed, PathsTo
<1>7. p # <<>> => p \in PathsTo(p)
  <2>1. SubSeq(p, 1, Len(p)) = p
    BY SubSeqFull
  <2>2. p # <<>> => Len(p) \in 1..Len(p)
    BY <1>1
  <2> QED BY <2>1, <2>2 DEF PathsTo
<1> QED BY <1>3, <1>4, <1>6, <1>7 DEF Tree

(* Two trees are a tree.                                                   *)
LEMMA TreesTogether ==
    ASSUME NEW A, NEW B, Tree(A), Tree(B)
    PROVE  Tree(A \cup B)
<1>1. IsFiniteSet(A \cup B)
  BY FS_Union DEF Tree
<1> QED BY <1>1 DEF Tree, Closed

(* The folder of a segment is a path; what is made is a tree with it.      *)
LEMMA FolderOfPath ==
    ASSUME FoldersAssumption, NEW f \in Functions
    PROVE  FolderOf(f) \in Paths
<1>1. \A a \in PathNames : <<a>> \in Paths
  BY DEF Paths
<1>2. \A a, b \in PathNames : <<a, b>> \in Paths
  BY DEF Paths
<1>3. /\ StubFolder \in PathNames /\ OtherFolder \in PathNames
      /\ SegmentOf[f].kind \in PathNames
      /\ SegmentOf[f].kind = "section" => SegmentOf[f].module \in PathNames
  BY DEF PathNames, FoldersAssumption
<1> HIDE DEF PathNames, StubFolder, OtherFolder
<1> QED BY <1>1, <1>2, <1>3 DEF FolderOf, IsLoadedSection

LEMMA MadeTree ==
    ASSUME FoldersAssumption, known \subseteq Functions
    PROVE  Tree(Made) /\ \A f \in known : FolderOf(f) \in Made
<1> DEFINE g == [f \in known |-> PathsTo(FolderOf(f))]
           all == {g[f] : f \in known}
<1>1. UNION all = Made
  BY DEF Made
<1>2. \A f \in known : Tree(g[f]) /\ FolderOf(f) \in g[f]
  <2> SUFFICES ASSUME NEW f \in known PROVE Tree(PathsTo(FolderOf(f))) /\ FolderOf(f) \in PathsTo(FolderOf(f))
    OBVIOUS
  <2>1. FolderOf(f) \in Seq(PathNames) /\ FolderOf(f) # <<>>
    BY FolderOfPath DEF Paths
  <2> QED BY <2>1, PathsToTree
<1>3. IsFiniteSet(known)
  BY FS_Subset DEF FoldersAssumption
<1> HIDE DEF g
<1>4. IsFiniteSet(all)
  BY <1>3, ImageFinite
<1>5. \A T \in all : IsFiniteSet(T)
  BY <1>2 DEF Tree
<1>6. IsFiniteSet(UNION all)
  <2> HIDE DEF all
  <2> QED BY <1>4, <1>5, FS_UNION
<1>7. UNION all \subseteq Paths /\ Closed(UNION all) /\ \A f \in known : FolderOf(f) \in UNION all
  BY <1>2 DEF Tree, Closed
<1> HIDE DEF all
<1> QED BY <1>1, <1>6, <1>7 DEF Tree

----------------------------------------------------------------------------
(* _remove_empty_folders, the deepest first.                               *)

LEMMA OnTheWay ==
    ASSUME NEW p \in Seq(PathNames), NEW d \in 1..Len(p)
    PROVE  SubSeq(p, 1, d) \in PathsTo(p) /\ Len(SubSeq(p, 1, d)) = d
<1>1. Len(p) \in Nat /\ DOMAIN p = 1..Len(p) /\ 1 \in Int /\ d \in Int /\ 1 <= d /\ d - 1 + 1 = d
  OBVIOUS
<1>2. \A i \in 1..d : p[i] \in PathNames
  BY <1>1
<1>3. Len(SubSeq(p, 1, d)) = IF 1 <= d THEN d - 1 + 1 ELSE 0
  BY <1>1, <1>2, SubSeqProperties
<1> QED BY <1>1, <1>3 DEF PathsTo

LEMMA WayIsOneWay ==
    ASSUME NEW p \in Seq(PathNames), NEW d \in 1..Len(p), NEW e \in 1..d
    PROVE  SubSeq(SubSeq(p, 1, d), 1, e) = SubSeq(p, 1, e)
<1>1. /\ Len(p) \in Nat /\ 1 \in 1..Len(p) /\ 1..(d - 1 + 1) = 1..d
      /\ 1 \in 1..d /\ 1 + 1 - 1 = 1 /\ 1 + e - 1 = e
  OBVIOUS
<1>2. SubSeq(SubSeq(p, 1, d), 1, e) = SubSeq(p, 1 + 1 - 1, 1 + e - 1)
  BY <1>1, SubSeqOfSubSeq
<1> QED BY <1>1, <1>2

(* What is left when the folders deeper than d have been visited.          *)
Visited(dirs, where, d) ==
    /\ Closed(dirs)
    /\ \A f \in known : where[f] \in dirs \cup {Root}
    /\ \A p \in dirs : Len(p) > d => \E f \in known : p \in PathsTo(where[f])

LEMMA VisitLevel ==
    ASSUME NEW dirs \in SUBSET Paths, NEW where, NEW d \in Nat \ {0}, Visited(dirs, where, d)
    PROVE  Visited(WithoutEmpty(dirs, where, d), where, d - 1)
<1> DEFINE left == WithoutEmpty(dirs, where, d)
<1>1. \A p \in dirs : p \in left <=> ~(Len(p) = d /\ Empty(dirs, where, p))
  BY DEF WithoutEmpty
<1>2. left \subseteq dirs
  BY DEF WithoutEmpty
<1> HIDE DEF left
<1>3. \A p \in dirs : p \in Seq(PathNames) /\ p # <<>> /\ Len(p) \in Nat \ {0}
  BY DEF Paths
<1>4. \A f \in known : where[f] \in Seq(PathNames)
  <2>1. Root \in Seq(PathNames)
    BY DEF Root
  <2> QED BY <1>3, <2>1 DEF Visited
<1>5. ASSUME NEW p \in left, NEW n \in 1..Len(p)
      PROVE  SubSeq(p, 1, n) \in left
  <2> DEFINE q == SubSeq(p, 1, n)
  <2>1. p \in dirs /\ p \in Seq(PathNames) /\ Len(p) \in Nat
    BY <1>2, <1>3
  <2>2. q \in PathsTo(p) /\ Len(q) = n
    BY <2>1, OnTheWay
  <2>3. q \in dirs
    BY <2>1, <2>2 DEF Visited, Closed
  <2>4. CASE n = Len(p)
    <3>1. q = p
      BY <2>1, <2>4, SubSeqFull
    <3> QED BY <3>1
  <2>5. CASE n + 1 \in 1..Len(p)
    <3> DEFINE r == SubSeq(p, 1, n + 1)
    <3>1. r \in PathsTo(p) /\ Len(r) = n + 1
      BY <2>1, <2>5, OnTheWay
    <3>2. r \in dirs
      BY <2>1, <3>1 DEF Visited, Closed
    <3>3. n \in 1..(n + 1)
      OBVIOUS
    <3>4. SubSeq(r, 1, n) = q
      BY <2>1, <2>5, <3>3, WayIsOneWay
    <3> HIDE DEF r, q
    <3>5. ~Empty(dirs, where, q)
      BY <2>2, <3>1, <3>2, <3>4 DEF Empty
    <3>6. q \in left
      BY <1>1, <2>3, <3>5
    <3> QED BY <3>6 DEF q
  <2>6. n = Len(p) \/ n + 1 \in 1..Len(p)
    BY <2>1
  <2> QED BY <2>4, <2>5, <2>6
<1>6. Closed(left)
  BY <1>5 DEF Closed, PathsTo
<1>7. ASSUME NEW f \in known PROVE where[f] \in left \cup {Root}
  <2>1. ~Empty(dirs, where, where[f])
    BY DEF Empty
  <2> QED BY <1>1, <2>1 DEF Visited
<1>8. ASSUME NEW p \in left, Len(p) > d - 1
      PROVE  \E f \in known : p \in PathsTo(where[f])
  <2>1. p \in dirs /\ p \in Seq(PathNames) /\ p # <<>> /\ Len(p) \in Nat
    BY <1>2, <1>3
  <2>2. CASE Len(p) > d
    BY <2>1, <2>2 DEF Visited
  <2>3. CASE Len(p) = d
    <3>1. ~Empty(dirs, where, p)
      BY <1>1, <2>1, <2>3
    <3>2. CASE \E f \in known : where[f] = p
      BY <2>1, <3>2, PathsToTree
    <3>3. CASE \E r \in dirs : Len(r) = Len(p) + 1 /\ SubSeq(r, 1, Len(p)) = p
      <4>1. PICK r \in dirs : Len(r) = d + 1 /\ SubSeq(r, 1, d) = p
        BY <2>3, <3>3
      <4>2. r \in Seq(PathNames) /\ d \in 1..Len(r) /\ Len(r) > d
        BY <1>3, <4>1
      <4>3. p \in PathsTo(r)
        BY <4>1, <4>2 DEF PathsTo
      <4>4. PICK f \in known : r \in PathsTo(where[f])
        BY <4>2 DEF Visited
      <4>5. where[f] \in Seq(PathNames)
        BY <1>4
      <4>6. Closed(PathsTo(where[f]))
        BY <4>5, PathsToTree DEF Tree
      <4> QED BY <4>3, <4>4, <4>6 DEF Closed
    <3> QED BY <3>1, <3>2, <3>3 DEF Empty
  <2>4. Len(p) > d \/ Len(p) = d
    BY <1>8, <2>1
  <2> QED BY <2>2, <2>3, <2>4
<1>9. Visited(left, where, d - 1)
  BY <1>6, <1>7, <1>8 DEF Visited
<1> QED BY <1>9 DEF left

LEMMA DeepestBounds ==
    ASSUME NEW dirs, IsFiniteSet(dirs), dirs \subseteq Paths
    PROVE  Deepest(dirs) \in Nat /\ \A p \in dirs : Len(p) <= Deepest(dirs)
<1> DEFINE g == [p \in dirs |-> Len(p)]
           lengths == {g[p] : p \in dirs}
           all == {0} \cup lengths
<1>1. \A p \in dirs : g[p] = Len(p) /\ Len(p) \in Nat
  BY DEF Paths
<1> HIDE DEF g
<1>2. IsFiniteSet(lengths)
  BY ImageFinite
<1>3. lengths \subseteq Nat
  BY <1>1
<1>4. all = {0} \cup {Len(p) : p \in dirs}
  BY <1>1
<1> HIDE DEF lengths
<1>5. IsFiniteSet({0} \cup lengths)
  BY <1>2, FS_Singleton, FS_Union
<1>6. \E n \in all : \A y \in all : y <= n
  BY <1>3, <1>5, FiniteGreatest
<1>7. \E n \in {0} \cup {Len(p) : p \in dirs} : \A p \in dirs : Len(p) <= n
  BY <1>4, <1>6
<1>8. /\ Deepest(dirs) \in {0} \cup {Len(p) : p \in dirs}
      /\ \A p \in dirs : Len(p) <= Deepest(dirs)
  BY <1>7 DEF Deepest
<1> QED BY <1>1, <1>8

LEMMA PrunedLevels ==
    ASSUME NEW dirs, IsFiniteSet(dirs), dirs \subseteq Paths, NEW where
    PROVE  \E left \in [0..Deepest(dirs) -> SUBSET dirs] :
              /\ left[0] = dirs /\ Pruned(dirs, where) = left[Deepest(dirs)]
              /\ \A k \in 1..Deepest(dirs) :
                    left[k] = WithoutEmpty(left[k - 1], where, DepthOf(k, Deepest(dirs)))
<1> DEFINE n == Deepest(dirs)
           Next1(A, k) == WithoutEmpty(A, where, DepthOf(k, n))
           E(f) == [k \in 0..n |-> IF k = 0 THEN dirs ELSE WithoutEmpty(f[k - 1], where, DepthOf(k, n))]
           F == CHOOSE f : f = E(f)
           step == [k \in Nat |-> [A \in SUBSET dirs |-> Next1(A, k)]]
<1>1. n \in Nat
  BY DeepestBounds
<1>2. Pruned(dirs, where) = F[n]
  BY DEF Pruned
<1>3. \A f : \A k \in 0..n : E(f)[k] = IF k = 0 THEN dirs ELSE Next1(f[k - 1], k)
  OBVIOUS
<1>4. \A A \in SUBSET dirs : \A k : Next1(A, k) \in SUBSET dirs
  BY DEF WithoutEmpty
<1>5. \A f : DOMAIN E(f) = 0..n /\ E(f) = [k \in 0..n |-> E(f)[k]]
  OBVIOUS
<1>6. \A k \in 1..n : Next1(F[k - 1], k) = WithoutEmpty(F[k - 1], where, DepthOf(k, n))
  OBVIOUS
<1> HIDE DEF n, E, Next1
<1>7. step \in [Nat -> [SUBSET dirs -> SUBSET dirs]]
  BY <1>4
<1>8. \A k \in 1..n, A \in SUBSET dirs : step[k][A] = Next1(A, k)
  BY <1>1
<1> HIDE DEF step
<1>9. PICK g : IsRecursion(g, n, SUBSET dirs, dirs, step)
  <2>1. dirs \in SUBSET dirs
    OBVIOUS
  <2> QED BY <1>1, <1>7, <2>1, RecursionExists
<1>10. /\ g \in [0..n -> SUBSET dirs] /\ g[0] = dirs
       /\ \A k \in 1..n : g[k] = step[k][g[k - 1]]
  BY <1>9 DEF IsRecursion
<1>11. ASSUME NEW k \in 0..n PROVE g[k] = E(g)[k]
  <2>1. CASE k = 0
    BY <1>3, <1>10, <2>1
  <2>2. CASE k # 0
    <3>1. k \in 1..n /\ k - 1 \in 0..n
      BY <1>1, <2>2
    <3>2. g[k - 1] \in SUBSET dirs
      BY <1>10, <3>1
    <3>3. g[k] = Next1(g[k - 1], k)
      BY <1>8, <1>10, <3>1, <3>2
    <3>4. E(g)[k] = Next1(g[k - 1], k)
      BY <1>3, <2>2
    <3> QED BY <3>3, <3>4
  <2> QED BY <2>1, <2>2
<1>12. g = E(g)
  <2>1. g = [k \in 0..n |-> g[k]]
    BY <1>10
  <2>2. [k \in 0..n |-> E(g)[k]] = [k \in 0..n |-> g[k]]
    BY <1>11
  <2> QED BY <1>5, <2>1, <2>2
<1>13. F = E(F)
  BY <1>12
<1> HIDE DEF F
<1>14. F[0] = dirs
  <2>1. 0 \in 0..n
    BY <1>1
  <2> QED BY <1>3, <1>13, <2>1
<1>15. \A k \in 1..n : F[k] = Next1(F[k - 1], k)
  <2>1. \A k \in 1..n : k \in 0..n /\ k # 0
    BY <1>1
  <2> QED BY <1>3, <1>13, <2>1
<1>16. F \in [0..n -> SUBSET dirs]
  <2> DEFINE ok == {k \in 0..n : F[k] \in SUBSET dirs}
  <2>1. 0 \in ok
    BY <1>1, <1>14
  <2>2. ASSUME NEW k \in 1..n, k - 1 \in ok PROVE k \in ok
    BY <1>1, <1>4, <1>15, <2>2
  <2> HIDE DEF ok
  <2>3. 0..n \subseteq ok
    BY <1>1, <2>1, <2>2, IntervalInduction
  <2>4. \A k \in 0..n : F[k] \in SUBSET dirs
    BY <2>3 DEF ok
  <2> QED BY <1>5, <1>13, <2>4
<1> QED BY <1>2, <1>6, <1>14, <1>15, <1>16 DEF n

(* What is left has a function in it or below it, and all that has one.    *)
LEMMA PrunedTree ==
    ASSUME NEW dirs, Tree(dirs), NEW where,
           \A f \in known : where[f] \in dirs \cup {Root}
    PROVE  /\ Tree(Pruned(dirs, where))
           /\ \A f \in known : where[f] \in Pruned(dirs, where) \cup {Root}
           /\ \A p \in Pruned(dirs, where) : \E f \in known : p \in PathsTo(where[f])
<1> DEFINE n == Deepest(dirs)
<1>1. IsFiniteSet(dirs) /\ dirs \subseteq Paths
  BY DEF Tree
<1>2. n \in Nat /\ \A p \in dirs : Len(p) <= n
  BY <1>1, DeepestBounds
<1>3. PICK left \in [0..n -> SUBSET dirs] :
         /\ left[0] = dirs /\ Pruned(dirs, where) = left[n]
         /\ \A k \in 1..n : left[k] = WithoutEmpty(left[k - 1], where, DepthOf(k, n))
  BY <1>1, PrunedLevels
<1> HIDE DEF n
<1> DEFINE ok == {k \in 0..n : Visited(left[k], where, n - k)}
<1>4. \A p \in dirs : Len(p) \in Nat \ {0}
  BY <1>1 DEF Paths
<1>5. 0 \in ok
  <2>1. \A p \in dirs : ~(Len(p) > n - 0)
    BY <1>2, <1>4
  <2>2. Visited(left[0], where, n - 0)
    BY <1>3, <2>1 DEF Visited, Tree
  <2> QED BY <1>2, <2>2
<1>6. ASSUME NEW k \in 1..n, k - 1 \in ok PROVE k \in ok
  <2> DEFINE d == DepthOf(k, n)
  <2>1. d \in Nat \ {0} /\ n - (k - 1) = d /\ d - 1 = n - k /\ k \in 0..n /\ k - 1 \in 0..n
    BY <1>2 DEF DepthOf
  <2>2. left[k - 1] \in SUBSET Paths
    BY <1>1, <1>3, <2>1
  <2>3. Visited(left[k - 1], where, d)
    BY <1>6, <2>1
  <2>4. left[k] = WithoutEmpty(left[k - 1], where, d)
    BY <1>3
  <2> HIDE DEF d
  <2>5. Visited(left[k], where, d - 1)
    BY <2>1, <2>2, <2>3, <2>4, VisitLevel
  <2> QED BY <2>1, <2>5
<1> HIDE DEF ok
<1>7. n \in ok
  <2>1. 0..n \subseteq ok
    BY <1>2, <1>5, <1>6, IntervalInduction
  <2> QED BY <1>2, <2>1
<1>8. Visited(Pruned(dirs, where), where, 0)
  <2>1. n - n = 0
    BY <1>2
  <2> QED BY <1>3, <1>7, <2>1 DEF ok
<1>9. Pruned(dirs, where) \in SUBSET dirs
  BY <1>2, <1>3
<1>10. IsFiniteSet(Pruned(dirs, where))
  BY <1>1, <1>9, FS_Subset
<1>11. \A p \in Pruned(dirs, where) : Len(p) > 0
  BY <1>4, <1>9
<1> QED BY <1>1, <1>8, <1>9, <1>10, <1>11 DEF Visited, Tree

----------------------------------------------------------------------------
(* The folders at any time: a tree of paths, with every function that IDA  *)
(* has made in one of them or at the root, and the others at the root.     *)
FoldersInv ==
    /\ known \subseteq Functions /\ loaded \subseteq Modules /\ moves \in 0..MaxMoves
    /\ Tree(folders)
    /\ place \in [Functions -> folders \cup {Root}]
    /\ \A f \in Functions \ known : place[f] = Root

LEMMA MovedWhere ==
    ASSUME FoldersAssumption, FoldersInv, NEW onlyRoot \in BOOLEAN
    PROVE  /\ Tree(folders \cup Made)
           /\ Moved(onlyRoot) \in [Functions -> folders \cup Made \cup {Root}]
           /\ \A f \in Functions \ known : Moved(onlyRoot)[f] = Root
           /\ \A f \in known \ Slashed : (onlyRoot => place[f] = Root) => Moved(onlyRoot)[f] = FolderOf(f)
           /\ \A f \in known : (onlyRoot /\ place[f] # Root) \/ f \in Slashed => Moved(onlyRoot)[f] = place[f]
<1>1. Tree(Made) /\ \A f \in known : FolderOf(f) \in Made
  BY MadeTree DEF FoldersInv
<1>2. Tree(folders \cup Made)
  BY <1>1, TreesTogether DEF FoldersInv
<1>3. \A f \in Functions : Moved(onlyRoot)[f] = IF Moves(f, onlyRoot) THEN FolderOf(f) ELSE place[f]
  BY DEF Moved
<1>4. \A f \in Functions : Moves(f, onlyRoot) => f \in known
  BY DEF Moves
<1>5. \A f \in Functions : Moved(onlyRoot)[f] \in folders \cup Made \cup {Root}
  BY <1>1, <1>3, <1>4 DEF FoldersInv
<1>6. Moved(onlyRoot) = [f \in Functions |-> Moved(onlyRoot)[f]]
  BY DEF Moved
<1>7. Moved(onlyRoot) \in [Functions -> folders \cup Made \cup {Root}]
  BY <1>5, <1>6
<1>8. \A f \in Functions \ known : Moved(onlyRoot)[f] = Root
  BY <1>3, <1>4 DEF FoldersInv
<1>9. \A f \in known : f \in Functions
  BY DEF FoldersInv
<1> QED BY <1>2, <1>3, <1>7, <1>8, <1>9 DEF Moves

LEMMA FoldersInitInv ==
    ASSUME FoldersAssumption, FInit
    PROVE  FoldersInv
<1>1. Tree({})
  BY FS_EmptySet DEF Tree, Closed
<1> QED BY <1>1 DEF FInit, FoldersInv, FoldersAssumption

LEMMA FoldersStepInv ==
    ASSUME FoldersAssumption, FoldersInv, [FNext]_dirVars
    PROVE  FoldersInv'
<1> USE DEF FoldersInv
<1>1. CASE OrganizeNew
  <2>1. place' = Moved(TRUE) /\ folders' = folders \cup Made /\ UNCHANGED <<known, loaded, moves>>
    BY <1>1 DEF OrganizeNew
  <2>2. /\ Tree(folders \cup Made) /\ Moved(TRUE) \in [Functions -> folders \cup Made \cup {Root}]
        /\ \A f \in Functions \ known : Moved(TRUE)[f] = Root
    BY MovedWhere
  <2>3. Tree(folders')
    BY <2>1, <2>2
  <2> QED BY <2>1, <2>2, <2>3
<1>2. CASE OrganizeAll
  <2> DEFINE where == Moved(FALSE)
             left == Pruned(folders \cup Made, where)
  <2>1. place' = where /\ folders' = left /\ UNCHANGED <<known, loaded, moves>>
    BY <1>2 DEF OrganizeAll
  <2>2. /\ Tree(folders \cup Made) /\ where \in [Functions -> folders \cup Made \cup {Root}]
        /\ \A f \in Functions \ known : where[f] = Root
    BY MovedWhere
  <2> HIDE DEF where
  <2>3. \A f \in known : where[f] \in folders \cup Made \cup {Root}
    BY <2>2
  <2>4. Tree(left) /\ \A f \in known : where[f] \in left \cup {Root}
    BY <2>2, <2>3, PrunedTree
  <2> HIDE DEF left
  <2>5. where \in [Functions -> left \cup {Root}]
    BY <2>2, <2>4
  <2>6. Tree(folders')
    BY <2>1, <2>4
  <2> QED BY <2>1, <2>2, <2>5, <2>6
<1>3. ASSUME NEW m \in Modules, LoadModule(m) PROVE FoldersInv'
  <2>1. Tree(folders')
    BY <1>3 DEF LoadModule
  <2> QED BY <1>3, <2>1 DEF LoadModule
<1>4. ASSUME NEW f \in Functions, MakeFunction(f) PROVE FoldersInv'
  <2>1. Tree(folders')
    BY <1>4 DEF MakeFunction
  <2> QED BY <1>4, <2>1 DEF MakeFunction
<1>5. ASSUME NEW f \in Functions, NEW path \in folders \cup {Root}, FileFunction(f, path) PROVE FoldersInv'
  <2>1. Tree(folders')
    BY <1>5 DEF FileFunction
  <2>2. moves' \in 0..MaxMoves
    BY <1>5 DEF FileFunction, FoldersAssumption
  <2>3. f \in known /\ place' = [place EXCEPT ![f] = path] /\ UNCHANGED <<known, loaded, folders>>
    BY <1>5 DEF FileFunction
  <2> QED BY <2>1, <2>2, <2>3
<1>6. ASSUME NEW path \in UserFolders, MakeFolder(path) PROVE FoldersInv'
  <2>1. path \in Seq(PathNames)
    <3>1. path \in Seq(UserNames)
      BY DEF FoldersAssumption
    <3>2. UserNames \subseteq PathNames
      BY DEF PathNames
    <3> QED BY <3>1, <3>2
  <2>2. Tree(PathsTo(path))
    BY <2>1, PathsToTree
  <2>3. folders' = folders \cup PathsTo(path) /\ UNCHANGED <<known, loaded, place>>
    BY <1>6 DEF MakeFolder
  <2>4. Tree(folders \cup PathsTo(path))
    BY <2>2, TreesTogether
  <2>5. Tree(folders')
    BY <2>3, <2>4
  <2>6. moves' \in 0..MaxMoves
    BY <1>6 DEF MakeFolder, FoldersAssumption
  <2> QED BY <2>3, <2>5, <2>6
<1>7. CASE UNCHANGED dirVars
  <2>1. Tree(folders')
    BY <1>7 DEF dirVars
  <2> QED BY <1>7, <2>1 DEF dirVars
<1> QED BY <1>1, <1>2, <1>3, <1>4, <1>5, <1>6, <1>7 DEF FNext

(* Whatever is loaded, made, filed and organized, in any order: the folders*)
(* are closed under their parents, and every function is in a folder that  *)
(* exists, or at the root (organize_functions makes the folders it files   *)
(* into, on every pass, and removes none that holds a function).           *)
THEOREM FoldersAreATree == FSpec => []FoldersTypeOK
<1>1. FInit => FoldersInv
  BY FoldersAssumption, FoldersInitInv
<1>2. FoldersInv /\ [FNext]_dirVars => FoldersInv'
  BY FoldersAssumption, FoldersStepInv
<1>3. FoldersInv => FoldersTypeOK
  BY DEF FoldersInv, FoldersTypeOK, Tree, Closed
<1> QED BY <1>1, <1>2, <1>3, PTL DEF FSpec

LEMMA FullPass ==
    ASSUME FoldersAssumption, FoldersInv, OrganizeAll
    PROVE  /\ \A f \in known \ Slashed : place'[f] = FolderOf(f)
           /\ \A path \in folders' : Below(path) # {}
<1> DEFINE where == Moved(FALSE)
           left == Pruned(folders \cup Made, where)
<1>1. place' = where /\ folders' = left
  BY DEF OrganizeAll
<1>2. /\ Tree(folders \cup Made) /\ where \in [Functions -> folders \cup Made \cup {Root}]
      /\ \A f \in known \ Slashed : where[f] = FolderOf(f)
  BY MovedWhere
<1> HIDE DEF where
<1>3. \A f \in known : where[f] \in folders \cup Made \cup {Root}
  BY <1>2 DEF FoldersInv
<1>4. \A path \in left : \E f \in known : path \in PathsTo(where[f])
  BY <1>2, <1>3, PrunedTree
<1> HIDE DEF left
<1> QED BY <1>1, <1>2, <1>4 DEF Below

LEMMA NewPass ==
    ASSUME FoldersAssumption, FoldersInv, OrganizeNew
    PROVE  /\ \A f \in known : IF place[f] # Root THEN place'[f] = place[f] ELSE place'[f] # Root <=> f \notin Slashed
           /\ \A path \in folders' \ folders :
                 path[1] \in {StubFolder, OtherFolder} \cup (IF HasDsc THEN loaded ELSE Modules)
<1> DEFINE tops == {StubFolder, OtherFolder} \cup (IF HasDsc THEN loaded ELSE Modules)
<1>1. place' = Moved(TRUE) /\ folders' = folders \cup Made
  BY DEF OrganizeNew
<1>2. /\ \A f \in known \ Slashed : place[f] = Root => Moved(TRUE)[f] = FolderOf(f)
      /\ \A f \in known : place[f] # Root \/ f \in Slashed => Moved(TRUE)[f] = place[f]
  BY MovedWhere
<1>3. \A f \in known : FolderOf(f) \in Paths
  BY FolderOfPath DEF FoldersInv
<1>4. ASSUME NEW f \in known
      PROVE  IF place[f] # Root THEN place'[f] = place[f] ELSE place'[f] # Root <=> f \notin Slashed
  <2>1. FolderOf(f) # Root
    BY <1>3 DEF Paths, Root
  <2> QED BY <1>1, <1>2, <2>1
<1>5. ASSUME NEW f \in known PROVE FolderOf(f)[1] \in tops
  BY DEF FolderOf, IsLoadedSection, FoldersAssumption, FoldersInv
<1>6. ASSUME NEW f \in known, NEW path \in PathsTo(FolderOf(f)) PROVE path[1] \in tops
  <2> DEFINE p == FolderOf(f)
  <2>1. p \in Seq(PathNames) /\ Len(p) \in Nat /\ DOMAIN p = 1..Len(p)
    BY <1>3 DEF Paths
  <2> HIDE DEF p
  <2>2. PICK n \in 1..Len(p) : path = SubSeq(p, 1, n)
    BY DEF PathsTo, p
  <2>3. \A i \in 1..n : p[i] \in PathNames
    BY <2>1
  <2>4. \A i \in 1..(n - 1 + 1) : SubSeq(p, 1, n)[i] = p[1 + i - 1]
    BY <2>1, <2>3, SubSeqProperties
  <2>5. 1 \in 1..(n - 1 + 1) /\ 1 + 1 - 1 = 1
    BY <2>1
  <2>6. path[1] = p[1]
    BY <2>2, <2>4, <2>5
  <2> QED BY <1>5, <2>6 DEF p
<1>7. \A path \in folders' \ folders : path[1] \in tops
  BY <1>1, <1>6 DEF Made
<1> QED BY <1>4, <1>7

(* A full pass files every function that has a path, each in the folder of *)
(* its segment, and leaves no empty folder; a pass over new functions      *)
(* moves none that was filed, empties the root, and makes no folder for a  *)
(* module that is not loaded (organize_functions).                         *)
THEOREM PassesDoOrganize == FSpec => PassesOrganize
<1>1. FInit => FoldersInv
  BY FoldersAssumption, FoldersInitInv
<1>2. FoldersInv /\ [FNext]_dirVars => FoldersInv'
  BY FoldersAssumption, FoldersStepInv
<1>3. FoldersInv => OrganizeStep
  <2> SUFFICES ASSUME FoldersInv PROVE OrganizeStep
    OBVIOUS
  <2>1. ASSUME OrganizeAll, NEW f \in known \ Slashed, NEW s, s = SegmentOf[f]
        PROVE  CASE s.kind = "section" -> place'[f] = IF HasDsc => s.module \in loaded THEN <<s.module>> ELSE <<OtherFolder>>
                 [] s.kind \in {"cache", "bare"} -> place'[f] = <<OtherFolder>>
                 [] OTHER -> place'[f] = <<StubFolder, s.kind>>
    <3>1. place'[f] = FolderOf(f)
      BY <2>1, FoldersAssumption, FullPass
    <3>2. HasDsc \in BOOLEAN
      BY FoldersAssumption DEF FoldersAssumption
    <3> HIDE DEF StubFolder, OtherFolder
    <3> QED BY <2>1, <3>1, <3>2 DEF FolderOf, IsLoadedSection
  <2>2. OrganizeAll => \A path \in folders' : Below(path) # {}
    BY FoldersAssumption, FullPass
  <2> QED BY <2>1, <2>2, FoldersAssumption, NewPass DEF OrganizeStep
<1> QED BY <1>1, <1>2, <1>3, PTL DEF FSpec, PassesOrganize

----------------------------------------------------------------------------
(* Classes: the ancestors of a class, itself included, are a chain.        *)

LEMMA AncestorsEquation ==
    ASSUME PacAssumption, NEW c \in Classes
    PROVE  Ancestors[c] = IF Parent[c] = c THEN {c} ELSE {c} \cup Ancestors[Parent[c]]
<1> DEFINE E(f) == [x \in Classes |-> IF Parent[x] = x THEN {x} ELSE {x} \cup f[Parent[x]]]
           up(S) == \A x \in S : Parent[x] \in S
           G == [x \in Classes |-> {a \in Classes : \A S \in SUBSET Classes : x \in S /\ up(S) => a \in S}]
<1>1. Parent \in [Classes -> Classes]
  BY DEF PacAssumption
<1>2. ASSUME NEW x \in Classes PROVE G[x] = E(G)[x]
  <2>1. \A a : a \in G[x] <=> a \in Classes /\ \A S \in SUBSET Classes : x \in S /\ up(S) => a \in S
    OBVIOUS
  <2>2. CASE Parent[x] = x
    <3>1. {x} \in SUBSET Classes /\ up({x})
      BY <2>2
    <3>2. \A a : a \in G[x] <=> a = x
      <4> HIDE DEF up, G
      <4> QED BY <2>1, <3>1
    <3> QED BY <2>2, <3>2
  <2>3. CASE Parent[x] # x
    <3>1. Parent[x] \in Classes
      BY <1>1
    <3>2. \A a : a \in G[Parent[x]] <=> a \in Classes /\ \A S \in SUBSET Classes : Parent[x] \in S /\ up(S) => a \in S
      BY <3>1
    <3>3. \A S : x \in S /\ up(S) => Parent[x] \in S
      OBVIOUS
    <3>4. \A S : Parent[x] \in S /\ up(S) => up(S \cup {x})
      OBVIOUS
    <3>5. \A S \in SUBSET Classes : S \cup {x} \in SUBSET Classes
      OBVIOUS
    <3>6. x \in G[x]
      BY <2>1
    <3> HIDE DEF up, G
    <3>7. ASSUME NEW a \in G[Parent[x]] PROVE a \in G[x]
      BY <2>1, <3>2, <3>3, <3>7
    <3>8. ASSUME NEW a \in G[x], a # x PROVE a \in G[Parent[x]]
      <4>1. a \in Classes
        BY <2>1, <3>8
      <4>2. ASSUME NEW S \in SUBSET Classes, Parent[x] \in S, up(S) PROVE a \in S
        <5>1. S \cup {x} \in SUBSET Classes /\ up(S \cup {x}) /\ x \in S \cup {x}
          BY <3>4, <3>5, <4>2
        <5>2. a \in S \cup {x}
          BY <2>1, <3>8, <5>1
        <5> QED BY <3>8, <5>2
      <4> QED BY <3>2, <4>1, <4>2
    <3>9. G[x] = {x} \cup G[Parent[x]]
      BY <3>6, <3>7, <3>8
    <3> QED BY <2>3, <3>9
  <2> QED BY <2>2, <2>3
<1>3. G = E(G)
  <2>1. G = [x \in Classes |-> G[x]] /\ E(G) = [x \in Classes |-> E(G)[x]]
    OBVIOUS
  <2> HIDE DEF G, E
  <2> QED BY <1>2, <2>1
<1>4. Ancestors = CHOOSE f : f = E(f)
  BY DEF Ancestors
<1> HIDE DEF G
<1>5. Ancestors = E(Ancestors)
  <2> HIDE DEF E
  <2> QED BY <1>3, <1>4
<1>6. E(Ancestors)[c] = IF Parent[c] = c THEN {c} ELSE {c} \cup Ancestors[Parent[c]]
  OBVIOUS
<1> HIDE DEF E
<1> QED BY <1>5, <1>6

\* What is known of the ancestors of a class.
Chain(c, depth) ==
    /\ c \in Ancestors[c] /\ Ancestors[c] \subseteq Classes
    /\ \A a \in Ancestors[c] : Ancestors[a] \subseteq Ancestors[c] /\ (a = c \/ depth[a] < depth[c])
    /\ \A a, b \in Ancestors[c] : a \in Ancestors[b] \/ b \in Ancestors[a]

LEMMA AncestorsChain ==
    ASSUME PacAssumption
    PROVE  \E depth \in [Classes -> 0..Cardinality(Classes)] : \A c \in Classes : Chain(c, depth)
<1>1. PICK depth \in [Classes -> 0..Cardinality(Classes)] :
         \A c \in Classes : Parent[c] # c => depth[Parent[c]] < depth[c]
  BY DEF PacAssumption
<1>2. Cardinality(Classes) \in Nat /\ \A c \in Classes : Parent[c] \in Classes
  BY FS_CardinalityType DEF PacAssumption
<1>3. \A c \in Classes : depth[c] \in Nat
  BY <1>1, <1>2
<1> DEFINE bad == {n \in Nat : \E c \in Classes : depth[c] = n /\ ~Chain(c, depth)}
<1>4. SUFFICES ASSUME bad # {} PROVE FALSE
  BY <1>3
<1>5. PICK n \in bad : \A m \in bad : n <= m
  <2>1. bad \in SUBSET Nat
    OBVIOUS
  <2> HIDE DEF bad
  <2> QED BY <1>4, <2>1, LeastElement
<1>6. PICK c \in Classes : depth[c] = n /\ ~Chain(c, depth)
  OBVIOUS
<1>7. Ancestors[c] = IF Parent[c] = c THEN {c} ELSE {c} \cup Ancestors[Parent[c]]
  BY AncestorsEquation
<1>8. CASE Parent[c] = c
  <2>1. Ancestors[c] = {c}
    BY <1>7, <1>8
  <2> QED BY <1>6, <2>1 DEF Chain
<1>9. CASE Parent[c] # c
  <2> DEFINE p == Parent[c]
  <2>1. p \in Classes /\ depth[p] < depth[c] /\ depth[p] \in Nat /\ depth[c] \in Nat
    BY <1>1, <1>2, <1>3, <1>9
  <2>2. depth[p] \notin bad
    BY <1>5, <1>6, <2>1
  <2>3. Chain(p, depth)
    BY <2>1, <2>2
  <2>4. Ancestors[c] = {c} \cup Ancestors[p]
    BY <1>7, <1>9
  <2> HIDE DEF bad, p
  <2>5. c \in Ancestors[c] /\ Ancestors[c] \subseteq Classes
    BY <2>3, <2>4 DEF Chain
  <2>6. \A a \in Ancestors[c] : Ancestors[a] \subseteq Ancestors[c]
    BY <2>3, <2>4 DEF Chain
  <2>7. ASSUME NEW a \in Ancestors[c], a # c PROVE depth[a] < depth[c]
    <3>1. a \in Ancestors[p] /\ a \in Classes
      BY <2>4, <2>5, <2>7
    <3>2. a = p \/ depth[a] < depth[p]
      BY <2>3, <3>1 DEF Chain
    <3>3. depth[a] \in Nat
      BY <1>3, <3>1
    <3> QED BY <2>1, <3>2, <3>3
  <2>8. \A a, b \in Ancestors[c] : a \in Ancestors[b] \/ b \in Ancestors[a]
    BY <2>3, <2>4 DEF Chain
  <2>9. Chain(c, depth)
    BY <2>5, <2>6, <2>7, <2>8 DEF Chain
  <2> QED BY <1>6, <2>9
<1> QED BY <1>8, <1>9

----------------------------------------------------------------------------
(* Candidates: what _minimize leaves out is spoken for by what it keeps.   *)
LEMMA MinimizedCovers ==
    ASSUME PacAssumption, NEW union \in Seq(Classes), union # <<>>, ProperCandidates(union)
    PROVE  ChildrenOf(union) = {c \in Classes : \E k \in DOMAIN union : union[k] \in Ancestors[c]}
<1>1. PICK depth \in [Classes -> 0..Cardinality(Classes)] : \A c \in Classes : Chain(c, depth)
  BY AncestorsChain
<1>2. \A c \in Classes : depth[c] \in Nat
  BY <1>1, FS_CardinalityType DEF PacAssumption
<1>3. DOMAIN union = 1..Len(union) /\ Len(union) \in Nat \ {0} /\ \A k \in DOMAIN union : union[k] \in Classes
  OBVIOUS
<1>4. \A u \in Minimized(union) : \E k \in DOMAIN union : union[k] = u
  <2>1. 1 \in DOMAIN union
    BY <1>3
  <2> QED BY <2>1 DEF Minimized
<1>5. ASSUME NEW k \in DOMAIN union
      PROVE  \E u \in Minimized(union) : u \in Ancestors[union[k]]
  <2>1. CASE Len(union) = 1
    <3>1. k = 1 /\ Minimized(union) = {union[1]}
      BY <1>3, <2>1 DEF Minimized
    <3> QED BY <1>1, <1>3, <3>1 DEF Chain
  <2>2. CASE Len(union) # 1 /\ \E i \in DOMAIN union : union[i] = RootClass
    <3>1. Minimized(union) = {RootClass}
      BY <2>2 DEF Minimized
    <3> QED BY <2>2, <3>1 DEF ProperCandidates
  <2>3. CASE Len(union) # 1 /\ ~\E i \in DOMAIN union : union[i] = RootClass
    <3> DEFINE above == {j \in DOMAIN union : union[j] \in Ancestors[union[k]]}
               depths == {depth[union[j]] : j \in above}
    <3>1. k \in above
      BY <1>1, <1>3 DEF Chain
    <3>2. depths \in SUBSET Nat /\ depths # {}
      <4>1. \A j \in above : depth[union[j]] \in Nat
        BY <1>2, <1>3
      <4> HIDE DEF above
      <4> QED BY <3>1, <4>1
    <3>3. PICK n \in depths : \A m \in depths : n <= m
      <4> HIDE DEF depths
      <4> QED BY <3>2, LeastElement
    <3>4. PICK j \in above : n = depth[union[j]]
      OBVIOUS
    <3>5. j \in DOMAIN union /\ union[j] \in Classes /\ union[j] \in Ancestors[union[k]]
      BY <1>3
    <3>6. ASSUME NEW i \in DOMAIN union, i # j, union[i] \in Ancestors[union[j]]
          PROVE  FALSE
      <4>1. union[i] # union[j] /\ union[i] \in Classes
        BY <1>3, <3>5, <3>6 DEF ProperCandidates
      <4>2. depth[union[i]] < depth[union[j]]
        BY <1>1, <3>5, <3>6, <4>1 DEF Chain
      <4>3. Ancestors[union[j]] \subseteq Ancestors[union[k]]
        BY <1>1, <1>3, <3>5 DEF Chain
      <4>4. depth[union[i]] \in depths
        BY <3>6, <4>3
      <4>5. depth[union[i]] \in Nat /\ depth[union[j]] \in Nat
        BY <1>2, <3>5, <4>1
      <4>6. depth[union[j]] <= depth[union[i]]
        BY <3>3, <3>4, <4>4
      <4> QED BY <4>2, <4>5, <4>6
    <3>7. union[j] \in Minimized(union)
      BY <2>3, <3>5, <3>6 DEF Minimized
    <3> QED BY <3>5, <3>7
  <2> QED BY <2>1, <2>2, <2>3
<1>6. ASSUME NEW c \in Classes, NEW k \in DOMAIN union, union[k] \in Ancestors[c]
      PROVE  \E u \in Minimized(union) : u \in Ancestors[c]
  <2>1. Ancestors[union[k]] \subseteq Ancestors[c]
    BY <1>1, <1>6 DEF Chain
  <2> QED BY <1>5, <2>1
<1>7. ASSUME NEW c \in Classes, NEW u \in Minimized(union), u \in Ancestors[c]
      PROVE  \E k \in DOMAIN union : union[k] \in Ancestors[c]
  BY <1>4, <1>7
<1> QED BY <1>6, <1>7 DEF ChildrenOf

----------------------------------------------------------------------------
(* What the calls of a function say of an object.                          *)

LEMMA ClosestAncestor ==
    ASSUME PacAssumption, NEW S \in SUBSET Classes
    PROVE  /\ CommonAncestor(S) # NoClass => CommonAncestor(S) \in Classes /\ S # {} /\ Fits(CommonAncestor(S), S)
           /\ CommonAncestor(S) = NoClass => ~\E class \in Classes : S # {} /\ Fits(class, S)
<1> DEFINE common == {a \in Classes : \A c \in S : a \in Ancestors[c]}
<1>1. PICK depth \in [Classes -> 0..Cardinality(Classes)] : \A c \in Classes : Chain(c, depth)
  BY AncestorsChain
<1>2. Cardinality(Classes) \in Nat
  BY FS_CardinalityType DEF PacAssumption
<1>3. CASE S = {} \/ common = {}
  <2>1. CommonAncestor(S) = NoClass
    BY <1>3 DEF CommonAncestor
  <2>2. ~\E class \in Classes : S # {} /\ Fits(class, S)
    BY <1>3 DEF Fits
  <2> QED BY <2>1, <2>2
<1>4. CASE S # {} /\ common # {}
  <2> DEFINE depths == {depth[a] : a \in common}
  <2>1. depths \in SUBSET (0..Cardinality(Classes)) /\ depths # {}
    <3>1. \A a \in common : depth[a] \in 0..Cardinality(Classes)
      OBVIOUS
    <3> HIDE DEF common
    <3> QED BY <1>4, <3>1
  <2>2. PICK n \in depths : \A m \in depths : n >= m
    <3> HIDE DEF depths
    <3> QED BY <1>2, <2>1, GreatestElement
  <2>3. PICK a \in common : n = depth[a]
    OBVIOUS
  <2>4. PICK c \in S : TRUE
    BY <1>4
  <2>5. ASSUME NEW b \in common PROVE b \in Ancestors[a]
    <3>1. a \in Ancestors[c] /\ b \in Ancestors[c] /\ a \in Classes /\ b \in Classes /\ c \in Classes
      BY <2>4
    <3>2. a \in Ancestors[b] \/ b \in Ancestors[a]
      BY <1>1, <3>1 DEF Chain
    <3>3. CASE a \in Ancestors[b]
      <4>1. a = b \/ depth[a] < depth[b]
        BY <1>1, <3>1, <3>3 DEF Chain
      <4>2. depth[b] \in depths
        OBVIOUS
      <4>3. depth[a] >= depth[b]
        BY <2>2, <2>3, <4>2
      <4>4. depth[a] \in 0..Cardinality(Classes) /\ depth[b] \in 0..Cardinality(Classes)
        BY <3>1
      <4>5. a = b
        BY <1>2, <4>1, <4>3, <4>4
      <4> QED BY <1>1, <3>1, <4>5 DEF Chain
    <3> QED BY <3>2, <3>3
  <2>6. \E x \in common : \A b \in common : b \in Ancestors[x]
    BY <2>5
  <2> DEFINE closest == CHOOSE x \in common : \A b \in common : b \in Ancestors[x]
  <2>7. CommonAncestor(S) = closest
    BY <1>4 DEF CommonAncestor
  <2>8. closest \in common /\ \A b \in common : b \in Ancestors[closest]
    <3> HIDE DEF common
    <3> QED BY <2>6
  <2> HIDE DEF closest
  <2>9. closest \in Classes /\ Fits(closest, S)
    BY <2>8 DEF Fits
  <2>10. closest # NoClass
    BY <2>9 DEF PacAssumption
  <2> QED BY <1>4, <2>7, <2>9, <2>10
<1> QED BY <1>3, <1>4

\* A class that the calls of f allow the object, or that they allow none.
ClassFits(class, f, at) == Signed(f, at) /\ Possible(f, at) # {} /\ Fits(class, Possible(f, at))
NoneFits(f, at) == ~Signed(f, at) \/ ~\E class \in Classes : Possible(f, at) # {} /\ Fits(class, Possible(f, at))

LEMMA FoundFits ==
    ASSUME PacAssumption, vcalls \in VirtualPrograms, NEW f \in Funcs, NEW at
    PROVE  /\ Found(f, at) # NoClass =>
                Found(f, at) \in Classes /\ TypeAt(f, at) \in Untyped /\ ClassFits(Found(f, at), f, at)
           /\ Found(f, at) = NoClass /\ TypeAt(f, at) \in Untyped => NoneFits(f, at)
<1>1. \A i \in Calls(f) : vcalls[f][i].cands \in Seq(Classes) /\ ProperCandidates(vcalls[f][i].cands)
  <2>1. vcalls[f] \in Seq(VirtualCall)
    BY DEF PacAssumption
  <2>2. \A i \in Calls(f) : vcalls[f][i] \in VirtualCall
    BY <2>1 DEF Calls
  <2>3. \A i \in Calls(f) : vcalls[f][i].cands \in Seq(Classes)
    BY <2>2 DEF VirtualCall
  <2>4. \A i \in Calls(f) : ProperCandidates(vcalls[f][i].cands)
    BY DEF PacAssumption, Calls
  <2> QED BY <2>3, <2>4
<1>2. \A i \in Calls(f) : vcalls[f][i].cands # <<>> =>
         ChildrenOf(vcalls[f][i].cands) =
           {c \in Classes : \E k \in DOMAIN vcalls[f][i].cands : vcalls[f][i].cands[k] \in Ancestors[c]}
  BY <1>1, MinimizedCovers
<1>3. TypeAt(f, at) \notin Untyped => Evidence(f, at) = {}
  BY DEF Evidence
<1>4. ASSUME TypeAt(f, at) \in Untyped
      PROVE  State(f, at) = Possible(f, at) /\ (Evidence(f, at) # {} <=> Signed(f, at))
  <2>1. \A i : i \in Evidence(f, at) <=> i \in Calls(f) /\ vcalls[f][i].at = at /\ vcalls[f][i].cands # <<>>
    BY <1>4 DEF Evidence
  <2>2. Evidence(f, at) # {} <=> Signed(f, at)
    BY <2>1 DEF Signed
  <2>3. \A c \in Classes : c \in State(f, at) <=> c \in Possible(f, at)
    BY <1>2, <2>1 DEF State, Possible
  <2>4. State(f, at) \subseteq Classes /\ Possible(f, at) \subseteq Classes
    BY DEF State, Possible
  <2> QED BY <2>2, <2>3, <2>4
<1>5. Possible(f, at) \in SUBSET Classes
  BY DEF Possible
<1>6. /\ CommonAncestor(Possible(f, at)) # NoClass =>
            /\ CommonAncestor(Possible(f, at)) \in Classes /\ Possible(f, at) # {}
            /\ Fits(CommonAncestor(Possible(f, at)), Possible(f, at))
      /\ CommonAncestor(Possible(f, at)) = NoClass =>
            ~\E class \in Classes : Possible(f, at) # {} /\ Fits(class, Possible(f, at))
  BY <1>5, ClosestAncestor
<1>7. CASE TypeAt(f, at) \notin Untyped
  BY <1>3, <1>7 DEF Found
<1>8. CASE TypeAt(f, at) \in Untyped /\ Evidence(f, at) = {}
  BY <1>4, <1>8 DEF Found, NoneFits
<1>9. CASE TypeAt(f, at) \in Untyped /\ Evidence(f, at) # {}
  <2>1. Found(f, at) = CommonAncestor(Possible(f, at)) /\ Signed(f, at)
    BY <1>4, <1>9 DEF Found
  <2> QED BY <1>6, <1>9, <2>1 DEF ClassFits, NoneFits
<1> QED BY <1>7, <1>8, <1>9

----------------------------------------------------------------------------
(* The types at any time.  A class that no user gave fits from the moment  *)
(* it was given; that none fits is known of the functions that were        *)
(* treated since.                                                          *)
PacInv ==
    /\ vcalls \in VirtualPrograms
    /\ PacTypeOK
    /\ \A f \in Funcs, v \in Vars : ~vtype[f][v].user =>
         IF vtype[f][v].class \in Classes THEN ClassFits(vtype[f][v].class, f, v)
         ELSE f \in applied => NoneFits(f, v)
    /\ typings = 0 => \A x \in FieldSet : ftype[x] \in Classes => \E f \in applied : ClassFits(ftype[x], f, x)
    /\ ArgumentsKept

LEMMA PacInitInv ==
    ASSUME PacAssumption, AInit
    PROVE  PacInv
<1> USE DEF AInit
<1>1. "int" \in Untyped /\ "void" \in Untyped /\ "int" \notin Classes /\ "void" \notin Classes
  BY DEF Untyped, PacAssumption
<1>2. PacTypeOK
  <2>1. [v \in Vars |-> [class |-> "int", user |-> FALSE]] \in [Vars -> [class : Classes \cup Untyped, user : BOOLEAN]]
    BY <1>1
  <2>2. 0 \in 0..MaxTypings
    BY DEF PacAssumption
  <2> QED BY <1>1, <2>1, <2>2 DEF PacTypeOK
<1>3. \A f \in Funcs, v \in Vars : vtype[f][v].class \notin Classes /\ f \notin applied
  BY <1>1
<1>4. \A x \in FieldSet : ftype[x] \notin Classes
  BY <1>1
<1>5. ArgumentsKept
  BY DEF ArgumentsKept
<1> QED BY <1>2, <1>3, <1>4, <1>5 DEF PacInv

\* What the calls allow does not depend on the types.
LEMMA FitsStay ==
    ASSUME UNCHANGED vcalls
    PROVE  \A class, f, at : /\ ClassFits(class, f, at)' <=> ClassFits(class, f, at)
                             /\ NoneFits(f, at)' <=> NoneFits(f, at)
<1>1. \A f, at : Signed(f, at)' <=> Signed(f, at)
  BY DEF Signed, Calls
<1>2. \A f, at : Possible(f, at)' = Possible(f, at)
  BY DEF Possible, Calls
<1> QED BY <1>1, <1>2 DEF ClassFits, NoneFits

LEMMA ApplyPacInv ==
    ASSUME PacAssumption, PacInv, NEW f \in Funcs, ApplyPac(f)
    PROVE  PacInv'
<1> DEFINE vars == VarChanges(f)
           fields == FieldChanges(f)
           TypedVars == [class : Classes \cup Untyped, user : BOOLEAN]
           at(i) == vcalls[f][i].at
           fixed == {i \in Calls(f) : /\ vcalls[f][i].at \in vars \cup fields /\ i \in Evidence(f, vcalls[f][i].at)
                                      /\ FixesCall(f, i, Found(f, vcalls[f][i].at))}
<1>1. /\ vtype' = [vtype EXCEPT ![f] = [v \in Vars |-> IF v \in vars THEN [vtype[f][v] EXCEPT !.class = Found(f, v)] ELSE vtype[f][v]]]
      /\ ftype' = [x \in FieldSet |-> IF x \in Applied(fields) THEN Found(f, x) ELSE ftype[x]]
      /\ applied' = applied \cup {f}
      /\ vcalls' = vcalls /\ typings' = typings
  BY DEF ApplyPac
<1>2. \E empty \in SUBSET Calls(f) :
         /\ \A i \in empty : vcalls[f][i].guess = 0
         /\ forced' = forced \cup {<<f, i>> : i \in fixed \cup empty}
  BY DEF ApplyPac, EmptyCall
<1>3. \A i \in fixed : vcalls[f][i].nargs # 1
  BY DEF FixesCall
<1> HIDE DEF fixed
<1>4. PacTypeOK
  BY DEF PacInv
<1>5. \A a : /\ Found(f, a) # NoClass =>
                  Found(f, a) \in Classes /\ TypeAt(f, a) \in Untyped /\ ClassFits(Found(f, a), f, a)
             /\ Found(f, a) = NoClass /\ TypeAt(f, a) \in Untyped => NoneFits(f, a)
  BY FoundFits DEF PacInv
<1>6. \A v \in Vars : TypeAt(f, v) = vtype[f][v].class
  BY DEF TypeAt
<1>7. \A x \in FieldSet : TypeAt(f, x) = ftype[x]
  BY DEF TypeAt, PacAssumption
<1>8. \A v \in Vars : v \in vars => Found(f, v) # NoClass /\ ~vtype[f][v].user
  BY DEF VarChanges
<1>9. \A v \in Vars : Found(f, v) # NoClass /\ ~vtype[f][v].user => v \in vars
  BY <1>5, <1>6 DEF VarChanges, ShouldModify
<1>10. \A x \in Applied(fields) : Found(f, x) # NoClass
  BY DEF Applied, FieldChanges
<1> HIDE DEF vars, fields
<1>11. \A r \in TypedVars, c \in Classes :
          [r EXCEPT !.class = c] \in TypedVars /\ [r EXCEPT !.class = c].class = c /\ [r EXCEPT !.class = c].user = r.user
  OBVIOUS
<1>12. \A g \in Funcs, v \in Vars : vtype[g][v] \in TypedVars
  BY <1>4 DEF PacTypeOK
<1> DEFINE new == [v \in Vars |-> IF v \in vars THEN [vtype[f][v] EXCEPT !.class = Found(f, v)] ELSE vtype[f][v]]
<1>13. ASSUME NEW v \in Vars
       PROVE  /\ new[v] \in TypedVars /\ new[v].user = vtype[f][v].user
              /\ new[v].class = IF v \in vars THEN Found(f, v) ELSE vtype[f][v].class
  <2>1. CASE v \in vars
    <3>1. Found(f, v) \in Classes
      BY <1>5, <1>8, <2>1
    <3>2. new[v] = [vtype[f][v] EXCEPT !.class = Found(f, v)]
      BY <2>1
    <3>3. vtype[f][v] \in TypedVars
      BY <1>12
    <3> HIDE DEF new, TypedVars
    <3> QED BY <1>11, <2>1, <3>1, <3>2, <3>3
  <2>2. CASE v \notin vars
    <3>1. new[v] = vtype[f][v]
      BY <2>2
    <3> HIDE DEF new, TypedVars
    <3> QED BY <1>12, <2>2, <3>1
  <2> QED BY <2>1, <2>2
<1>14. new \in [Vars -> TypedVars]
  <2>1. new = [v \in Vars |-> new[v]]
    OBVIOUS
  <2> HIDE DEF new, TypedVars
  <2> QED BY <1>13, <2>1
<1>15. vtype' = [vtype EXCEPT ![f] = new]
  BY <1>1
<1>16. vtype \in [Funcs -> [Vars -> TypedVars]]
  BY <1>4 DEF PacTypeOK
<1> HIDE DEF new, TypedVars
<1>17. vtype' \in [Funcs -> [Vars -> TypedVars]]
  BY <1>14, <1>15, <1>16
<1>18. \A g \in Funcs : vtype'[g] = IF g = f THEN new ELSE vtype[g]
  BY <1>15, <1>16
<1>19. ftype' \in [FieldSet -> Classes \cup Untyped]
  <2>1. \A x \in FieldSet : ftype[x] \in Classes \cup Untyped
    BY <1>4 DEF PacTypeOK
  <2>2. \A x \in FieldSet : (IF x \in Applied(fields) THEN Found(f, x) ELSE ftype[x]) \in Classes \cup Untyped
    BY <1>5, <1>10, <2>1
  <2> QED BY <1>1, <2>2
<1>20. PacTypeOK'
  <2>1. applied' \subseteq Funcs /\ typings' \in 0..MaxTypings
    BY <1>1, <1>4 DEF PacTypeOK
  <2>2. vtype' \in [Funcs -> [Vars -> [class : Classes \cup Untyped, user : BOOLEAN]]]
    BY <1>17 DEF TypedVars
  <2> QED BY <1>19, <2>1, <2>2 DEF PacTypeOK
<1>21. ASSUME NEW g \in Funcs, NEW v \in Vars, ~vtype'[g][v].user
       PROVE  IF vtype'[g][v].class \in Classes THEN ClassFits(vtype'[g][v].class, g, v)
              ELSE g \in applied' => NoneFits(g, v)
  <2>1. CASE g # f
    <3>1. vtype'[g] = vtype[g] /\ (g \in applied' => g \in applied)
      BY <1>1, <1>18, <2>1
    <3> QED BY <1>21, <3>1 DEF PacInv
  <2>2. CASE g = f /\ v \in vars
    <3>1. vtype'[g][v].class = Found(f, v) /\ Found(f, v) # NoClass
      BY <1>8, <1>13, <1>18, <2>2
    <3> QED BY <1>5, <2>2, <3>1
  <2>3. CASE g = f /\ v \notin vars
    <3>1. vtype'[g][v].class = vtype[f][v].class /\ ~vtype[f][v].user
      BY <1>13, <1>18, <1>21, <2>3
    <3>2. CASE vtype[f][v].class \in Classes
      BY <2>3, <3>1, <3>2 DEF PacInv
    <3>3. CASE vtype[f][v].class \notin Classes
      <4>1. Found(f, v) = NoClass
        BY <1>9, <2>3, <3>1
      <4>2. TypeAt(f, v) \in Untyped
        BY <1>4, <1>6, <3>3 DEF PacTypeOK
      <4> QED BY <1>5, <2>3, <3>1, <3>3, <4>1, <4>2
    <3> QED BY <3>2, <3>3
  <2> QED BY <2>1, <2>2, <2>3
<1>22. ASSUME typings' = 0, NEW x \in FieldSet, ftype'[x] \in Classes
       PROVE  \E g \in applied' : ClassFits(ftype'[x], g, x)
  <2>1. CASE x \in Applied(fields)
    <3>1. ftype'[x] = Found(f, x) /\ Found(f, x) # NoClass /\ f \in applied'
      BY <1>1, <1>10, <2>1
    <3> QED BY <1>5, <3>1
  <2>2. CASE x \notin Applied(fields)
    <3>1. ftype'[x] = ftype[x] /\ typings = 0 /\ applied \subseteq applied'
      BY <1>1, <1>22, <2>2
    <3> QED BY <1>22, <3>1 DEF PacInv
  <2> QED BY <2>1, <2>2
<1>23. ArgumentsKept'
  <2>1. PICK empty \in SUBSET Calls(f) :
           /\ \A i \in empty : vcalls[f][i].guess = 0
           /\ forced' = forced \cup {<<f, i>> : i \in fixed \cup empty}
    BY <1>2
  <2>2. ASSUME NEW c \in forced', vcalls[c[1]][c[2]].nargs = 1 PROVE vcalls[c[1]][c[2]].guess = 0
    <3>1. CASE c \in forced
      BY <2>2, <3>1 DEF PacInv, ArgumentsKept
    <3>2. CASE \E i \in fixed \cup empty : c = <<f, i>>
      BY <1>3, <2>1, <2>2, <3>2
    <3> QED BY <2>1, <3>1, <3>2
  <2> QED BY <1>1, <2>2 DEF ArgumentsKept
<1>24. \A class, g, a : /\ ClassFits(class, g, a)' <=> ClassFits(class, g, a)
                        /\ NoneFits(g, a)' <=> NoneFits(g, a)
  BY <1>1, FitsStay
<1>25. (vcalls \in VirtualPrograms)'
  BY <1>1 DEF PacInv
<1> QED BY <1>20, <1>21, <1>22, <1>23, <1>24, <1>25 DEF PacInv

LEMMA TypeVarInv ==
    ASSUME PacAssumption, PacInv, NEW f \in Funcs, NEW v \in Vars, NEW class \in UserTypes, TypeVar(f, v, class)
    PROVE  PacInv'
<1> DEFINE TypedVars == [class : Classes \cup Untyped, user : BOOLEAN]
           given == [class |-> class, user |-> TRUE]
<1>1. /\ typings < MaxTypings /\ typings' = typings + 1
      /\ vtype' = [vtype EXCEPT ![f][v] = given]
      /\ vcalls' = vcalls /\ ftype' = ftype /\ forced' = forced /\ applied' = applied
  BY DEF TypeVar
<1>2. given \in TypedVars /\ given.user
  BY DEF PacAssumption
<1>3. PacTypeOK
  BY DEF PacInv
<1>4. vtype \in [Funcs -> [Vars -> TypedVars]]
  BY <1>3 DEF PacTypeOK
<1>5. typings \in 0..MaxTypings /\ MaxTypings \in Nat
  BY <1>3 DEF PacTypeOK, PacAssumption
<1>6. typings' \in 0..MaxTypings /\ typings' # 0
  BY <1>1, <1>5
<1> HIDE DEF given, TypedVars
<1>7. vtype' \in [Funcs -> [Vars -> TypedVars]]
  BY <1>1, <1>2, <1>4
<1>8. \A g \in Funcs, w \in Vars : vtype'[g][w] = IF g = f /\ w = v THEN given ELSE vtype[g][w]
  BY <1>1, <1>4
<1>9. PacTypeOK'
  <2>1. vtype' \in [Funcs -> [Vars -> [class : Classes \cup Untyped, user : BOOLEAN]]]
    BY <1>7 DEF TypedVars
  <2> QED BY <1>1, <1>3, <1>6, <2>1 DEF PacTypeOK
<1>10. \A g \in Funcs, w \in Vars : ~vtype'[g][w].user => vtype'[g][w] = vtype[g][w]
  BY <1>2, <1>8
<1>11. \A c, g, a : /\ ClassFits(c, g, a)' <=> ClassFits(c, g, a)
                    /\ NoneFits(g, a)' <=> NoneFits(g, a)
  BY <1>1, FitsStay
<1>12. ASSUME NEW g \in Funcs, NEW w \in Vars, ~vtype'[g][w].user
       PROVE  IF vtype'[g][w].class \in Classes THEN ClassFits(vtype'[g][w].class, g, w)
              ELSE g \in applied' => NoneFits(g, w)
  <2>1. vtype'[g][w] = vtype[g][w] /\ ~vtype[g][w].user
    BY <1>10, <1>12
  <2> QED BY <1>1, <2>1 DEF PacInv
<1>13. ArgumentsKept'
  BY <1>1 DEF PacInv, ArgumentsKept
<1>14. (vcalls \in VirtualPrograms)'
  BY <1>1 DEF PacInv
<1> QED BY <1>6, <1>9, <1>11, <1>12, <1>13, <1>14 DEF PacInv

LEMMA TypeFieldInv ==
    ASSUME PacAssumption, PacInv, NEW x \in FieldSet, NEW class \in UserTypes, TypeField(x, class)
    PROVE  PacInv'
<1>1. /\ typings < MaxTypings /\ typings' = typings + 1
      /\ ftype' = [ftype EXCEPT ![x] = class] /\ applied' = {}
      /\ vcalls' = vcalls /\ vtype' = vtype /\ forced' = forced
  BY DEF TypeField
<1>2. PacTypeOK
  BY DEF PacInv
<1>3. typings \in 0..MaxTypings /\ MaxTypings \in Nat
  BY <1>2 DEF PacTypeOK, PacAssumption
<1>4. typings' \in 0..MaxTypings /\ typings' # 0
  BY <1>1, <1>3
<1>5. ftype' \in [FieldSet -> Classes \cup Untyped]
  BY <1>1, <1>2 DEF PacTypeOK, PacAssumption
<1>6. PacTypeOK'
  BY <1>1, <1>2, <1>4, <1>5 DEF PacTypeOK
<1>7. \A c, g, a : /\ ClassFits(c, g, a)' <=> ClassFits(c, g, a)
                   /\ NoneFits(g, a)' <=> NoneFits(g, a)
  BY <1>1, FitsStay
<1>8. ASSUME NEW g \in Funcs, NEW w \in Vars, ~vtype'[g][w].user
      PROVE  IF vtype'[g][w].class \in Classes THEN ClassFits(vtype'[g][w].class, g, w)
             ELSE g \in applied' => NoneFits(g, w)
  BY <1>1, <1>8 DEF PacInv
<1>9. ArgumentsKept'
  BY <1>1 DEF PacInv, ArgumentsKept
<1>10. (vcalls \in VirtualPrograms)'
  BY <1>1 DEF PacInv
<1> QED BY <1>4, <1>6, <1>7, <1>8, <1>9, <1>10 DEF PacInv

LEMMA PacStepInv ==
    ASSUME PacAssumption, PacInv, [ANext]_pacVars
    PROVE  PacInv'
<1>1. CASE UNCHANGED pacVars
  <2>1. /\ vcalls' = vcalls /\ vtype' = vtype /\ ftype' = ftype
        /\ forced' = forced /\ applied' = applied /\ typings' = typings
    BY <1>1 DEF pacVars
  <2>2. \A c, g, a : /\ ClassFits(c, g, a)' <=> ClassFits(c, g, a)
                     /\ NoneFits(g, a)' <=> NoneFits(g, a)
    BY <2>1, FitsStay
  <2>3. PacTypeOK' /\ ArgumentsKept'
    BY <2>1 DEF PacInv, PacTypeOK, ArgumentsKept
  <2> QED BY <2>1, <2>2, <2>3 DEF PacInv
<1>2. CASE ANext
  BY <1>2, ApplyPacInv, TypeVarInv, TypeFieldInv DEF ANext
<1> QED BY <1>1, <1>2

(* Types of variables and fields are classes or what IDA starts with,      *)
(* whatever signatures the calls have (apply_pac, the user).               *)
THEOREM PacTypes == ASpec => []PacTypeOK
<1>1. AInit => PacInv
  BY PacAssumption, PacInitInv
<1>2. PacInv /\ [ANext]_pacVars => PacInv'
  BY PacAssumption, PacStepInv
<1>3. PacInv => PacTypeOK
  BY DEF PacInv
<1> QED BY <1>1, <1>2, <1>3, PTL DEF ASpec

(* For every class hierarchy, signing and order in which functions are     *)
(* treated and edited: a variable that the user left alone has a class     *)
(* exactly when its calls allow one, the closest that no possible class    *)
(* contradicts; a field has the class that a treated function gave it; and *)
(* no call loses arguments (MostSpecificAncestorHelper,                    *)
(* apply_vtable_type_to_call).                                             *)
THEOREM TypesAlwaysFit == ASpec => []PacTypesFit
<1>1. AInit => PacInv
  BY PacAssumption, PacInitInv
<1>2. PacInv /\ [ANext]_pacVars => PacInv'
  BY PacAssumption, PacStepInv
<1>3. PacInv => PacTypesFit
  <2> SUFFICES ASSUME PacInv PROVE TypesFit /\ ArgumentsKept
    BY DEF PacTypesFit
  <2>1. applied \subseteq Funcs
    BY DEF PacInv, PacTypeOK
  <2>2. ASSUME NEW f \in applied, NEW v \in Vars, ~vtype[f][v].user
        PROVE  IF vtype[f][v].class \in Classes THEN ClassFits(vtype[f][v].class, f, v) ELSE NoneFits(f, v)
    BY <2>1, <2>2 DEF PacInv
  <2>3. typings = 0 => \A x \in FieldSet : ftype[x] \in Classes => \E f \in applied : ClassFits(ftype[x], f, x)
    BY DEF PacInv
  <2>4. TypesFit
    BY <2>2, <2>3 DEF TypesFit, ClassFits, NoneFits
  <2> QED BY <2>4 DEF PacInv
<1> QED BY <1>1, <1>2, <1>3, PTL DEF ASpec

----------------------------------------------------------------------------
(* FuncRenamer.                                                            *)

(* Modifications, and the fields they have.                                *)
IsMod(x) == x = [name |-> x.name, type |-> x.type, force |-> x.force] /\ x.force \in BOOLEAN
IsMods(mods) ==
    /\ mods = [locals |-> mods.locals, globals |-> mods.globals]
    /\ mods.locals = [v \in Locals |-> mods.locals[v]]
    /\ mods.globals = [g \in Globals |-> mods.globals[g]]
    /\ \A v \in Locals : IsMod(mods.locals[v])
    /\ \A g \in Globals : IsMod(mods.globals[g])

(* What one call says of a variable.                                       *)
Aims(c, base, id) == Reaches(c) /\ c.op.base = base /\ c.op.id = id
GivenName(c) == <<Handler[c.h].prefix, c.key, 0>>

Told(x, c, base, id, y) ==
    /\ y.name = IF Aims(c, base, id) /\ c.key # NoKey THEN GivenName(c) ELSE x.name
    /\ y.type = IF Aims(c, base, id) /\ TypeGiven(c) # NoType THEN TypeGiven(c) ELSE x.type
    /\ y.force <=> (x.force \/ (Aims(c, base, id) /\ TypeGiven(c) # NoType /\ DefaultForce))

LEMMA GivenNameIsName ==
    ASSUME NEW c, c.h \in Handlers
    PROVE  GivenName(c) # NoName
<1>1. Handler[c.h].prefix \in {"sym", "plane", "gMetaclass", "boot", "val"}
  <2>1. c.h \in {"symbol", "plane", "metaclass", "boot", "get", "set"}
    BY DEF Handlers, Handler
  <2>2. /\ Handler["symbol"].prefix = "sym" /\ Handler["plane"].prefix = "plane"
        /\ Handler["metaclass"].prefix = "gMetaclass" /\ Handler["boot"].prefix = "boot"
        /\ Handler["get"].prefix = "val" /\ Handler["set"].prefix = "val"
    BY DEF Handler
  <2> QED BY <2>1, <2>2
<1>2. Handler[c.h].prefix # "no name"
  BY <1>1
<1> QED BY <1>2 DEF GivenName, NoName

LEMMA NameOnly ==
    ASSUME NEW x
    PROVE  [NoMod EXCEPT !.name = x] = [name |-> x, type |-> NoType, force |-> FALSE]
<1>1. \A p, q, r : [[name |-> p, type |-> q, force |-> r] EXCEPT !.name = x]
                  = [name |-> x, type |-> q, force |-> r]
  OBVIOUS
<1> QED BY <1>1, Zenon DEF NoMod

LEMMA TypeOnly ==
    ASSUME NEW x, NEW y
    PROVE  [NoMod EXCEPT !.type = x, !.force = y] = [name |-> NoName, type |-> x, force |-> y]
<1> DEFINE r == [NoMod EXCEPT !.type = x]
<1>1. r = [name |-> NoName, type |-> x, force |-> FALSE]
  <2>1. \A p, q, b : [[name |-> p, type |-> q, force |-> b] EXCEPT !.type = x]
                    = [name |-> p, type |-> x, force |-> b]
    OBVIOUS
  <2> QED BY <2>1, Zenon DEF NoMod
<1>2. [NoMod EXCEPT !.type = x, !.force = y] = [r EXCEPT !.force = y]
  OBVIOUS
<1> HIDE DEF r
<1>3. [r EXCEPT !.force = y] = [name |-> NoName, type |-> x, force |-> y]
  BY <1>1
<1> QED BY <1>2, <1>3

(* y is x with the modification mod, if that is what the call c is about.  *)
Modified(x, c, base, id, mod, y) ==
    y = IF c.op.base = base /\ c.op.id = id THEN Merged(x, mod) ELSE x

LEMMA ModifyAt ==
    ASSUME NEW mods, IsMods(mods), NEW c, ProperCall(c), c.op.base # "none", NEW mod, IsMod(mod)
    PROVE  /\ IsMods(Modify(mods, c, mod))
           /\ \A v \in Locals :
                Modified(mods.locals[v], c, "local", v, mod, Modify(mods, c, mod).locals[v])
           /\ \A g \in Globals :
                Modified(mods.globals[g], c, "global", g, mod, Modify(mods, c, mod).globals[g])
<1>1. \A x : IsMod(x) => IsMod(Merged(x, mod))
  BY DEF IsMod, Merged
<1>2. CASE c.op.base = "local"
  <2>1. c.op.id \in Locals
    BY <1>2 DEF ProperCall
  <2>2. Modify(mods, c, mod) = [mods EXCEPT !.locals[c.op.id] = Merged(@, mod)]
    BY <1>2 DEF Modify
  <2> DEFINE after == [v \in Locals |-> IF v = c.op.id THEN Merged(mods.locals[v], mod) ELSE mods.locals[v]]
  <2>3. [mods.locals EXCEPT ![c.op.id] = Merged(@, mod)] = after
    BY <2>1 DEF IsMods
  <2>4. Modify(mods, c, mod) = [locals |-> after, globals |-> mods.globals]
    BY <2>2, <2>3 DEF IsMods
  <2>5. \A v \in Locals : IsMod(after[v])
    BY <1>1 DEF IsMods
  <2> QED BY <1>2, <2>4, <2>5 DEF IsMods, Modified
<1>3. CASE c.op.base = "global"
  <2>1. c.op.id \in Globals
    BY <1>3 DEF ProperCall
  <2>2. Modify(mods, c, mod) = [mods EXCEPT !.globals[c.op.id] = Merged(@, mod)]
    BY <1>3 DEF Modify
  <2> DEFINE after == [v \in Globals |-> IF v = c.op.id THEN Merged(mods.globals[v], mod) ELSE mods.globals[v]]
  <2>3. [mods.globals EXCEPT ![c.op.id] = Merged(@, mod)] = after
    BY <2>1 DEF IsMods
  <2>4. Modify(mods, c, mod) = [locals |-> mods.locals, globals |-> after]
    BY <2>2, <2>3 DEF IsMods
  <2>5. \A v \in Globals : IsMod(after[v])
    BY <1>1 DEF IsMods
  <2> QED BY <1>3, <2>4, <2>5 DEF IsMods, Modified
<1> QED BY <1>2, <1>3 DEF ProperCall

LEMMA OnCallAt ==
    ASSUME NEW mods, IsMods(mods), NEW c, ProperCall(c), c.h \in Handlers
    PROVE  /\ IsMods(OnCall(mods, c))
           /\ \A v \in Locals : Told(mods.locals[v], c, "local", v, OnCall(mods, c).locals[v])
           /\ \A g \in Globals : Told(mods.globals[g], c, "global", g, OnCall(mods, c).globals[g])
<1> DEFINE n == [NoMod EXCEPT !.name = <<Handler[c.h].prefix, c.key, 0>>]
           t == [NoMod EXCEPT !.type = TypeGiven(c), !.force = DefaultForce]
           named == IF c.key = NoKey THEN mods ELSE Modify(mods, c, n)
           after == OnCall(mods, c)
           here(base, id) == c.op.base = base /\ c.op.id = id
<1>1. CASE ~Reaches(c)
  BY <1>1 DEF OnCall, Told, Aims, IsMods, IsMod
<1>2. CASE Reaches(c)
  <2>1. after = IF TypeGiven(c) = NoType THEN named ELSE Modify(named, c, t)
    BY <1>2 DEF OnCall
  <2>2. c.op.base # "none"
    BY <1>2 DEF Reaches
  <2>3. n = [name |-> GivenName(c), type |-> NoType, force |-> FALSE]
    BY NameOnly DEF GivenName
  <2>4. t = [name |-> NoName, type |-> TypeGiven(c), force |-> DefaultForce]
    BY TypeOnly
  <2>5. IsMod(n) /\ IsMod(t)
    BY <2>3, <2>4, RenamerAssumption DEF IsMod
  <2>6. \A x : IsMod(x) => Merged(x, n) = [name |-> GivenName(c), type |-> x.type, force |-> x.force]
    <3>1. GivenName(c) # NoName
      BY GivenNameIsName
    <3> QED BY <2>3, <3>1 DEF Merged, IsMod
  <2>7. ASSUME TypeGiven(c) # NoType, NEW x, IsMod(x)
        PROVE  Merged(x, t) = [name |-> x.name, type |-> TypeGiven(c), force |-> DefaultForce \/ x.force]
    BY <2>4, <2>7 DEF Merged, IsMod
  <2> HIDE DEF n, t
  <2>8. /\ IsMods(named)
        /\ \A v \in Locals : named.locals[v] =
             IF here("local", v) /\ c.key # NoKey THEN Merged(mods.locals[v], n) ELSE mods.locals[v]
        /\ \A v \in Globals : named.globals[v] =
             IF here("global", v) /\ c.key # NoKey THEN Merged(mods.globals[v], n) ELSE mods.globals[v]
    <3>1. CASE c.key = NoKey
      <4>1. named = mods
        BY <3>1
      <4> HIDE DEF named
      <4> QED BY <3>1, <4>1
    <3>2. CASE c.key # NoKey
      <4>1. named = Modify(mods, c, n)
        BY <3>2
      <4> HIDE DEF named
      <4>2. IsMods(mods) /\ ProperCall(c) /\ c.op.base # "none" /\ IsMod(n)
        BY <2>2, <2>5
      <4>3. /\ IsMods(named)
            /\ \A v \in Locals : Modified(mods.locals[v], c, "local", v, n, named.locals[v])
            /\ \A g \in Globals : Modified(mods.globals[g], c, "global", g, n, named.globals[g])
        BY <4>1, <4>2, ModifyAt
      <4> QED BY <3>2, <4>3 DEF Modified
    <3> QED BY <3>1, <3>2
  <2> HIDE DEF named
  <2>9. /\ IsMods(after)
        /\ \A v \in Locals : after.locals[v] =
             IF here("local", v) /\ TypeGiven(c) # NoType THEN Merged(named.locals[v], t) ELSE named.locals[v]
        /\ \A v \in Globals : after.globals[v] =
             IF here("global", v) /\ TypeGiven(c) # NoType THEN Merged(named.globals[v], t) ELSE named.globals[v]
    <3>1. CASE TypeGiven(c) = NoType
      <4>1. after = named
        BY <2>1, <3>1
      <4> HIDE DEF after
      <4> QED BY <2>8, <3>1, <4>1
    <3>2. CASE TypeGiven(c) # NoType
      <4>1. after = Modify(named, c, t)
        BY <2>1, <3>2
      <4> HIDE DEF after
      <4>2. IsMods(named) /\ ProperCall(c) /\ c.op.base # "none" /\ IsMod(t)
        BY <2>2, <2>5, <2>8
      <4>3. /\ IsMods(after)
            /\ \A v \in Locals : Modified(named.locals[v], c, "local", v, t, after.locals[v])
            /\ \A g \in Globals : Modified(named.globals[g], c, "global", g, t, after.globals[g])
        BY <4>1, <4>2, ModifyAt
      <4> QED BY <3>2, <4>3 DEF Modified
    <3> QED BY <3>1, <3>2
  <2> HIDE DEF after
  <2>10. ASSUME NEW base \in {"local", "global"}, NEW id, NEW x, NEW y, NEW z, IsMod(x), IsMod(y),
                y = IF here(base, id) /\ c.key # NoKey THEN Merged(x, n) ELSE x,
                z = IF here(base, id) /\ TypeGiven(c) # NoType THEN Merged(y, t) ELSE y
         PROVE  Told(x, c, base, id, z)
    <3>1. Aims(c, base, id) <=> here(base, id)
      BY <1>2 DEF Aims
    <3> HIDE DEF here
    <3>2. /\ y.name = IF here(base, id) /\ c.key # NoKey THEN GivenName(c) ELSE x.name
          /\ y.type = x.type /\ y.force = x.force
      BY <2>6, <2>10
    <3>3. CASE here(base, id) /\ TypeGiven(c) # NoType
      <4>1. z = [name |-> y.name, type |-> TypeGiven(c), force |-> DefaultForce \/ y.force]
        BY <2>7, <2>10, <3>3
      <4>2. z.name = y.name /\ z.type = TypeGiven(c)
        BY <4>1
      <4>3. z.force <=> DefaultForce \/ y.force
        BY <4>1
      <4> QED BY <3>1, <3>2, <3>3, <4>2, <4>3 DEF Told
    <3>4. CASE ~(here(base, id) /\ TypeGiven(c) # NoType)
      <4>1. z = y
        BY <2>10, <3>4
      <4> QED BY <3>1, <3>2, <3>4, <4>1 DEF Told
    <3> QED BY <3>3, <3>4
  <2>11. ASSUME NEW v \in Locals PROVE Told(mods.locals[v], c, "local", v, after.locals[v])
    <3>1. IsMod(mods.locals[v]) /\ IsMod(named.locals[v])
      BY <2>8 DEF IsMods
    <3> HIDE DEF here
    <3> QED BY <2>8, <2>9, <2>10, <3>1
  <2>12. ASSUME NEW v \in Globals PROVE Told(mods.globals[v], c, "global", v, after.globals[v])
    <3>1. IsMod(mods.globals[v]) /\ IsMod(named.globals[v])
      BY <2>8 DEF IsMods
    <3> HIDE DEF here
    <3> QED BY <2>8, <2>9, <2>10, <3>1
  <2> QED BY <2>9, <2>11, <2>12 DEF after
<1> QED BY <1>1, <1>2

(* What the calls 1..i say of a variable: the last of those that name it,  *)
(* the last of those that type it.                                         *)
NamesIt(c, m, base, id) == Matches(c, m) /\ Aims(c, base, id) /\ c.key # NoKey
TypesIt(c, m, base, id) == Matches(c, m) /\ Aims(c, base, id) /\ TypeGiven(c) # NoType

Said(calls, m, base, id, i, x) ==
    /\ (\A k \in 1..i : ~NamesIt(calls[k], m, base, id)) => x.name = NoName
    /\ \A k \in 1..i :
         NamesIt(calls[k], m, base, id) /\ (\A j \in 1..i : NamesIt(calls[j], m, base, id) => j <= k)
         => x.name = GivenName(calls[k])
    /\ (\A k \in 1..i : ~TypesIt(calls[k], m, base, id)) => x.type = NoType
    /\ \A k \in 1..i :
         TypesIt(calls[k], m, base, id) /\ (\A j \in 1..i : TypesIt(calls[j], m, base, id) => j <= k)
         => x.type = TypeGiven(calls[k])
    /\ x.force <=> (DefaultForce /\ \E k \in 1..i : TypesIt(calls[k], m, base, id))

LEMMA SaidNext ==
    ASSUME NEW calls, NEW m, NEW base, NEW id, NEW i \in Nat \ {0}, NEW x, NEW y,
           Said(calls, m, base, id, i - 1, x),
           Matches(calls[i], m) => Told(x, calls[i], base, id, y),
           ~Matches(calls[i], m) => y = x
    PROVE  Said(calls, m, base, id, i, y)
<1>1. \A k : k \in 1..i <=> k = i \/ k \in 1..(i - 1)
  OBVIOUS
<1>2. \A k \in 1..(i - 1) : k <= i /\ ~(i <= k) /\ k # i
  OBVIOUS
<1> DEFINE N(k) == NamesIt(calls[k], m, base, id)
           T(k) == TypesIt(calls[k], m, base, id)
           c == calls[i]
<1>3. /\ y.name = IF N(i) THEN GivenName(c) ELSE x.name
      /\ y.type = IF T(i) THEN TypeGiven(c) ELSE x.type
      /\ y.force <=> (x.force \/ (T(i) /\ DefaultForce))
  BY DEF Told, NamesIt, TypesIt
<1>4. /\ (\A k \in 1..(i - 1) : ~N(k)) => x.name = NoName
      /\ \A k \in 1..(i - 1) : N(k) /\ (\A j \in 1..(i - 1) : N(j) => j <= k) => x.name = GivenName(calls[k])
      /\ (\A k \in 1..(i - 1) : ~T(k)) => x.type = NoType
      /\ \A k \in 1..(i - 1) : T(k) /\ (\A j \in 1..(i - 1) : T(j) => j <= k) => x.type = TypeGiven(calls[k])
      /\ x.force <=> (DefaultForce /\ \E k \in 1..(i - 1) : T(k))
  BY DEF Said
<1> HIDE DEF N, T
<1>5. (\A k \in 1..i : ~N(k)) => y.name = NoName
  BY <1>1, <1>3, <1>4
<1>6. ASSUME NEW k \in 1..i, N(k), \A j \in 1..i : N(j) => j <= k PROVE y.name = GivenName(calls[k])
  <2>1. CASE k = i
    BY <1>3, <1>6, <2>1
  <2>2. CASE k # i
    <3>1. k \in 1..(i - 1) /\ ~N(i)
      BY <1>1, <1>2, <1>6, <2>2
    <3> QED BY <1>1, <1>3, <1>4, <1>6, <3>1
  <2> QED BY <2>1, <2>2
<1>7. (\A k \in 1..i : ~T(k)) => y.type = NoType
  BY <1>1, <1>3, <1>4
<1>8. ASSUME NEW k \in 1..i, T(k), \A j \in 1..i : T(j) => j <= k PROVE y.type = TypeGiven(calls[k])
  <2>1. CASE k = i
    BY <1>3, <1>8, <2>1
  <2>2. CASE k # i
    <3>1. k \in 1..(i - 1) /\ ~T(i)
      BY <1>1, <1>2, <1>8, <2>2
    <3> QED BY <1>1, <1>3, <1>4, <1>8, <3>1
  <2> QED BY <2>1, <2>2
<1>9. y.force <=> (DefaultForce /\ \E k \in 1..i : T(k))
  BY <1>1, <1>3, <1>4
<1> QED BY <1>5, <1>6, <1>7, <1>8, <1>9 DEF Said, N, T

LEMMA CollectedSays ==
    ASSUME NEW calls, NEW S, calls \in Seq(S), \A i \in DOMAIN calls : ProperCall(calls[i]),
           NEW m \in SUBSET Handlers
    PROVE  /\ IsMods(Collected(calls, m))
           /\ \A v \in Locals : Said(calls, m, "local", v, Len(calls), Collected(calls, m).locals[v])
           /\ \A g \in Globals : Said(calls, m, "global", g, Len(calls), Collected(calls, m).globals[g])
<1> DEFINE n == Len(calls)
           c0 == [locals |-> [v \in Locals |-> NoMod], globals |-> [g \in Globals |-> NoMod]]
           Next1(x, i) == IF Matches(calls[i], m)
                          THEN CHOOSE r \in {OnCall(mods, calls[i]) : mods \in {x}} : TRUE
                          ELSE x
           E(f) == [i \in 0..n |->
                      IF i = 0 THEN c0
                      ELSE IF Matches(calls[i], m)
                      THEN CHOOSE r \in {OnCall(mods, calls[i]) : mods \in {f[i - 1]}} : TRUE
                      ELSE f[i - 1]]
           F == CHOOSE f : f = E(f)
           P(g, k) == /\ g = [i \in 0..k |-> g[i]] /\ g[0] = c0
                      /\ \A i \in 1..k : g[i] = Next1(g[i - 1], i)
<1>1. n \in Nat /\ \A i \in 1..n : i \in DOMAIN calls
  OBVIOUS
<1>2. Collected(calls, m) = F[n]
  BY DEF Collected
<1>3. \A f : \A i \in 0..n : E(f)[i] = IF i = 0 THEN c0 ELSE Next1(f[i - 1], i)
  OBVIOUS
<1>4. \A f : E(f) = [i \in 0..n |-> E(f)[i]]
  OBVIOUS
<1>5. \A x, i : Next1(x, i) = IF Matches(calls[i], m) THEN OnCall(x, calls[i]) ELSE x
  OBVIOUS
<1>6. /\ IsMods(c0)
      /\ \A v \in Locals : Said(calls, m, "local", v, 0, c0.locals[v])
      /\ \A g \in Globals : Said(calls, m, "global", g, 0, c0.globals[g])
  <2>1. NoMod.name = NoName /\ NoMod.type = NoType /\ NoMod.force = FALSE
    BY Zenon DEF NoMod
  <2>2. IsMod(NoMod)
    <3>1. \A p, q, r : [name |-> p, type |-> q, force |-> r]
                      = [name |-> [name |-> p, type |-> q, force |-> r].name,
                         type |-> [name |-> p, type |-> q, force |-> r].type,
                         force |-> [name |-> p, type |-> q, force |-> r].force]
      OBVIOUS
    <3>2. NoMod = [name |-> NoMod.name, type |-> NoMod.type, force |-> NoMod.force]
      BY <3>1, Zenon DEF NoMod
    <3> QED BY <2>1, <3>2 DEF IsMod
  <2>3. \A base, id : Said(calls, m, base, id, 0, NoMod)
    <3>1. \A k : k \notin 1..0
      OBVIOUS
    <3> QED BY <2>1, <3>1 DEF Said
  <2>4. /\ \A v \in Locals : c0.locals[v] = NoMod
        /\ \A g \in Globals : c0.globals[g] = NoMod
    OBVIOUS
  <2>5. IsMods(c0)
    BY <2>2 DEF IsMods
  <2> QED BY <2>3, <2>4, <2>5
<1> HIDE DEF n, E, Next1, c0
<1> DEFINE ex == {k \in 0..n : \E g : P(g, k)}
<1>7. 0 \in ex
  <2> DEFINE g == [i \in 0..0 |-> c0]
  <2>1. g = [i \in 0..0 |-> g[i]] /\ g[0] = c0 /\ 0 \in 0..n
    BY <1>1
  <2> HIDE DEF g
  <2>2. P(g, 0)
    BY <2>1
  <2> QED BY <2>1, <2>2
<1>8. ASSUME NEW k \in 1..n, k - 1 \in ex PROVE k \in ex
  <2>1. PICK g : P(g, k - 1)
    BY <1>8
  <2> DEFINE h == [i \in 0..k |-> IF i = k THEN Next1(g[k - 1], k) ELSE g[i]]
  <2>2. h = [i \in 0..k |-> h[i]]
    OBVIOUS
  <2>3. \A i \in 0..(k - 1) : h[i] = g[i]
    BY <1>1
  <2>4. h[k] = Next1(g[k - 1], k)
    BY <1>1
  <2> HIDE DEF h
  <2>5. h[0] = c0
    BY <1>1, <2>1, <2>3
  <2>6. ASSUME NEW i \in 1..k PROVE h[i] = Next1(h[i - 1], i)
    <3>1. i - 1 \in 0..(k - 1)
      BY <1>1
    <3>2. CASE i = k
      BY <2>3, <2>4, <3>1, <3>2
    <3>3. CASE i # k
      <4>1. i \in 1..(k - 1) /\ i \in 0..(k - 1)
        BY <1>1, <3>3
      <4> QED BY <2>1, <2>3, <3>1, <4>1
    <3> QED BY <3>2, <3>3
  <2>7. P(h, k)
    BY <2>2, <2>5, <2>6
  <2>8. k \in 0..n
    BY <1>1
  <2> HIDE DEF P
  <2> QED BY <2>7, <2>8
<1>9. \E g : P(g, n)
  <2> HIDE DEF ex
  <2>1. 0..n \subseteq ex
    BY <1>1, <1>7, <1>8, IntervalInduction
  <2>2. n \in 0..n
    BY <1>1
  <2> QED BY <2>1, <2>2 DEF ex
<1>10. PICK h : P(h, n)
  BY <1>9
<1>11. h = E(h)
  <2>1. \A i \in 0..n : h[i] = E(h)[i]
    <3>1. \A i \in 0..n : i = 0 \/ i \in 1..n
      BY <1>1
    <3> QED BY <1>3, <1>10, <3>1
  <2>2. [i \in 0..n |-> h[i]] = [i \in 0..n |-> E(h)[i]]
    BY <2>1
  <2> QED BY <1>4, <1>10, <2>2
<1>12. F = E(F)
  BY <1>11
<1> HIDE DEF F
<1>13. F[0] = c0
  BY <1>1, <1>3, <1>12
<1>14. ASSUME NEW i \in 1..n PROVE F[i] = Next1(F[i - 1], i)
  <2>1. i \in 0..n /\ i # 0
    BY <1>1
  <2> QED BY <1>3, <1>12, <2>1
<1> DEFINE ok == {i \in 0..n : /\ IsMods(F[i])
                               /\ \A v \in Locals : Said(calls, m, "local", v, i, F[i].locals[v])
                               /\ \A v \in Globals : Said(calls, m, "global", v, i, F[i].globals[v])}
<1>15. 0 \in ok
  BY <1>1, <1>6, <1>13
<1>16. ASSUME NEW i \in 1..n, i - 1 \in ok PROVE i \in ok
  <2> DEFINE x == F[i - 1]
             y == F[i]
             c == calls[i]
  <2>1. /\ IsMods(x)
        /\ \A v \in Locals : Said(calls, m, "local", v, i - 1, x.locals[v])
        /\ \A v \in Globals : Said(calls, m, "global", v, i - 1, x.globals[v])
    BY <1>16
  <2>2. y = IF Matches(c, m) THEN OnCall(x, c) ELSE x
    BY <1>5, <1>14
  <2>3. ProperCall(c) /\ i \in 0..n /\ i \in Nat \ {0}
    BY <1>1
  <2>4. Matches(c, m) => c.h \in Handlers
    BY DEF Matches
  <2> HIDE DEF x, y, c
  <2>5. /\ IsMods(y)
        /\ \A v \in Locals : Matches(c, m) => Told(x.locals[v], c, "local", v, y.locals[v])
        /\ \A v \in Globals : Matches(c, m) => Told(x.globals[v], c, "global", v, y.globals[v])
        /\ ~Matches(c, m) => y = x
    <3>1. CASE Matches(c, m)
      <4>1. y = OnCall(x, c)
        BY <2>2, <3>1
      <4> QED BY <2>1, <2>3, <2>4, <3>1, <4>1, OnCallAt
    <3>2. CASE ~Matches(c, m)
      BY <2>1, <2>2, <3>2
    <3> QED BY <3>1, <3>2
  <2>6. ASSUME NEW v \in Locals PROVE Said(calls, m, "local", v, i, y.locals[v])
    <3>1. /\ Said(calls, m, "local", v, i - 1, x.locals[v])
          /\ Matches(calls[i], m) => Told(x.locals[v], calls[i], "local", v, y.locals[v])
          /\ ~Matches(calls[i], m) => y.locals[v] = x.locals[v]
      BY <2>1, <2>5 DEF c
    <3> QED BY <2>3, <3>1, SaidNext
  <2>7. ASSUME NEW v \in Globals PROVE Said(calls, m, "global", v, i, y.globals[v])
    <3>1. /\ Said(calls, m, "global", v, i - 1, x.globals[v])
          /\ Matches(calls[i], m) => Told(x.globals[v], calls[i], "global", v, y.globals[v])
          /\ ~Matches(calls[i], m) => y.globals[v] = x.globals[v]
      BY <2>1, <2>5 DEF c
    <3> QED BY <2>3, <3>1, SaidNext
  <2> QED BY <2>3, <2>5, <2>6, <2>7 DEF y
<1> HIDE DEF ok
<1>17. n \in ok
  <2>1. 0..n \subseteq ok
    BY <1>1, <1>15, <1>16, IntervalInduction
  <2> QED BY <1>1, <2>1
<1> QED BY <1>2, <1>17 DEF ok, n

(* Variables, and what a modification makes of one.                        *)
IsVar(x) == x = [name |-> x.name, user |-> x.user, type |-> x.type] /\ x.user \in BOOLEAN
IsGlobals(gs) == gs = [g \in Globals |-> gs[g]] /\ \A g \in Globals : IsVar(gs[g])

Settled(x, mod, y) ==
    /\ ~mod.force /\ x.user => y = x
    /\ mod.force \/ ~x.user =>
         /\ \A a, b, k : mod.name = <<a, b, k>> /\ mod.name # NoName => y.name[1] = a /\ y.name[2] = Fixed[b]
         /\ mod.type # NoType => y.type = mod.type

LEMMA TypedVar ==
    ASSUME NEW x, IsVar(x), NEW mod
    PROVE  /\ IsVar(Typed(x, mod))
           /\ Typed(x, mod).name = x.name /\ Typed(x, mod).user = x.user
           /\ Typed(x, mod).type = IF mod.type = NoType THEN x.type ELSE mod.type
<1>1. CASE mod.type = NoType
  BY <1>1 DEF Typed
<1>2. CASE mod.type # NoType
  <2>1. Typed(x, mod) = [name |-> x.name, user |-> x.user, type |-> mod.type]
    BY <1>2 DEF Typed, IsVar
  <2> QED BY <1>2, <2>1 DEF IsVar
<1> QED BY <1>1, <1>2

LEMMA NamedVar ==
    ASSUME NEW x, IsVar(x), NEW name
    PROVE  /\ IsVar([x EXCEPT !.name = name, !.user = TRUE])
           /\ [x EXCEPT !.name = name, !.user = TRUE].name = name
           /\ [x EXCEPT !.name = name, !.user = TRUE].type = x.type
<1> DEFINE r == [x EXCEPT !.name = name]
           s == [r EXCEPT !.user = TRUE]
<1>1. [x EXCEPT !.name = name, !.user = TRUE] = s
  OBVIOUS
<1>2. r = [name |-> name, user |-> x.user, type |-> x.type]
  BY DEF IsVar
<1> HIDE DEF r
<1>3. s = [name |-> name, user |-> TRUE, type |-> x.type]
  <2>1. \A b : [r EXCEPT !.user = b] = [name |-> name, user |-> b, type |-> x.type]
    BY <1>2
  <2> QED BY <2>1, Zenon
<1> HIDE DEF s
<1>4. IsVar(s) /\ s.name = name /\ s.type = x.type
  BY <1>3 DEF IsVar
<1> QED BY <1>1, <1>4

LEMMA UniqueStarts ==
    ASSUME NEW gs, NEW g, NEW a, NEW b, NEW k
    PROVE  /\ Unique(gs, g, FixedName(<<a, b, k>>))[1] = IF <<a, b, k>> = NoName THEN NoName[1] ELSE a
           /\ Unique(gs, g, FixedName(<<a, b, k>>))[2] = IF <<a, b, k>> = NoName THEN NoName[2] ELSE Fixed[b]
<1> DEFINE base == FixedName(<<a, b, k>>)
<1>1. \A x : Unique(gs, g, x)[1] = x[1] /\ Unique(gs, g, x)[2] = x[2]
  <2>1. ASSUME NEW x PROVE \E n : Unique(gs, g, x) = <<x[1], x[2], n>>
    BY Zenon DEF Unique
  <2> QED BY <2>1
<1>2. CASE <<a, b, k>> = NoName
  <2>1. base = NoName
    BY <1>2 DEF FixedName
  <2> QED BY <1>1, <1>2, <2>1
<1>3. CASE <<a, b, k>> # NoName
  <2>1. base = [<<a, b, k>> EXCEPT ![2] = Fixed[@]]
    BY <1>3 DEF FixedName
  <2>2. [<<a, b, k>> EXCEPT ![2] = Fixed[@]] = <<a, Fixed[b], k>>
    OBVIOUS
  <2>3. base[1] = a /\ base[2] = Fixed[b]
    BY <2>1, <2>2
  <2> QED BY <1>1, <1>3, <2>3
<1> QED BY <1>2, <1>3

LEMMA ApplyGlobalAt ==
    ASSUME NEW gs, IsGlobals(gs), NEW g \in Globals, NEW mod, IsMod(mod)
    PROVE  /\ IsGlobals(ApplyGlobal(gs, g, mod))
           /\ \A o \in Globals \ {g} : ApplyGlobal(gs, g, mod)[o] = gs[o]
           /\ Settled(gs[g], mod, ApplyGlobal(gs, g, mod)[g])
<1> DEFINE y == ApplyGlobal(gs, g, mod)
           x == gs[g]
           u == Unique(gs, g, FixedName(mod.name))
<1>0. IsVar(x)
  BY DEF IsGlobals
<1>1. CASE mod = NoMod \/ (~mod.force /\ gs[g].user)
  <2>1. y = gs
    BY <1>1 DEF ApplyGlobal
  <2>2. NoMod.name = NoName /\ NoMod.type = NoType /\ NoMod.force = FALSE
    BY Zenon DEF NoMod
  <2> QED BY <1>1, <2>1, <2>2 DEF Settled
<1>2. CASE ~(mod = NoMod \/ (~mod.force /\ gs[g].user)) /\ mod.name = NoName
  <2>1. y = [gs EXCEPT ![g] = Typed(@, mod)]
    BY <1>2 DEF ApplyGlobal
  <2>2. /\ y = [o \in Globals |-> IF o = g THEN Typed(x, mod) ELSE gs[o]]
        /\ y[g] = Typed(x, mod)
    BY <2>1 DEF IsGlobals
  <2>3. /\ IsVar(Typed(x, mod))
        /\ Typed(x, mod).type = IF mod.type = NoType THEN x.type ELSE mod.type
    BY <1>0, TypedVar
  <2>4. Settled(x, mod, Typed(x, mod))
    BY <1>2, <2>3 DEF Settled
  <2>5. IsGlobals(y)
    BY <2>2, <2>3 DEF IsGlobals
  <2> QED BY <2>2, <2>4, <2>5
<1>3. CASE ~(mod = NoMod \/ (~mod.force /\ gs[g].user)) /\ mod.name # NoName
  <2> DEFINE t == Typed(x, mod)
             z == [t EXCEPT !.name = u, !.user = TRUE]
  <2>1. y = [gs EXCEPT ![g] = [Typed(@, mod) EXCEPT !.name = u, !.user = TRUE]]
    BY <1>3 DEF ApplyGlobal
  <2>2. y = [o \in Globals |-> IF o = g THEN z ELSE gs[o]] /\ y[g] = z
    BY <2>1 DEF IsGlobals
  <2>3. IsVar(t) /\ t.type = IF mod.type = NoType THEN x.type ELSE mod.type
    BY <1>0, TypedVar
  <2> HIDE DEF t, u
  <2>4. IsVar(z) /\ z.name = u /\ z.type = t.type
    BY <2>3, NamedVar
  <2> HIDE DEF z
  <2>5. \A a, b, k : mod.name = <<a, b, k>> => u[1] = a /\ u[2] = Fixed[b]
    BY <1>3, UniqueStarts DEF u
  <2>6. Settled(x, mod, z)
    BY <1>3, <2>3, <2>4, <2>5 DEF Settled
  <2>7. IsGlobals(y)
    BY <2>2, <2>4 DEF IsGlobals
  <2> QED BY <2>2, <2>6, <2>7
<1> QED BY <1>1, <1>2, <1>3

LEMMA SettledTwice ==
    ASSUME NEW x, NEW y, NEW z, NEW mod, Settled(x, mod, y), Settled(y, mod, z)
    PROVE  Settled(x, mod, z)
<1>1. CASE ~mod.force /\ x.user
  BY <1>1 DEF Settled
<1>2. CASE mod.force \/ ~x.user
  <2>1. CASE ~mod.force /\ y.user
    BY <1>2, <2>1 DEF Settled
  <2>2. CASE mod.force \/ ~y.user
    BY <1>2, <2>2 DEF Settled
  <2> QED BY <2>1, <2>2
<1> QED BY <1>1, <1>2

(* All globals are treated, in whatever order.                             *)
LEMMA ApplyGlobalsAt ==
    ASSUME NEW gs, IsGlobals(gs), NEW mods, \A g \in Globals : IsMod(mods[g])
    PROVE  /\ IsGlobals(ApplyGlobals(gs, mods))
           /\ \A g \in Globals : Settled(gs[g], mods[g], ApplyGlobals(gs, mods)[g])
<1> DEFINE n == Cardinality(Globals)
           order == CHOOSE s \in [1..Cardinality(Globals) -> Globals] : {s[i] : i \in DOMAIN s} = Globals
           Next1(x, i) == CHOOSE r \in {ApplyGlobal(acc, order[i], mods[order[i]]) : acc \in {x}} : TRUE
           E(f) == [i \in 0..n |->
                      IF i = 0 THEN gs
                      ELSE CHOOSE r \in {ApplyGlobal(acc, order[i], mods[order[i]]) : acc \in {f[i - 1]}} : TRUE]
           F == CHOOSE f : f = E(f)
           P(g, k) == /\ g = [i \in 0..k |-> g[i]] /\ g[0] = gs
                      /\ \A i \in 1..k : g[i] = Next1(g[i - 1], i)
<1>1. n \in Nat
  BY RenamerAssumption, FS_CardinalityType
<1>2. ApplyGlobals(gs, mods) = F[n]
  BY DEF ApplyGlobals
<1>3. \A f : \A i \in 0..n : E(f)[i] = IF i = 0 THEN gs ELSE Next1(f[i - 1], i)
  OBVIOUS
<1>4. \A f : E(f) = [i \in 0..n |-> E(f)[i]]
  OBVIOUS
<1>5. \A x, i : Next1(x, i) = ApplyGlobal(x, order[i], mods[order[i]])
  OBVIOUS
<1>6. order \in [1..n -> Globals] /\ {order[i] : i \in 1..n} = Globals
  <2>1. ExistsBijection(1..n, Globals)
    BY RenamerAssumption, FS_CardinalityType
  <2>2. PICK b \in Bijection(1..n, Globals) : TRUE
    BY <2>1 DEF ExistsBijection
  <2>3. b \in [1..n -> Globals] /\ \A g \in Globals : \E i \in 1..n : b[i] = g
    BY <2>2 DEF Bijection, Surjection
  <2>4. {b[i] : i \in DOMAIN b} = Globals
    BY <2>3
  <2>5. order \in [1..n -> Globals] /\ {order[i] : i \in DOMAIN order} = Globals
    BY <2>3, <2>4
  <2> HIDE DEF order, n
  <2> QED BY <2>5
<1> HIDE DEF n, E, Next1, order
<1> DEFINE ex == {k \in 0..n : \E g : P(g, k)}
<1>7. 0 \in ex
  <2> DEFINE g == [i \in 0..0 |-> gs]
  <2>1. g = [i \in 0..0 |-> g[i]] /\ g[0] = gs /\ 0 \in 0..n
    BY <1>1
  <2> HIDE DEF g
  <2>2. P(g, 0)
    BY <2>1
  <2> QED BY <2>1, <2>2
<1>8. ASSUME NEW k \in 1..n, k - 1 \in ex PROVE k \in ex
  <2>1. PICK g : P(g, k - 1)
    BY <1>8
  <2> DEFINE h == [i \in 0..k |-> IF i = k THEN Next1(g[k - 1], k) ELSE g[i]]
  <2>2. h = [i \in 0..k |-> h[i]]
    OBVIOUS
  <2>3. \A i \in 0..(k - 1) : h[i] = g[i]
    BY <1>1
  <2>4. h[k] = Next1(g[k - 1], k)
    BY <1>1
  <2> HIDE DEF h
  <2>5. h[0] = gs
    BY <1>1, <2>1, <2>3
  <2>6. ASSUME NEW i \in 1..k PROVE h[i] = Next1(h[i - 1], i)
    <3>1. i - 1 \in 0..(k - 1)
      BY <1>1
    <3>2. CASE i = k
      BY <2>3, <2>4, <3>1, <3>2
    <3>3. CASE i # k
      <4>1. i \in 1..(k - 1) /\ i \in 0..(k - 1)
        BY <1>1, <3>3
      <4> QED BY <2>1, <2>3, <3>1, <4>1
    <3> QED BY <3>2, <3>3
  <2>7. P(h, k)
    BY <2>2, <2>5, <2>6
  <2>8. k \in 0..n
    BY <1>1
  <2> HIDE DEF P
  <2> QED BY <2>7, <2>8
<1>9. \E g : P(g, n)
  <2> HIDE DEF ex
  <2>1. 0..n \subseteq ex
    BY <1>1, <1>7, <1>8, IntervalInduction
  <2>2. n \in 0..n
    BY <1>1
  <2> QED BY <2>1, <2>2 DEF ex
<1>10. PICK h : P(h, n)
  BY <1>9
<1>11. h = E(h)
  <2>1. \A i \in 0..n : h[i] = E(h)[i]
    <3>1. \A i \in 0..n : i = 0 \/ i \in 1..n
      BY <1>1
    <3> QED BY <1>3, <1>10, <3>1
  <2>2. [i \in 0..n |-> h[i]] = [i \in 0..n |-> E(h)[i]]
    BY <2>1
  <2> QED BY <1>4, <1>10, <2>2
<1>12. F = E(F)
  BY <1>11
<1> HIDE DEF F
<1>13. F[0] = gs
  BY <1>1, <1>3, <1>12
<1>14. ASSUME NEW i \in 1..n PROVE F[i] = Next1(F[i - 1], i)
  <2>1. i \in 0..n /\ i # 0
    BY <1>1
  <2> QED BY <1>3, <1>12, <2>1
<1> DEFINE done(i, g) == \E j \in 1..i : order[j] = g
           ok == {i \in 0..n : /\ IsGlobals(F[i])
                               /\ \A g \in Globals : done(i, g) => Settled(gs[g], mods[g], F[i][g])
                               /\ \A g \in Globals : ~done(i, g) => F[i][g] = gs[g]}
<1>15. 0 \in ok
  <2>1. \A g \in Globals : ~done(0, g)
    OBVIOUS
  <2> HIDE DEF done
  <2> QED BY <1>1, <1>13, <2>1
<1>16. ASSUME NEW i \in 1..n, i - 1 \in ok PROVE i \in ok
  <2> DEFINE x == F[i - 1]
             y == F[i]
             g == order[i]
  <2>1. y = ApplyGlobal(x, g, mods[g])
    BY <1>5, <1>14
  <2>2. g \in Globals /\ IsMod(mods[g])
    BY <1>6
  <2>3. IsGlobals(x)
    BY <1>16
  <2>4. \A o \in Globals : done(i, o) <=> (o = g \/ done(i - 1, o))
    <3>1. \A j : j \in 1..i <=> j = i \/ j \in 1..(i - 1)
      BY <1>1
    <3> QED BY <3>1
  <2>5. /\ \A o \in Globals : done(i - 1, o) => Settled(gs[o], mods[o], x[o])
        /\ \A o \in Globals : ~done(i - 1, o) => x[o] = gs[o]
    BY <1>16
  <2>6. i \in 0..n
    BY <1>1
  <2> HIDE DEF done, x, y, g
  <2>7. /\ IsGlobals(y)
        /\ \A o \in Globals \ {g} : y[o] = x[o]
        /\ Settled(x[g], mods[g], y[g])
    BY <2>1, <2>2, <2>3, ApplyGlobalAt
  <2>8. ASSUME NEW o \in Globals, done(i, o) PROVE Settled(gs[o], mods[o], y[o])
    <3>1. CASE o = g /\ done(i - 1, g)
      BY <2>5, <2>7, <3>1, SettledTwice
    <3>2. CASE o = g /\ ~done(i - 1, g)
      BY <2>5, <2>7, <3>2
    <3>3. CASE o # g
      BY <2>4, <2>5, <2>7, <2>8, <3>3
    <3> QED BY <3>1, <3>2, <3>3
  <2>9. ASSUME NEW o \in Globals, ~done(i, o) PROVE y[o] = gs[o]
    BY <2>4, <2>5, <2>7, <2>9
  <2> QED BY <2>6, <2>7, <2>8, <2>9 DEF y
<1>17. n \in ok
  <2> HIDE DEF ok
  <2>1. 0..n \subseteq ok
    BY <1>1, <1>15, <1>16, IntervalInduction
  <2> QED BY <1>1, <2>1
<1>18. \A g \in Globals : done(n, g)
  BY <1>6
<1> QED BY <1>2, <1>17, <1>18

LEMMA ApplyLocalAt ==
    ASSUME NEW x, IsVar(x), NEW mod
    PROVE  /\ IsVar(ApplyLocal(x, mod))
           /\ mod.name # NoName /\ (x.user => mod.force) => ApplyLocal(x, mod).name = FixedName(mod.name)
           /\ mod.type # NoType => ApplyLocal(x, mod).type = mod.type
<1> DEFINE t == Typed(x, mod)
           u == FixedName(mod.name)
           z == [t EXCEPT !.name = u, !.user = TRUE]
<1>1. /\ IsVar(t) /\ t.user = x.user
      /\ t.type = IF mod.type = NoType THEN x.type ELSE mod.type
  BY TypedVar
<1>2. ApplyLocal(x, mod) = IF mod.name = NoName \/ (x.user /\ ~mod.force) THEN t ELSE z
  BY DEF ApplyLocal
<1> HIDE DEF t, u
<1>3. IsVar(z) /\ z.name = u /\ z.type = t.type
  BY <1>1, NamedVar
<1> HIDE DEF z
<1> QED BY <1>1, <1>2, <1>3 DEF u

(* What is true between the steps: the handlers that are looked for exist, *)
(* and variables have a name and a type.                                   *)
RenInv ==
    /\ prog \in Programs
    /\ found \subseteq Handlers /\ local \subseteq Handlers
    /\ \A m \in global : m \subseteq Handlers
    /\ IsGlobals(gvars)
    /\ lvars = [f \in KernelFuncs |-> [v \in Locals |-> lvars[f][v]]]
    /\ \A f \in KernelFuncs, v \in Locals : IsVar(lvars[f][v])

LEMMA FreshVar ==
    ASSUME NEW v
    PROVE  IsVar(Fresh(v))
<1>1. \A b : [name |-> <<v, "", 0>>, user |-> b, type |-> NoType].user = b
  OBVIOUS
<1>2. \A p, q, r : [name |-> p, user |-> q, type |-> r]
                  = [name |-> [name |-> p, user |-> q, type |-> r].name,
                     user |-> [name |-> p, user |-> q, type |-> r].user,
                     type |-> [name |-> p, user |-> q, type |-> r].type]
  OBVIOUS
<1>3. Fresh(v) = [name |-> Fresh(v).name, user |-> Fresh(v).user, type |-> Fresh(v).type]
  BY <1>2, Zenon DEF Fresh
<1>4. Fresh(v).user = FALSE
  BY Zenon DEF Fresh
<1> QED BY <1>3, <1>4 DEF IsVar

LEMMA ProperProg ==
    ASSUME prog \in Programs, NEW f \in KernelFuncs
    PROVE  /\ prog[f] \in Seq({prog[f][i] : i \in DOMAIN prog[f]})
           /\ \A i \in DOMAIN prog[f] : ProperCall(prog[f][i])
BY RenamerAssumption

LEMMA RenInitInv == RInit => RenInv
<1> SUFFICES ASSUME RInit PROVE RenInv
  OBVIOUS
<1>1. prog \in Programs /\ found \subseteq Handlers /\ local \subseteq Handlers /\ global = {}
  BY DEF RInit
<1>2. gvars = [g \in Globals |-> Fresh(g)] /\ lvars = [f \in KernelFuncs |-> [v \in Locals |-> Fresh(v)]]
  BY DEF RInit
<1>3. IsGlobals(gvars)
  BY <1>2, FreshVar DEF IsGlobals
<1>4. \A f \in KernelFuncs, v \in Locals : lvars[f][v] = Fresh(v)
  BY <1>2
<1>5. lvars = [f \in KernelFuncs |-> [v \in Locals |-> lvars[f][v]]]
  BY <1>2
<1>6. \A f \in KernelFuncs, v \in Locals : IsVar(lvars[f][v])
  BY <1>4, FreshVar
<1> QED BY <1>1, <1>3, <1>5, <1>6 DEF RenInv

LEMMA DecompileInv ==
    ASSUME RenInv, NEW f \in KernelFuncs, Decompile(f)
    PROVE  /\ RenInv'
           /\ \E mods : /\ IsMods(mods)
                        /\ \A v \in Locals : Said(prog[f], local, "local", v, Len(prog[f]), mods.locals[v])
                        /\ \A g \in Globals : Said(prog[f], local, "global", g, Len(prog[f]), mods.globals[g])
                        /\ \A v \in Locals : lvars'[f][v] = ApplyLocal(lvars[f][v], mods.locals[v])
                        /\ \A g \in Globals : Settled(gvars[g], mods.globals[g], gvars'[g])
<1> DEFINE mods == Collected(prog[f], local)
<1>1. /\ lvars' = [lvars EXCEPT ![f] = [v \in Locals |-> ApplyLocal(@[v], mods.locals[v])]]
      /\ gvars' = ApplyGlobals(gvars, mods.globals)
      /\ UNCHANGED <<prog, found, local, global, fnames, edits>>
  BY DEF Decompile
<1>2. /\ IsMods(mods)
      /\ \A v \in Locals : Said(prog[f], local, "local", v, Len(prog[f]), mods.locals[v])
      /\ \A g \in Globals : Said(prog[f], local, "global", g, Len(prog[f]), mods.globals[g])
  <2>1. local \in SUBSET Handlers /\ prog \in Programs
    BY DEF RenInv
  <2> QED BY <2>1, ProperProg, CollectedSays
<1> HIDE DEF mods
<1>3. IsGlobals(gvars) /\ \A g \in Globals : IsMod(mods.globals[g])
  BY <1>2 DEF RenInv, IsMods
<1>4. IsGlobals(gvars') /\ \A g \in Globals : Settled(gvars[g], mods.globals[g], gvars'[g])
  BY <1>1, <1>3, ApplyGlobalsAt
<1>5. \A v \in Locals : lvars'[f][v] = ApplyLocal(lvars[f][v], mods.locals[v])
  BY <1>1 DEF RenInv
<1>6. \A o \in KernelFuncs \ {f} : lvars'[o] = lvars[o]
  BY <1>1 DEF RenInv
<1>7. lvars' = [o \in KernelFuncs |-> [v \in Locals |-> lvars'[o][v]]]
  <2>1. lvars' = [o \in KernelFuncs |-> IF o = f THEN [v \in Locals |-> ApplyLocal(lvars[f][v], mods.locals[v])]
                                        ELSE lvars[o]]
    BY <1>1 DEF RenInv
  <2>2. \A o \in KernelFuncs : lvars'[o] = [v \in Locals |-> lvars'[o][v]]
    BY <2>1 DEF RenInv
  <2> QED BY <2>1, <2>2
<1>8. ASSUME NEW o \in KernelFuncs, NEW v \in Locals PROVE IsVar(lvars'[o][v])
  <2>1. IsVar(lvars[o][v])
    BY DEF RenInv
  <2>2. IsVar(ApplyLocal(lvars[o][v], mods.locals[v]))
    BY <2>1, ApplyLocalAt
  <2> QED BY <1>5, <1>6, <2>1, <2>2
<1>9. RenInv'
  BY <1>1, <1>4, <1>7, <1>8 DEF RenInv
<1> QED BY <1>2, <1>4, <1>5, <1>9

(* The mass renaming applies what calls say to the globals, again and      *)
(* again.                                                                  *)
LEMMA MassRenameInv ==
    ASSUME RenInv, MassRename
    PROVE  RenInv'
<1>1. PICK m \in {Matcher} :
        LET n == Cardinality(KernelFuncs)
            f[i \in 0..(n * Len(GlobalHandlers))] ==
              IF i = 0 THEN gvars
              ELSE LET h == GlobalHandlers[1 + ((i - 1) \div n)]
                       func == Order[1 + ((i - 1) % n)]
                   IN  IF h \in found /\ func \in Callers(h)
                       THEN CHOOSE r \in {ApplyGlobals(gs, Collected(prog[func], m).globals) : gs \in {f[i - 1]}} : TRUE
                       ELSE f[i - 1]
        IN  gvars' = f[n * Len(GlobalHandlers)] /\ global' = {m}
  BY DEF MassRename
<1>2. UNCHANGED <<prog, found, local, lvars, fnames, edits>>
  BY DEF MassRename
<1>3. m \in SUBSET Handlers
  <2>1. Targets \subseteq Handlers
    BY DEF Targets, RenInv
  <2>2. CASE global = {}
    BY <2>1, <2>2 DEF Matcher
  <2>3. CASE global # {}
    BY <2>3 DEF Matcher, RenInv
  <2> QED BY <2>2, <2>3
<1> DEFINE card == Cardinality(KernelFuncs)
           n == card * Len(GlobalHandlers)
           Handled(i) == GlobalHandlers[1 + ((i - 1) \div card)]
           Func(i) == Order[1 + ((i - 1) % card)]
           Next1(x, i) == IF Handled(i) \in found /\ Func(i) \in Callers(Handled(i))
                          THEN CHOOSE r \in {ApplyGlobals(gs, Collected(prog[Func(i)], m).globals) : gs \in {x}} : TRUE
                          ELSE x
           E(f) == [i \in 0..n |->
                      IF i = 0 THEN gvars
                      ELSE LET h == GlobalHandlers[1 + ((i - 1) \div card)]
                               func == Order[1 + ((i - 1) % card)]
                           IN  IF h \in found /\ func \in Callers(h)
                               THEN CHOOSE r \in {ApplyGlobals(gs, Collected(prog[func], m).globals) : gs \in {f[i - 1]}} : TRUE
                               ELSE f[i - 1]]
           F == CHOOSE f : f = E(f)
           P(g, k) == /\ g = [i \in 0..k |-> g[i]] /\ g[0] = gvars
                      /\ \A i \in 1..k : g[i] = Next1(g[i - 1], i)
<1>4. n \in Nat
  <2>1. card \in Nat
    BY RenamerAssumption, FS_CardinalityType
  <2>2. Len(GlobalHandlers) = 3
    BY DEF GlobalHandlers
  <2> QED BY <2>1, <2>2
<1>5. gvars' = F[n] /\ global' = {m}
  BY <1>1
<1>6. \A f : \A i \in 0..n : E(f)[i] = IF i = 0 THEN gvars ELSE Next1(f[i - 1], i)
  OBVIOUS
<1>7. \A f : E(f) = [i \in 0..n |-> E(f)[i]]
  OBVIOUS
<1>8. ASSUME NEW x, NEW i, IsGlobals(x) PROVE IsGlobals(Next1(x, i))
  <2>1. CASE Handled(i) \in found /\ Func(i) \in Callers(Handled(i))
    <3> DEFINE g == Func(i)
               mods == Collected(prog[g], m)
    <3>1. g \in KernelFuncs
      BY <2>1 DEF Callers
    <3>2. Next1(x, i) = ApplyGlobals(x, mods.globals)
      BY <2>1
    <3> HIDE DEF g, Next1
    <3>3. IsMods(mods)
      <4>1. prog \in Programs
        BY DEF RenInv
      <4> QED BY <1>3, <3>1, <4>1, ProperProg, CollectedSays
    <3> HIDE DEF mods
    <3>4. \A o \in Globals : IsMod(mods.globals[o])
      BY <3>3 DEF IsMods
    <3> QED BY <1>8, <3>2, <3>4, ApplyGlobalsAt
  <2>2. CASE ~(Handled(i) \in found /\ Func(i) \in Callers(Handled(i)))
    <3>1. Next1(x, i) = x
      BY <2>2
    <3> HIDE DEF Next1
    <3> QED BY <1>8, <3>1
  <2> HIDE DEF Handled, Func, Next1
  <2> QED BY <2>1, <2>2
<1> HIDE DEF n, E, Next1
<1> DEFINE ex == {k \in 0..n : \E g : P(g, k)}
<1>9. 0 \in ex
  <2> DEFINE g == [i \in 0..0 |-> gvars]
  <2>1. g = [i \in 0..0 |-> g[i]] /\ g[0] = gvars /\ 0 \in 0..n
    BY <1>4
  <2> HIDE DEF g
  <2>2. P(g, 0)
    BY <2>1
  <2> QED BY <2>1, <2>2
<1>10. ASSUME NEW k \in 1..n, k - 1 \in ex PROVE k \in ex
  <2>1. PICK g : P(g, k - 1)
    BY <1>10
  <2> DEFINE h == [i \in 0..k |-> IF i = k THEN Next1(g[k - 1], k) ELSE g[i]]
  <2>2. h = [i \in 0..k |-> h[i]]
    OBVIOUS
  <2>3. \A i \in 0..(k - 1) : h[i] = g[i]
    BY <1>4
  <2>4. h[k] = Next1(g[k - 1], k)
    BY <1>4
  <2> HIDE DEF h
  <2>5. h[0] = gvars
    BY <1>4, <2>1, <2>3
  <2>6. ASSUME NEW i \in 1..k PROVE h[i] = Next1(h[i - 1], i)
    <3>1. i - 1 \in 0..(k - 1)
      BY <1>4
    <3>2. CASE i = k
      BY <2>3, <2>4, <3>1, <3>2
    <3>3. CASE i # k
      <4>1. i \in 1..(k - 1) /\ i \in 0..(k - 1)
        BY <1>4, <3>3
      <4> QED BY <2>1, <2>3, <3>1, <4>1
    <3> QED BY <3>2, <3>3
  <2>7. P(h, k)
    BY <2>2, <2>5, <2>6
  <2>8. k \in 0..n
    BY <1>4
  <2> HIDE DEF P
  <2> QED BY <2>7, <2>8
<1>11. \E g : P(g, n)
  <2> HIDE DEF ex
  <2>1. 0..n \subseteq ex
    BY <1>4, <1>9, <1>10, IntervalInduction
  <2>2. n \in 0..n
    BY <1>4
  <2> QED BY <2>1, <2>2 DEF ex
<1>12. PICK h : P(h, n)
  BY <1>11
<1>13. h = E(h)
  <2>1. \A i \in 0..n : h[i] = E(h)[i]
    <3>1. \A i \in 0..n : i = 0 \/ i \in 1..n
      BY <1>4
    <3> QED BY <1>6, <1>12, <3>1
  <2>2. [i \in 0..n |-> h[i]] = [i \in 0..n |-> E(h)[i]]
    BY <2>1
  <2> QED BY <1>7, <1>12, <2>2
<1>14. F = E(F)
  BY <1>13
<1> HIDE DEF F
<1>15. F[0] = gvars
  BY <1>4, <1>6, <1>14
<1>16. ASSUME NEW i \in 1..n PROVE F[i] = Next1(F[i - 1], i)
  <2>1. i \in 0..n /\ i # 0
    BY <1>4
  <2> QED BY <1>6, <1>14, <2>1
<1> DEFINE ok == {i \in 0..n : IsGlobals(F[i])}
<1>17. 0 \in ok
  BY <1>4, <1>15 DEF RenInv
<1>18. ASSUME NEW i \in 1..n, i - 1 \in ok PROVE i \in ok
  BY <1>4, <1>8, <1>16, <1>18
<1> HIDE DEF ok
<1>19. n \in ok
  <2>1. 0..n \subseteq ok
    BY <1>4, <1>17, <1>18, IntervalInduction
  <2> QED BY <1>4, <2>1
<1>20. IsGlobals(gvars')
  BY <1>5, <1>19 DEF ok
<1> QED BY <1>2, <1>3, <1>5, <1>20 DEF RenInv

LEMMA NameVarInv ==
    ASSUME NEW x, IsVar(x), NEW name
    PROVE  IsVar([[x EXCEPT !.name = name] EXCEPT !.user = TRUE])
<1>1. [x EXCEPT !.name = name, !.user = TRUE] = [[x EXCEPT !.name = name] EXCEPT !.user = TRUE]
  OBVIOUS
<1> QED BY <1>1, NamedVar

LEMMA NameLocalInv ==
    ASSUME RenInv, NEW f \in KernelFuncs, NEW v \in Locals, NameLocal(f, v)
    PROVE  RenInv'
<1> DEFINE name == <<"user", v, 0>>
           x == lvars[f][v]
           y == [[x EXCEPT !.name = name] EXCEPT !.user = TRUE]
           mid == [lvars EXCEPT ![f][v].name = name]
<1>1. lvars' = [mid EXCEPT ![f][v].user = TRUE]
  BY DEF NameLocal
<1>2. UNCHANGED <<prog, found, local, global, gvars>>
  BY DEF NameLocal, Edit
<1>3. mid = [o \in KernelFuncs |-> IF o = f THEN [lvars[f] EXCEPT ![v] = [x EXCEPT !.name = name]] ELSE lvars[o]]
  BY DEF RenInv
<1>4. /\ mid[f] = [u \in Locals |-> IF u = v THEN [x EXCEPT !.name = name] ELSE lvars[f][u]]
      /\ \A o \in KernelFuncs \ {f} : mid[o] = lvars[o]
  BY <1>3 DEF RenInv
<1> HIDE DEF mid
<1>5. lvars' = [o \in KernelFuncs |-> IF o = f THEN [mid[f] EXCEPT ![v] = [mid[f][v] EXCEPT !.user = TRUE]] ELSE lvars[o]]
  BY <1>1, <1>3, <1>4
<1>6. [mid[f] EXCEPT ![v] = [mid[f][v] EXCEPT !.user = TRUE]] = [u \in Locals |-> IF u = v THEN y ELSE lvars[f][u]]
  BY <1>4
<1>7. IsVar(y)
  BY NameVarInv DEF RenInv
<1> HIDE DEF y
<1>8. lvars' = [o \in KernelFuncs |-> IF o = f THEN [u \in Locals |-> IF u = v THEN y ELSE lvars[f][u]] ELSE lvars[o]]
  BY <1>5, <1>6
<1>9. ASSUME NEW o \in KernelFuncs
      PROVE  /\ lvars'[o] = [u \in Locals |-> lvars'[o][u]]
             /\ \A u \in Locals : IsVar(lvars'[o][u])
  <2>1. CASE o = f
    BY <1>7, <1>8, <2>1 DEF RenInv
  <2>2. CASE o # f
    <3>1. lvars'[o] = lvars[o]
      BY <1>8, <2>2
    <3>2. lvars[o] = [u \in Locals |-> lvars[o][u]] /\ \A u \in Locals : IsVar(lvars[o][u])
      BY DEF RenInv
    <3> QED BY <3>1, <3>2
  <2> QED BY <2>1, <2>2
<1>10. lvars' = [o \in KernelFuncs |-> [u \in Locals |-> lvars'[o][u]]]
  <2>1. lvars' = [o \in KernelFuncs |-> lvars'[o]]
    BY <1>8
  <2> QED BY <1>9, <2>1
<1> QED BY <1>2, <1>9, <1>10 DEF RenInv

LEMMA NameGlobalInv ==
    ASSUME RenInv, NEW g \in Globals, NameGlobal(g)
    PROVE  RenInv'
<1> DEFINE name == <<"user", g, 0>>
           x == gvars[g]
           y == [[x EXCEPT !.name = name] EXCEPT !.user = TRUE]
           mid == [gvars EXCEPT ![g].name = name]
<1>1. gvars' = [mid EXCEPT ![g].user = TRUE]
  BY DEF NameGlobal
<1>2. UNCHANGED <<prog, found, local, global, lvars>>
  BY DEF NameGlobal, Edit
<1>3. mid = [o \in Globals |-> IF o = g THEN [x EXCEPT !.name = name] ELSE gvars[o]]
  BY DEF RenInv, IsGlobals
<1> HIDE DEF mid
<1>4. gvars' = [o \in Globals |-> IF o = g THEN y ELSE gvars[o]]
  BY <1>1, <1>3
<1>5. IsVar(y)
  BY NameVarInv DEF RenInv, IsGlobals
<1> HIDE DEF y
<1>6. IsGlobals(gvars')
  BY <1>4, <1>5 DEF RenInv, IsGlobals
<1> QED BY <1>2, <1>6 DEF RenInv

LEMMA RenStepInv == RenInv /\ [RNext]_renVars => RenInv'
<1> SUFFICES ASSUME RenInv, [RNext]_renVars PROVE RenInv'
  OBVIOUS
<1>1. CASE Load
  BY <1>1 DEF Load, RenInv
<1>2. CASE MassRename
  BY <1>2, MassRenameInv
<1>3. ASSUME NEW h \in Handlers, Find(h) PROVE RenInv'
  BY <1>3 DEF Find, RenInv
<1>4. ASSUME NEW f \in KernelFuncs, Decompile(f) PROVE RenInv'
  BY <1>4, DecompileInv
<1>5. ASSUME NEW f \in KernelFuncs, NameFunc(f) PROVE RenInv'
  BY <1>5 DEF NameFunc, Edit, RenInv
<1>6. ASSUME NEW f \in KernelFuncs, NEW v \in Locals, NameLocal(f, v) PROVE RenInv'
  BY <1>6, NameLocalInv
<1>7. ASSUME NEW g \in Globals, NameGlobal(g) PROVE RenInv'
  BY <1>7, NameGlobalInv
<1>8. ASSUME NEW force \in BOOLEAN, RenameByArg(force) PROVE RenInv'
  BY <1>8 DEF RenameByArg, RenInv
<1>9. CASE UNCHANGED renVars
  BY <1>9 DEF renVars, RenInv
<1> QED BY <1>1, <1>2, <1>3, <1>4, <1>5, <1>6, <1>7, <1>8, <1>9 DEF RNext

LEMMA GivenNameFixed ==
    ASSUME NEW c, c.h \in Handlers
    PROVE  FixedName(GivenName(c)) = <<Handler[c.h].prefix, Fixed[c.key], 0>>
<1>1. GivenName(c) # NoName
  BY GivenNameIsName
<1>2. FixedName(GivenName(c)) = [<<Handler[c.h].prefix, c.key, 0>> EXCEPT ![2] = Fixed[@]]
  BY <1>1 DEF FixedName, GivenName
<1>3. \A a, b : [<<a, b, 0>> EXCEPT ![2] = Fixed[@]] = <<a, Fixed[b], 0>>
  OBVIOUS
<1> QED BY <1>2, <1>3

(* What the collected modification of a variable is, in the terms of the   *)
(* property.                                                               *)
LEMMA SaidOfVariable ==
    ASSUME RenInv, NEW f \in KernelFuncs, NEW base, NEW id, NEW x,
           Said(prog[f], local, base, id, Len(prog[f]), x)
    PROVE  /\ \A i \in Naming(f, base, id) : IsLast(i, Naming(f, base, id)) =>
                prog[f][i].h \in Handlers /\ x.name = GivenName(prog[f][i])
           /\ \A i \in Typing(f, base, id) : IsLast(i, Typing(f, base, id)) =>
                x.type = TypeGiven(prog[f][i]) /\ x.type # NoType
           /\ x.force <=> Forced(f, base, id)
<1> DEFINE n == Len(prog[f])
<1>1. DOMAIN prog[f] = 1..n
  BY ProperProg DEF RenInv
<1>2. Naming(f, base, id) = {i \in 1..n : NamesIt(prog[f][i], local, base, id)}
  BY <1>1 DEF Naming, NamesIt, Aims
<1>3. Typing(f, base, id) = {i \in 1..n : TypesIt(prog[f][i], local, base, id)}
  BY <1>1 DEF Typing, TypesIt, Aims
<1>4. \A c : Matches(c, local) => c.h \in Handlers
  BY DEF Matches, RenInv
<1> HIDE DEF n
<1>5. ASSUME NEW i \in Naming(f, base, id), IsLast(i, Naming(f, base, id))
      PROVE  prog[f][i].h \in Handlers /\ x.name = GivenName(prog[f][i])
  <2>1. /\ i \in 1..n /\ NamesIt(prog[f][i], local, base, id)
        /\ \A j \in 1..n : NamesIt(prog[f][j], local, base, id) => j <= i
    BY <1>2, <1>5 DEF IsLast
  <2>2. Matches(prog[f][i], local)
    BY <2>1 DEF NamesIt
  <2> QED BY <1>4, <2>1, <2>2 DEF Said, n
<1>6. ASSUME NEW i \in Typing(f, base, id), IsLast(i, Typing(f, base, id))
      PROVE  x.type = TypeGiven(prog[f][i]) /\ x.type # NoType
  <2>1. /\ i \in 1..n /\ TypesIt(prog[f][i], local, base, id)
        /\ \A j \in 1..n : TypesIt(prog[f][j], local, base, id) => j <= i
    BY <1>3, <1>6 DEF IsLast
  <2>2. TypeGiven(prog[f][i]) # NoType
    BY <2>1 DEF TypesIt
  <2> QED BY <2>1, <2>2 DEF Said, n
<1>7. x.force <=> Forced(f, base, id)
  <2>1. x.force <=> (DefaultForce /\ \E k \in 1..n : TypesIt(prog[f][k], local, base, id))
    BY DEF Said, n
  <2> QED BY <1>3, <2>1 DEF Forced
<1> QED BY <1>5, <1>6, <1>7

LEMMA LastCallsNamed ==
    ASSUME RenInv, NEW f \in KernelFuncs, Decompile(f)
    PROVE  /\ \A v \in Locals :
                /\ \A i \in Naming(f, "local", v) :
                     IsLast(i, Naming(f, "local", v)) /\ (lvars[f][v].user => Forced(f, "local", v))
                     => lvars'[f][v].name = <<Handler[prog[f][i].h].prefix, Fixed[prog[f][i].key], 0>>
                /\ \A i \in Typing(f, "local", v) :
                     IsLast(i, Typing(f, "local", v)) => lvars'[f][v].type = TypeGiven(prog[f][i])
           /\ \A g \in Globals :
                IF gvars[g].user /\ ~Forced(f, "global", g) THEN gvars'[g] = gvars[g]
                ELSE /\ \A i \in Naming(f, "global", g) :
                          IsLast(i, Naming(f, "global", g)) =>
                            gvars'[g].name[1] = Handler[prog[f][i].h].prefix /\ gvars'[g].name[2] = Fixed[prog[f][i].key]
                     /\ \A i \in Typing(f, "global", g) :
                          IsLast(i, Typing(f, "global", g)) => gvars'[g].type = TypeGiven(prog[f][i])
<1>1. PICK mods : /\ IsMods(mods)
                  /\ \A v \in Locals : Said(prog[f], local, "local", v, Len(prog[f]), mods.locals[v])
                  /\ \A g \in Globals : Said(prog[f], local, "global", g, Len(prog[f]), mods.globals[g])
                  /\ \A v \in Locals : lvars'[f][v] = ApplyLocal(lvars[f][v], mods.locals[v])
                  /\ \A g \in Globals : Settled(gvars[g], mods.globals[g], gvars'[g])
  BY DecompileInv
<1>2. ASSUME NEW v \in Locals
      PROVE  /\ \A i \in Naming(f, "local", v) :
                  IsLast(i, Naming(f, "local", v)) /\ (lvars[f][v].user => Forced(f, "local", v))
                  => lvars'[f][v].name = <<Handler[prog[f][i].h].prefix, Fixed[prog[f][i].key], 0>>
             /\ \A i \in Typing(f, "local", v) :
                  IsLast(i, Typing(f, "local", v)) => lvars'[f][v].type = TypeGiven(prog[f][i])
  <2>1. PICK x : x = mods.locals[v]
    OBVIOUS
  <2>2. PICK y : y = lvars[f][v]
    OBVIOUS
  <2>3. PICK z : z = lvars'[f][v]
    OBVIOUS
  <2>4. IsVar(y) /\ z = ApplyLocal(y, x)
    BY <1>1, <2>1, <2>2, <2>3 DEF RenInv
  <2>5. Said(prog[f], local, "local", v, Len(prog[f]), x)
    BY <1>1, <2>1
  <2>6. /\ \A i \in Naming(f, "local", v) : IsLast(i, Naming(f, "local", v)) =>
             prog[f][i].h \in Handlers /\ x.name = GivenName(prog[f][i])
        /\ \A i \in Typing(f, "local", v) : IsLast(i, Typing(f, "local", v)) =>
             x.type = TypeGiven(prog[f][i]) /\ x.type # NoType
        /\ x.force <=> Forced(f, "local", v)
    BY <2>5, SaidOfVariable
  <2>7. /\ x.name # NoName /\ (y.user => x.force) => z.name = FixedName(x.name)
        /\ x.type # NoType => z.type = x.type
    BY <2>4, ApplyLocalAt
  <2>8. ASSUME NEW i \in Naming(f, "local", v), IsLast(i, Naming(f, "local", v)), y.user => Forced(f, "local", v)
        PROVE  z.name = <<Handler[prog[f][i].h].prefix, Fixed[prog[f][i].key], 0>>
    <3>1. prog[f][i].h \in Handlers /\ x.name = GivenName(prog[f][i])
      BY <2>6, <2>8
    <3>2. x.name # NoName
      BY <3>1, GivenNameIsName
    <3>3. z.name = FixedName(x.name)
      BY <2>6, <2>7, <2>8, <3>2
    <3>4. FixedName(GivenName(prog[f][i])) = <<Handler[prog[f][i].h].prefix, Fixed[prog[f][i].key], 0>>
      BY <3>1, GivenNameFixed
    <3> QED BY <3>1, <3>3, <3>4
  <2>9. \A i \in Typing(f, "local", v) : IsLast(i, Typing(f, "local", v)) => z.type = TypeGiven(prog[f][i])
    BY <2>6, <2>7
  <2> QED BY <2>2, <2>3, <2>8, <2>9
<1>3. ASSUME NEW g \in Globals
      PROVE  IF gvars[g].user /\ ~Forced(f, "global", g) THEN gvars'[g] = gvars[g]
             ELSE /\ \A i \in Naming(f, "global", g) :
                       IsLast(i, Naming(f, "global", g)) =>
                         gvars'[g].name[1] = Handler[prog[f][i].h].prefix /\ gvars'[g].name[2] = Fixed[prog[f][i].key]
                  /\ \A i \in Typing(f, "global", g) :
                       IsLast(i, Typing(f, "global", g)) => gvars'[g].type = TypeGiven(prog[f][i])
  <2>1. PICK x : x = mods.globals[g]
    OBVIOUS
  <2>2. PICK y : y = gvars[g]
    OBVIOUS
  <2>3. PICK z : z = gvars'[g]
    OBVIOUS
  <2>4. Settled(y, x, z)
    BY <1>1, <2>1, <2>2, <2>3
  <2>5. Said(prog[f], local, "global", g, Len(prog[f]), x)
    BY <1>1, <2>1
  <2>6. /\ \A i \in Naming(f, "global", g) : IsLast(i, Naming(f, "global", g)) =>
             prog[f][i].h \in Handlers /\ x.name = GivenName(prog[f][i])
        /\ \A i \in Typing(f, "global", g) : IsLast(i, Typing(f, "global", g)) =>
             x.type = TypeGiven(prog[f][i]) /\ x.type # NoType
        /\ x.force <=> Forced(f, "global", g)
    BY <2>5, SaidOfVariable
  <2>7. CASE y.user /\ ~Forced(f, "global", g)
    <3>1. z = y
      BY <2>4, <2>6, <2>7 DEF Settled
    <3> QED BY <2>2, <2>3, <2>7, <3>1
  <2>8. CASE ~(y.user /\ ~Forced(f, "global", g))
    <3>1. /\ \A a, b, k : x.name = <<a, b, k>> /\ x.name # NoName => z.name[1] = a /\ z.name[2] = Fixed[b]
          /\ x.type # NoType => z.type = x.type
      BY <2>4, <2>6, <2>8 DEF Settled
    <3>2. ASSUME NEW i \in Naming(f, "global", g), IsLast(i, Naming(f, "global", g))
          PROVE  z.name[1] = Handler[prog[f][i].h].prefix /\ z.name[2] = Fixed[prog[f][i].key]
      <4>1. prog[f][i].h \in Handlers /\ x.name = GivenName(prog[f][i])
        BY <2>6, <3>2
      <4>2. x.name # NoName
        BY <4>1, GivenNameIsName
      <4> QED BY <3>1, <4>1, <4>2 DEF GivenName
    <3>3. \A i \in Typing(f, "global", g) : IsLast(i, Typing(f, "global", g)) => z.type = TypeGiven(prog[f][i])
      BY <2>6, <3>1
    <3> QED BY <2>2, <2>3, <2>8, <3>2, <3>3
  <2> QED BY <2>2, <2>7, <2>8
<1> QED BY <1>2, <1>3

(* FuncRenamer: for every program, every order of loads, decompilations,   *)
(* mass renamings and names the user gives, a decompilation names and      *)
(* types a variable by the last calls that say so.                         *)
THEOREM LastCallsDoCount == RSpec => LastCallsCount
<1>1. RInit => RenInv
  BY RenInitInv
<1>2. RenInv /\ [RNext]_renVars => RenInv'
  BY RenStepInv
<1>3. RenInv /\ [RNext]_renVars => [LastCallsStep]_renVars
  <2> SUFFICES ASSUME RenInv PROVE LastCallsStep
    OBVIOUS
  <2> QED BY LastCallsNamed DEF LastCallsStep
<1> QED BY <1>1, <1>2, <1>3, PTL DEF RSpec, LastCallsCount

----------------------------------------------------------------------------
(* Proposals: in order of their ranks, and all there are.                  *)

Ranks == (1..3) \X Nat \X Nat
ProposalSet == [at : Ranks, var : Operands, base : Pieces]
Elements(s) == {s[i] : i \in 1..Len(s)}
InOrder(s) == \A i, j \in 1..Len(s) : i < j => Precedes(s[i].at, s[j].at)

LEMMA PrecedesMeans ==
    ASSUME NEW x \in Ranks, NEW y \in Ranks
    PROVE  Precedes(x, y) <=> \/ x[1] < y[1]
                              \/ x[1] = y[1] /\ x[2] < y[2]
                              \/ x[1] = y[1] /\ x[2] = y[2] /\ x[3] < y[3]
<1>1. 1..3 = {1, 2, 3}
  OBVIOUS
<1>2. 1..(1 - 1) = {} /\ 1..(2 - 1) = {1} /\ 1..(3 - 1) = {1, 2}
  OBVIOUS
<1>3. Precedes(x, y) <=> \E k \in {1, 2, 3} : x[k] < y[k] /\ \A j \in 1..(k - 1) : x[j] = y[j]
  BY <1>1 DEF Precedes
<1> DEFINE T(k) == x[k] < y[k] /\ \A j \in 1..(k - 1) : x[j] = y[j]
<1>4. Precedes(x, y) <=> T(1) \/ T(2) \/ T(3)
  BY <1>3
<1>5. T(1) <=> x[1] < y[1]
  BY <1>2
<1>6. T(2) <=> x[2] < y[2] /\ x[1] = y[1]
  BY <1>2
<1>7. T(3) <=> x[3] < y[3] /\ x[1] = y[1] /\ x[2] = y[2]
  BY <1>2
<1> HIDE DEF T
<1> QED BY <1>4, <1>5, <1>6, <1>7

LEMMA PrecedesOneWay ==
    ASSUME NEW x \in Ranks, NEW y \in Ranks, Precedes(x, y)
    PROVE  ~Precedes(y, x) /\ x # y
<1>1. /\ x[1] \in Int /\ x[2] \in Int /\ x[3] \in Int
      /\ y[1] \in Int /\ y[2] \in Int /\ y[3] \in Int
  BY DEF Ranks
<1> QED BY <1>1, PrecedesMeans

LEMMA Joined ==
    ASSUME NEW s \in Seq(ProposalSet), NEW t \in Seq(ProposalSet), InOrder(s), InOrder(t),
           \A p \in Elements(s), q \in Elements(t) : Precedes(p.at, q.at)
    PROVE  /\ s \o t \in Seq(ProposalSet)
           /\ InOrder(s \o t)
           /\ Elements(s \o t) = Elements(s) \cup Elements(t)
<1> DEFINE u == s \o t
           m == Len(s)
           n == Len(t)
<1>1. /\ m \in Nat /\ n \in Nat /\ u \in Seq(ProposalSet) /\ Len(u) = m + n
      /\ \A i \in 1..(m + n) : u[i] = IF i <= m THEN s[i] ELSE t[i - m]
  OBVIOUS
<1> HIDE DEF u, m, n
<1>2. ASSUME NEW i \in 1..Len(u) PROVE \/ i \in 1..m /\ u[i] = s[i]
                                       \/ i - m \in 1..n /\ u[i] = t[i - m] /\ ~(i <= m)
  BY <1>1
<1>3. InOrder(u)
  <2> SUFFICES ASSUME NEW i \in 1..Len(u), NEW j \in 1..Len(u), i < j PROVE Precedes(u[i].at, u[j].at)
    BY DEF InOrder
  <2>1. CASE i \in 1..m /\ u[i] = s[i] /\ j \in 1..m /\ u[j] = s[j]
    BY <2>1 DEF InOrder, m
  <2>2. CASE i \in 1..m /\ u[i] = s[i] /\ j - m \in 1..n /\ u[j] = t[j - m]
    BY <2>2 DEF Elements, m, n
  <2>3. CASE i - m \in 1..n /\ u[i] = t[i - m] /\ j - m \in 1..n /\ u[j] = t[j - m]
    <3>1. i - m < j - m
      BY <1>1
    <3> QED BY <2>3, <3>1 DEF InOrder, n
  <2>4. ~(j <= m /\ ~(i <= m))
    BY <1>1
  <2>5. i \in 1..m => i <= m
    OBVIOUS
  <2> QED BY <1>1, <1>2, <2>1, <2>2, <2>3, <2>4
<1>4. ASSUME NEW x PROVE x \in Elements(u) <=> x \in Elements(s) \/ x \in Elements(t)
  <2>1. x \in Elements(u) => x \in Elements(s) \/ x \in Elements(t)
    BY <1>2 DEF Elements, m, n
  <2>2. x \in Elements(s) => x \in Elements(u)
    <3> SUFFICES ASSUME NEW i \in 1..m PROVE s[i] \in Elements(u)
      BY DEF Elements, m
    <3>1. i \in 1..Len(u) /\ i \in 1..(m + n) /\ i <= m
      BY <1>1
    <3>2. u[i] = s[i]
      BY <1>1, <3>1
    <3> QED BY <3>1, <3>2 DEF Elements
  <2>3. x \in Elements(t) => x \in Elements(u)
    <3> SUFFICES ASSUME NEW i \in 1..n PROVE t[i] \in Elements(u)
      BY DEF Elements, n
    <3>1. i + m \in 1..Len(u) /\ i + m \in 1..(m + n) /\ ~(i + m <= m) /\ (i + m) - m = i
      BY <1>1
    <3>2. u[i + m] = t[i]
      BY <1>1, <3>1
    <3> QED BY <3>1, <3>2 DEF Elements
  <2> QED BY <2>1, <2>2, <2>3
<1> QED BY <1>1, <1>3, <1>4 DEF u

(* What one call proposes.                                                 *)
SourceRank(source) == IF source = "getters" THEN 2 ELSE 3

CallSays(source, i) ==
    LET c == method.calls[i]
    IN  IF source = "getters"
        THEN IF c.passed = <<>> THEN {Proposal(<<2, i, 0>>, c.target, c.getter)} ELSE {}
        ELSE IF Len(c.passed) # Len(c.pieces) THEN {}
        ELSE {Proposal(<<3, i, k>>, c.passed[k], c.pieces[k]) : k \in 1..Len(c.pieces)}

LEMMA OfCallOrdered ==
    ASSUME ProperMethod(method), NEW source \in {"getters", "callee-args"}, NEW i \in 1..Len(method.calls)
    PROVE  /\ OfCall(source, i) \in Seq(ProposalSet)
           /\ InOrder(OfCall(source, i))
           /\ Elements(OfCall(source, i)) = CallSays(source, i)
           /\ \A p \in CallSays(source, i) : p.at \in Ranks /\ p.at[1] = SourceRank(source) /\ p.at[2] = i
<1> DEFINE c == method.calls[i]
<1>1. /\ c.pieces \in Seq(Pieces) /\ c.passed \in Seq(Operands) /\ c.getter \in Pieces /\ c.target \in Operands
      /\ i \in Nat
  <2> DEFINE R == [pieces : Seq(Pieces), passed : Seq(Operands), getter : Pieces, target : Operands]
  <2>1. method.calls \in Seq(R)
    BY DEF ProperMethod
  <2>2. c \in R
    <3> HIDE DEF R
    <3> QED BY <2>1
  <2> HIDE DEF c
  <2> QED BY <2>2
<1> HIDE DEF c
<1>2. CASE source = "getters"
  <2> DEFINE p == Proposal(<<2, i, 0>>, c.target, c.getter)
  <2>1. p \in ProposalSet /\ p.at \in Ranks /\ p.at[1] = 2 /\ p.at[2] = i
    BY <1>1 DEF Proposal, ProposalSet, Ranks
  <2>2. OfCall(source, i) = IF c.passed = <<>> THEN <<p>> ELSE <<>>
    BY <1>2 DEF OfCall, GetterMatch, c
  <2>3. CallSays(source, i) = IF c.passed = <<>> THEN {p} ELSE {}
    BY <1>2 DEF CallSays, c
  <2> HIDE DEF p
  <2>4. CASE c.passed = <<>>
    <3>1. <<p>> \in Seq(ProposalSet) /\ Len(<<p>>) = 1 /\ <<p>>[1] = p
      BY <2>1
    <3>2. InOrder(<<p>>)
      BY <3>1 DEF InOrder
    <3>3. Elements(<<p>>) = {p}
      BY <3>1 DEF Elements
    <3> QED BY <1>2, <2>1, <2>2, <2>3, <2>4, <3>1, <3>2, <3>3 DEF SourceRank
  <2>5. CASE c.passed # <<>>
    <3>1. InOrder(<<>>) /\ Elements(<<>>) = {} /\ <<>> \in Seq(ProposalSet)
      BY DEF InOrder, Elements
    <3> QED BY <2>2, <2>3, <2>5, <3>1
  <2> QED BY <2>4, <2>5
<1>3. CASE source = "callee-args"
  <2> DEFINE p(k) == Proposal(<<3, i, k>>, c.passed[k], c.pieces[k])
             n == Len(c.pieces)
             s == [k \in 1..n |-> p(k)]
  <2>1. OfCall(source, i) = IF Len(c.passed) # n THEN <<>> ELSE s
    BY <1>3 DEF OfCall, CalleeArgMatches, c
  <2>2. CallSays(source, i) = IF Len(c.passed) # n THEN {} ELSE {p(k) : k \in 1..n}
    BY <1>1, <1>3 DEF CallSays, c
  <2>3. CASE Len(c.passed) # n
    <3>1. InOrder(<<>>) /\ Elements(<<>>) = {} /\ <<>> \in Seq(ProposalSet)
      BY DEF InOrder, Elements
    <3> QED BY <2>1, <2>2, <2>3, <3>1
  <2>4. CASE Len(c.passed) = n
    <3>1. ASSUME NEW k \in 1..n PROVE p(k) \in ProposalSet /\ p(k).at = <<3, i, k>> /\ p(k).at \in Ranks
      <4>1. c.passed[k] \in Operands /\ c.pieces[k] \in Pieces /\ k \in Nat
        BY <1>1, <2>4
      <4> QED BY <1>1, <4>1 DEF Proposal, ProposalSet, Ranks
    <3> HIDE DEF p
    <3>2. n \in Nat /\ s \in Seq(ProposalSet) /\ Len(s) = n /\ \A k \in 1..n : s[k] = p(k)
      BY <1>1, <3>1
    <3> HIDE DEF s, n
    <3>3. InOrder(s)
      <4> SUFFICES ASSUME NEW j \in 1..n, NEW k \in 1..n, j < k PROVE Precedes(p(j).at, p(k).at)
        BY <3>2 DEF InOrder
      <4>1. p(j).at = <<3, i, j>> /\ p(k).at = <<3, i, k>> /\ p(j).at \in Ranks /\ p(k).at \in Ranks
        BY <3>1
      <4> QED BY <4>1, PrecedesMeans
    <3>4. Elements(s) = {p(k) : k \in 1..n}
      BY <3>2 DEF Elements
    <3>5. \A k \in 1..n : p(k).at[1] = 3 /\ p(k).at[2] = i
      BY <3>1
    <3>6. OfCall(source, i) = s /\ CallSays(source, i) = {p(k) : k \in 1..n}
      BY <2>1, <2>2, <2>4 DEF n
    <3>7. \A q \in CallSays(source, i) : q.at \in Ranks /\ q.at[1] = 3 /\ q.at[2] = i
      BY <3>1, <3>5, <3>6
    <3> QED BY <1>3, <3>2, <3>3, <3>4, <3>6, <3>7 DEF SourceRank
  <2> QED BY <2>3, <2>4
<1> QED BY <1>2, <1>3

LEMMA CallProposalsOrdered ==
    ASSUME ProperMethod(method), NEW source \in {"getters", "callee-args"}
    PROVE  /\ CallProposals(source) \in Seq(ProposalSet)
           /\ InOrder(CallProposals(source))
           /\ Elements(CallProposals(source)) = UNION {CallSays(source, i) : i \in 1..Len(method.calls)}
<1> DEFINE n == Len(method.calls)
           V == Seq(ProposalSet)
           E(f) == [i \in 0..n |-> IF i = 0 THEN <<>> ELSE f[i - 1] \o OfCall(source, i)]
           F == CHOOSE f : f = E(f)
           step == [i \in Nat |-> [x \in V |-> IF i \in 1..n THEN x \o OfCall(source, i) ELSE x]]
<1>1. n \in Nat /\ <<>> \in V
  BY DEF ProperMethod
<1>2. CallProposals(source) = F[n]
  BY DEF CallProposals
<1>3. \A f : \A i \in 0..n : E(f)[i] = IF i = 0 THEN <<>> ELSE f[i - 1] \o OfCall(source, i)
  OBVIOUS
<1>4. \A f : E(f) = [i \in 0..n |-> E(f)[i]]
  OBVIOUS
<1>5. \A i \in 1..n : /\ OfCall(source, i) \in V
                      /\ InOrder(OfCall(source, i))
                      /\ Elements(OfCall(source, i)) = CallSays(source, i)
                      /\ \A p \in CallSays(source, i) : p.at \in Ranks /\ p.at[1] = SourceRank(source) /\ p.at[2] = i
  BY OfCallOrdered
<1>6. step \in [Nat -> [V -> V]]
  <2>1. \A i \in Nat, x \in V : (IF i \in 1..n THEN x \o OfCall(source, i) ELSE x) \in V
    BY <1>5
  <2> HIDE DEF V
  <2> QED BY <2>1
<1>7. \A i \in 1..n : \A x \in V : step[i][x] = x \o OfCall(source, i)
  BY <1>1
<1> HIDE DEF E, step, n, V
<1>8. PICK g : IsRecursion(g, n, V, <<>>, step)
  BY <1>1, <1>6, RecursionExists
<1>9. g \in [0..n -> V] /\ g[0] = <<>> /\ \A i \in 1..n : g[i] = g[i - 1] \o OfCall(source, i)
  <2>1. g \in [0..n -> V] /\ g[0] = <<>> /\ \A i \in 1..n : g[i] = step[i][g[i - 1]]
    BY <1>8 DEF IsRecursion
  <2>2. \A i \in 1..n : g[i - 1] \in V
    BY <1>1, <2>1
  <2> QED BY <1>7, <2>1, <2>2
<1>10. g = E(g)
  <2>1. \A i \in 0..n : i = 0 \/ i \in 1..n
    BY <1>1
  <2>2. \A i \in 0..n : g[i] = E(g)[i]
    BY <1>3, <1>9, <2>1
  <2>3. g = [i \in 0..n |-> g[i]]
    BY <1>9
  <2> QED BY <1>4, <2>2, <2>3
<1>11. F = E(F)
  BY <1>10
<1> HIDE DEF F
<1>12. F[0] = <<>> /\ \A i \in 1..n : F[i] = F[i - 1] \o OfCall(source, i)
  <2>1. 0 \in 0..n /\ \A i \in 1..n : i \in 0..n /\ i # 0
    BY <1>1
  <2> QED BY <1>3, <1>11, <2>1
<1> DEFINE Up(i) == UNION {CallSays(source, j) : j \in 1..i}
           ok == {i \in 0..n : F[i] \in V /\ InOrder(F[i]) /\ Elements(F[i]) = Up(i)}
<1>13. 0 \in ok
  <2>1. 0 \in 0..n /\ Up(0) = {} /\ InOrder(<<>>) /\ Elements(<<>>) = {}
    BY <1>1 DEF InOrder, Elements
  <2> QED BY <1>1, <1>12, <2>1
<1>14. ASSUME NEW i \in 1..n, i - 1 \in ok PROVE i \in ok
  <2>1. F[i - 1] \in V /\ InOrder(F[i - 1]) /\ Elements(F[i - 1]) = Up(i - 1) /\ i \in 0..n
    BY <1>1, <1>14
  <2>2. \A j : j \in 1..i <=> j = i \/ j \in 1..(i - 1)
    BY <1>1
  <2>3. Up(i) = Up(i - 1) \cup CallSays(source, i)
    BY <2>2
  <2>4. \A p \in Up(i - 1), q \in CallSays(source, i) : Precedes(p.at, q.at)
    <3> SUFFICES ASSUME NEW j \in 1..(i - 1), NEW p \in CallSays(source, j), NEW q \in CallSays(source, i)
                 PROVE  Precedes(p.at, q.at)
      OBVIOUS
    <3>1. j \in 1..n /\ j < i
      BY <1>1
    <3>2. p.at \in Ranks /\ q.at \in Ranks /\ p.at[1] = q.at[1] /\ p.at[2] < q.at[2]
      BY <1>5, <3>1
    <3> QED BY <3>2, PrecedesMeans
  <2> HIDE DEF Up
  <2>5. F[i] = F[i - 1] \o OfCall(source, i)
    BY <1>12
  <2>6. /\ F[i - 1] \o OfCall(source, i) \in V /\ InOrder(F[i - 1] \o OfCall(source, i))
        /\ Elements(F[i - 1] \o OfCall(source, i)) = Elements(F[i - 1]) \cup Elements(OfCall(source, i))
    BY <1>5, <2>1, <2>4, Joined DEF V
  <2> QED BY <1>5, <2>1, <2>3, <2>5, <2>6
<1> HIDE DEF ok
<1>15. n \in ok
  <2>1. 0..n \subseteq ok
    BY <1>1, <1>13, <1>14, IntervalInduction
  <2> QED BY <1>1, <2>1
<1> QED BY <1>2, <1>15 DEF ok, n, V

(* The method's own selector, and all the sources together.                *)
ArgSays ==
    IF ~method.method \/ Arguments # Len(method.pieces) + 2 THEN {}
    ELSE {Proposal(<<1, v, 0>>, v, ArgName(v)) : v \in 2..Arguments}

LEMMA ArgProposalsOrdered ==
    ASSUME ObjcAssumption, ProperMethod(method)
    PROVE  /\ ArgProposals \in Seq(ProposalSet)
           /\ InOrder(ArgProposals)
           /\ Elements(ArgProposals) = ArgSays
           /\ \A p \in ArgSays : p.at \in Ranks /\ p.at[1] = 1 /\ p.base # NoGuess
<1>1. CASE ~method.method \/ Arguments # Len(method.pieces) + 2
  <2>1. InOrder(<<>>) /\ Elements(<<>>) = {} /\ <<>> \in Seq(ProposalSet)
    BY DEF InOrder, Elements
  <2> QED BY <1>1, <2>1 DEF ArgProposals, ArgSays
<1>2. CASE ~(~method.method \/ Arguments # Len(method.pieces) + 2)
  <2> DEFINE p(v) == Proposal(<<1, v, 0>>, v, ArgName(v))
             n == Arguments - 1
             s == [k \in 1..n |-> p(k + 1)]
  <2>1. ArgProposals = s /\ ArgSays = {p(v) : v \in 2..Arguments}
    BY <1>2 DEF ArgProposals, ArgSays
  <2>2. Arguments = Len(method.pieces) + 2 /\ method.pieces \in Seq(Pieces) /\ n \in Nat /\ Arguments \in Nat
        /\ \A k \in 2..Len(method.pieces) : method.pieces[k] # NoGuess
    BY <1>2 DEF ProperMethod
  <2>3. ASSUME NEW v \in 2..Arguments PROVE ArgName(v) \in Pieces /\ ArgName(v) # NoGuess
    <3>0. /\ "sel" \in Bases /\ "sel" # NoGuess
          /\ "implicit_arg" \in Bases /\ "implicit_arg" # NoGuess
      BY DEF ObjcAssumption
    <3>1. CASE v = 2
      <4>1. ArgName(v) = "sel"
        BY <3>1 DEF ArgName
      <4> QED BY <3>0, <4>1 DEF Pieces
    <3>2. CASE v = 3
      <4>1. method.pieces[1] \in Pieces
        BY <2>2, <3>2
      <4>2. ArgName(v) = IF method.pieces[1] = NoGuess THEN "implicit_arg" ELSE method.pieces[1]
        BY <3>2 DEF ArgName
      <4> QED BY <3>0, <4>1, <4>2 DEF Pieces
    <3>3. CASE v # 2 /\ v # 3
      <4>1. v - 2 \in 2..Len(method.pieces)
        BY <2>2, <3>3
      <4>2. ArgName(v) = method.pieces[v - 2]
        BY <3>3 DEF ArgName
      <4> QED BY <2>2, <4>1, <4>2
    <3> QED BY <3>1, <3>2, <3>3
  <2>4. ASSUME NEW v \in 2..Arguments
        PROVE  p(v) \in ProposalSet /\ p(v).at = <<1, v, 0>> /\ p(v).at \in Ranks /\ p(v).base # NoGuess
    <3>1. v \in Operands /\ v \in Nat
      <4>1. v \in 1..Arguments
        BY <2>2
      <4> QED BY <4>1 DEF ObjcAssumption, Operands
    <3> QED BY <2>3, <3>1 DEF Proposal, ProposalSet, Ranks
  <2> HIDE DEF p
  <2>5. \A k \in 1..n : k + 1 \in 2..Arguments
    BY <2>2
  <2>6. n \in Nat /\ s \in Seq(ProposalSet) /\ Len(s) = n /\ \A k \in 1..n : s[k] = p(k + 1)
    BY <2>2, <2>4, <2>5
  <2> HIDE DEF s
  <2>7. InOrder(s)
    <3> SUFFICES ASSUME NEW j \in 1..n, NEW k \in 1..n, j < k PROVE Precedes(p(j + 1).at, p(k + 1).at)
      BY <2>6 DEF InOrder
    <3>1. j + 1 < k + 1 /\ p(j + 1).at = <<1, j + 1, 0>> /\ p(k + 1).at = <<1, k + 1, 0>>
          /\ p(j + 1).at \in Ranks /\ p(k + 1).at \in Ranks
      BY <2>4, <2>5
    <3> QED BY <3>1, PrecedesMeans
  <2>8. Elements(s) = {p(v) : v \in 2..Arguments}
    <3>1. \A v \in 2..Arguments : v - 1 \in 1..n /\ (v - 1) + 1 = v
      BY <2>2
    <3>2. Elements(s) = {p(k + 1) : k \in 1..n}
      BY <2>6 DEF Elements
    <3> QED BY <2>5, <3>1, <3>2
  <2>9. \A v \in 2..Arguments : p(v).at[1] = 1
    BY <2>4
  <2> QED BY <2>1, <2>4, <2>6, <2>7, <2>8, <2>9
<1> QED BY <1>1, <1>2

(* All the proposals are in order, and those for a variable that make a    *)
(* name are what the code says of it.                                      *)
About(S, v) == {p \in S : p.var = v /\ p.base # NoGuess}
CallsSay(source) == UNION {CallSays(source, i) : i \in 1..Len(method.calls)}

LEMMA AboutProposal ==
    ASSUME NEW at, NEW u, NEW base
    PROVE  /\ Proposal(at, u, base).at = at /\ Proposal(at, u, base).var = u /\ Proposal(at, u, base).base = base
  BY DEF Proposal

LEMMA SaysMethodIs ==
    ASSUME ObjcAssumption, ProperMethod(method), NEW v \in ObjcVars
    PROVE  SaysMethod(v) = IF "args" \in options THEN About(ArgSays, v) ELSE {}
<1>1. CASE "args" \notin options \/ ~method.method \/ Arguments # Len(method.pieces) + 2
  <2>1. SaysMethod(v) = {}
    BY <1>1 DEF SaysMethod
  <2>2. "args" \in options => ArgSays = {}
    BY <1>1 DEF ArgSays
  <2> QED BY <2>1, <2>2 DEF About
<1>2. CASE ~("args" \notin options \/ ~method.method \/ Arguments # Len(method.pieces) + 2)
  <2> DEFINE p(u) == Proposal(<<1, u, 0>>, u, ArgName(u))
  <2>1. SaysMethod(v) = IF v \in 2..Arguments THEN {p(v)} ELSE {}
    BY <1>2 DEF SaysMethod
  <2>2. ArgSays = {p(u) : u \in 2..Arguments}
    BY <1>2 DEF ArgSays
  <2>3. \A u : p(u).var = u
    BY AboutProposal
  <2>4. \A u \in 2..Arguments : p(u).base # NoGuess
    BY <2>2, ArgProposalsOrdered
  <2> HIDE DEF p
  <2>5. \A x : x \in About(ArgSays, v) <=> x \in (IF v \in 2..Arguments THEN {p(v)} ELSE {})
    BY <2>2, <2>3, <2>4 DEF About
  <2>6. About(ArgSays, v) = IF v \in 2..Arguments THEN {p(v)} ELSE {}
    BY <2>5
  <2> QED BY <1>2, <2>1, <2>6
<1> QED BY <1>1, <1>2

LEMMA SaysGetterIs ==
    ASSUME ProperMethod(method), NEW v \in ObjcVars
    PROVE  SaysGetter(v) = IF "getters" \in options THEN About(CallsSay("getters"), v) ELSE {}
<1> DEFINE c(i) == method.calls[i]
           p(i) == Proposal(<<2, i, 0>>, c(i).target, c(i).getter)
           q(i) == Proposal(<<2, i, 0>>, v, c(i).getter)
           D == 1..Len(method.calls)
<1>1. DOMAIN method.calls = D
  BY DEF ProperMethod
<1>2. SaysGetter(v) = {q(i) : i \in {j \in D : "getters" \in options /\ c(j).getter # NoGuess /\ c(j).target = v /\ c(j).passed = <<>>}}
  BY <1>1 DEF SaysGetter
<1>3. \A i : CallSays("getters", i) = IF c(i).passed = <<>> THEN {p(i)} ELSE {}
  BY DEF CallSays
<1>4. \A i : p(i).var = c(i).target /\ p(i).base = c(i).getter /\ (c(i).target = v => q(i) = p(i))
  BY AboutProposal
<1> HIDE DEF c, p, q, D
<1>5. CallsSay("getters") = UNION {CallSays("getters", i) : i \in D}
  BY DEF CallsSay, D
<1>6. CASE "getters" \in options
  <2>1. ASSUME NEW x \in SaysGetter(v) PROVE x \in About(CallsSay("getters"), v)
    <3>1. PICK i \in D : c(i).getter # NoGuess /\ c(i).target = v /\ c(i).passed = <<>> /\ x = q(i)
      BY <1>2, <2>1
    <3>2. x \in CallSays("getters", i) /\ x.var = v /\ x.base # NoGuess
      BY <1>3, <1>4, <3>1
    <3> QED BY <1>5, <3>1, <3>2 DEF About
  <2>2. ASSUME NEW x \in About(CallsSay("getters"), v) PROVE x \in SaysGetter(v)
    <3>1. x.var = v /\ x.base # NoGuess /\ \E i \in D : x \in CallSays("getters", i)
      BY <1>5, <2>2 DEF About
    <3>2. PICK i \in D : x \in CallSays("getters", i)
      BY <3>1
    <3>3. x = p(i) /\ c(i).passed = <<>>
      BY <1>3, <3>2
    <3>4. c(i).getter # NoGuess /\ c(i).target = v /\ x = q(i)
      BY <1>4, <3>1, <3>3
    <3> QED BY <1>2, <1>6, <3>2, <3>3, <3>4
  <2> QED BY <1>6, <2>1, <2>2
<1>7. CASE "getters" \notin options
  BY <1>2, <1>7
<1> QED BY <1>6, <1>7

LEMMA SaysKeywordIs ==
    ASSUME ProperMethod(method), NEW v \in ObjcVars
    PROVE  SaysKeyword(v) = IF "callee-args" \in options THEN About(CallsSay("callee-args"), v) ELSE {}
<1> DEFINE c(i) == method.calls[i]
           p(i, k) == Proposal(<<3, i, k>>, c(i).passed[k], c(i).pieces[k])
           q(i, k) == Proposal(<<3, i, k>>, v, c(i).pieces[k])
           D == 1..Len(method.calls)
           W(i, k) == Len(c(i).passed) = Len(c(i).pieces) /\ c(i).passed[k] = v /\ c(i).pieces[k] # NoGuess
<1>0. DOMAIN method.calls = D /\ \A i \in D : DOMAIN c(i).pieces = 1..Len(c(i).pieces)
  <2> DEFINE R == [pieces : Seq(Pieces), passed : Seq(Operands), getter : Pieces, target : Operands]
  <2>1. method.calls \in Seq(R)
    BY DEF ProperMethod
  <2>2. DOMAIN method.calls = D /\ \A i \in D : c(i) \in R
    <3> HIDE DEF R
    <3> QED BY <2>1
  <2>3. \A x \in R : x.pieces \in Seq(Pieces)
    OBVIOUS
  <2> HIDE DEF R, c
  <2> QED BY <2>2, <2>3
<1>1. \A x : x \in SaysKeyword(v) <=> \E i \in DOMAIN method.calls : \E k \in DOMAIN c(i).pieces :
                                       "callee-args" \in options /\ W(i, k) /\ x = q(i, k)
  <2> DEFINE S(i) == {q(i, k) : k \in {j \in DOMAIN c(i).pieces :
                                       "callee-args" \in options /\ Len(c(i).passed) = Len(c(i).pieces)
                                       /\ c(i).passed[j] = v /\ c(i).pieces[j] # NoGuess}}
  <2>1. SaysKeyword(v) = UNION {S(i) : i \in DOMAIN method.calls}
    BY DEF SaysKeyword
  <2>2. \A i, x : x \in S(i) <=> \E k \in DOMAIN c(i).pieces : "callee-args" \in options /\ W(i, k) /\ x = q(i, k)
    <3> HIDE DEF q, c
    <3> QED OBVIOUS
  <2> HIDE DEF S, W, q, c
  <2> QED BY <2>1, <2>2
<1>2. \A x : x \in SaysKeyword(v) <=> "callee-args" \in options /\ \E i \in D : \E k \in 1..Len(c(i).pieces) : W(i, k) /\ x = q(i, k)
  <2> HIDE DEF W, q, c, D
  <2> QED BY <1>0, <1>1
<1>3. \A i : CallSays("callee-args", i) = IF Len(c(i).passed) # Len(c(i).pieces) THEN {} ELSE {p(i, k) : k \in 1..Len(c(i).pieces)}
  BY DEF CallSays
<1>4. \A i, k : p(i, k).var = c(i).passed[k] /\ p(i, k).base = c(i).pieces[k] /\ (c(i).passed[k] = v => q(i, k) = p(i, k))
  BY AboutProposal
<1> HIDE DEF c, p, q, D
<1>5. CallsSay("callee-args") = UNION {CallSays("callee-args", i) : i \in D}
  BY DEF CallsSay, D
<1>6. CASE "callee-args" \in options
  <2>1. ASSUME NEW x \in SaysKeyword(v) PROVE x \in About(CallsSay("callee-args"), v)
    <3>1. PICK i \in D : \E k \in 1..Len(c(i).pieces) : W(i, k) /\ x = q(i, k)
      BY <1>2, <2>1
    <3>2. PICK k \in 1..Len(c(i).pieces) : W(i, k) /\ x = q(i, k)
      BY <3>1
    <3>3. x = p(i, k) /\ x.var = v /\ x.base # NoGuess
      BY <1>4, <3>2
    <3>4. x \in CallSays("callee-args", i)
      BY <1>3, <3>2, <3>3
    <3> QED BY <1>5, <3>3, <3>4 DEF About
  <2>2. ASSUME NEW x \in About(CallsSay("callee-args"), v) PROVE x \in SaysKeyword(v)
    <3>1. x.var = v /\ x.base # NoGuess /\ \E i \in D : x \in CallSays("callee-args", i)
      BY <1>5, <2>2 DEF About
    <3>2. PICK i \in D : x \in CallSays("callee-args", i)
      BY <3>1
    <3>3. Len(c(i).passed) = Len(c(i).pieces) /\ x \in {p(i, k) : k \in 1..Len(c(i).pieces)}
      BY <1>3, <3>2
    <3>4. PICK k \in 1..Len(c(i).pieces) : x = p(i, k)
      BY <3>3
    <3>5. W(i, k) /\ x = q(i, k)
      BY <1>4, <3>1, <3>3, <3>4
    <3> QED BY <1>2, <1>6, <3>5
  <2> QED BY <1>6, <2>1, <2>2
<1>7. CASE "callee-args" \notin options
  BY <1>2, <1>7
<1> QED BY <1>6, <1>7

LEMMA AllProposalsOrdered ==
    ASSUME ObjcAssumption, ProperMethod(method)
    PROVE  /\ AllProposals \in Seq(ProposalSet)
           /\ InOrder(AllProposals)
           /\ \A v \in ObjcVars : Says(v) = About(Elements(AllProposals), v)
<1> DEFINE A == Proposals("args")
           G == Proposals("getters")
           K == Proposals("callee-args")
           EA == IF "args" \in options THEN ArgSays ELSE {}
           EG == IF "getters" \in options THEN CallsSay("getters") ELSE {}
           EK == IF "callee-args" \in options THEN CallsSay("callee-args") ELSE {}
<1>0. InOrder(<<>>) /\ Elements(<<>>) = {} /\ <<>> \in Seq(ProposalSet)
  BY DEF InOrder, Elements
<1>1. A \in Seq(ProposalSet) /\ InOrder(A) /\ Elements(A) = EA
  <2>1. A = IF "args" \in options THEN ArgProposals ELSE <<>>
    BY DEF Proposals
  <2> QED BY <1>0, <2>1, ArgProposalsOrdered
<1>2. G \in Seq(ProposalSet) /\ InOrder(G) /\ Elements(G) = EG
  <2>1. G = IF "getters" \in options THEN CallProposals("getters") ELSE <<>>
    BY DEF Proposals
  <2>2. /\ CallProposals("getters") \in Seq(ProposalSet) /\ InOrder(CallProposals("getters"))
        /\ Elements(CallProposals("getters")) = CallsSay("getters")
    BY CallProposalsOrdered DEF CallsSay
  <2> QED BY <1>0, <2>1, <2>2
<1>3. K \in Seq(ProposalSet) /\ InOrder(K) /\ Elements(K) = EK
  <2>1. K = IF "callee-args" \in options THEN CallProposals("callee-args") ELSE <<>>
    BY DEF Proposals
  <2>2. /\ CallProposals("callee-args") \in Seq(ProposalSet) /\ InOrder(CallProposals("callee-args"))
        /\ Elements(CallProposals("callee-args")) = CallsSay("callee-args")
    BY CallProposalsOrdered DEF CallsSay
  <2> QED BY <1>0, <2>1, <2>2
<1>4. /\ \A p \in EA : p.at \in Ranks /\ p.at[1] = 1
      /\ \A p \in EG : p.at \in Ranks /\ p.at[1] = 2
      /\ \A p \in EK : p.at \in Ranks /\ p.at[1] = 3
  <2>1. \A p \in ArgSays : p.at \in Ranks /\ p.at[1] = 1
    BY ArgProposalsOrdered
  <2>2. \A source \in {"getters", "callee-args"} : \A p \in CallsSay(source) : p.at \in Ranks /\ p.at[1] = SourceRank(source)
    BY OfCallOrdered DEF CallsSay
  <2> QED BY <2>1, <2>2 DEF SourceRank
<1> HIDE DEF A, G, K, EA, EG, EK
<1>5. /\ A \o G \in Seq(ProposalSet) /\ InOrder(A \o G) /\ Elements(A \o G) = EA \cup EG
  <2>1. \A p \in Elements(A), q \in Elements(G) : Precedes(p.at, q.at)
    BY <1>1, <1>2, <1>4, PrecedesMeans
  <2> QED BY <1>1, <1>2, <2>1, Joined
<1>6. /\ (A \o G) \o K \in Seq(ProposalSet) /\ InOrder((A \o G) \o K) /\ Elements((A \o G) \o K) = (EA \cup EG) \cup EK
  <2>1. \A p \in Elements(A \o G), q \in Elements(K) : Precedes(p.at, q.at)
    BY <1>3, <1>4, <1>5, PrecedesMeans
  <2> QED BY <1>3, <1>5, <2>1, Joined
<1>7. AllProposals = (A \o G) \o K
  BY DEF AllProposals, A, G, K
<1>8. ASSUME NEW v \in ObjcVars PROVE Says(v) = About(Elements(AllProposals), v)
  <2>1. About((EA \cup EG) \cup EK, v) = About(EA, v) \cup About(EG, v) \cup About(EK, v)
    BY DEF About
  <2>2. SaysMethod(v) = About(EA, v)
    BY SaysMethodIs DEF EA, About
  <2>3. SaysGetter(v) = About(EG, v)
    BY SaysGetterIs DEF EG, About
  <2>4. SaysKeyword(v) = About(EK, v)
    BY SaysKeywordIs DEF EK, About
  <2> QED BY <1>6, <1>7, <2>1, <2>2, <2>3, <2>4 DEF Says
<1> QED BY <1>6, <1>7, <1>8

----------------------------------------------------------------------------
(* Names.                                                                  *)

NameSet == (Bases \cup {"a", "v"}) \X Nat
TakenSets == {S \in SUBSET NameSet : IsFiniteSet(S)}
Progress == [names : [ObjcVars -> NameSet], taken : TakenSets, chosen : SUBSET ObjcVars]

(* The number is the least that is free, by the pigeon-hole principle.     *)
IsUnique(name, base, taken) ==
    /\ name = <<base, name[2]>> /\ name[2] \in Nat
    /\ name \notin taken /\ \A k \in 0..(name[2] - 1) : <<base, k>> \in taken

LEMMA UniqueNameIsNew ==
    ASSUME NEW base, NEW taken, IsFiniteSet(taken)
    PROVE  IsUnique(UniqueName(base, taken), base, taken)
<1> DEFINE C == Cardinality(taken)
           G(n) == <<base, n>> \notin taken /\ \A k \in 0..(n - 1) : <<base, k>> \in taken
           m == CHOOSE n \in 0..C : G(n)
<1>1. C \in Nat
  BY FS_CardinalityType
<1>2. \E n \in 0..C : <<base, n>> \notin taken
  <2>1. SUFFICES ASSUME \A n \in 0..C : <<base, n>> \in taken PROVE FALSE
    OBVIOUS
  <2> DEFINE f == [n \in 0..C |-> <<base, n>>]
  <2>2. f \in [0..C -> taken]
    BY <2>1
  <2>3. \A i, j \in 0..C : f[i] = f[j] => i = j
    OBVIOUS
  <2>4. IsFiniteSet(0..C) /\ Cardinality(0..C) = C + 1
    <3>1. 0 \in Int /\ C \in Int /\ ~(0 > C)
      BY <1>1
    <3>2. C - 0 + 1 = C + 1
      BY <1>1
    <3> QED BY <3>1, <3>2, FS_Interval
  <2>5. Cardinality(taken) < Cardinality(0..C)
    BY <1>1, <2>4
  <2> HIDE DEF f
  <2>6. PICK i, j \in 0..C : i # j /\ f[i] = f[j]
    BY <2>2, <2>4, <2>5, FS_PigeonHole
  <2> QED BY <2>3, <2>6
<1>3. \E n \in 0..C : G(n)
  <2> DEFINE T == {n \in 0..C : <<base, n>> \notin taken}
  <2>1. T \in SUBSET Nat /\ T # {}
    BY <1>1, <1>2
  <2>2. PICK n \in T : \A k \in T : n <= k
    <3> HIDE DEF T
    <3> QED BY <2>1, LeastElement
  <2>3. ASSUME NEW k \in 0..(n - 1) PROVE <<base, k>> \in taken
    <3>1. k \in 0..C /\ ~(n <= k)
      BY <1>1
    <3> QED BY <2>2, <3>1
  <2> QED BY <2>2, <2>3
<1>4. m \in 0..C /\ G(m)
  BY <1>3
<1>5. UniqueName(base, taken) = <<base, m>>
  BY DEF UniqueName
<1> HIDE DEF m, C
<1> QED BY <1>1, <1>4, <1>5 DEF IsUnique

(* One proposal.                                                           *)
LEMMA GiveOne ==
    ASSUME NEW r \in Progress, NEW p \in ProposalSet
    PROVE  /\ Give(r, p) \in Progress
           /\ ~Wins(p, r.chosen) => Give(r, p) = r
           /\ Wins(p, r.chosen) =>
                \E name \in NameSet :
                  /\ IsUnique(name, p.base, r.taken) /\ p.var \in ObjcVars /\ p.base \in Bases
                  /\ Give(r, p).names = [r.names EXCEPT ![p.var] = name]
                  /\ Give(r, p).taken = r.taken \cup {name}
                  /\ Give(r, p).chosen = r.chosen \cup {p.var}
<1>1. CASE ~Wins(p, r.chosen)
  BY <1>1 DEF Give
<1>2. CASE Wins(p, r.chosen)
  <2> DEFINE name == UniqueName(p.base, r.taken)
  <2>1. /\ r.names \in [ObjcVars -> NameSet] /\ r.taken \in SUBSET NameSet /\ IsFiniteSet(r.taken)
        /\ r.chosen \in SUBSET ObjcVars
    BY DEF Progress, TakenSets
  <2>2. p.var \in ObjcVars /\ p.base \in Bases
    BY <1>2 DEF Wins, ProposalSet, Operands, Pieces
  <2>3. IsUnique(name, p.base, r.taken)
    BY <2>1, UniqueNameIsNew
  <2>4. Give(r, p) = [names |-> [r.names EXCEPT ![p.var] = name],
                      taken |-> r.taken \cup {name}, chosen |-> r.chosen \cup {p.var}]
    BY <1>2 DEF Give, Taken
  <2> HIDE DEF name
  <2>5. name \in NameSet
    BY <2>2, <2>3 DEF IsUnique, NameSet
  <2>6. r.taken \cup {name} \in TakenSets
    BY <2>1, <2>5, FS_AddElement DEF TakenSets
  <2>7. [r.names EXCEPT ![p.var] = name] \in [ObjcVars -> NameSet]
    BY <2>1, <2>5
  <2>8. Give(r, p) \in Progress
    BY <2>1, <2>2, <2>4, <2>6, <2>7 DEF Progress
  <2> QED BY <1>2, <2>2, <2>3, <2>4, <2>5, <2>8
<1> QED BY <1>1, <1>2

(* What is given after the first i proposals.                              *)
Tells(j, v) == AllProposals[j].var = v /\ AllProposals[j].base # NoGuess
TellsFirst(j, v) == Tells(j, v) /\ \A k \in 1..(j - 1) : ~Tells(k, v)
UserTaken == {names[v] : v \in {u \in ObjcVars : ~IsDefaultName(names[u])}}

GivenSoFar(r, i) ==
    /\ UserTaken \subseteq r.taken
    /\ \A v \in ObjcVars : v \in r.chosen <=> IsDefaultName(names[v]) /\ \E j \in 1..i : Tells(j, v)
    /\ \A v \in ObjcVars \ r.chosen : r.names[v] = names[v]
    /\ \A v \in r.chosen : /\ r.names[v] \in r.taken /\ r.names[v] \notin UserTaken /\ r.names[v][1] \in Bases
                           /\ \A k \in 0..(r.names[v][2] - 1) : <<r.names[v][1], k>> \in r.taken
                           /\ \A j \in 1..i : TellsFirst(j, v) => r.names[v][1] = AllProposals[j].base
    /\ \A u, v \in r.chosen : u # v => r.names[u] # r.names[v]
    /\ \A u, v \in r.chosen : \A j, k \in 1..i :
         TellsFirst(j, u) /\ TellsFirst(k, v) /\ j < k /\ r.names[u][1] = r.names[v][1]
         => r.names[u][2] < r.names[v][2]

LEMMA GivenNext ==
    ASSUME ObjcAssumption, AllProposals \in Seq(ProposalSet), NEW i \in 1..Len(AllProposals),
           NEW r \in Progress, GivenSoFar(r, i - 1)
    PROVE  GivenSoFar(Give(r, AllProposals[i]), i)
<1> DEFINE p == AllProposals[i]
           z == Give(r, p)
<1>1. p \in ProposalSet /\ i \in Nat /\ \A j : j \in 1..i <=> j = i \/ j \in 1..(i - 1)
  OBVIOUS
<1>2. \A v \in r.chosen : v \in ObjcVars /\ \E j \in 1..(i - 1) : Tells(j, v)
  BY DEF GivenSoFar, Progress
<1>3. \A v \in r.chosen : ~TellsFirst(i, v)
  BY <1>2 DEF TellsFirst
<1>4. \A j \in 1..(i - 1) : ~(i < j) /\ j # i
  BY <1>1
<1>5. CASE ~Wins(p, r.chosen)
  <2>1. z = r
    BY <1>1, <1>5, GiveOne
  <2>2. ASSUME NEW v \in ObjcVars, Tells(i, v), IsDefaultName(names[v]) PROVE v \in r.chosen
    <3>1. p.var = v /\ p.base # NoGuess /\ v # NotVar
      BY <2>2 DEF Tells, ObjcAssumption
    <3> QED BY <1>5, <2>2, <3>1 DEF Wins
  <2>3. \A v \in ObjcVars : v \in r.chosen <=> IsDefaultName(names[v]) /\ \E j \in 1..i : Tells(j, v)
    BY <1>1, <2>2 DEF GivenSoFar
  <2> HIDE DEF z, p
  <2>4. \A v \in r.chosen : \A j \in 1..i : TellsFirst(j, v) => j \in 1..(i - 1)
    BY <1>1, <1>3
  <2>5. GivenSoFar(r, i)
    BY <2>3, <2>4 DEF GivenSoFar
  <2> QED BY <2>1, <2>5 DEF z, p
<1>6. CASE Wins(p, r.chosen)
  <2> DEFINE v == p.var
  <2>1. PICK name \in NameSet :
          /\ IsUnique(name, p.base, r.taken) /\ v \in ObjcVars /\ p.base \in Bases
          /\ z.names = [r.names EXCEPT ![v] = name]
          /\ z.taken = r.taken \cup {name}
          /\ z.chosen = r.chosen \cup {v}
    BY <1>1, <1>6, GiveOne
  <2>2. /\ IsDefaultName(names[v]) /\ v \notin r.chosen /\ Tells(i, v)
        /\ r.names \in [ObjcVars -> NameSet] /\ r.chosen \in SUBSET ObjcVars
    BY <1>6 DEF Wins, Tells, Progress
  <2>3. TellsFirst(i, v)
    BY <2>1, <2>2 DEF TellsFirst, GivenSoFar
  <2>4. p.base = AllProposals[i].base
    OBVIOUS
  <2> HIDE DEF z, v, p
  <2>5. /\ z.names[v] = name
        /\ \A u \in ObjcVars : u # v => z.names[u] = r.names[u]
    BY <2>1, <2>2
  <2>6. UserTaken \subseteq z.taken
    BY <2>1 DEF GivenSoFar
  <2>7. ASSUME NEW u \in ObjcVars
        PROVE  u \in z.chosen <=> IsDefaultName(names[u]) /\ \E j \in 1..i : Tells(j, u)
    <3>1. CASE u = v
      BY <1>1, <2>1, <2>2, <3>1
    <3>2. CASE u # v
      <4>1. ~Tells(i, u)
        BY <3>2 DEF Tells, v, p
      <4> QED BY <1>1, <2>1, <3>2, <4>1 DEF GivenSoFar
    <3> QED BY <3>1, <3>2
  <2>8. \A u \in ObjcVars \ z.chosen : z.names[u] = names[u]
    BY <2>1, <2>5 DEF GivenSoFar
  <2>9. name \notin r.taken /\ name \notin UserTaken /\ name[1] = p.base
    BY <2>1 DEF IsUnique, GivenSoFar
  <2>10. ASSUME NEW u \in z.chosen
         PROVE  /\ z.names[u] \in z.taken /\ z.names[u] \notin UserTaken /\ z.names[u][1] \in Bases
                /\ \A k \in 0..(z.names[u][2] - 1) : <<z.names[u][1], k>> \in z.taken
                /\ \A j \in 1..i : TellsFirst(j, u) => z.names[u][1] = AllProposals[j].base
    <3>1. CASE u = v
      <4>1. ASSUME NEW j \in 1..i, TellsFirst(j, v) PROVE j = i
        <5>1. CASE j \in 1..(i - 1)
          BY <2>3, <4>1, <5>1 DEF TellsFirst
        <5> QED BY <1>1, <5>1
      <4>2. \A k \in 0..(name[2] - 1) : <<name[1], k>> \in z.taken
        BY <2>1, <2>9 DEF IsUnique
      <4> QED BY <2>1, <2>4, <2>5, <2>9, <3>1, <4>1, <4>2
    <3>2. CASE u # v
      <4>1. u \in r.chosen /\ u \in ObjcVars /\ z.names[u] = r.names[u]
        BY <2>1, <2>2, <2>5, <3>2
      <4>2. \A j \in 1..i : TellsFirst(j, u) => j \in 1..(i - 1)
        BY <1>1, <1>3, <4>1
      <4> QED BY <2>1, <4>1, <4>2 DEF GivenSoFar
    <3> QED BY <3>1, <3>2
  <2>11. \A u \in r.chosen : u # v /\ z.names[u] = r.names[u] /\ r.names[u] \in r.taken /\ z.names[u] # name
    BY <2>2, <2>5, <2>9 DEF GivenSoFar
  <2>12. ASSUME NEW u \in z.chosen, NEW w \in z.chosen, u # w PROVE z.names[u] # z.names[w]
    <3>1. CASE u \in r.chosen /\ w \in r.chosen
      BY <2>11, <2>12, <3>1 DEF GivenSoFar
    <3>2. CASE ~(u \in r.chosen /\ w \in r.chosen)
      <4>1. (u = v /\ w \in r.chosen) \/ (w = v /\ u \in r.chosen)
        BY <2>1, <2>12, <3>2
      <4> QED BY <2>5, <2>11, <4>1
    <3> QED BY <3>1, <3>2
  <2>13. ASSUME NEW u \in z.chosen, NEW w \in z.chosen, NEW j \in 1..i, NEW k \in 1..i,
                TellsFirst(j, u), TellsFirst(k, w), j < k, z.names[u][1] = z.names[w][1]
         PROVE  z.names[u][2] < z.names[w][2]
    <3>1. j \in 1..(i - 1)
      BY <1>1, <2>13
    <3>2. u \in r.chosen
      <4>1. u # v
        BY <2>3, <2>13, <3>1 DEF TellsFirst
      <4> QED BY <2>1, <4>1
    <3>3. CASE w \in r.chosen
      <4>1. k \in 1..(i - 1)
        BY <1>1, <1>3, <2>13, <3>3
      <4> QED BY <2>11, <2>13, <3>1, <3>2, <3>3, <4>1 DEF GivenSoFar
    <3>4. CASE w \notin r.chosen
      <4>1. w = v /\ z.names[w] = name
        BY <2>1, <2>5, <3>4
      <4> DEFINE y == z.names[u]
      <4>2. y \in r.taken /\ y \in NameSet /\ y[1] = p.base
        BY <2>2, <2>9, <2>11, <2>13, <3>2, <4>1
      <4>3. y = <<p.base, y[2]>> /\ y[2] \in Nat
        BY <4>2 DEF NameSet
      <4>4. name = <<p.base, name[2]>> /\ name[2] \in Nat /\ \A l \in 0..(name[2] - 1) : <<p.base, l>> \in r.taken
        BY <2>1 DEF IsUnique
      <4> HIDE DEF y
      <4>5. y # name
        BY <2>9, <4>2
      <4>6. \A l \in 0..(y[2] - 1) : <<p.base, l>> \in r.taken
        BY <2>11, <3>2, <4>2 DEF GivenSoFar, y
      <4>7. ~(name[2] \in 0..(y[2] - 1))
        BY <2>9, <4>4, <4>6
      <4>8. y[2] # name[2]
        BY <4>3, <4>4, <4>5
      <4>9. y[2] < name[2]
        BY <4>3, <4>4, <4>7, <4>8
      <4> QED BY <4>1, <4>9 DEF y
    <3> QED BY <3>3, <3>4
  <2> QED BY <2>6, <2>7, <2>8, <2>10, <2>12, <2>13 DEF GivenSoFar, z, p
<1> QED BY <1>5, <1>6

LEMMA NamesGivenAre ==
    ASSUME ObjcAssumption, AllProposals \in Seq(ProposalSet), names \in [ObjcVars -> NameSet]
    PROVE  \E r \in Progress : NamesGiven = r.names /\ GivenSoFar(r, Len(AllProposals))
<1> DEFINE n == Len(AllProposals)
           c0 == [names |-> names, chosen |-> {}, taken |-> UserTaken]
           E(f) == [i \in 0..n |-> IF i = 0 THEN c0 ELSE Give(f[i - 1], AllProposals[i])]
           F == CHOOSE f : f = E(f)
           step == [i \in Nat |-> [x \in Progress |-> IF i \in 1..n THEN Give(x, AllProposals[i]) ELSE x]]
<1>1. n \in Nat /\ \A i \in 1..n : AllProposals[i] \in ProposalSet
  OBVIOUS
<1>2. NamesGiven = F[n].names
  BY DEF NamesGiven, UserTaken
<1>3. \A f : \A i \in 0..n : E(f)[i] = IF i = 0 THEN c0 ELSE Give(f[i - 1], AllProposals[i])
  OBVIOUS
<1>4. \A f : E(f) = [i \in 0..n |-> E(f)[i]]
  OBVIOUS
<1>5. c0 \in Progress /\ GivenSoFar(c0, 0)
  <2>1. UserTaken \in TakenSets
    <3> DEFINE A == {u \in ObjcVars : ~IsDefaultName(names[u])}
               f == [u \in A |-> names[u]]
    <3>1. IsFiniteSet(A)
      BY FS_Subset DEF ObjcAssumption
    <3>2. UserTaken = {names[v] : v \in A}
      BY DEF UserTaken
    <3>3. IsFiniteSet({names[v] : v \in A})
      <4> HIDE DEF A
      <4>1. f \in [A -> {names[v] : v \in A}] /\ {f[v] : v \in A} = {names[v] : v \in A}
        OBVIOUS
      <4> HIDE DEF f
      <4> QED BY <3>1, <4>1, ImageFinite
    <3> QED BY <3>2, <3>3 DEF TakenSets
  <2>2. c0 \in Progress
    BY <2>1 DEF Progress
  <2>3. c0.chosen = {} /\ c0.names = names /\ c0.taken = UserTaken
    OBVIOUS
  <2> HIDE DEF c0
  <2>4. \A v : v \notin c0.chosen
    BY <2>3
  <2>5. \A j : j \notin 1..0
    OBVIOUS
  <2> QED BY <2>2, <2>3, <2>4, <2>5 DEF GivenSoFar
<1>6. step \in [Nat -> [Progress -> Progress]]
  <2>1. \A i \in Nat, x \in Progress : (IF i \in 1..n THEN Give(x, AllProposals[i]) ELSE x) \in Progress
    BY <1>1, GiveOne
  <2> QED BY <2>1
<1>7. \A i \in 1..n : \A x \in Progress : step[i][x] = Give(x, AllProposals[i])
  BY <1>1
<1> HIDE DEF E, step, n, c0
<1>8. PICK g : IsRecursion(g, n, Progress, c0, step)
  BY <1>1, <1>5, <1>6, RecursionExists
<1>9. g \in [0..n -> Progress] /\ g[0] = c0 /\ \A i \in 1..n : g[i] = Give(g[i - 1], AllProposals[i])
  <2>1. g \in [0..n -> Progress] /\ g[0] = c0 /\ \A i \in 1..n : g[i] = step[i][g[i - 1]]
    BY <1>8 DEF IsRecursion
  <2>2. \A i \in 1..n : g[i - 1] \in Progress
    BY <1>1, <2>1
  <2> QED BY <1>7, <2>1, <2>2
<1>10. g = E(g)
  <2>1. \A i \in 0..n : i = 0 \/ i \in 1..n
    BY <1>1
  <2>2. \A i \in 0..n : g[i] = E(g)[i]
    BY <1>3, <1>9, <2>1
  <2>3. g = [i \in 0..n |-> g[i]]
    BY <1>9
  <2> QED BY <1>4, <2>2, <2>3
<1>11. F = E(F)
  BY <1>10
<1> HIDE DEF F
<1>12. F[0] = c0 /\ \A i \in 1..n : F[i] = Give(F[i - 1], AllProposals[i])
  <2>1. 0 \in 0..n /\ \A i \in 1..n : i \in 0..n /\ i # 0
    BY <1>1
  <2> QED BY <1>3, <1>11, <2>1
<1> DEFINE ok == {i \in 0..n : F[i] \in Progress /\ GivenSoFar(F[i], i)}
<1>13. 0 \in ok
  <2>1. 0 \in 0..n
    BY <1>1
  <2> QED BY <1>5, <1>12, <2>1
<1>14. ASSUME NEW i \in 1..n, i - 1 \in ok PROVE i \in ok
  <2>1. F[i - 1] \in Progress /\ GivenSoFar(F[i - 1], i - 1) /\ i \in 0..n
    BY <1>1, <1>14
  <2>2. Give(F[i - 1], AllProposals[i]) \in Progress
    BY <1>1, <2>1, GiveOne
  <2>3. GivenSoFar(Give(F[i - 1], AllProposals[i]), i)
    BY <2>1, GivenNext DEF n
  <2> QED BY <1>12, <2>1, <2>2, <2>3
<1> HIDE DEF ok
<1>15. n \in ok
  <2>1. 0..n \subseteq ok
    BY <1>1, <1>13, <1>14, IntervalInduction
  <2> QED BY <1>1, <2>1
<1> QED BY <1>2, <1>15 DEF ok, n

(* The best of what is said of a variable is the first proposal for it.    *)
LEMMA BestIsFirst ==
    ASSUME AllProposals \in Seq(ProposalSet), InOrder(AllProposals), NEW v \in ObjcVars,
           Says(v) = About(Elements(AllProposals), v), Says(v) # {}
    PROVE  \E j \in 1..Len(AllProposals) : TellsFirst(j, v) /\ Best(v) = AllProposals[j]
<1> DEFINE a == AllProposals
           n == Len(a)
           J == {j \in 1..n : Tells(j, v)}
<1>1. n \in Nat /\ \A j \in 1..n : a[j] \in ProposalSet
  OBVIOUS
<1>2. \A s : s \in Says(v) <=> \E j \in J : s = a[j]
  BY DEF About, Elements, Tells
<1>3. J \in SUBSET Nat /\ J # {}
  BY <1>1, <1>2
<1>4. PICK j \in J : \A k \in J : j <= k
  <2> HIDE DEF J
  <2> QED BY <1>3, LeastElement
<1>5. TellsFirst(j, v) /\ j \in 1..n
  <2>1. ASSUME NEW k \in 1..(j - 1), Tells(k, v) PROVE FALSE
    <3>1. k \in 1..n /\ ~(j <= k)
      BY <1>1, <1>4
    <3> QED BY <1>4, <2>1, <3>1
  <2> QED BY <1>4, <2>1 DEF TellsFirst
<1>6. ASSUME NEW t \in Says(v) \ {a[j]} PROVE Precedes(a[j].at, t.at)
  <2>1. PICK k \in J : t = a[k]
    BY <1>2, <1>6
  <2>2. j < k
    BY <1>1, <1>4, <1>6, <2>1
  <2> QED BY <1>5, <2>1, <2>2 DEF InOrder
<1>7. \A s \in Says(v) : s.at \in Ranks
  BY <1>1, <1>2 DEF ProposalSet
<1>8. a[j] \in Says(v)
  BY <1>2, <1>4
<1> HIDE DEF a, J
<1>9. ASSUME NEW s \in Says(v), \A t \in Says(v) \ {s} : Precedes(s.at, t.at) PROVE s = a[j]
  <2> SUFFICES ASSUME s # a[j] PROVE FALSE
    OBVIOUS
  <2>1. Precedes(s.at, a[j].at) /\ Precedes(a[j].at, s.at)
    BY <1>6, <1>8, <1>9
  <2> QED BY <1>7, <1>8, <2>1, PrecedesOneWay
<1>10. Best(v) = a[j]
  BY <1>6, <1>8, <1>9 DEF Best
<1> QED BY <1>5, <1>10 DEF a

(* A decompilation, and the invariant: names are distinct, and a default   *)
(* name is the variable's own.                                             *)
NamesApart == \A u, v \in ObjcVars : u # v => names[u] # names[v]
ObjcInv == method \in Methods /\ ObjcTypeOK /\ NamesApart

LEMMA RenameRanked ==
    ASSUME ObjcAssumption, ObjcInv, RenameLvars
    PROVE  ObjcInv' /\ RankedStep
<1> DEFINE a == AllProposals
           n == Len(a)
<1>1. /\ ProperMethod(method) /\ names \in [ObjcVars -> NameSet]
      /\ \A v \in ObjcVars : IsDefaultName(names[v]) => names[v] = DefaultName(v)
  BY DEF ObjcAssumption, ObjcInv, ObjcTypeOK, NameSet
<1>2. /\ a \in Seq(ProposalSet) /\ InOrder(a)
      /\ \A v \in ObjcVars : Says(v) = About(Elements(a), v)
  BY <1>1, AllProposalsOrdered
<1>3. PICK r \in Progress : names' = r.names /\ GivenSoFar(r, n)
  BY <1>1, <1>2, NamesGivenAre DEF RenameLvars
<1>4. r.names \in [ObjcVars -> NameSet] /\ r.chosen \in SUBSET ObjcVars
  BY DEF Progress
<1>5. n \in Nat /\ \A j \in 1..n : a[j] \in ProposalSet
  BY <1>2
<1>6. \A v \in ObjcVars : Says(v) # {} => \E j \in 1..n : TellsFirst(j, v) /\ Best(v) = a[j]
  BY <1>2, BestIsFirst
<1>7. \A v \in ObjcVars : Says(v) # {} <=> \E j \in 1..n : Tells(j, v)
  BY <1>2 DEF About, Elements, Tells
<1> HIDE DEF a, n
<1>8. \A v \in ObjcVars : v \in r.chosen <=> IsDefaultName(names[v]) /\ Says(v) # {}
  BY <1>3, <1>7 DEF GivenSoFar
<1>9. \A v \in ObjcVars \ r.chosen : names'[v] = names[v]
  BY <1>3 DEF GivenSoFar
<1>10. \A v \in r.chosen : /\ names'[v] \notin UserTaken /\ names'[v][1] \in Bases
                           /\ \A j \in 1..n : TellsFirst(j, v) => names'[v][1] = a[j].base
  BY <1>3 DEF GivenSoFar, a
<1>11. \A v \in r.chosen : ~IsDefaultName(names'[v])
  BY <1>10 DEF IsDefaultName, ObjcAssumption
<1>12. ASSUME NEW v \in ObjcVars
       PROVE  IF ~IsDefaultName(names[v]) \/ Says(v) = {} THEN names'[v] = names[v]
              ELSE names'[v][1] = Best(v).base
  <2>1. CASE v \in r.chosen
    <3>1. IsDefaultName(names[v]) /\ Says(v) # {}
      BY <1>8, <2>1
    <3>2. PICK j \in 1..n : TellsFirst(j, v) /\ Best(v) = a[j]
      BY <1>6, <3>1
    <3> QED BY <1>10, <2>1, <3>1, <3>2
  <2>2. CASE v \notin r.chosen
    BY <1>8, <1>9, <2>2
  <2> QED BY <2>1, <2>2
<1>13. ASSUME NEW u \in ObjcVars, NEW v \in ObjcVars, u # v PROVE names'[u] # names'[v]
  <2>1. CASE u \in r.chosen /\ v \in r.chosen
    BY <1>3, <1>13, <2>1 DEF GivenSoFar
  <2>2. CASE u \notin r.chosen /\ v \notin r.chosen
    BY <1>9, <1>13, <2>2 DEF ObjcInv, NamesApart
  <2>3. ASSUME NEW x \in r.chosen, NEW y \in ObjcVars \ r.chosen PROVE names'[x] # names'[y]
    <3>1. CASE IsDefaultName(names[y])
      BY <1>9, <1>11, <2>3, <3>1
    <3>2. CASE ~IsDefaultName(names[y])
      <4>1. names[y] \in UserTaken
        BY <3>2 DEF UserTaken
      <4> QED BY <1>9, <1>10, <2>3, <4>1
    <3> QED BY <3>1, <3>2
  <2> QED BY <1>13, <2>1, <2>2, <2>3
<1>14. ASSUME NEW u \in ObjcVars, NEW v \in ObjcVars, names'[u] # names[u], names'[v] # names[v],
              names'[u][1] = names'[v][1], Precedes(Best(u).at, Best(v).at)
       PROVE  names'[u][2] < names'[v][2]
  <2>1. u \in r.chosen /\ v \in r.chosen
    BY <1>9, <1>14
  <2>2. Says(u) # {} /\ Says(v) # {}
    BY <1>8, <2>1
  <2>3. PICK j \in 1..n : TellsFirst(j, u) /\ Best(u) = a[j]
    BY <1>6, <2>2
  <2>4. PICK k \in 1..n : TellsFirst(k, v) /\ Best(v) = a[k]
    BY <1>6, <2>2
  <2>5. a[j].at \in Ranks /\ a[k].at \in Ranks /\ Precedes(a[j].at, a[k].at)
    BY <1>5, <1>14, <2>3, <2>4 DEF ProposalSet
  <2>6. ~Precedes(a[k].at, a[j].at) /\ a[j].at # a[k].at
    BY <2>5, PrecedesOneWay
  <2>7. ~(k < j) /\ j # k
    BY <1>2, <2>6 DEF InOrder, a, n
  <2>8. j < k
    BY <1>5, <2>7
  <2> QED BY <1>3, <1>14, <2>1, <2>3, <2>4, <2>8 DEF GivenSoFar
<1>15. ObjcInv'
  <2>1. UNCHANGED <<method, options, namings>>
    BY DEF RenameLvars
  <2>2. ASSUME NEW v \in ObjcVars, IsDefaultName(names'[v]) PROVE names'[v] = DefaultName(v)
    BY <1>1, <1>9, <1>11, <2>2
  <2>3. names' \in [ObjcVars -> (Bases \cup {"a", "v"}) \X Nat]
    BY <1>3, <1>4 DEF NameSet
  <2> QED BY <1>13, <2>1, <2>2, <2>3 DEF ObjcInv, ObjcTypeOK, NamesApart
<1> QED BY <1>12, <1>13, <1>14, <1>15 DEF RankedStep

LEMMA ObjcInvInit == ObjcAssumption /\ OInit => ObjcInv
<1> SUFFICES ASSUME ObjcAssumption, OInit PROVE ObjcInv
  OBVIOUS
<1>1. \A v \in ObjcVars : v \in Nat /\ names[v] = DefaultName(v)
  BY DEF OInit, ObjcAssumption
<1>2. \A v \in ObjcVars : DefaultName(v) \in (Bases \cup {"a", "v"}) \X Nat /\ DefaultName(v)[2] = v
  BY <1>1 DEF DefaultName
<1>3. names \in [ObjcVars -> (Bases \cup {"a", "v"}) \X Nat]
  BY <1>2 DEF OInit
<1>4. NamesApart
  BY <1>1, <1>2 DEF NamesApart
<1>5. 0 \in 0..MaxNamings
  BY DEF ObjcAssumption
<1> QED BY <1>1, <1>3, <1>4, <1>5 DEF OInit, ObjcInv, ObjcTypeOK

LEMMA ObjcInvNext == ObjcAssumption /\ ObjcInv /\ [ONext]_objcVars => ObjcInv' /\ RankedStep
<1> SUFFICES ASSUME ObjcAssumption, ObjcInv, [ONext]_objcVars PROVE ObjcInv' /\ RankedStep
  OBVIOUS
<1>1. CASE RenameLvars
  BY <1>1, RenameRanked
<1>2. ASSUME ~RenameLvars PROVE ObjcInv'
  <2>1. ASSUME NEW chosen \in OptionChoices, SetOptions(chosen) PROVE ObjcInv'
    BY <2>1 DEF SetOptions, ObjcInv, ObjcTypeOK, NamesApart
  <2>2. ASSUME NEW v \in ObjcVars, NEW name \in GivenNames \cup {DefaultName(v)}, NameVar(v, name) PROVE ObjcInv'
    <3>1. /\ names \in [ObjcVars -> (Bases \cup {"a", "v"}) \X Nat] /\ names' = [names EXCEPT ![v] = name]
          /\ namings \in 0..MaxNamings /\ namings < MaxNamings /\ namings' = namings + 1
          /\ \A u \in ObjcVars \ {v} : names[u] # name
          /\ method' = method /\ options' = options
      BY <2>2 DEF NameVar, ObjcInv, ObjcTypeOK
    <3>2. name \in (Bases \cup {"a", "v"}) \X Nat /\ (IsDefaultName(name) => name = DefaultName(v))
      <4>1. CASE name \in GivenNames
        <5>1. name \in Bases \X Nat
          BY <4>1 DEF ObjcAssumption
        <5>2. name[1] \in Bases /\ name[1] \notin {"a", "v"}
          BY <5>1 DEF ObjcAssumption
        <5> QED BY <5>1, <5>2 DEF IsDefaultName
      <4>2. CASE name = DefaultName(v)
        <5>1. v \in Nat
          BY DEF ObjcAssumption
        <5> QED BY <4>2, <5>1 DEF DefaultName
      <4> QED BY <4>1, <4>2
    <3>3. /\ names'[v] = name /\ \A u \in ObjcVars : u # v => names'[u] = names[u]
          /\ names' \in [ObjcVars -> (Bases \cup {"a", "v"}) \X Nat]
      BY <3>1, <3>2
    <3>4. NamesApart'
      BY <3>1, <3>3 DEF ObjcInv, NamesApart
    <3>5. \A u \in ObjcVars : IsDefaultName(names'[u]) => names'[u] = DefaultName(u)
      BY <3>2, <3>3 DEF ObjcInv, ObjcTypeOK
    <3>6. namings' \in 0..MaxNamings
      BY <3>1 DEF ObjcAssumption
    <3> QED BY <3>1, <3>3, <3>4, <3>5, <3>6 DEF ObjcInv, ObjcTypeOK
  <2>3. CASE UNCHANGED objcVars
    BY <2>3 DEF objcVars, ObjcInv, ObjcTypeOK, NamesApart
  <2> QED BY <1>2, <2>1, <2>2, <2>3 DEF ONext
<1> QED BY <1>1, <1>2 DEF RankedStep

(* The variables of an Objective-C method: a default name is the variable's*)
(* own, whatever was proposed and the user gave (NameVar, RenameLvars).    *)
THEOREM ObjcTypes == OSpec => []ObjcTypeOK
<1>1. ObjcAssumption
  BY ObjcAssumption
<1>2. ObjcInv => ObjcTypeOK
  BY DEF ObjcInv
<1> QED BY <1>1, <1>2, ObjcInvInit, ObjcInvNext, PTL DEF OSpec

(* ObjcLvarRenameHook: the best proposal names a variable, a better one has*)
(* the lower number, and no two variables have one name, for every method, *)
(* every set of sources and all the user names in between.                 *)
THEOREM ProposalsRanked == OSpec => ProposalsAreRanked
<1>1. ObjcAssumption
  BY ObjcAssumption
<1>2. ObjcInv /\ [ONext]_objcVars => [RankedStep]_objcVars
  BY <1>1, ObjcInvNext
<1> QED BY <1>1, <1>2, ObjcInvInit, ObjcInvNext, PTL DEF OSpec, ProposalsAreRanked

=============================================================================
