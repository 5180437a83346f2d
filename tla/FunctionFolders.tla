--------------------------- MODULE FunctionFolders --------------------------
(***************************************************************************)
(* The dyld shared cache: the functions are filed into the folders of the  *)
(* Functions window, by module, and the stubs out of the way               *)
(* (plugins/dsc/organize_functions/organize_functions.py).                 *)
(***************************************************************************)
EXTENDS Integers, Sequences, FiniteSets

CONSTANTS
    Functions, Modules,
    SegmentOf,      \* function -> its segment: kind and module
    Slashed,        \* the functions whose name has a slash in it
    HasDsc,         \* IDA 9.4 or later, which knows what is loaded
    UserNames,      \* bound: names of the user's folders
    UserFolders,    \* bound: the folders the user makes
    MaxMoves        \* bound: what the user does

(* The kind of a segment: "Stubs" and the other kinds of dyld's stubs,     *)
(* "cache" of dyld itself, "bare" without a module, or "section".          *)
ASSUME FoldersAssumption ==
    /\ IsFiniteSet(Functions) /\ Slashed \subseteq Functions
    /\ \A f \in Functions : SegmentOf[f].kind = "section" => SegmentOf[f].module \in Modules
    /\ UserFolders \subseteq Seq(UserNames)
    /\ HasDsc \in BOOLEAN /\ MaxMoves \in Nat

VARIABLES
    known,          \* the functions IDA has made
    loaded,         \* the modules that are loaded
    place,          \* function -> its folder, <<>> for the root
    folders,        \* the folders there are
    moves

dirVars == <<known, loaded, place, folders, moves>>

Root == <<>>
StubFolder == "Dyld Stubs"
OtherFolder == "Other"
PathsTo(path) == {SubSeq(path, 1, n) : n \in 1..Len(path)}

----------------------------------------------------------------------------
(* _is_loaded_module_section: not dyld's own, and not without a module.    *)
IsLoadedSection(s) == s.kind = "section" /\ (~HasDsc \/ s.module \in loaded)

(* _folder_for_segment.                                                    *)
FolderOf(f) ==
    LET s == SegmentOf[f]
    IN  IF s.kind \notin {"cache", "bare", "section"} THEN <<StubFolder, s.kind>>
        ELSE IF IsLoadedSection(s) THEN <<s.module>>
        ELSE <<OtherFolder>>

\* Mutant: the folders on the way are not made.
LeavesOnly == {FolderOf(f) : f \in known}

(* _make_folder, for every segment that has a function.                    *)
Made == UNION {PathsTo(FolderOf(f)) : f \in known}

(* _move_segment_functions: at the root, or wherever it is.                *)
Moves(f, onlyRoot) == f \in known \ Slashed /\ (onlyRoot => place[f] = Root)
Moved(onlyRoot) == [f \in Functions |-> IF Moves(f, onlyRoot) THEN FolderOf(f) ELSE place[f]]

(* _remove_empty_folders: what was collected, the deepest first.           *)
Empty(dirs, where, path) ==
    /\ \A f \in known : where[f] # path
    /\ \A p \in dirs : ~(Len(p) = Len(path) + 1 /\ SubSeq(p, 1, Len(path)) = path)

\* Mutant: the folders are visited from the root down.
RootFirst(k, deepest) == k

DepthOf(k, deepest) == deepest + 1 - k

WithoutEmpty(dirs, where, depth) == dirs \ {p \in dirs : Len(p) = depth /\ Empty(dirs, where, p)}
Deepest(dirs) == CHOOSE n \in {0} \cup {Len(p) : p \in dirs} : \A p \in dirs : Len(p) <= n

Pruned(dirs, where) ==
    LET deepest == Deepest(dirs)
        left[k \in 0..deepest] ==
          IF k = 0 THEN dirs ELSE WithoutEmpty(left[k - 1], where, DepthOf(k, deepest))
    IN  left[deepest]

----------------------------------------------------------------------------
FInit ==
    /\ known = {}
    /\ loaded = {} /\ folders = {} /\ moves = 0
    /\ place = [f \in Functions |-> Root]

(* The user loads a module, or IDA makes functions of what it finds.       *)
LoadModule(m) ==
    /\ m \notin loaded /\ loaded' = loaded \cup {m}
    /\ UNCHANGED <<known, place, folders, moves>>
MakeFunction(f) ==
    /\ f \notin known /\ known' = known \cup {f}
    /\ UNCHANGED <<loaded, place, folders, moves>>

(* The user makes a folder, or files a function.                           *)
MakeFolder(path) ==
    /\ moves < MaxMoves /\ moves' = moves + 1 /\ folders' = folders \cup PathsTo(path)
    /\ UNCHANGED <<known, loaded, place>>
FileFunction(f, path) ==
    /\ moves < MaxMoves /\ moves' = moves + 1
    /\ f \in known /\ path \in folders \cup {Root} /\ place' = [place EXCEPT ![f] = path]
    /\ UNCHANGED <<known, loaded, folders>>

(* organize_functions: new functions only, or a full pass.                 *)
OrganizeNew ==
    /\ place' = Moved(TRUE) /\ folders' = folders \cup Made
    /\ UNCHANGED <<known, loaded, moves>>
OrganizeAll ==
    /\ place' = Moved(FALSE) /\ folders' = Pruned(folders \cup Made, Moved(FALSE))
    /\ UNCHANGED <<known, loaded, moves>>

FNext ==
    \/ OrganizeNew \/ OrganizeAll
    \/ \E m \in Modules : LoadModule(m)
    \/ \E f \in Functions : MakeFunction(f) \/ \E path \in folders \cup {Root} : FileFunction(f, path)
    \/ \E path \in UserFolders : MakeFolder(path)

FSpec == FInit /\ [][FNext]_dirVars

----------------------------------------------------------------------------
FoldersTypeOK ==
    /\ known \subseteq Functions /\ loaded \subseteq Modules /\ moves \in 0..MaxMoves
    /\ \A path \in folders : PathsTo(path) \subseteq folders
    /\ \A f \in Functions : place[f] \in folders \cup {Root}

Below(path) == {f \in known : path \in PathsTo(place'[f])}

(* organize_functions: whatever was loaded, found and filed before, a full *)
(* pass leaves each function that has a path in its folder and no folder   *)
(* that is empty, so that every other folder at the root is that of a      *)
(* loaded module.  A pass over new functions takes away none that was      *)
(* filed, empties the root, and names no folder after a module that is not *)
(* loaded.                                                                 *)
OrganizeStep ==
    /\ OrganizeAll =>
        /\ \A f \in known \ Slashed :
             LET s == SegmentOf[f]
             IN  CASE s.kind = "section" -> place'[f] = IF HasDsc => s.module \in loaded THEN <<s.module>> ELSE <<OtherFolder>>
                   [] s.kind \in {"cache", "bare"} -> place'[f] = <<OtherFolder>>
                   [] OTHER -> place'[f] = <<StubFolder, s.kind>>
        /\ \A path \in folders' : Below(path) # {}
    /\ OrganizeNew =>
        /\ \A f \in known : IF place[f] # Root THEN place'[f] = place[f] ELSE place'[f] # Root <=> f \notin Slashed
        /\ \A path \in folders' \ folders : path[1] \in {StubFolder, OtherFolder} \cup (IF HasDsc THEN loaded ELSE Modules)

PassesOrganize == [][OrganizeStep]_dirVars

=============================================================================
