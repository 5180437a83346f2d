------------------------------ MODULE MCTools -------------------------------
(* The renamers and typers that are not about Swift or blocks, one at a    *)
(* time (`which`): the calls of kernelcaches, the functions of shared      *)
(* caches, the variables of Objective-C methods.                           *)
EXTENDS FunctionFolders, PacApplier, FuncRenamer, ObjcLvarRenamer, TLC
LOCAL INSTANCE SequencesExt

VARIABLE which

Operand(base, id, path) == [base |-> base, id |-> id, path |-> path]
Nothing == Operand("none", "", <<>>)
Call(h, key, op) == [h |-> h, key |-> key, op |-> op, parents |-> <<"move">>, on |-> "IORegistryEntry", size |-> 0]
MCCalls == {
    Call("symbol", "rate", Operand("global", "g", <<>>)),
    [Call("symbol", "mode", Operand("local", "v", <<>>)) EXCEPT !.parents = <<"cast", "move">>],
    [Call("plane", "rate", Operand("global", "g", <<>>)) EXCEPT !.parents = <<"cast", "arg">>],
    Call("metaclass", "mode", Operand("global", "h", <<"address">>)),
    [Call("boot", "no-check", Operand("local", "v", <<"address">>)) EXCEPT !.size = 4],
    Call("boot", "no-check", Operand("local", "w", <<"extension">>)),
    Call("get", "rate", Operand("local", "v", <<>>)),
    [Call("get", "mode", Operand("local", "v", <<>>)) EXCEPT !.on = "OSObject"],
    Call("set", "rate", Operand("global", "h", <<"extension">>)),
    Call("plane", "not const", Operand("global", "h", <<>>)),
    Call("log", "rate", Nothing), Call("log", "not const", Nothing)}
MCPrograms ==
    {("f" :> calls) @@ ("k" :> <<Call("symbol", "mode", Operand("global", "g", <<>>)), Call("log", "mode", Nothing)>>) :
        calls \in UNION {[1..n -> MCCalls] : n \in 1..2}}
MCFixed == [key \in {"rate", "mode", "no-check"} |-> IF key = "no-check" THEN "no_check" ELSE key]

MCParent == [c \in {"OSObject", "A", "B", "C", "D", "E"} |->
    CASE c \in {"B", "C"} -> "A" [] c \in {"A", "D"} -> "OSObject" [] OTHER -> c]
Virtual(at, cands, nargs, guess) == [at |-> at, cands |-> cands, nargs |-> nargs, guess |-> guess]
MCVirtual == {
    Virtual("v", <<"B", "A">>, 2, 1), Virtual("v", <<"B", "C">>, 1, 3), Virtual("v", <<"D", "B">>, 1, 0),
    Virtual("v", <<"E", "D">>, 2, 1), Virtual("v", <<"D", "OSObject">>, 3, 3), Virtual("v", <<>>, 2, 0),
    Virtual("x", <<"C">>, 2, 0), Virtual("x", <<"A", "D">>, 1, 2), Virtual("y", <<"B", "C">>, 2, 1)}
MCVirtualPrograms ==
    {("f" :> calls) @@ ("k" :> <<Virtual("x", <<"B", "D">>, 1, 0), Virtual("y", <<"E">>, 2, 2)>>) :
        calls \in {SetToSeq(S) : S \in kSubset(1, MCVirtual) \cup kSubset(2, MCVirtual) \cup kSubset(3, MCVirtual)}}
MCFields == <<"y", "x">>

Segment(kind, module) == [kind |-> kind, module |-> module]
MCSegment ==
    ("main" :> Segment("section", "lib")) @@ ("stub" :> Segment("Stubs", "lib"))
    @@ ("other" :> Segment("section", "app")) @@ ("op/" :> Segment("section", "app")) @@ ("island" :> Segment("Stub Islands", ""))
MCUserFolders == {<<"lib", "done">>}

Keyword(pieces, passed) == [pieces |-> pieces, passed |-> passed, getter |-> "no guess", target |-> 0]
Getter(name, target, passed) == [pieces |-> <<>>, passed |-> passed, getter |-> name, target |-> target]
MCSends == {
    Getter("title", 5, <<>>), Getter("frame", 5, <<>>), Getter("title", 0, <<>>), Getter("title", 6, <<4>>),
    Keyword(<<"title", "frame">>, <<5, 6>>), Keyword(<<"no guess", "title">>, <<5, 4>>),
    Keyword(<<"frame">>, <<0>>), Keyword(<<"title">>, <<6, 5>>), Keyword(<<"observer">>, <<1>>)}
MCMethods ==
    {[method |-> m, pieces |-> pieces, calls |-> calls] :
        m \in BOOLEAN, pieces \in {<<"frame", "title">>, <<"no guess", "frame">>, <<"frame">>},
        calls \in {<<a, b>> : a, b \in MCSends}}
MCOptions == {{"args"}, {"getters", "callee-args"}, {"args", "getters", "callee-args"}}
MCGivenNames == {<<"title", 0>>}

Init ==
    /\ which \in {"rename", "pac", "folders", "objc"}
    /\ RInit /\ (which # "rename" => Len(prog["f"]) = 1 /\ prog["f"][1].h = "get" /\ prog["f"][1].on = "OSObject" /\ found = Handlers)
    /\ AInit /\ (which # "pac" => vcalls["f"] = <<Virtual("v", <<>>, 2, 0)>>)
    /\ FInit
    /\ OInit /\ (which # "objc" => method = (CHOOSE p \in MCMethods : TRUE) /\ options = {"args"})

Next ==
    /\ UNCHANGED which
    /\ \/ which = "rename" /\ RNext /\ UNCHANGED <<pacVars, dirVars, objcVars>>
       \/ which = "pac" /\ ANext /\ UNCHANGED <<renVars, dirVars, objcVars>>
       \/ which = "folders" /\ FNext /\ UNCHANGED <<renVars, pacVars, objcVars>>
       \/ which = "objc" /\ ONext /\ UNCHANGED <<renVars, pacVars, dirVars>>

vars == <<which, renVars, pacVars, dirVars, objcVars>>
Spec == Init /\ [][Next]_vars

(* The type invariants of the modules.                                     *)
TypeOK == RenamerTypeOK /\ PacTypeOK /\ FoldersTypeOK /\ ObjcTypeOK
=============================================================================
