------------------------- MODULE MCPluginLifecycle -------------------------
(* Small component tables for TLC: an anchor and a toggle as core.py has   *)
(* them first, then one component of every kind.                           *)
EXTENDS PluginLifecycle

MCKind == <<"ui", "ui", "hook", "opt", "script", "ui">>
MCDynamic == {6}
MCUiOnly == {1, 2, 3, 6}
MCConfigChoices == {1..6, {1, 2, 4, 6}, {1, 3, 4, 5}}

=============================================================================
