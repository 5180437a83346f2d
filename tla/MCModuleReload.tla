--------------------------- MODULE MCModuleReload ---------------------------
(* Modules of the log family.  core gets the optimizer's class from its    *)
(* package's __init__ (oslog); os_log is imported by the optimizer and by  *)
(* the Swift log hook, which the server's list has before it.              *)
EXTENDS ModuleReload

MCModules == {"core", "oslog", "log_macro_optimizer", "os_log", "log_hook"}
MCImports ==
    [m \in MCModules |-> CASE m = "core" -> {"oslog", "log_hook"}
                          [] m = "oslog" -> {"log_macro_optimizer"}
                          [] m \in {"log_hook", "log_macro_optimizer"} -> {"os_log"}
                          [] m = "os_log" -> {}]
MCHookModules == {"log_hook", "log_macro_optimizer"}
MCFirstOrder == <<"os_log", "log_macro_optimizer", "oslog", "log_hook", "core">>
MCServerList == <<"log_hook", "os_log", "log_macro_optimizer">>
=============================================================================
