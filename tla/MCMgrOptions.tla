----------------------------- MODULE MCMgrOptions -----------------------------
(* Small instances of MgrOptions for TLC. *)
EXTENDS MgrOptions

\* Every option, and everything the commands add.
MCCatalogue ==
    Plain(DOMAIN Named) \cup ManagerOptions \cup WebhookOptions
    \cup {<<"WithExtraMetricsHandler", "extra">>}
===============================================================================
