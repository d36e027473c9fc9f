---------------------------- MODULE MCTraefikConfig ----------------------------
(* A small instance of TraefikConfig for TLC. *)
EXTENDS TraefikConfig

MCStrings == {"", "Unknown", "Debug", "Loud"} \cup KnownProviders

MCBase == [decodes |-> TRUE, replicas |-> 1, provider |-> KubernetesIngress,
           logLevel |-> "Debug", dashboard |-> FALSE]

\* Every field on each side of its guard, alone and together with NGINX.
MCProviderConfigs ==
    UNION {{[b EXCEPT !.decodes = FALSE], b, [b EXCEPT !.replicas = -1],
            [b EXCEPT !.logLevel = ""], [b EXCEPT !.logLevel = "Loud"],
            [b EXCEPT !.dashboard = TRUE]} :
             b \in {MCBase, [MCBase EXCEPT !.provider = KubernetesIngressNGINX]}}
    \cup {[MCBase EXCEPT !.provider = ""], [MCBase EXCEPT !.provider = "Unknown"]}
================================================================================
