------------------------- MODULE MCServiceLifecycle -------------------------
EXTENDS ServiceLifecycle

(* Three of the five configurations: precise_context and model_router are  *)
(* updated like agent_rules (and the strategy that model_router replaces   *)
(* is AutoRouter's).                                                       *)
MCConfigs == {"agent_rules", Tools, Activities}

MCContents ==
    [d \in MCConfigs |->
        CASE d = Tools -> {"tools on", "tools off"}
          [] d = Activities -> {"on", "off", "no key"}
          [] OTHER -> {"rules", "other rules", "broken"}]

MCBroken == {"broken"}
MCKeyless == {"no key"}
MCDisabled == {"off"}
=============================================================================
