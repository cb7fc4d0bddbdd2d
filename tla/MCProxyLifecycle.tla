-------------------------- MODULE MCProxyLifecycle --------------------------
EXTENDS ProxyLifecycle

(* Two starts, each with its wrap key and its mode. *)
MCKeyOf == [g \in Gens |-> IF g = 1 THEN "k1" ELSE "k2"]
MCModeOf == [g \in Gens |-> IF g = 1 THEN "vk_link" ELSE "wb"]
=============================================================================
