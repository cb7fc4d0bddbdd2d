---------------------------- MODULE MCCredCache ----------------------------
(* Instances of CredCache: callers 1 and 2 are two streams of one proxy    *)
(* generation sharing cache 0, caller 3 uses cache 1 and caller 4 is a     *)
(* stream of the next generation, with another link, on cache 0.           *)
EXTENDS CredCache

MCStreamID == [c \in Callers |-> IF c = 3 THEN 2 ELSE IF c = 2 THEN 1 ELSE 0]
MCLinkOf == [c \in Callers |-> IF c = 4 THEN "l2" ELSE "l1"]
MCCtxOf == [c \in Callers |-> IF c = 4 THEN "new" ELSE "old"]
=============================================================================
