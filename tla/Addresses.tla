----------------------------- MODULE Addresses -----------------------------
(***************************************************************************)
(* What the modules about the addresses of one domain share: the addresses *)
(* themselves, the flag by which vkHosts goes without DNS, and the loops   *)
(* that append to a list what a map (seen) does not hold yet.              *)
(***************************************************************************)
EXTENDS Naturals, Sequences, FiniteSets

CONSTANTS IPs,          \* addresses DNS may answer
          NoIP          \* no address: "" in the code

VARIABLE dnsOK          \* vkHosts.dnsOK

InSeq(x, s) == \E k \in 1..Len(s) : s[k] = x

(* The elements of s that are not to be skipped, each where it occurs for  *)
(* the first time.                                                         *)
Distinct(s, skip) ==
    LET upTo[n \in 0..Len(s)] ==
            IF n = 0 THEN <<>>
            ELSE IF s[n] \in skip \/ InSeq(s[n], upTo[n - 1]) THEN upTo[n - 1]
            ELSE Append(upTo[n - 1], s[n])
    IN  upTo[Len(s)]
=============================================================================
