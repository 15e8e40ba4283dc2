------------------------------- MODULE SecretMap -------------------------------
(* What the in-memory credential store promises: a map that every operation   *)
(* changes or reads at one instant.                                           *)
CONSTANTS Procs, Keys, Values, None

VARIABLES
    map,  \* the credential under each key
    got   \* what each goroutine's last lookup returned, with its key

Init ==
    /\ map = [k \in Keys |-> None]
    /\ got = [p \in Procs |-> None]

Put(k, v) == map' = [map EXCEPT ![k] = v] /\ UNCHANGED got

Drop(K) == map' = [k \in Keys |-> IF k \in K THEN None ELSE map[k]] /\ UNCHANGED got

Get(p, k) == got' = [got EXCEPT ![p] = <<k, map[k]>>] /\ UNCHANGED map

Next ==
    \/ \E k \in Keys, v \in Values : Put(k, v)
    \/ \E K \in SUBSET Keys : Drop(K)
    \/ \E p \in Procs, k \in Keys : Get(p, k)

Spec == Init /\ [][Next]_<<map, got>>
================================================================================
