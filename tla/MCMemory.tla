------------------------------ MODULE MCMemory ------------------------------
(***************************************************************************)
(* An instance of Memory for TLC.                                          *)
(***************************************************************************)
EXTENDS Memory, TLC

CONSTANTS k1, k2

MCKeySize == k1 :> 1 @@ k2 :> 2

NoLimit == [server |-> 0, policy |-> "NO_EVICTION"]
LimitOf(n, policies) == [server : {n}, policy : policies]

MCConfigs == {NoLimit} \cup LimitOf(3, {"NO_EVICTION", "VOLATILE", "ALLKEYS"})

=============================================================================
