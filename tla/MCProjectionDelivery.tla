---------------------- MODULE MCProjectionDelivery ----------------------
EXTENDS ProjectionDelivery, TLC

CONSTANTS m1, m2, r1

(* The match whose caches always fail takes only a place in the queue.     *)
MCMaxGeneration == (m1 :> 1) @@ (m2 :> 2)
=============================================================================
