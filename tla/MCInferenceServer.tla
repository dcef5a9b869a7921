------------------------- MODULE MCInferenceServer -------------------------
(* InferenceServer on a few requests of three clients. *)
EXTENDS InferenceServer

CONSTANTS r1, r2, r3, k1, k2, k3

\* A token may be right: what happens without authentication happens with it as well.
MCStacks == {{"Auth"}, {"RateLimit", "Auth"}}
=============================================================================
