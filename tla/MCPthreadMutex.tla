--------------------------- MODULE MCPthreadMutex ---------------------------
EXTENDS PthreadMutex, TLC

CONSTANTS t1, t2, t3, rec, ad, nm

MCType == nm :> "Normal" @@ ad :> "AdaptiveNp" @@ rec :> "Recursive"
MCAllCalls == Calls
MCSymmetry == Permutations(Thread)

(* A Normal mutex answers 0 to any number of relocks: how many are looked  *)
(* at.                                                                     *)
MCHeld == \A t \in Thread : held[t][nm] \in -1 .. 2

=============================================================================
