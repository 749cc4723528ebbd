----------------------------- MODULE MCAtomicMax -----------------------------
(* Four threads: a value below the initial one, one above it, the highest twice. *)
EXTENDS AtomicMax, TLC
CONSTANTS t1, t2, t3, t4
Values == (t1 :> 1) @@ (t2 :> 5) @@ (t3 :> 9) @@ (t4 :> 9)
=============================================================================
