--------------------------- MODULE MCAtomicIncrement ---------------------------
(* Small instances of AtomicIncrement for TLC.                               *)
EXTENDS AtomicIncrement

\* SRAM2 at reset: every word may be zero or look like a flag that is set.
MCGarbage == {0, 1}
================================================================================
