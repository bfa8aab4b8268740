------------------------------ MODULE MCEventLoop ------------------------------
(* Small instances of EventLoop for TLC.                                       *)
EXTENDS EventLoop, TLC

\* Descriptors are interchangeable: no action orders two of them.
Symmetry == Permutations(Fd)
=============================================================================
