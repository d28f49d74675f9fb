---------------------------- MODULE MCIOContext -----------------------------
(***************************************************************************)
(* IOContext on small instances.                                           *)
(***************************************************************************)
EXTENDS IOContext, TLC

\* One delay of each sort: refused, immediate, later.
SignedDelays == {-1, 0, 1, 2}

TimerSymmetry == Permutations(Timers)
=============================================================================
