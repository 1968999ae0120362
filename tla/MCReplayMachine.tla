--------------------------- MODULE MCReplayMachine ---------------------------
(***************************************************************************)
(* ReplayMachine on a small instance: two identities, so that the          *)
(* allocator is exhausted inside a run, and two of everything a request    *)
(* can disagree about.  The length of a history is bounded by MaxSeq alone.*)
(***************************************************************************)
EXTENDS ReplayMachine, TLC

CONSTANTS k1, k2, i1, i2, d1, g1, g2, p1, r1

MCKinds == {k1, k2}
MCInputs == {i1, i2}
MCDeadlines == {d1}
MCGates == {g1, g2}
MCPayloads == {p1}
MCReadings == {r1}
MCVersions == 1 .. 2

\* Kinds, inputs and gates are only ever compared for equality.
Symmetry == Permutations(MCKinds) \cup Permutations(MCInputs) \cup Permutations(MCGates)
=============================================================================
