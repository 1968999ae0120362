-------------------------------- MODULE Tales --------------------------------
(***************************************************************************)
(* What a run's history tells the workflow that made it, and what in it    *)
(* the workflow asked for.  A boundary's identity counts the boundaries    *)
(* before it, and each boundary tells one thing when it is settled: so the *)
(* j-th thing told is what came of boundary j - 1.                         *)
(***************************************************************************)
EXTENDS Records

\* A record the workflow hears of, and what it is told then.
Tells(r) == r.type \in OutcomeTypes \cup {"TimerFired", "VersionMarker"}
Telling(r) ==
  [what |-> CASE r.type = "TimerFired"    -> "Passed"
              [] r.type = "VersionMarker" -> "Branch"
              [] OTHER                    -> r.type,
   val |-> r.val]

\* How many things it has been told when history reaches r.
Tidings(r) == IF Tells(r) THEN r.seq + 1 ELSE IF OpensBoundary(r) THEN r.seq ELSE 0

\* The record of h that tells the j-th thing, and the first n things h tells.
Teller(h, j) == CHOOSE k \in 1 .. Len(h) : Tells(h[k]) /\ h[k].seq = j - 1
Tale(h, n) == [j \in 1 .. n |-> Telling(h[Teller(h, j)])]

\* A record that is there because the workflow asked for it.
Begins(r) == r.type \in BoundaryTypes \cup TerminalTypes

\* Record r is what a workflow that wishes w asks for.
Grounds(w, r) ==
  \/ r.type = "EffectScheduled" /\ w.op = "effect" /\ w.arg = r.arg
  \/ r.type = "TimerScheduled" /\ w.op = "wait" /\ w.arg = r.arg
  \/ r.type = "VersionMarker" /\ w.op = "gate" /\ w.arg = r.arg
  \/ r.type \in TerminalTypes /\ w.op = "return" /\ w.arg = r.type /\ w.val = r.val
=============================================================================
