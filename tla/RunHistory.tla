------------------------------ MODULE RunHistory ------------------------------
(***************************************************************************)
(* What a run's history promises, whoever writes or reads it: it opens     *)
(* with RunStarted, boundaries are numbered 0, 1, 2, ... with none missing *)
(* and none used twice, an effect or a timer is resolved before anything   *)
(* else happens, and nothing follows a terminal record.  History only      *)
(* grows.  This is the reference the detailed modules are shown to         *)
(* implement; it is stated record against record, with no cursor, no       *)
(* allocator and no phase.                                                 *)
(***************************************************************************)
EXTENDS Records

VARIABLE history

\* A record that may come first among the records after position `seq`.
Opens(b, seq) ==
  \/ b.type \in BoundaryTypes /\ b.seq = seq
  \/ b.type \in TerminalTypes

\* b may directly follow a.
Follows(a, b) ==
  \/ a.type = "RunStarted" /\ Opens(b, 0)
  \/ a.type = "EffectScheduled" /\ b.type \in OutcomeTypes /\ b.seq = a.seq
  \/ a.type = "TimerScheduled" /\ b.type = "TimerFired" /\ b.seq = a.seq
  \/ a.type \in OutcomeTypes \cup {"TimerFired", "VersionMarker"} /\ Opens(b, a.seq + 1)

Legal(r) ==
  \/ history = <<>> /\ r.type = "RunStarted"
  \/ history # <<>> /\ Follows(history[Len(history)], r)

Init == history = <<>>
Next == \E r \in Records : Legal(r) /\ history' = Append(history, r)
Spec == Init /\ [][Next]_history
=============================================================================
