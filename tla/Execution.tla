------------------------------ MODULE Execution ------------------------------
(***************************************************************************)
(* What durable execution promises: a workflow run by a machine whose      *)
(* memory never fails.  There is no boot and no replay, no clock and no    *)
(* device; there are the runs, one after the other, and what happens in    *)
(* each.  A record is added when the workflow, told all that history       *)
(* tells, asks for it, or when the world answers what is open.  One thing  *)
(* can go wrong: an answer is lost and must be given again, and a boundary *)
(* whose lost answers came to more than the allowance may be given up.     *)
(***************************************************************************)
EXTENDS Tales

CONSTANTS
  Program(_, _, _),  \* what the workflow does next: of run, version, what it was told
  LastRun,           \* the last run identity
  Allowance          \* what may be lost of the answers to one boundary

VARIABLES
  run, history,
  lost               \* what was lost of the answers to the boundary opened last

History == INSTANCE RunHistory

Last == history[Len(history)]
Wish == Program(run, history[1].val, Tale(history, Tidings(Last)))
IsOpen == history # <<>> /\ OpensBoundary(Last)

Init == run = 0 /\ history = <<>> /\ lost = 0

Record(r) ==
  /\ history' = Append(history, r) /\ UNCHANGED run
  /\ History!Legal(r)
  /\ Begins(r) => Grounds(Wish, r)
  /\ lost' = IF OpensBoundary(r) THEN 0 ELSE lost

\* An answer to what is open is lost.
Lose ==
  /\ IsOpen
  /\ lost' \in Nat /\ lost' > lost /\ UNCHANGED <<run, history>>

NextRun == run < LastRun /\ run' = run + 1 /\ history' = <<>> /\ lost' = 0

\* A run with nothing open goes on as the next one, unless its workflow
\* returns: it asks to, or is told that there is no room for what it asks.
GoOn ==
  /\ history # <<>> /\ ~OpensBoundary(Last) /\ Last.type \notin TerminalTypes
  /\ Wish.op # "return"
  /\ NextRun

\* And one goes on whose open boundary can no longer be answered.
GiveUp == IsOpen /\ lost > Allowance /\ NextRun

Next == (\E r \in Records : Record(r)) \/ Lose \/ GoOn \/ GiveUp
Spec == Init /\ [][Next]_<<run, history, lost>>
=============================================================================
