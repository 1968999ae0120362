------------------------- MODULE DurabilityWitness -------------------------
(***************************************************************************)
(* The across-reset witness of the storage conformance suite               *)
(* (waymaker-conformance/src/durability.rs): `arm` erases three blocks and *)
(* programs a unit of each, with a barrier after every step but the last;  *)
(* the power goes, anywhere; `verify` reads the blocks back and says       *)
(* whether the part kept both promises of a barrier.                       *)
(*                                                                         *)
(* The part may hold any mutation in a cache, and a barrier of it may      *)
(* return without having emptied that cache.  A block is what the suite    *)
(* tells apart of it: its first unit, and whether the rest is erased.      *)
(*                                                                         *)
(* An operator whose name starts with Bad is a slip the properties must    *)
(* notice in the place of the operator it precedes.                        *)
(***************************************************************************)
EXTENDS Integers

CONSTANT Rounds   \* bound on how often the region is armed

VARIABLES
  media,   \* the blocks, as of the last reset
  before,  \* the blocks, as `arm` found them
  fate,    \* what became of each mutation of `arm`
  next,    \* the mutation `arm` issues next
  synced,  \* the barrier after the last one has returned
  phase,   \* "Arm", or "Verify" with the history the caller vouches for
  round,   \* how many times the region was armed
  honest   \* every barrier that returned had emptied the cache

vars == <<media, before, fate, next, synced, phase, round, honest>>

Blocks == {"Acknowledged", "Seal", "Unacknowledged"}

\* Presence: what classify makes of a witness unit.
Presence == {"Absent", "Torn", "Whole", "Foreign"}
Blank == [unit |-> "Absent", tail |-> "Erased"]

Erase(block) == [kind |-> "Erase", block |-> block]
Program(block) == [kind |-> "Program", block |-> block]

\* A slip: the erases run forwards.
BadArm ==
  <<Erase("Acknowledged"), Erase("Seal"), Erase("Unacknowledged"),
    Program("Acknowledged"), Program("Seal"), Program("Unacknowledged")>>
\* The mutations of arm, in order.
Arm ==
  <<Erase("Unacknowledged"), Erase("Seal"), Erase("Acknowledged"),
    Program("Acknowledged"), Program("Seal"), Program("Unacknowledged")>>
Mutations == 1..6
Place(mutation) == CHOOSE k \in Mutations : Arm[k] = mutation

\* What a program leaves of a unit, having reached the media in part or whole.
Programmed(unit, reached) ==
  CASE unit = "Absent" -> reached
    [] unit = "Torn" /\ reached = "Whole" -> "Whole"
    [] OTHER -> unit

\* A block after a reset, by what became of its two mutations.
Left(found, erased, programmed) ==
  LET base == IF erased = "Whole" THEN Blank ELSE found
  IN [base EXCEPT !.unit = IF programmed \in {"Torn", "Whole"}
                           THEN Programmed(base.unit, programmed) ELSE base.unit]
-----------------------------------------------------------------------------
(* Arming                                                                  *)

Issue ==
  /\ phase = "Arm" /\ synced /\ next \in Mutations
  /\ fate' = [fate EXCEPT ![next] = "Cached"]
  /\ next' = next + 1
  /\ synced' = FALSE
  /\ UNCHANGED <<media, before, phase, round, honest>>

\* A barrier that does what it says; none follows the last mutation.
Barrier ==
  /\ phase = "Arm" /\ ~synced /\ next \in Mutations
  /\ fate' = [k \in Mutations |-> IF fate[k] = "Cached" THEN "Whole" ELSE fate[k]]
  /\ synced' = TRUE
  /\ UNCHANGED <<media, before, next, phase, round, honest>>

\* A barrier that returns early.
EarlyBarrier ==
  /\ phase = "Arm" /\ ~synced /\ next \in Mutations
  /\ synced' = TRUE /\ honest' = FALSE
  /\ UNCHANGED <<media, before, fate, next, phase, round>>

\* The cache goes with the power: any of what it held may have reached the
\* media, a program in part.  The caller knows whether arm had returned.
PowerCut ==
  /\ phase = "Arm"
  /\ phase' \in {"DuringArm"} \union (IF next \in Mutations THEN {} ELSE {"AfterACompletedArm"})
  /\ fate' \in {f \in [Mutations -> {"Unissued", "Lost", "Torn", "Whole"}] :
                  \A k \in Mutations :
                    IF fate[k] = "Cached"
                    THEN f[k] \in {"Lost", "Whole"} \union
                                  (IF Arm[k].kind = "Program" THEN {"Torn"} ELSE {})
                    ELSE f[k] = fate[k]}
  /\ media' = [b \in Blocks |->
                 Left(media[b], fate'[Place(Erase(b))], fate'[Place(Program(b))])]
  /\ UNCHANGED <<before, next, synced, round, honest>>

\* The region is armed again, on what the last round left of it.
Rearm ==
  /\ phase # "Arm" /\ round < Rounds
  /\ phase' = "Arm" /\ round' = round + 1
  /\ before' = media
  /\ fate' = [k \in Mutations |-> "Unissued"]
  /\ next' = 1 /\ synced' = TRUE
  /\ UNCHANGED <<media, honest>>

\* An expendable region: erased, or with data that is no witness.
Init ==
  /\ media \in [Blocks -> [unit : {"Absent", "Foreign"}, tail : {"Erased", "Dirty"}]]
  /\ before = media
  /\ fate = [k \in Mutations |-> "Unissued"]
  /\ next = 1 /\ synced = TRUE
  /\ phase = "Arm" /\ round = 1 /\ honest = TRUE

Next == Issue \/ Barrier \/ EarlyBarrier \/ PowerCut \/ Rearm
Spec == Init /\ [][Next]_vars
-----------------------------------------------------------------------------
(* verify, on what the media hold                                          *)

Whole(block) == media[block].unit = "Whole"

\* A slip: a torn program is not taken for one that was issued.
BadIssued(block) == media[block].unit = "Whole"
Issued(block) == media[block].unit \in {"Torn", "Whole"}

AcknowledgedMutationLost ==
  \/ phase = "AfterACompletedArm" /\ ~(Whole("Acknowledged") /\ Whole("Seal"))
  \/ Issued("Seal") /\ ~Whole("Acknowledged")
  \/ Issued("Seal") /\ \E b \in Blocks : media[b].tail # "Erased"
LaterMutationOvertookABarrier == Issued("Unacknowledged") /\ ~Whole("Seal")
Breached == AcknowledgedMutationLost \/ LaterMutationOvertookABarrier
-----------------------------------------------------------------------------
(* Properties                                                              *)

TypeOK ==
  /\ media \in [Blocks -> [unit : Presence, tail : {"Erased", "Dirty"}]]
  /\ before \in [Blocks -> [unit : Presence, tail : {"Erased", "Dirty"}]]
  /\ fate \in [Mutations -> {"Unissued", "Cached", "Lost", "Torn", "Whole"}]
  /\ next \in 1..7 /\ synced \in BOOLEAN /\ honest \in BOOLEAN
  /\ phase \in {"Arm", "DuringArm", "AfterACompletedArm"}
  /\ round \in Nat

\* A part whose barriers do what they say is never accused (durability.rs:22
\* and "Why the erases run backwards"): not for a program the power tore, nor
\* for data the region held before, nor for what an earlier arm left there.
ConformingIsHeld == phase # "Arm" /\ honest => ~Breached

Reached(k) == fate[k] \in {"Torn", "Whole"}
Promised(block) == fate[Place(Program(block))] = "Whole"

\* On a region whose units were erased, both clauses are enforced: a program
\* that reached the media while one ordered before it is not there whole, a
\* promise of a completed arm that is gone, and an erase that was lost from
\* under the seal are each reported.
BreachIsSeen ==
  phase # "Arm" /\ (\A b \in Blocks : before[b].unit = "Absent") =>
    /\ (\E i, j \in 4..6 : i < j /\ Reached(j) /\ fate[i] # "Whole") => Breached
    /\ (phase = "AfterACompletedArm" /\ ~(Promised("Acknowledged") /\ Promised("Seal")))
          => Breached
    /\ (\E b \in Blocks : /\ before[b].tail = "Dirty"
                          /\ fate[Place(Erase(b))] # "Whole"
                          /\ Reached(Place(Program("Seal")))) => Breached
=============================================================================
