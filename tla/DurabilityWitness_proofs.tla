---------------------- MODULE DurabilityWitness_proofs ----------------------
(***************************************************************************)
(* A part whose barriers do what they say is never accused, for any number *)
(* of arms of the same region; and on a region whose units were erased, a  *)
(* part that broke either promise of a barrier always is.                  *)
(***************************************************************************)
EXTENDS DurabilityWitness, TLAPS

\* Where the mutations of a block stand in arm.
LEMMA Places ==
  /\ Place(Erase("Unacknowledged")) = 1
  /\ Place(Erase("Seal")) = 2
  /\ Place(Erase("Acknowledged")) = 3
  /\ Place(Program("Acknowledged")) = 4
  /\ Place(Program("Seal")) = 5
  /\ Place(Program("Unacknowledged")) = 6
<1>1. \A k \in Mutations :
        k = 1 \/ k = 2 \/ k = 3 \/ k = 4 \/ k = 5 \/ k = 6
  BY DEF Mutations
<1>2. \A k \in 1..6 : k \in Mutations
  BY DEF Mutations
<1>3. \A k \in Mutations :
        /\ Arm[k] = Erase("Unacknowledged") <=> k = 1
        /\ Arm[k] = Erase("Seal") <=> k = 2
        /\ Arm[k] = Erase("Acknowledged") <=> k = 3
        /\ Arm[k] = Program("Acknowledged") <=> k = 4
        /\ Arm[k] = Program("Seal") <=> k = 5
        /\ Arm[k] = Program("Unacknowledged") <=> k = 6
  BY <1>1 DEF Arm, Erase, Program
<1> QED
  BY <1>2, <1>3 DEF Place
-----------------------------------------------------------------------------
\* A block as the suite tells it apart.
Block == [unit : Presence, tail : {"Erased", "Dirty"}]

\* What the media hold is what an arm cut short may leave.
Consistent ==
  /\ Issued("Seal") => Whole("Acknowledged") /\ \A b \in Blocks : media[b].tail = "Erased"
  /\ Issued("Unacknowledged") => Whole("Seal")

\* Of an arm under way, all but the last mutation are on media.
InOrder ==
  phase = "Arm" =>
    \A k \in Mutations :
      /\ k >= next => fate[k] = "Unissued"
      /\ honest /\ k < next =>
           fate[k] = "Whole" \/ (k = next - 1 /\ ~synced /\ fate[k] = "Cached")

IInv ==
  /\ TypeOK
  /\ InOrder
  /\ honest => Consistent
  /\ honest /\ phase = "AfterACompletedArm" => Whole("Acknowledged") /\ Whole("Seal")

\* A block erased and programmed in order is as if found, blank, or its witness.
LEMMA LeftInOrder ==
  ASSUME NEW found \in Block,
         NEW erased \in {"Unissued", "Lost", "Torn", "Whole"},
         NEW programmed \in {"Unissued", "Lost", "Torn", "Whole"}
  PROVE  /\ Left(found, erased, programmed) \in Block
         /\ programmed \in {"Torn", "Whole"} /\ erased = "Whole" =>
              Left(found, erased, programmed) = [unit |-> programmed, tail |-> "Erased"]
         /\ programmed \notin {"Torn", "Whole"} /\ erased = "Whole" =>
              Left(found, erased, programmed) = Blank
         /\ programmed \notin {"Torn", "Whole"} /\ erased # "Whole" =>
              Left(found, erased, programmed) = found
<1> DEFINE base == IF erased = "Whole" THEN Blank ELSE found
           unit == IF programmed \in {"Torn", "Whole"}
                     THEN Programmed(base.unit, programmed) ELSE base.unit
<1>1. base \in Block /\ (erased = "Whole" => base = Blank) /\ (erased # "Whole" => base = found)
  BY DEF Block, Blank, Presence
<1>2. base.unit \in Presence /\ base.tail \in {"Erased", "Dirty"}
  BY <1>1 DEF Block
<1>3. programmed \in {"Torn", "Whole"} /\ base.unit = "Absent" => unit = programmed
  BY DEF Programmed
<1>4. unit \in Presence
  BY <1>2 DEF Programmed, Presence
<1>5. Left(found, erased, programmed) = [unit |-> unit, tail |-> base.tail]
  BY <1>1 DEF Left, Block
<1>6. programmed \notin {"Torn", "Whole"} => [unit |-> unit, tail |-> base.tail] = base
  BY <1>1 DEF Block
<1>7. Blank.unit = "Absent" /\ Blank.tail = "Erased"
  BY DEF Blank
<1> HIDE DEF base, unit
<1> QED
  BY <1>1, <1>2, <1>3, <1>4, <1>5, <1>6, <1>7 DEF Block
-----------------------------------------------------------------------------
\* What became of a mutation, once the power is gone.
Ends == {"Unissued", "Lost", "Torn", "Whole"}

\* The step that matters: an arm cut short, over whatever was there before.
LEMMA CutKeeps == ASSUME IInv, PowerCut PROVE IInv'
<1>1. /\ phase = "Arm" /\ phase' \in {"DuringArm", "AfterACompletedArm"}
      /\ phase' = "AfterACompletedArm" => next \notin Mutations
      /\ UNCHANGED <<before, next, synced, round, honest>>
  BY DEF PowerCut
<1>2. /\ fate' \in [Mutations -> Ends]
      /\ \A k \in Mutations :
           /\ fate[k] # "Cached" => fate'[k] = fate[k]
           /\ fate'[k] = "Torn" => fate[k] = "Torn" \/ Arm[k].kind = "Program"
  BY DEF PowerCut, Ends
<1>3. \A k \in 1..3 : Arm[k].kind = "Erase"
  BY DEF Arm, Erase
<1>4. /\ media' \in [Blocks -> Block]
      /\ media'["Acknowledged"] = Left(media["Acknowledged"], fate'[3], fate'[4])
      /\ media'["Seal"] = Left(media["Seal"], fate'[2], fate'[5])
      /\ media'["Unacknowledged"] = Left(media["Unacknowledged"], fate'[1], fate'[6])
  <2>1. media' = [b \in Blocks |->
                   Left(media[b], fate'[Place(Erase(b))], fate'[Place(Program(b))])]
    BY DEF PowerCut
  <2>2. /\ "Acknowledged" \in Blocks /\ "Seal" \in Blocks /\ "Unacknowledged" \in Blocks
        /\ \A b \in Blocks : b = "Acknowledged" \/ b = "Seal" \/ b = "Unacknowledged"
    BY DEF Blocks
  <2>3. \A b \in Blocks : Place(Erase(b)) \in Mutations /\ Place(Program(b)) \in Mutations
    BY <2>2, Places DEF Mutations
  <2>4. \A b \in Blocks : media[b] \in Block
    BY DEF IInv, TypeOK, Block
  <2>5. \A b \in Blocks :
          Left(media[b], fate'[Place(Erase(b))], fate'[Place(Program(b))]) \in Block
    BY <1>2, <2>3, <2>4, LeftInOrder DEF Ends
  <2> QED
    BY <2>1, <2>2, <2>5, Places
<1>5. TypeOK'
  BY <1>1, <1>2, <1>4 DEF IInv, TypeOK, Ends, Block
<1>6. InOrder'
  BY <1>1 DEF InOrder
<1>7. ASSUME honest
      PROVE  /\ Consistent'
             /\ phase' = "AfterACompletedArm" => Whole("Acknowledged")' /\ Whole("Seal")'
  <2> DEFINE At(k) == fate'[k] \in {"Torn", "Whole"}
  <2>1. next \in 1..7 /\ \A k \in Mutations :
          /\ k >= next => fate'[k] = "Unissued"
          /\ k < next - 1 => fate'[k] = "Whole"
    BY <1>1, <1>2, <1>7 DEF IInv, TypeOK, InOrder, Mutations
  <2>2. /\ \A k \in 2..6 : At(k) => fate'[k - 1] = "Whole"
        /\ \A k \in 1..3 : At(k) => fate'[k] = "Whole"
    <3>1. \A k \in 2..6 : At(k) => fate'[k - 1] = "Whole"
      BY <2>1 DEF Mutations
    <3>2. \A k \in 1..3 : fate[k] # "Torn"
      BY <1>1, <1>7 DEF IInv, TypeOK, InOrder, Mutations
    <3>3. \A k \in 1..3 : fate'[k] # "Torn"
      BY <1>2, <1>3, <3>2 DEF Mutations
    <3> QED
      BY <3>1, <3>3
  <2>3. /\ At(6) => fate'[5] = "Whole"
        /\ At(5) => fate'[4] = "Whole"
        /\ At(4) => fate'[3] = "Whole"
        /\ At(3) => fate'[3] = "Whole" /\ fate'[2] = "Whole"
        /\ At(2) => fate'[2] = "Whole" /\ fate'[1] = "Whole"
        /\ At(1) => fate'[1] = "Whole"
    BY <2>2
  <2>4. \A k \in 1..6 : fate'[k] \in Ends
    BY <1>2 DEF Mutations
  <2>5. /\ At(4) => media'["Acknowledged"] = [unit |-> fate'[4], tail |-> "Erased"]
        /\ ~At(4) /\ At(3) => media'["Acknowledged"] = Blank
        /\ ~At(3) => media'["Acknowledged"] = media["Acknowledged"]
    <3>1. media["Acknowledged"] \in Block
      BY DEF IInv, TypeOK, Blocks, Block
    <3> QED
      BY <3>1, <1>4, <2>3, <2>4, LeftInOrder DEF Ends
  <2>6. /\ At(5) => media'["Seal"] = [unit |-> fate'[5], tail |-> "Erased"]
        /\ ~At(5) /\ At(2) => media'["Seal"] = Blank
        /\ ~At(2) => media'["Seal"] = media["Seal"]
    <3>1. media["Seal"] \in Block
      BY DEF IInv, TypeOK, Blocks, Block
    <3> QED
      BY <3>1, <1>4, <2>3, <2>4, LeftInOrder DEF Ends
  <2>7. /\ At(6) => media'["Unacknowledged"] = [unit |-> fate'[6], tail |-> "Erased"]
        /\ ~At(6) /\ At(1) => media'["Unacknowledged"] = Blank
        /\ ~At(1) => media'["Unacknowledged"] = media["Unacknowledged"]
    <3>1. media["Unacknowledged"] \in Block
      BY DEF IInv, TypeOK, Blocks, Block
    <3> QED
      BY <3>1, <1>4, <2>3, <2>4, LeftInOrder DEF Ends
  <2>8. Blank.unit = "Absent" /\ Blank.tail = "Erased"
    BY DEF Blank
  <2> HIDE DEF At
  <2>9. Issued("Seal")' => Whole("Acknowledged")' /\ \A b \in Blocks : media'[b].tail = "Erased"
    <3> SUFFICES ASSUME Issued("Seal")'
                 PROVE  Whole("Acknowledged")' /\ \A b \in Blocks : media'[b].tail = "Erased"
      OBVIOUS
    <3>1. CASE At(5)
      BY <3>1, <2>3, <2>5, <2>6, <2>7, <2>8 DEF At, Whole, Blocks
    <3>2. CASE ~At(5)
      <4>1. ~At(2)
        BY <3>2, <2>6, <2>8 DEF Issued
      <4>2. ~At(3) /\ ~At(4) /\ ~At(6)
        BY <3>2, <4>1, <2>3 DEF At
      <4>3. Issued("Seal")
        BY <4>1, <2>6 DEF Issued
      <4>4. Whole("Acknowledged") /\ \A b \in Blocks : media[b].tail = "Erased"
        BY <4>3, <1>7 DEF IInv, Consistent
      <4> QED
        BY <4>1, <4>2, <4>4, <2>5, <2>6, <2>7, <2>8 DEF Whole, Blocks
    <3> QED
      BY <3>1, <3>2
  <2>10. Issued("Unacknowledged")' => Whole("Seal")'
    <3> SUFFICES ASSUME Issued("Unacknowledged")' PROVE Whole("Seal")'
      OBVIOUS
    <3>1. CASE At(6)
      BY <3>1, <2>3, <2>6 DEF At, Whole
    <3>2. CASE ~At(6)
      <4>1. ~At(1)
        BY <3>2, <2>7, <2>8 DEF Issued
      <4>2. ~At(2) /\ ~At(3) /\ ~At(4) /\ ~At(5)
        BY <4>1, <2>3 DEF At
      <4> QED
        BY <4>1, <4>2, <2>6, <2>7, <1>7 DEF IInv, Consistent, Issued, Whole
    <3> QED
      BY <3>1, <3>2
  <2>11. phase' = "AfterACompletedArm" => Whole("Acknowledged")' /\ Whole("Seal")'
    <3>1. phase' = "AfterACompletedArm" => fate'[4] = "Whole" /\ fate'[5] = "Whole"
      BY <1>1, <2>1 DEF Mutations
    <3> QED
      BY <3>1, <2>5, <2>6 DEF At, Whole
  <2> QED
    BY <2>9, <2>10, <2>11 DEF Consistent
<1> QED
  BY <1>1, <1>5, <1>6, <1>7 DEF IInv

\* In any arm, cut or not: the mutations of it are on media up to the last
\* one, and what the media hold is what such an arm may leave.
THEOREM Invariant == Spec => []IInv
<1>1. Init => IInv
  <2> SUFFICES ASSUME Init PROVE IInv
    OBVIOUS
  <2>1. TypeOK
    BY DEF Init, TypeOK, Mutations, Presence
  <2>2. \A b \in Blocks : ~Issued(b)
    BY DEF Init, Issued
  <2> QED
    BY <2>1, <2>2 DEF Init, IInv, InOrder, Consistent, Mutations, Blocks
<1>2. ASSUME IInv, [Next]_vars PROVE IInv'
  <2>1. CASE Issue
    <3>1. TypeOK'
      <4>1. fate' \in [Mutations -> {"Unissued", "Cached", "Lost", "Torn", "Whole"}]
        BY <1>2, <2>1 DEF Issue, IInv, TypeOK
      <4>2. next' \in 1..7
        BY <1>2, <2>1 DEF Issue, IInv, TypeOK, Mutations
      <4> QED
        BY <1>2, <2>1, <4>1, <4>2 DEF Issue, IInv, TypeOK
    <3>2. InOrder'
      BY <1>2, <2>1 DEF Issue, IInv, TypeOK, InOrder, Mutations
    <3> QED
      BY <1>2, <2>1, <3>1, <3>2 DEF Issue, IInv, Consistent, Issued, Whole
  <2>2. CASE Barrier
    <3>1. TypeOK'
      BY <1>2, <2>2 DEF Barrier, IInv, TypeOK, Mutations
    <3>2. InOrder'
      BY <1>2, <2>2 DEF Barrier, IInv, TypeOK, InOrder, Mutations
    <3> QED
      BY <1>2, <2>2, <3>1, <3>2 DEF Barrier, IInv, Consistent, Issued, Whole
  <2>3. CASE EarlyBarrier
    BY <1>2, <2>3 DEF EarlyBarrier, IInv, TypeOK, InOrder, Consistent, Issued, Whole, Mutations
  <2>4. CASE PowerCut
    BY <1>2, <2>4, CutKeeps
  <2>5. CASE Rearm
    BY <1>2, <2>5 DEF Rearm, IInv, TypeOK, InOrder, Consistent, Issued, Whole, Mutations
  <2>6. CASE UNCHANGED vars
    BY <1>2, <2>6 DEF vars, IInv, TypeOK, InOrder, Consistent, Issued, Whole
  <2> QED
    BY <1>2, <2>1, <2>2, <2>3, <2>4, <2>5, <2>6 DEF Next
<1> QED
  BY <1>1, <1>2, PTL DEF Spec

\* A part whose barriers empty their cache is never accused, whatever the
\* region held and wherever the power went, in any number of arms.
THEOREM ConformingIsNeverAccused == Spec => []ConformingIsHeld
<1>1. IInv => ConformingIsHeld
  BY DEF IInv, Consistent, ConformingIsHeld, Breached, AcknowledgedMutationLost,
         LaterMutationOvertookABarrier
<1> QED
  BY <1>1, Invariant, PTL
-----------------------------------------------------------------------------
\* A block after a cut is what became of its two mutations, on what arm found
\* there: the arm under way has touched nothing but the cache.
Landed ==
  /\ phase = "Arm" => media = before
  /\ phase # "Arm" =>
       media = [b \in Blocks |->
                  Left(before[b], fate[Place(Erase(b))], fate[Place(Program(b))])]

\* In any round, and whatever the barriers did, the media hold no more and no
\* less than the arm's mutations left there.
THEOREM MediaAreLanded == Spec => []Landed
<1>1. Init => Landed
  BY DEF Init, Landed
<1>2. ASSUME Landed, [Next]_vars PROVE Landed'
  <2>1. CASE Issue
    BY <1>2, <2>1 DEF Issue, Landed
  <2>2. CASE Barrier
    BY <1>2, <2>2 DEF Barrier, Landed
  <2>3. CASE EarlyBarrier
    BY <1>2, <2>3 DEF EarlyBarrier, Landed
  <2>4. CASE PowerCut
    <3>1. phase = "Arm" /\ phase' # "Arm" /\ UNCHANGED before
      BY <2>4 DEF PowerCut
    <3>2. media' = [b \in Blocks |->
                     Left(media[b], fate'[Place(Erase(b))], fate'[Place(Program(b))])]
      BY <2>4 DEF PowerCut
    <3> QED
      BY <1>2, <3>1, <3>2 DEF Landed
  <2>5. CASE Rearm
    BY <1>2, <2>5 DEF Rearm, Landed
  <2>6. CASE UNCHANGED vars
    BY <1>2, <2>6 DEF vars, Landed
  <2> QED
    BY <1>2, <2>1, <2>2, <2>3, <2>4, <2>5, <2>6 DEF Next
<1> QED
  BY <1>1, <1>2, PTL DEF Spec

\* What a block whose unit was erased holds: its program's unit if that was
\* reached, and its old tail if the erase was lost.
LEMMA LeftOnErased ==
  ASSUME NEW found \in Block, found.unit = "Absent", NEW erased, NEW programmed
  PROVE  /\ Left(found, erased, programmed).unit =
              IF programmed \in {"Torn", "Whole"} THEN programmed ELSE "Absent"
         /\ erased # "Whole" => Left(found, erased, programmed).tail = found.tail
<1> DEFINE base == IF erased = "Whole" THEN Blank ELSE found
           unit == IF programmed \in {"Torn", "Whole"}
                     THEN Programmed(base.unit, programmed) ELSE base.unit
<1>1. base \in Block /\ base.unit = "Absent" /\ (erased # "Whole" => base = found)
  BY DEF Block, Blank, Presence
<1>2. unit = IF programmed \in {"Torn", "Whole"} THEN programmed ELSE "Absent"
  BY <1>1 DEF Programmed
<1>3. Left(found, erased, programmed) = [unit |-> unit, tail |-> base.tail]
  BY <1>1 DEF Left, Block
<1> HIDE DEF base, unit
<1> QED
  BY <1>1, <1>2, <1>3

\* Both clauses are enforced on a region whose units were erased: whichever
\* barriers returned early, a program that overtook another, a promise of a
\* completed arm that is gone and an erase lost from under the seal are each
\* reported, in any round that starts on such a region.
THEOREM BreachIsAlwaysSeen == Spec => []BreachIsSeen
<1>1. ASSUME IInv, Landed PROVE BreachIsSeen
  <2> SUFFICES ASSUME phase # "Arm", \A b \in Blocks : before[b].unit = "Absent"
               PROVE  /\ (\E i, j \in 4..6 : i < j /\ Reached(j) /\ fate[i] # "Whole")
                            => Breached
                      /\ (phase = "AfterACompletedArm"
                           /\ ~(Promised("Acknowledged") /\ Promised("Seal"))) => Breached
                      /\ (\E b \in Blocks : /\ before[b].tail = "Dirty"
                                            /\ fate[Place(Erase(b))] # "Whole"
                                            /\ Reached(Place(Program("Seal")))) => Breached
    BY DEF BreachIsSeen
  <2>1. \A b \in Blocks : before[b] \in Block
    BY <1>1 DEF IInv, TypeOK, Block
  <2>2. \A b \in Blocks :
          media[b] = Left(before[b], fate[Place(Erase(b))], fate[Place(Program(b))])
    BY <1>1 DEF Landed
  <2>3. \A b \in Blocks :
          /\ media[b].unit = IF Reached(Place(Program(b))) THEN fate[Place(Program(b))]
                                                           ELSE "Absent"
          /\ fate[Place(Erase(b))] # "Whole" => media[b].tail = before[b].tail
    BY <2>1, <2>2, LeftOnErased DEF Reached
  <2>4. "Acknowledged" \in Blocks /\ "Seal" \in Blocks /\ "Unacknowledged" \in Blocks
    BY DEF Blocks
  <2>5. /\ Whole("Acknowledged") <=> fate[4] = "Whole"
        /\ Whole("Seal") <=> fate[5] = "Whole"
        /\ Issued("Seal") <=> Reached(5)
        /\ Issued("Unacknowledged") <=> Reached(6)
    BY <2>3, <2>4, Places DEF Whole, Issued, Reached
  <2>6. ASSUME NEW i \in 4..6, NEW j \in 4..6, i < j, Reached(j), fate[i] # "Whole"
        PROVE  Breached
    <3>1. CASE i = 4 /\ j = 5
      BY <2>5, <2>6, <3>1 DEF Breached, AcknowledgedMutationLost
    <3>2. CASE i = 5 /\ j = 6
      BY <2>5, <2>6, <3>2 DEF Breached, LaterMutationOvertookABarrier
    <3>3. CASE i = 4 /\ j = 6
      BY <2>5, <2>6, <3>3
      DEF Breached, AcknowledgedMutationLost, LaterMutationOvertookABarrier, Reached
    <3> QED
      BY <2>6, <3>1, <3>2, <3>3
  <2>7. phase = "AfterACompletedArm" /\ ~(Promised("Acknowledged") /\ Promised("Seal"))
          => Breached
    BY <2>5, Places DEF Promised, Breached, AcknowledgedMutationLost
  <2>8. ASSUME NEW b \in Blocks, before[b].tail = "Dirty",
               fate[Place(Erase(b))] # "Whole", Reached(Place(Program("Seal")))
        PROVE  Breached
    BY <2>3, <2>5, <2>8, Places DEF Breached, AcknowledgedMutationLost
  <2> QED
    BY <2>6, <2>7, <2>8
<1> QED
  BY <1>1, Invariant, MediaAreLanded, PTL
=============================================================================
