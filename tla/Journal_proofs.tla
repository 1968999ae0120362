---------------------------- MODULE Journal_proofs ----------------------------
(***************************************************************************)
(* Proofs about Journal, for a region of any size, any set of records and  *)
(* a device of either kind.                                                *)
(*                                                                         *)
(* The argument.  The media has a shape: a seal lies only over a whole     *)
(* body no barrier is owed to.  The offset has a meaning: everything in    *)
(* front of it is passable, and everything behind the slot a barred writer *)
(* is in, or at and behind the offset of a free one, is erased.  What was  *)
(* acknowledged is passable, sealed, and durable together with everything  *)
(* in front of it.  Each step preserves the three together and none alone. *)
(***************************************************************************)
EXTENDS JournalRefinement, TLAPS, FiniteSetTheorems

MediaShape ==
  \A i \in Places :
    /\ media[i].body = "Erased" => media[i] = ErasedCell
    /\ media[i].body # "Erased" => media[i].rec \in Recs
    /\ media[i].seal # "Erased" => media[i].body = "Whole" /\ <<i, "body">> \notin pending

PendingShape ==
  /\ \A i \in Places, p \in Parts : <<i, p>> \in pending => media[i][p] # "Erased"
  /\ WriteThrough => pending = {}

Durable(i) == \A p \in Parts : <<i, p>> \notin pending

ScanShape ==
  /\ mode \in {"Scanning", "Open"} => \A j \in Places : j < at => Passable(media[j])
  /\ mode = "Scanning" =>
       /\ seen = {i \in Places : i < at /\ Sealed(media[i])}
       /\ ending = "Clean" => ErasedFrom(at)
       /\ ending \in {"Damaged", "Unsealed"} => at \in Places /\ ~Passable(media[at])
       /\ ~appendable /\ stage = "None"
  /\ mode = "Down" => ~appendable /\ stage = "None"

WriterShape ==
  mode = "Open" =>
    /\ appendable => stage = "None" /\ ErasedFrom(at)
    /\ ~appendable => at \in Places /\ \A j \in Places : j > at => media[j] = ErasedCell
    /\ stage # "None" => media[at].body = "Whole"
    /\ stage \in {"Staged", "Sealable"} => media[at].seal = "Erased"
    /\ stage \in {"Sealable", "Sealing"} => <<at, "body">> \notin pending
    /\ stage = "Sealing" => media[at].seal = "Whole"

AckedShape ==
  \A a \in acked :
    /\ Sealed(media[a[1]]) /\ media[a[1]].rec = a[2]
    /\ \A j \in Places : j <= a[1] => Passable(media[j]) /\ Durable(j)

IInv ==
  TypeOK /\ MediaShape /\ PendingShape /\ ScanShape /\ WriterShape /\ AckedShape

USE SlotsAssumption, RecsAssumption, WriteThroughAssumption
-----------------------------------------------------------------------------
LEMMA InitIInv ==
  ASSUME Init
  PROVE  IInv
<1>1. ErasedCell \in Cells
  BY DEF ErasedCell, Cells, Levels
<1>2. TypeOK
  <2>1. media \in [Places -> Cells]
    BY <1>1 DEF Init
  <2>2. at \in 1 .. Slots + 1
    BY DEF Init
  <2>3. appendable \in BOOLEAN
    BY DEF Init
  <2> QED BY <2>1, <2>2, <2>3 DEF Init, TypeOK, Endings
<1>3. MediaShape /\ PendingShape /\ AckedShape
  BY DEF Init, MediaShape, PendingShape, AckedShape, ErasedCell
<1>4. ScanShape /\ WriterShape
  BY DEF Init, ScanShape, WriterShape
<1> QED BY <1>2, <1>3, <1>4 DEF IInv

\* Steps that touch neither the device nor what was acknowledged.
LEMMA ScanStep ==
  ASSUME IInv, ScanFrame \/ ScanFault \/ Boot \/ After
  PROVE  IInv'
<1>0. UNCHANGED <<media, pending, acked>>
  BY DEF ScanFrame, ScanFault, Boot, After, Ends, Passes, device
<1>1. MediaShape' /\ PendingShape' /\ AckedShape'
  BY <1>0 DEF IInv, MediaShape, PendingShape, AckedShape, Durable, Passable, Sealed, Skippable
<1>2. CASE Boot
  BY <1>0, <1>1, <1>2 DEF IInv, Boot, TypeOK, ScanShape, WriterShape, Places, Endings, writer
<1>3. CASE ScanFault
  BY <1>0, <1>1, <1>3 DEF IInv, ScanFault, Ends, TypeOK, ScanShape, WriterShape, Endings, writer
<1>4. CASE After
  BY <1>0, <1>1, <1>4 DEF IInv, After, MayAppend, TypeOK, ScanShape, WriterShape, ErasedFrom,
                          Passable, Sealed, Skippable
<1>5. CASE ScanFrame
  <2>1. mode = "Scanning" /\ mode' = mode /\ UNCHANGED writer
    BY <1>5 DEF ScanFrame, Ends, Passes
  <2>2. CASE CleanEnd /\ Ends("Clean")
    <3>1. ErasedFrom(at)'
      BY <1>0, <2>2 DEF CleanEnd, Ends, ErasedFrom, IInv, TypeOK, Places
    <3> QED BY <1>0, <1>1, <2>1, <2>2, <3>1 DEF IInv, Ends, TypeOK, ScanShape, WriterShape, Endings, writer
  <2>3. CASE ~CleanEnd /\ \E how \in {"Damaged", "Unsealed"} : Ends(how) /\ ~Passable(media[at])
    <3>1. at \in Places
      BY <2>3 DEF CleanEnd
    <3> QED BY <1>0, <1>1, <2>1, <2>3, <3>1 DEF IInv, Ends, TypeOK, ScanShape, WriterShape, Endings, writer
  <2>4. CASE ~CleanEnd /\ \E y \in SUBSET {at} : Passes(y) /\ y = {i \in {at} : Sealed(media[i])} /\ Passable(media[at])
    <3>1. at \in Places
      BY <2>4 DEF CleanEnd
    <3>2. at' = at + 1 /\ ending' = ending /\ ending = "None"
      BY <1>5, <2>4 DEF Passes, ScanFrame
    <3>3. \A j \in Places : j < at' => Passable(media[j])
      BY <2>1, <2>4, <3>1, <3>2 DEF IInv, ScanShape, Places
    <3>4. seen' = {i \in Places : i < at' /\ Sealed(media[i])}
      BY <2>1, <2>4, <3>1, <3>2 DEF IInv, ScanShape, Passes, Places
    <3>5. TypeOK'
      <4>1. at' \in 1 .. Slots + 1
        BY <3>1, <3>2 DEF Places
      <4>2. seen' \subseteq Places
        BY <3>4
      <4> QED BY <1>0, <2>1, <3>2, <4>1, <4>2 DEF IInv, TypeOK, writer
    <3> QED BY <1>0, <1>1, <2>1, <3>2, <3>3, <3>4, <3>5 DEF IInv, ScanShape, WriterShape, writer,
                                                     Passable, Sealed, Skippable
  <2> QED BY <1>5, <2>2, <2>3, <2>4 DEF ScanFrame, Yields, Passable, Sealed, Skippable, ErasedCell
<1> QED BY <1>2, <1>3, <1>4, <1>5

-----------------------------------------------------------------------------
(* The writer                                                              *)

\* Programming one part of the slot at the offset, when that part is erased.
LEMMA LandsFacts ==
  ASSUME IInv, at \in Places, NEW part \in Parts, NEW level \in Levels, NEW rec \in Recs,
         media[at][part] = "Erased", part = "seal" => rec = media[at].rec,
         Lands(part, level, rec)
  PROVE  /\ media' \in [Places -> Cells]
         /\ media'[at][part] = level
         /\ \A p \in Parts : p # part => media'[at][p] = media[at][p]
         /\ level # "Erased" => media'[at].rec = rec
         /\ level = "Erased" => media'[at] = media[at]
         /\ \A j \in Places : j # at => media'[j] = media[j]
         /\ pending' \subseteq pending \cup {<<at, part>>}
         /\ pending' \subseteq Places \X Parts
         /\ <<at, part>> \in pending' => level # "Erased" \/ <<at, part>> \in pending
         /\ WriteThrough => pending' = pending
<1>1. media \in [Places -> Cells]
  BY DEF IInv, TypeOK
<1>2. media[at] \in Cells
  BY <1>1
<1>3. media'[at] = Written(media[at], part, level, rec)
  BY <1>1 DEF Lands
<1>6. /\ media'[at] \in Cells
      /\ media'[at][part] = level
      /\ \A p \in Parts : p # part => media'[at][p] = media[at][p]
      /\ level # "Erased" => media'[at].rec = rec
      /\ level = "Erased" => media'[at].rec = media[at].rec
  <2>1. CASE part = "body"
    BY <1>2, <1>3, <2>1 DEF Cells, Parts, Levels, Written, Program
  <2>2. CASE part = "seal"
    BY <1>2, <1>3, <2>2 DEF Cells, Parts, Levels, Written, Program
  <2> QED BY <2>1, <2>2 DEF Parts
<1>7. level = "Erased" => media'[at] = media[at]
  BY <1>2, <1>6 DEF Cells, Parts
<1>8. \A j \in Places : j # at => media'[j] = media[j]
  BY <1>1 DEF Lands
<1>9. media' \in [Places -> Cells]
  <2>1. media' = [media EXCEPT ![at] = media'[at]]
    BY <1>1, <1>3 DEF Lands
  <2> QED BY <1>1, <1>6, <2>1
<1>10. /\ pending' \subseteq pending \cup {<<at, part>>}
       /\ pending' \subseteq Places \X Parts
       /\ <<at, part>> \in pending' => level # "Erased" \/ <<at, part>> \in pending
       /\ WriteThrough => pending' = pending
  <2>1. pending \subseteq Places \X Parts /\ <<at, part>> \in Places \X Parts
    BY DEF IInv, TypeOK
  <2>2. CASE WriteThrough \/ level = "Erased"
    BY <2>1, <2>2 DEF Lands
  <2>3. CASE ~(WriteThrough \/ level = "Erased")
    BY <2>1, <2>3 DEF Lands
  <2> QED BY <2>2, <2>3
<1> QED BY <1>6, <1>7, <1>8, <1>9, <1>10

\* A write at the offset leaves everything in front of it as it was.
LEMMA StageStep ==
  ASSUME IInv, NEW rec \in Recs, Stage(rec)
  PROVE  IInv'
<1>1. /\ mode = "Open" /\ stage = "None" /\ appendable /\ at \in Places
      /\ media[at] = ErasedCell
      /\ \A j \in Places : j > at => media[j] = ErasedCell
      /\ UNCHANGED <<mode, at, ending, seen, acked>>
      /\ appendable' = FALSE
  BY DEF Stage, Barred, IInv, WriterShape, ErasedFrom, Places
<1>2. PICK level \in Levels :
        /\ Lands("body", level, rec)
        /\ stage' = "None" \/ (stage' = "Staged" /\ level = "Whole")
  BY DEF Stage, Landings, Levels
<1>3. /\ media' \in [Places -> Cells]
      /\ media'[at].body = level
      /\ media'[at].seal = "Erased"
      /\ level # "Erased" => media'[at].rec = rec
      /\ level = "Erased" => media'[at] = media[at]
      /\ \A j \in Places : j # at => media'[j] = media[j]
      /\ pending' \subseteq pending \cup {<<at, "body">>}
      /\ pending' \subseteq Places \X Parts
      /\ <<at, "body">> \in pending' => level # "Erased" \/ <<at, "body">> \in pending
      /\ WriteThrough => pending' = pending
  BY <1>1, <1>2, LandsFacts DEF Parts, ErasedCell
<1>4. ~Passable(media[at]) /\ \A p \in Parts : <<at, p>> \notin pending
  BY <1>1 DEF Passable, Sealed, Skippable, ErasedCell, IInv, PendingShape, Parts
<1>5. TypeOK'
  BY <1>1, <1>2, <1>3 DEF IInv, TypeOK
<1>6. MediaShape'
  <2>1. ASSUME NEW i \in Places
        PROVE  /\ media'[i].body = "Erased" => media'[i] = ErasedCell
               /\ media'[i].body # "Erased" => media'[i].rec \in Recs
               /\ media'[i].seal # "Erased" => media'[i].body = "Whole" /\ <<i, "body">> \notin pending'
    <3>1. CASE i = at
      BY <1>1, <1>3, <3>1
    <3>2. CASE i # at
      <4>1. media'[i] = media[i] /\ (<<i, "body">> \in pending' => <<i, "body">> \in pending)
        BY <1>3, <3>2
      <4> QED BY <4>1 DEF IInv, MediaShape
    <3> QED BY <3>1, <3>2
  <2> QED BY <2>1 DEF MediaShape
<1>7. PendingShape'
  <2>1. ASSUME NEW i \in Places, NEW p \in Parts, <<i, p>> \in pending'
        PROVE  media'[i][p] # "Erased"
    <3>1. CASE i = at
      <4>1. p = "body"
        BY <1>3, <1>4, <2>1, <3>1
      <4> QED BY <1>3, <1>4, <2>1, <3>1, <4>1 DEF Parts
    <3>2. CASE i # at
      <4>1. media'[i] = media[i] /\ <<i, p>> \in pending
        BY <1>3, <2>1, <3>2
      <4> QED BY <4>1 DEF IInv, PendingShape
    <3> QED BY <3>1, <3>2
  <2> QED BY <1>3, <2>1 DEF PendingShape, IInv
<1>8. \A j \in Places : j < at => Passable(media'[j])
  BY <1>1, <1>3 DEF IInv, ScanShape, Places
<1>9. ScanShape' /\ WriterShape'
  <2>1. ScanShape'
    BY <1>1, <1>8 DEF ScanShape, Passable, Sealed, Skippable
  <2>2. \A j \in Places : j > at => media'[j] = ErasedCell
    BY <1>1, <1>3 DEF Places
  <2>3. WriterShape'
    BY <1>1, <1>2, <1>3, <2>2 DEF WriterShape
  <2> QED BY <2>1, <2>3
<1>10. AckedShape'
  <2>1. ASSUME NEW a \in acked
        PROVE  /\ Sealed(media'[a[1]]) /\ media'[a[1]].rec = a[2]
               /\ \A j \in Places : j <= a[1] => Passable(media'[j]) /\ Durable(j)'
    <3>1. /\ a[1] \in Places /\ Sealed(media[a[1]]) /\ media[a[1]].rec = a[2]
          /\ \A j \in Places : j <= a[1] => Passable(media[j]) /\ Durable(j)
      BY DEF IInv, AckedShape, TypeOK
    <3>2. a[1] < at
      BY <1>1, <1>4, <3>1 DEF Places
    <3>3. \A j \in Places : j <= a[1] => media'[j] = media[j]
      BY <1>1, <1>3, <3>1, <3>2 DEF Places
    <3>4. \A j \in Places : j <= a[1] => Durable(j)'
      BY <1>1, <1>3, <3>1, <3>2 DEF Durable, Places
    <3> QED BY <3>1, <3>3, <3>4 DEF Places
  <2> QED BY <1>1, <2>1 DEF AckedShape, Passable, Sealed, Skippable
<1> QED BY <1>5, <1>6, <1>7, <1>9, <1>10 DEF IInv

\* Dropping what is owed to a barrier disturbs nothing.
LEMMA LessPending ==
  ASSUME IInv, UNCHANGED <<media, acked>>, pending' \subseteq pending
  PROVE  MediaShape' /\ PendingShape' /\ AckedShape'
BY DEF IInv, MediaShape, PendingShape, AckedShape, Durable, Passable, Sealed, Skippable

LEMMA PayloadBarrierStep ==
  ASSUME IInv, PayloadBarrier \/ Abandon
  PROVE  IInv'
<1>1. /\ UNCHANGED <<media, mode, at, ending, seen, appendable, acked>>
      /\ mode = "Open" /\ stage \in {"Staged", "Sealable"} /\ ~appendable
      /\ pending' \subseteq pending
      /\ \/ stage' = "None"
         \/ stage = "Staged" /\ stage' = "Sealable" /\ pending' = {}
  BY DEF PayloadBarrier, Abandon, Barrier, device, IInv, WriterShape
<1>2. MediaShape' /\ PendingShape' /\ AckedShape'
  BY <1>1, LessPending
<1>3. TypeOK'
  BY <1>1 DEF IInv, TypeOK
<1>4. ScanShape'
  BY <1>1 DEF IInv, ScanShape, Passable, Sealed, Skippable
<1>5. WriterShape'
  BY <1>1 DEF IInv, WriterShape
<1> QED BY <1>2, <1>3, <1>4, <1>5 DEF IInv

LEMMA CommitSealStep ==
  ASSUME IInv, CommitSeal
  PROVE  IInv'
<1>1. /\ mode = "Open" /\ stage = "Sealable" /\ ~appendable /\ at \in Places
      /\ media[at].body = "Whole" /\ media[at].seal = "Erased" /\ media[at].rec \in Recs
      /\ <<at, "body">> \notin pending
      /\ \A j \in Places : j > at => media[j] = ErasedCell
      /\ UNCHANGED <<mode, at, ending, seen, appendable, acked>>
  BY DEF CommitSeal, IInv, WriterShape, MediaShape
<1>2. PICK level \in Levels :
        /\ Lands("seal", level, media[at].rec)
        /\ stage' = "None" \/ (stage' = "Sealing" /\ level = "Whole")
  BY DEF CommitSeal, Landings, Levels
<1>3. /\ media' \in [Places -> Cells]
      /\ media'[at].seal = level
      /\ media'[at].body = "Whole"
      /\ media'[at].rec = media[at].rec
      /\ \A j \in Places : j # at => media'[j] = media[j]
      /\ pending' \subseteq pending \cup {<<at, "seal">>}
      /\ pending' \subseteq Places \X Parts
      /\ <<at, "seal">> \in pending' => level # "Erased" \/ <<at, "seal">> \in pending
      /\ WriteThrough => pending' = pending
  <2>1. media[at]["seal"] = "Erased" /\ "seal" \in Parts /\ "body" \in Parts
    BY <1>1 DEF Parts
  <2>2. /\ media' \in [Places -> Cells]
        /\ media'[at]["seal"] = level
        /\ \A p \in Parts : p # "seal" => media'[at][p] = media[at][p]
        /\ level # "Erased" => media'[at].rec = media[at].rec
        /\ level = "Erased" => media'[at] = media[at]
        /\ \A j \in Places : j # at => media'[j] = media[j]
        /\ pending' \subseteq pending \cup {<<at, "seal">>}
        /\ pending' \subseteq Places \X Parts
        /\ <<at, "seal">> \in pending' => level # "Erased" \/ <<at, "seal">> \in pending
        /\ WriteThrough => pending' = pending
    BY <1>1, <1>2, <2>1, LandsFacts
  <2> QED BY <1>1, <2>1, <2>2
<1>4. <<at, "seal">> \notin pending /\ ~Sealed(media[at])
  BY <1>1 DEF IInv, PendingShape, Sealed, Parts
<1>5. TypeOK'
  BY <1>1, <1>2, <1>3 DEF IInv, TypeOK
<1>6. MediaShape'
  <2>1. ASSUME NEW i \in Places
        PROVE  /\ media'[i].body = "Erased" => media'[i] = ErasedCell
               /\ media'[i].body # "Erased" => media'[i].rec \in Recs
               /\ media'[i].seal # "Erased" => media'[i].body = "Whole" /\ <<i, "body">> \notin pending'
    <3>1. CASE i = at
      BY <1>1, <1>3, <3>1
    <3>2. CASE i # at
      <4>1. media'[i] = media[i] /\ (<<i, "body">> \in pending' => <<i, "body">> \in pending)
        BY <1>3, <3>2
      <4> QED BY <4>1 DEF IInv, MediaShape
    <3> QED BY <3>1, <3>2
  <2> QED BY <2>1 DEF MediaShape
<1>7. PendingShape'
  <2>1. ASSUME NEW i \in Places, NEW p \in Parts, <<i, p>> \in pending'
        PROVE  media'[i][p] # "Erased"
    <3>1. CASE i = at
      <4>1. p = "seal"
        BY <1>1, <1>3, <2>1, <3>1 DEF Parts
      <4> QED BY <1>3, <1>4, <2>1, <3>1, <4>1
    <3>2. CASE i # at
      <4>1. media'[i] = media[i] /\ <<i, p>> \in pending
        BY <1>3, <2>1, <3>2
      <4> QED BY <4>1 DEF IInv, PendingShape
    <3> QED BY <3>1, <3>2
  <2> QED BY <1>3, <2>1 DEF PendingShape, IInv
<1>8. \A j \in Places : j < at => Passable(media'[j])
  BY <1>1, <1>3 DEF IInv, ScanShape, Places
<1>9. ScanShape' /\ WriterShape'
  <2>1. ScanShape'
    BY <1>1, <1>8 DEF ScanShape, Passable, Sealed, Skippable
  <2>2. \A j \in Places : j > at => media'[j] = ErasedCell
    BY <1>1, <1>3 DEF Places
  <2>3. <<at, "body">> \notin pending'
    BY <1>1, <1>3
  <2>4. WriterShape'
    BY <1>1, <1>2, <1>3, <2>2, <2>3 DEF WriterShape
  <2> QED BY <2>1, <2>4
<1>10. AckedShape'
  <2>1. ASSUME NEW a \in acked
        PROVE  /\ Sealed(media'[a[1]]) /\ media'[a[1]].rec = a[2]
               /\ \A j \in Places : j <= a[1] => Passable(media'[j]) /\ Durable(j)'
    <3>1. /\ a[1] \in Places /\ Sealed(media[a[1]]) /\ media[a[1]].rec = a[2]
          /\ \A j \in Places : j <= a[1] => Passable(media[j]) /\ Durable(j)
      BY DEF IInv, AckedShape, TypeOK
    <3>2. a[1] < at
      <4>1. a[1] # at /\ ~(a[1] > at)
        BY <1>1, <1>4, <3>1 DEF Sealed, ErasedCell
      <4> QED BY <1>1, <3>1, <4>1 DEF Places
    <3>3. \A j \in Places : j <= a[1] => media'[j] = media[j]
      BY <1>1, <1>3, <3>1, <3>2 DEF Places
    <3>4. \A j \in Places : j <= a[1] => Durable(j)'
      BY <1>1, <1>3, <3>1, <3>2 DEF Durable, Places
    <3> QED BY <3>1, <3>3, <3>4 DEF Places
  <2> QED BY <1>1, <2>1 DEF AckedShape, Passable, Sealed, Skippable
<1> QED BY <1>5, <1>6, <1>7, <1>9, <1>10 DEF IInv

LEMMA CommitBarrierStep ==
  ASSUME IInv, CommitBarrier
  PROVE  IInv'
<1>1. /\ mode = "Open" /\ stage = "Sealing" /\ stage' = "None" /\ ~appendable /\ at \in Places
      /\ Sealed(media[at]) /\ media[at].rec \in Recs
      /\ \A j \in Places : j > at => media[j] = ErasedCell
      /\ UNCHANGED <<media, mode, ending, seen>>
  BY DEF CommitBarrier, IInv, WriterShape, MediaShape, Sealed
<1>2. CASE pending' = pending /\ UNCHANGED <<at, appendable, acked>>
  <2>1. MediaShape' /\ PendingShape' /\ AckedShape'
    BY <1>1, <1>2, LessPending
  <2> QED BY <1>1, <1>2, <2>1 DEF IInv, TypeOK, ScanShape, WriterShape, Passable, Sealed, Skippable
<1>3. CASE /\ pending' = {} /\ at' = at + 1 /\ appendable' = TRUE
           /\ acked' = acked \cup {<<at, media[at].rec>>}
  <2>1. MediaShape' /\ PendingShape'
    BY <1>1, <1>3 DEF IInv, MediaShape, PendingShape
  <2>2. TypeOK'
    BY <1>1, <1>3 DEF IInv, TypeOK, Places
  <2>3. \A j \in Places : j <= at => Passable(media[j])
    BY <1>1 DEF IInv, ScanShape, Passable, Places
  <2>4. ScanShape' /\ WriterShape'
    BY <1>1, <1>3, <2>3 DEF ScanShape, WriterShape, ErasedFrom, Places, Passable, Sealed, Skippable
  <2>5. AckedShape'
    <3>1. ASSUME NEW a \in acked'
          PROVE  /\ Sealed(media[a[1]]) /\ media[a[1]].rec = a[2]
                 /\ \A j \in Places : j <= a[1] => Passable(media[j]) /\ Durable(j)'
      <4>1. \A j : Durable(j)'
        BY <1>3 DEF Durable
      <4>2. CASE a \in acked
        BY <4>1, <4>2 DEF IInv, AckedShape
      <4>3. CASE a = <<at, media[at].rec>>
        BY <1>1, <2>3, <4>1, <4>3
      <4> QED BY <1>3, <4>2, <4>3
    <3> QED BY <1>1, <3>1 DEF AckedShape, Passable, Sealed, Skippable
  <2> QED BY <2>1, <2>2, <2>4, <2>5 DEF IInv
<1> QED BY <1>2, <1>3 DEF CommitBarrier, Barrier
-----------------------------------------------------------------------------
(* The world                                                               *)
LEMMA ResetStep ==
  ASSUME IInv, Reset
  PROVE  IInv'
<1>1. /\ UNCHANGED <<media, pending, acked>>
      /\ mode' = "Down" /\ ending' = "None" /\ seen' = {} /\ at' = 1
      /\ appendable' = FALSE /\ stage' = "None"
  BY DEF Reset, Stops, device
<1>2. MediaShape' /\ PendingShape' /\ AckedShape'
  BY <1>1, LessPending
<1>3. TypeOK'
  <2>1. at' \in 1 .. Slots + 1
    BY <1>1
  <2> QED BY <1>1, <2>1 DEF IInv, TypeOK, Endings
<1> QED BY <1>1, <1>2, <1>3 DEF IInv, ScanShape, WriterShape

LEMMA PowerLossStep ==
  ASSUME IInv, PowerLoss
  PROVE  IInv'
<1>1. /\ pending' = {} /\ acked' = acked
      /\ mode' = "Down" /\ ending' = "None" /\ seen' = {} /\ at' = 1
      /\ appendable' = FALSE /\ stage' = "None"
  BY DEF PowerLoss, Stops
<1>2. PICK left \in [pending -> Levels] :
        /\ \A p \in pending : left[p] \in Remains(media[p[1]][p[2]])
        /\ media' = [i \in Places |->
             [body |-> LeftOf(i, "body", left),
              seal |-> LeftOf(i, "seal", left),
              rec  |-> IF LeftOf(i, "body", left) = "Erased" THEN NoRec ELSE media[i].rec]]
  BY DEF PowerLoss
<1>3. ASSUME NEW i \in Places
      PROVE  /\ media'[i] \in Cells
             /\ media'[i].body = "Erased" => media'[i] = ErasedCell
             /\ media'[i].body # "Erased" => media'[i].rec \in Recs
             /\ media'[i].seal # "Erased" => media'[i].body = "Whole"
             /\ Durable(i) => media'[i] = media[i]
  <2>1. media[i] \in Cells /\ media[i].body \in Levels /\ media[i].seal \in Levels
    BY DEF IInv, TypeOK, Cells
  <2>2. LeftOf(i, "body", left) \in Levels /\ LeftOf(i, "seal", left) \in Levels
    BY <2>1 DEF LeftOf
  <2>3. media'[i] = [body |-> LeftOf(i, "body", left),
                     seal |-> LeftOf(i, "seal", left),
                     rec  |-> IF LeftOf(i, "body", left) = "Erased" THEN NoRec ELSE media[i].rec]
    BY <1>2
  <2>4. <<i, "body">> \notin pending => LeftOf(i, "body", left) = media[i].body
    BY DEF LeftOf
  <2>5. <<i, "seal">> \notin pending => LeftOf(i, "seal", left) = media[i].seal
    BY DEF LeftOf
  <2>6. <<i, "body">> \in pending => media[i].seal = "Erased" /\ <<i, "seal">> \notin pending
    BY <2>1 DEF IInv, MediaShape, PendingShape, Parts
  <2>7. /\ media[i].body = "Erased" => media[i] = ErasedCell
        /\ media[i].body # "Erased" => media[i].rec \in Recs
        /\ media[i].seal # "Erased" => media[i].body = "Whole" /\ <<i, "body">> \notin pending
    BY DEF IInv, MediaShape
  <2>8. <<i, "body">> \in pending => media[i].body # "Erased"
    BY DEF IInv, PendingShape, Parts
  <2>9. <<i, "seal">> \in pending => media[i].seal # "Erased"
    BY DEF IInv, PendingShape, Parts
  <2>10. media'[i] \in Cells
    BY <2>1, <2>2, <2>3 DEF Cells
  <2>11. media'[i].seal # "Erased" => media'[i].body = "Whole"
    BY <2>3, <2>4, <2>5, <2>6, <2>7, <2>9
  <2>12. media'[i].body = "Erased" => media'[i] = ErasedCell
    BY <2>3, <2>11 DEF ErasedCell
  <2>13. media'[i].body # "Erased" => media'[i].rec \in Recs
    BY <2>3, <2>4, <2>7, <2>8
  <2>14. Durable(i) => media'[i] = media[i]
    <3>1. SUFFICES ASSUME Durable(i) PROVE media'[i] = media[i]
      OBVIOUS
    <3>2. /\ media'[i].body = media[i].body /\ media'[i].seal = media[i].seal
          /\ media'[i].rec = media[i].rec
      BY <2>3, <2>4, <2>5, <2>7, <3>1 DEF Durable, Parts, ErasedCell
    <3> QED BY <2>1, <2>10, <3>2 DEF Cells
  <2> QED BY <2>10, <2>11, <2>12, <2>13, <2>14
<1>4. TypeOK'
  <2>1. media' \in [Places -> Cells]
    BY <1>2, <1>3
  <2>2. at' \in 1 .. Slots + 1
    BY <1>1
  <2> QED BY <1>1, <2>1, <2>2 DEF IInv, TypeOK, Endings
<1>5. MediaShape' /\ PendingShape'
  BY <1>1, <1>3 DEF MediaShape, PendingShape
<1>6. AckedShape'
  <2>1. ASSUME NEW a \in acked
        PROVE  /\ Sealed(media'[a[1]]) /\ media'[a[1]].rec = a[2]
               /\ \A j \in Places : j <= a[1] => Passable(media'[j]) /\ Durable(j)'
    <3>1. /\ a[1] \in Places /\ Sealed(media[a[1]]) /\ media[a[1]].rec = a[2]
          /\ \A j \in Places : j <= a[1] => Passable(media[j]) /\ Durable(j)
      BY DEF IInv, AckedShape, TypeOK
    <3>2. \A j \in Places : j <= a[1] => media'[j] = media[j]
      BY <1>3, <3>1
    <3>3. \A j : Durable(j)'
      BY <1>1 DEF Durable
    <3> QED BY <3>1, <3>2, <3>3 DEF Places
  <2> QED BY <1>1, <2>1 DEF AckedShape, Passable, Sealed, Skippable
<1> QED BY <1>1, <1>4, <1>5, <1>6 DEF IInv, ScanShape, WriterShape
-----------------------------------------------------------------------------
LEMMA StepIInv ==
  ASSUME IInv, [Next]_vars
  PROVE  IInv'
<1>1. CASE UNCHANGED vars
  BY <1>1 DEF vars, device, IInv, TypeOK, MediaShape, PendingShape, ScanShape, WriterShape,
              AckedShape, Durable, Passable, Sealed, Skippable, ErasedFrom
<1>2. CASE Next
  BY <1>2, ScanStep, StageStep, PayloadBarrierStep, CommitSealStep, CommitBarrierStep,
     ResetStep, PowerLossStep DEF Next
<1> QED BY <1>1, <1>2

LEMMA Invariance == Spec => []IInv
BY InitIInv, StepIInv, PTL DEF Spec
-----------------------------------------------------------------------------
(* The theorems                                                            *)

\* The journal's state keeps its types.
THEOREM Typing == Spec => []TypeOK
BY Invariance, PTL DEF IInv

\* Acknowledged durability: a record whose append returned Ok is readable
\* for ever, on either kind of device, after any failure, reset or cut.
THEOREM AcknowledgedDurability == Spec => []AckedIsReadable
<1>1. IInv => AckedIsReadable
  <2>1. ASSUME IInv, NEW a \in acked
        PROVE  a[1] \in Readable /\ media[a[1]].rec = a[2]
    <3>1. a[1] \in Places
      BY <2>1 DEF IInv, TypeOK
    <3> QED BY <2>1, <3>1 DEF IInv, AckedShape, Readable, Places
  <2> QED BY <2>1 DEF AckedIsReadable
<1> QED BY <1>1, Invariance, PTL

\* A writer that may append faces erased media alone.
THEOREM AppendsOnErased == Spec => []WriterFacesErased
<1>1. IInv => WriterFacesErased
  BY DEF IInv, WriterShape, WriterFacesErased
<1> QED BY <1>1, Invariance, PTL

\* Whatever seal is on the media, torn or whole, its body is durable.
THEOREM SealsCover == Spec => []SealCoversDurableBody
<1>1. IInv => SealCoversDurableBody
  BY DEF IInv, MediaShape, SealCoversDurableBody
<1> QED BY <1>1, Invariance, PTL

\* A scan that reaches an end has yielded the readable history, no more and
\* no less.
THEOREM ScansAreExact == Spec => []ScanYieldsHistory
<1>1. IInv => ScanYieldsHistory
  <2>1. SUFFICES ASSUME IInv, mode = "Scanning", ending \in {"Clean", "Damaged", "Unsealed"}
                 PROVE  seen = Readable
    BY DEF ScanYieldsHistory
  <2>2. /\ seen = {i \in Places : i < at /\ Sealed(media[i])}
        /\ \A j \in Places : j < at => Passable(media[j])
        /\ at \in 1 .. Slots + 1
    BY <2>1 DEF IInv, ScanShape, TypeOK
  <2>3. seen \subseteq Readable
    BY <2>2 DEF Readable, Places
  <2>4. ASSUME NEW i \in Readable
        PROVE  i \in seen
    <3>1. /\ i \in Places /\ Sealed(media[i])
          /\ \A j \in Places : j < i => Passable(media[j])
      BY DEF Readable
    <3>2. CASE ending = "Clean"
      <4>1. ErasedFrom(at)
        BY <2>1, <3>2 DEF IInv, ScanShape
      <4>2. ~(i >= at)
        BY <3>1, <4>1 DEF ErasedFrom, Sealed, ErasedCell
      <4> QED BY <2>2, <3>1, <4>2 DEF Places
    <3>3. CASE ending \in {"Damaged", "Unsealed"}
      <4>1. at \in Places /\ ~Passable(media[at])
        BY <2>1, <3>3 DEF IInv, ScanShape
      <4>2. i # at /\ ~(at < i)
        BY <3>1, <4>1 DEF Passable
      <4> QED BY <2>2, <3>1, <4>1, <4>2 DEF Places
    <3> QED BY <2>1, <3>2, <3>3
  <2> QED BY <2>3, <2>4
<1> QED BY <1>1, Invariance, PTL

\* Prefix safety: history only grows at its end; what a power loss may take
\* back on a write-back device is what no barrier covered.
LEMMA GrowthStep ==
  ASSUME IInv, Next
  PROVE  WriteThrough \/ ~PowerLoss =>
           /\ Readable \subseteq Readable'
           /\ \A i \in Readable : media'[i].rec = media[i].rec
           /\ \A i \in Readable, j \in Readable' \ Readable : i < j
<1>1. CASE UNCHANGED media
  BY <1>1 DEF Readable, Passable, Sealed, Skippable
<1>2. CASE \/ \E rec \in Recs : Stage(rec)
           \/ CommitSeal
  <2>1. /\ at \in Places /\ ~Sealed(media[at])
        /\ \A j \in Places : j > at => media[j] = ErasedCell
    <3>1. CASE \E rec \in Recs : Stage(rec)
      BY <3>1 DEF Stage, IInv, WriterShape, ErasedFrom, Sealed, ErasedCell, Places
    <3>2. CASE CommitSeal
      BY <3>2 DEF CommitSeal, IInv, WriterShape, Sealed
    <3> QED BY <1>2, <3>1, <3>2
  <2>2. \A j \in Places : j # at => media'[j] = media[j]
    BY <1>2, <2>1 DEF IInv, TypeOK, Stage, CommitSeal, Lands
  <2>3. \A i \in Readable : i \in Places /\ i < at
    BY <2>1 DEF Readable, Sealed, ErasedCell, Places
  <2>4. ASSUME NEW i \in Readable
        PROVE  i \in Readable' /\ media'[i].rec = media[i].rec
    <3>1. \A j \in Places : j <= i => media'[j] = media[j]
      BY <2>1, <2>2, <2>3 DEF Places
    <3>2. i \in Places /\ Sealed(media[i]) /\ \A j \in Places : j < i => Passable(media[j])
      BY DEF Readable
    <3>3. Sealed(media'[i]) /\ media'[i] = media[i]
      BY <3>1, <3>2 DEF Places
    <3>4. \A j \in Places : j < i => Passable(media'[j])
      BY <3>1, <3>2 DEF Places
    <3> QED BY <3>2, <3>3, <3>4 DEF Readable, Passable, Sealed, Skippable
  <2>5. ASSUME NEW i \in Readable, NEW j \in Readable' \ Readable
        PROVE  i < j
    <3>1. j \in Places /\ Sealed(media'[j]) /\ \A k \in Places : k < j => Passable(media'[k])
      BY DEF Readable, Passable, Sealed, Skippable
    <3>2. CASE j < at
      <4>1. \A k \in Places : k <= j => media'[k] = media[k]
        BY <2>1, <2>2, <3>1, <3>2 DEF Places
      <4>2. j \in Readable
        BY <3>1, <4>1 DEF Readable, Places
      <4> QED BY <4>2
    <3>3. CASE ~(j < at)
      BY <2>1, <2>3, <3>1, <3>3 DEF Places
    <3> QED BY <3>2, <3>3
  <2> QED BY <2>4, <2>5
<1>3. CASE PowerLoss /\ WriteThrough
  <2>1. pending = {} /\ media \in [Places -> Cells]
    BY <1>3 DEF IInv, PendingShape, TypeOK
  <2>2. ASSUME NEW i \in Places
        PROVE  media'[i].body = media[i].body /\ media'[i].seal = media[i].seal
               /\ (media[i].body # "Erased" => media'[i].rec = media[i].rec)
    BY <1>3, <2>1 DEF PowerLoss, LeftOf
  <2>3. \A i \in Places : Sealed(media'[i]) <=> Sealed(media[i])
    BY <2>2 DEF Sealed
  <2>4. \A i \in Places : Passable(media'[i]) <=> Passable(media[i])
    BY <2>2, <2>3 DEF Passable, Skippable
  <2>5. Readable' = Readable
    BY <2>3, <2>4 DEF Readable, Passable, Sealed, Skippable
  <2>6. \A i \in Readable : media'[i].rec = media[i].rec
    BY <2>2 DEF Readable, Sealed
  <2> QED BY <2>5, <2>6
<1> QED
  BY <1>1, <1>2, <1>3 DEF Next, Boot, ScanFrame, ScanFault, After, Ends, Passes, PayloadBarrier,
     CommitBarrier, Abandon, Reset, device

THEOREM PrefixSafety == Spec => HistoryOnlyGrows
<1>1. IInv /\ [Next]_vars =>
        [WriteThrough \/ ~PowerLoss =>
           /\ Readable \subseteq Readable'
           /\ \A i \in Readable : media'[i].rec = media[i].rec
           /\ \A i \in Readable, j \in Readable' \ Readable : i < j]_vars
  BY GrowthStep
<1> QED BY <1>1, Invariance, PTL DEF Spec, HistoryOnlyGrows

-----------------------------------------------------------------------------
(***************************************************************************)
(* The journal implements the log the driver stands on.                    *)
(*                                                                         *)
(* The argument.  Readable slots are counted off from the front, so what   *)
(* happens to the log is decided by what happens to the set of them: one   *)
(* more behind the others appends a record, the last one less drops it.    *)
(* And a power loss can take no more than the last, because a seal is      *)
(* programmed only when no barrier is owed: nothing in front of a seal is  *)
(* pending, and nothing behind a pending part is sealed.                   *)
(***************************************************************************)

\* A seal is only programmed with no barrier owed.
SealsAlone == stage = "Sealable" => pending = {}

\* Behind a part that a power loss may take there is no seal.
PendingIsLast ==
  \A i, j \in Places, p \in Parts :
    <<i, p>> \in pending /\ i < j => media[j].seal = "Erased"

RInv == IInv /\ SealsAlone /\ PendingIsLast

USE SlotsAssumption, RecsAssumption, WriteThroughAssumption
-----------------------------------------------------------------------------
(* Counting off the members of a set of places                             *)

Upto(S, i) == {j \in S : j <= i}
Nth(S, k) == CHOOSE i \in S : Cardinality(Upto(S, i)) = k
Behind(m, S) == m \in Places /\ \A i \in S : i < m
Alike(S, old, new) == \A i \in S : new[i].rec = old[i].rec
Holds(S, cells) == \A i \in S : cells[i].rec \in Recs

\* T has one place more than S, behind its own, and the rest is alike.
Longer(S, T, m, old, new) ==
  /\ S \in SUBSET Places /\ Behind(m, S) /\ T = S \cup {m}
  /\ Alike(S, old, new) /\ Holds(S, old) /\ new[m].rec \in Recs

\* A log has one record more.
Grown(log, r, longer) == longer = Append(log, r)

\* What the places of a set hold, in their order.
LogOf(S, cells) == [k \in 1 .. Cardinality(S) |-> cells[Nth(S, k)].rec]

\* A set of places is finite, and so is any part of it.
LEMMA PlacesAreFinite ==
  ASSUME NEW S \in SUBSET Places
  PROVE  IsFiniteSet(S) /\ Cardinality(S) \in Nat
<1>1. IsFiniteSet(1 .. Slots)
  BY FS_Interval
<1>2. IsFiniteSet(S)
  BY <1>1, FS_Subset DEF Places
<1> QED BY <1>2, FS_CardinalityType

\* A member's count is one of those counted.
LEMMA CountInRange ==
  ASSUME NEW S \in SUBSET Places, NEW i \in S
  PROVE  Cardinality(Upto(S, i)) \in 1 .. Cardinality(S)
<1>1. Upto(S, i) \in SUBSET S /\ i \in Upto(S, i)
  BY DEF Upto, Places
<1>2. /\ IsFiniteSet(S) /\ Cardinality(S) \in Nat
      /\ IsFiniteSet(Upto(S, i)) /\ Cardinality(Upto(S, i)) \in Nat
  BY <1>1, PlacesAreFinite
<1>3. Cardinality(Upto(S, i)) <= Cardinality(S)
  BY <1>1, <1>2, FS_Subset
<1>4. Cardinality(Upto(S, i)) # 0
  BY <1>1, <1>2, FS_EmptySet
<1> QED BY <1>2, <1>3, <1>4

\* No two members have the same count.
LEMMA CountIsUnique ==
  ASSUME NEW S \in SUBSET Places, NEW i \in S, NEW j \in S,
         Cardinality(Upto(S, i)) = Cardinality(Upto(S, j))
  PROVE  i = j
<1>0. \A x \in S : x \in Places /\ x \in Nat
  BY DEF Places
<1>1. ASSUME NEW a \in S, NEW b \in S, a < b
      PROVE  Cardinality(Upto(S, a)) # Cardinality(Upto(S, b))
  <2>1. Upto(S, a) \in SUBSET Upto(S, b) /\ Upto(S, b) \in SUBSET Places
    <3>1. \A x \in Upto(S, a) : x \in Upto(S, b)
      BY <1>0, <1>1 DEF Upto
    <3>2. \A x \in Upto(S, b) : x \in Places
      BY <1>0 DEF Upto
    <3> QED BY <3>1, <3>2
  <2>2. b \in Upto(S, b) /\ b \notin Upto(S, a)
    BY <1>1 DEF Upto, Places
  <2>3. IsFiniteSet(Upto(S, b))
    BY <2>1, PlacesAreFinite
  <2>4. Cardinality(Upto(S, b)) = Cardinality(Upto(S, a)) => Upto(S, b) = Upto(S, a)
    BY <2>1, <2>3, FS_Subset
  <2> QED BY <2>2, <2>4
<1> QED BY <1>1 DEF Places

\* The member with a given count is the one counted off.
LEMMA NthIs ==
  ASSUME NEW S \in SUBSET Places, NEW i \in S
  PROVE  Nth(S, Cardinality(Upto(S, i))) = i
<1> DEFINE n == Cardinality(Upto(S, i))
<1>1. Nth(S, n) \in S /\ Cardinality(Upto(S, Nth(S, n))) = n
  BY DEF Nth
<1> QED BY <1>1, CountIsUnique

\* Every count up to their number is some member's.
LEMMA NthExists ==
  ASSUME NEW S \in SUBSET Places, NEW k \in 1 .. Cardinality(S)
  PROVE  Nth(S, k) \in S /\ Cardinality(Upto(S, Nth(S, k))) = k
<1> DEFINE n == Cardinality(S)
           count == [i \in S |-> Cardinality(Upto(S, i))]
<1>1. IsFiniteSet(S) /\ n \in Nat
  BY PlacesAreFinite
<1>2. IsFiniteSet(1 .. n) /\ Cardinality(1 .. n) = n
  BY <1>1, FS_Interval
<1>3. count \in [S -> 1 .. n]
  BY CountInRange
<1>4. \A i, j \in S : count[i] = count[j] => i = j
  BY CountIsUnique
<1>5. count \in Injection(S, 1 .. n)
  BY <1>3, <1>4 DEF Injection, IsInjective
<1>6. count \in Surjection(S, 1 .. n)
  BY <1>2, <1>5, FS_Injection
<1>7. \E i \in S : count[i] = k
  BY <1>6 DEF Surjection
<1>8. \E i \in S : Cardinality(Upto(S, i)) = k
  BY <1>7
<1> QED BY <1>8 DEF Nth

\* One more member behind the others leaves their counts, and comes last.
LEMMA NthBehind ==
  ASSUME NEW S \in SUBSET Places, NEW m, Behind(m, S)
  PROVE  /\ Cardinality(S \cup {m}) = Cardinality(S) + 1
         /\ \A k \in 1 .. Cardinality(S) : Nth(S \cup {m}, k) = Nth(S, k)
         /\ Nth(S \cup {m}, Cardinality(S) + 1) = m
<1> DEFINE T == S \cup {m}
<1>1. T \in SUBSET Places /\ m \notin S /\ m \in Nat /\ \A x \in S : x \in Nat
  BY DEF Behind, Places
<1>2. Cardinality(T) = Cardinality(S) + 1
  BY <1>1, PlacesAreFinite, FS_AddElement
<1>3. ASSUME NEW k \in 1 .. Cardinality(S)
      PROVE  Nth(T, k) = Nth(S, k)
  <2>1. Nth(S, k) \in S /\ Cardinality(Upto(S, Nth(S, k))) = k
    BY NthExists
  <2>2. Upto(T, Nth(S, k)) = Upto(S, Nth(S, k))
    <3>1. ASSUME NEW i \in S
          PROVE  Upto(T, i) = Upto(S, i)
      <4>1. \A x \in Upto(T, i) : x \in Upto(S, i)
        BY <1>1 DEF Upto, Behind
      <4>2. \A x \in Upto(S, i) : x \in Upto(T, i)
        BY DEF Upto
      <4> QED BY <4>1, <4>2
    <3> QED BY <2>1, <3>1
  <2>3. Nth(S, k) \in T
    BY <2>1
  <2>4. Nth(T, Cardinality(Upto(T, Nth(S, k)))) = Nth(S, k)
    BY <1>1, <2>3, NthIs
  <2>5. Cardinality(Upto(T, Nth(S, k))) = k
    BY <2>1, <2>2
  <2> QED BY <2>4, <2>5
<1>4. Upto(T, m) = T
  <2>1. \A x \in T : x \in Upto(T, m)
    BY <1>1 DEF Upto, Behind
  <2>2. \A x \in Upto(T, m) : x \in T
    BY DEF Upto
  <2> QED BY <2>1, <2>2
<1>5. Nth(T, Cardinality(Upto(T, m))) = m
  BY <1>1, NthIs
<1>6. Nth(T, Cardinality(S) + 1) = m
  BY <1>2, <1>4, <1>5
<1> QED BY <1>2, <1>3, <1>6

\* The log of a set of places is a sequence of what they hold.
LEMMA LogIsSequence ==
  ASSUME NEW S \in SUBSET Places, NEW cells, Holds(S, cells)
  PROVE  LogOf(S, cells) \in Seq(Recs) /\ Len(LogOf(S, cells)) = Cardinality(S)
<1>1. Cardinality(S) \in Nat
  BY PlacesAreFinite
<1>2. \A k \in 1 .. Cardinality(S) : Nth(S, k) \in S
  BY NthExists
<1> QED BY <1>1, <1>2 DEF LogOf, Holds

\* It depends on those places alone.
LEMMA LogOfSame ==
  ASSUME NEW S \in SUBSET Places, NEW old, NEW new, Alike(S, old, new)
  PROVE  LogOf(S, new) = LogOf(S, old)
BY NthExists DEF LogOf, Alike

\* One more behind the others appends.
LEMMA LogOfBehind ==
  ASSUME NEW S, NEW T, NEW m, NEW old, NEW new, Longer(S, T, m, old, new)
  PROVE  Grown(LogOf(S, old), new[m].rec, LogOf(T, new))
<1>0. /\ S \in SUBSET Places /\ Behind(m, S) /\ T = S \cup {m}
      /\ Alike(S, old, new) /\ Holds(S, old) /\ new[m].rec \in Recs
  BY DEF Longer
<1> DEFINE n == Cardinality(S)
<1>1. /\ n \in Nat /\ Cardinality(T) = n + 1
      /\ \A k \in 1 .. n : Nth(T, k) = Nth(S, k) /\ Nth(S, k) \in S
      /\ Nth(T, n + 1) = m
  <2>1. /\ Cardinality(S \cup {m}) = n + 1
        /\ \A k \in 1 .. n : Nth(S \cup {m}, k) = Nth(S, k)
        /\ Nth(S \cup {m}, n + 1) = m
    BY <1>0, NthBehind
  <2>2. n \in Nat /\ \A k \in 1 .. n : Nth(S, k) \in S
    BY <1>0, PlacesAreFinite, NthExists
  <2> QED BY <1>0, <2>1, <2>2
<1>2. LogOf(S, old) \in Seq(Recs) /\ Len(LogOf(S, old)) = n
  BY <1>0, LogIsSequence
<1>3. LogOf(T, new) = [k \in 1 .. n + 1 |-> new[Nth(T, k)].rec]
  BY <1>0, <1>1 DEF LogOf
<1>4. Append(LogOf(S, old), new[m].rec)
        = [k \in 1 .. n + 1 |-> IF k = n + 1 THEN new[m].rec ELSE LogOf(S, old)[k]]
  BY <1>1, <1>2, <1>0
<1>5. \A k \in 1 .. n : LogOf(S, old)[k] = old[Nth(S, k)].rec
  BY DEF LogOf
<1>6. ASSUME NEW k \in 1 .. n + 1
      PROVE  new[Nth(T, k)].rec = IF k = n + 1 THEN new[m].rec ELSE LogOf(S, old)[k]
  <2>1. CASE k = n + 1
    BY <1>1, <2>1
  <2>2. CASE k \in 1 .. n
    BY <1>0, <1>1, <1>5, <2>2 DEF Alike
  <2> QED BY <1>1, <2>1, <2>2
<1>7. LogOf(T, new)
        = [k \in 1 .. n + 1 |-> IF k = n + 1 THEN new[m].rec ELSE LogOf(S, old)[k]]
  BY <1>3, <1>6, Zenon
<1> QED BY <1>4, <1>7 DEF Grown

\* The last one less drops its record.
LEMMA LogOfFront ==
  ASSUME NEW S, NEW T, NEW m, NEW old, NEW new, Longer(S, T, m, old, new)
  PROVE  LogOf(S, old) = SubSeq(LogOf(T, new), 1, Cardinality(S))
<1>1. Grown(LogOf(S, old), new[m].rec, LogOf(T, new))
  BY LogOfBehind
<1>2. /\ LogOf(S, old) \in Seq(Recs) /\ Len(LogOf(S, old)) = Cardinality(S)
      /\ Cardinality(S) \in Nat /\ new[m].rec \in Recs
  BY LogIsSequence, PlacesAreFinite DEF Longer
<1>3. \A s \in Seq(Recs), r \in Recs : SubSeq(Append(s, r), 1, Len(s)) = s
  OBVIOUS
<1>4. SubSeq(Append(LogOf(S, old), new[m].rec), 1, Len(LogOf(S, old))) = LogOf(S, old)
  BY <1>2, <1>3
<1> QED BY <1>1, <1>2, <1>4 DEF Grown
-----------------------------------------------------------------------------
(* What every reachable state satisfies                                    *)

\* The two facts that Journal's own invariant leaves out hold at first.
LEMMA InitRInv ==
  ASSUME Init
  PROVE  RInv
BY InitIInv DEF Init, RInv, SealsAlone, PendingIsLast

\* Every step keeps them.
LEMMA StepRInv ==
  ASSUME RInv, [Next]_vars
  PROVE  RInv'
<1>1. IInv /\ IInv'
  BY StepIInv DEF RInv
<1>2. CASE UNCHANGED <<media, pending>> /\ (stage' = stage \/ stage' = "None")
  BY <1>1, <1>2 DEF RInv, SealsAlone, PendingIsLast
<1>3. CASE pending' = {}
  BY <1>1, <1>3 DEF SealsAlone, PendingIsLast, RInv
<1>4. CASE \E rec \in Recs : Stage(rec)
  <2>1. PICK rec \in Recs : Stage(rec)
    BY <1>4
  <2>2. /\ at \in Places /\ stage' # "Sealable"
        /\ \A j \in Places : j >= at => media[j].seal = "Erased"
    <3>1. at \in Places /\ mode = "Open" /\ appendable /\ stage' \in {"Staged", "None"}
      BY <2>1 DEF Stage
    <3>2. \A j \in Places : j >= at => media[j] = ErasedCell
      BY <1>1, <3>1 DEF IInv, WriterShape, ErasedFrom
    <3> QED BY <3>1, <3>2 DEF ErasedCell
  <2>3. PICK level \in Levels : Lands("body", level, rec)
    BY <2>1 DEF Stage, Landings, Levels
  <2>4. pending' \subseteq pending \cup {<<at, "body">>}
    BY <2>3 DEF Lands
  <2>5. \A j \in Places : media'[j].seal = media[j].seal
    BY <1>1, <2>3 DEF Lands, Written, IInv, TypeOK
  <2>6. ASSUME NEW i \in Places, NEW j \in Places, NEW p \in Parts, <<i, p>> \in pending', i < j
        PROVE  media'[j].seal = "Erased"
    <3>1. CASE <<i, p>> \in pending
      BY <2>5, <2>6, <3>1 DEF RInv, PendingIsLast
    <3>2. CASE i = at
      BY <2>2, <2>5, <2>6, <3>2 DEF Places
    <3> QED BY <2>4, <2>6, <3>1, <3>2
  <2> QED BY <1>1, <2>2, <2>6 DEF RInv, SealsAlone, PendingIsLast
<1>5. CASE CommitSeal
  <2>1. /\ at \in Places /\ stage' # "Sealable" /\ pending = {}
        /\ \A j \in Places : j > at => media[j].seal = "Erased"
    BY <1>1, <1>5 DEF CommitSeal, RInv, SealsAlone, IInv, WriterShape, ErasedCell
  <2>2. PICK level \in Levels : Lands("seal", level, media[at].rec)
    BY <1>5 DEF CommitSeal, Landings, Levels
  <2>3. /\ pending' \subseteq {<<at, "seal">>}
        /\ \A j \in Places : j # at => media'[j] = media[j]
    BY <1>1, <2>1, <2>2 DEF Lands, IInv, TypeOK
  <2> QED BY <1>1, <2>1, <2>3 DEF RInv, SealsAlone, PendingIsLast, Places
<1> QED
  BY <1>1, <1>2, <1>3, <1>4, <1>5
     DEF Next, vars, Boot, ScanFrame, ScanFault, After, Ends, Passes, PayloadBarrier, Barrier,
         CommitBarrier, Abandon, Reset, PowerLoss, Stops, device, writer

\* So they hold throughout.
LEMMA Reachable == Spec => []RInv
BY InitRInv, StepRInv, PTL DEF Spec
-----------------------------------------------------------------------------
(* The log, as the abstract specification sees it                          *)

\* What the mapping says, in terms of the readable places.
LEMMA Mapping ==
  /\ ReadableLog = LogOf(Readable, media)
  /\ ReadableLog' = LogOf(Readable', media')
  /\ FirmLength = Cardinality({i \in Readable : Settled(i)})
  /\ FirmLength' = Cardinality({i \in Readable' : Settled(i)'})
BY DEF ReadableLog, LogOf, NthReadable, Nth, Upto, FirmLength

\* A readable place holds a record, and so does the log.
LEMMA ReadableHolds ==
  ASSUME RInv
  PROVE  /\ Readable \in SUBSET Places
         /\ \A i \in Readable : media[i].rec \in Recs /\ Sealed(media[i])
         /\ ReadableLog \in Seq(Recs) /\ Len(ReadableLog) = Cardinality(Readable)
<1>1. /\ Readable \in SUBSET Places
      /\ \A i \in Readable : media[i].rec \in Recs /\ Sealed(media[i])
  BY DEF RInv, IInv, MediaShape, Readable, Sealed
<1> QED BY <1>1, Mapping, LogIsSequence DEF Holds

\* Where the readable places hold what they held, so does the log.
LEMMA SameLog ==
  ASSUME RInv, Readable' = Readable, \A i \in Readable : media'[i].rec = media[i].rec
  PROVE  ReadableLog' = ReadableLog
BY ReadableHolds, Mapping, LogOfSame DEF Alike

\* With no barrier owed all of the log is firm.
LEMMA AllFirm ==
  ASSUME \A i \in Readable : Settled(i)
  PROVE  FirmLength = Cardinality(Readable)
<1>1. {i \in Readable : Settled(i)} = Readable
  OBVIOUS
<1> QED BY <1>1, Mapping

\* A program call changes the slot at the offset, which is behind all that is
\* readable and becomes readable exactly when it is sealed.
LEMMA WriteAt ==
  ASSUME RInv, (\E rec \in Recs : Stage(rec)) \/ CommitSeal
  PROVE  /\ at \in Places /\ \A i \in Readable : i < at
         /\ \A i \in Readable : media'[i].rec = media[i].rec
         /\ Readable' = Readable \cup {i \in {at} : Sealed(media'[i])}
<1>1. IInv /\ media \in [Places -> Cells]
  BY DEF RInv, IInv, TypeOK
<1>2. /\ at \in Places /\ mode = "Open" /\ ~Sealed(media[at])
      /\ \A j \in Places : j > at => media[j] = ErasedCell
  <2>1. CASE \E rec \in Recs : Stage(rec)
    BY <1>1, <2>1 DEF Stage, IInv, WriterShape, ErasedFrom, Sealed, ErasedCell, Places
  <2>2. CASE CommitSeal
    BY <1>1, <2>2 DEF CommitSeal, IInv, WriterShape, Sealed
  <2> QED BY <2>1, <2>2
<1>3. \A j \in Places : j # at => media'[j] = media[j]
  BY <1>1, <1>2 DEF Stage, CommitSeal, Lands
<1>4. \A j \in Places : j < at => Passable(media[j])
  BY <1>1, <1>2 DEF IInv, ScanShape
<1>5. \A i \in Readable : i \in Places /\ i < at
  BY <1>2 DEF Readable, Sealed, ErasedCell, Places
<1>6. \A i \in Readable : media'[i].rec = media[i].rec
  BY <1>3, <1>5 DEF Places
<1>7. ASSUME NEW i \in Places
      PROVE  i \in Readable' <=> i \in Readable \/ (i = at /\ Sealed(media'[i]))
  <2>1. CASE i > at
    BY <1>2, <1>3, <1>5, <2>1 DEF Readable, Sealed, ErasedCell, Places
  <2>2. CASE i = at
    <3>1. \A j \in Places : j < i => Passable(media'[j])
      BY <1>2, <1>3, <1>4, <2>2 DEF Places
    <3>2. i \in Readable' <=> Sealed(media'[i])
      BY <3>1 DEF Readable, Sealed, Passable, Skippable
    <3> QED BY <1>2, <2>2, <3>2 DEF Readable
  <2>3. CASE i < at
    <3>1. \A j \in Places : j <= i => media'[j] = media[j]
      BY <1>2, <1>3, <2>3 DEF Places
    <3>2. Sealed(media'[i]) <=> Sealed(media[i])
      BY <3>1 DEF Places
    <3>3. \A j \in Places : j < i => Passable(media'[j]) /\ Passable(media[j])
      BY <1>2, <1>4, <3>1, <2>3 DEF Places
    <3>4. i \in Readable' <=> Sealed(media'[i])
      BY <3>3 DEF Readable, Sealed, Passable, Skippable
    <3>5. i \in Readable <=> Sealed(media[i])
      BY <3>3 DEF Readable
    <3> QED BY <1>2, <2>3, <3>2, <3>4, <3>5 DEF Places
  <2> QED BY <1>2, <2>1, <2>2, <2>3 DEF Places
<1>8. Readable \subseteq Places /\ Readable' \subseteq Places
  BY DEF Readable
<1> QED BY <1>2, <1>5, <1>6, <1>7, <1>8
-----------------------------------------------------------------------------
(* Each step is a step of the log, or none                                 *)

\* What leaves the readable places and what is owed for them disturbs at most
\* the end of the scan.
LEMMA Disturbs ==
  ASSUME RInv, Readable' = Readable, \A i \in Readable : media'[i].rec = media[i].rec,
         \A i \in Readable : Settled(i)' <=> Settled(i)
  PROVE  Abstract!Disturb
<1>1. ReadableLog' = ReadableLog
  BY SameLog
<1>2. {i \in Readable' : Settled(i)'} = {i \in Readable : Settled(i)}
  OBVIOUS
<1>3. FirmLength' = FirmLength
  BY <1>2, Mapping
<1>4. EndsClean' \in BOOLEAN
  BY DEF EndsClean
<1> QED BY <1>1, <1>3, <1>4 DEF Abstract!Disturb

\* A barrier that succeeds settles the log.
LEMMA BarrierSettles ==
  ASSUME RInv, media' = media, pending' = {}
  PROVE  Abstract!Settle
<1>1. Readable' = Readable /\ EndsClean' = EndsClean
  BY DEF Readable, EndsClean, ErasedFrom, Passable, Sealed, Skippable
<1>2. ReadableLog' = ReadableLog
  BY <1>1, SameLog
<1>3. {i \in Readable' : Settled(i)'} = Readable
  BY <1>1 DEF Settled
<1>4. FirmLength' = Len(ReadableLog)
  BY <1>3, Mapping, ReadableHolds
<1> QED BY <1>1, <1>2, <1>4 DEF Abstract!Settle

\* The body of a record is nothing to the log.
LEMMA StageDisturbs ==
  ASSUME RInv, NEW rec \in Recs, Stage(rec)
  PROVE  Abstract!Disturb
<1>1. IInv /\ media \in [Places -> Cells] /\ pending \subseteq Places \X Parts
  BY DEF RInv, IInv, TypeOK
<1>2. /\ at \in Places /\ \A i \in Readable : i < at
      /\ \A i \in Readable : media'[i].rec = media[i].rec
      /\ Readable' = Readable \cup {i \in {at} : Sealed(media'[i])}
  BY WriteAt
<1>3. PICK level \in Levels : Lands("body", level, rec)
  BY DEF Stage, Landings, Levels
<1>4. media[at].seal = "Erased"
  BY <1>1, <1>2 DEF Stage, IInv, WriterShape, ErasedFrom, ErasedCell, Places
<1>5. ~Sealed(media'[at])
  BY <1>1, <1>2, <1>3, <1>4 DEF Lands, Written, Sealed
<1>6. pending \subseteq pending' /\ pending' \subseteq pending \cup {<<at, "body">>}
  BY <1>3 DEF Lands
<1>7. \A i \in Readable : Settled(i)' <=> Settled(i)
  BY <1>2, <1>6 DEF Settled
<1>8. Readable' = Readable
  BY <1>2, <1>5
<1> QED BY <1>2, <1>7, <1>8, Disturbs

\* Its seal makes it the last of the log, whole, or leaves the log as it was.
LEMMA CommitLands ==
  ASSUME RInv, CommitSeal
  PROVE  (\E rec \in Recs : Abstract!Land(rec)) \/ Abstract!Disturb
<1>1. IInv /\ media \in [Places -> Cells] /\ pending = {} /\ mode = "Open"
  BY DEF RInv, IInv, TypeOK, SealsAlone, CommitSeal
<1>2. /\ at \in Places /\ \A i \in Readable : i < at
      /\ \A i \in Readable : media'[i].rec = media[i].rec
      /\ Readable' = Readable \cup {i \in {at} : Sealed(media'[i])}
  BY WriteAt
<1>3. /\ media[at].body = "Whole" /\ media[at].seal = "Erased" /\ media[at].rec \in Recs
      /\ \A j \in Places : j > at => media[j] = ErasedCell
  BY <1>1, <1>2 DEF CommitSeal, IInv, WriterShape, MediaShape
<1>4. PICK level \in Levels : Lands("seal", level, media[at].rec)
  BY DEF CommitSeal, Landings, Levels
<1>5. /\ pending' = IF WriteThrough \/ level = "Erased" THEN {} ELSE {<<at, "seal">>}
      /\ media'[at] = Written(media[at], "seal", level, media[at].rec)
      /\ \A j \in Places : j # at => media'[j] = media[j]
  BY <1>1, <1>2, <1>4 DEF Lands
<1>6. /\ Sealed(media'[at]) <=> level = "Whole"
      /\ media'[at].rec = media[at].rec
  BY <1>3, <1>5 DEF Written, Program, Sealed, Levels
<1>7. \A i \in Readable : Settled(i) /\ Settled(i)'
  BY <1>1, <1>2, <1>5 DEF Settled
<1>8. CASE level # "Whole"
  BY <1>2, <1>6, <1>7, <1>8, Disturbs
<1>9. CASE level = "Whole"
  <2>1. Readable' = Readable \cup {at}
    BY <1>2, <1>6, <1>9
  <2>2. /\ Readable \in SUBSET Places /\ \A i \in Readable : media[i].rec \in Recs
        /\ Len(ReadableLog) = Cardinality(Readable) /\ Cardinality(Readable) \in Nat
    BY ReadableHolds, PlacesAreFinite
  <2>3. ReadableLog' = Append(ReadableLog, media[at].rec)
    <3>1. Grown(LogOf(Readable, media), media'[at].rec, LogOf(Readable', media'))
      <4>1. Longer(Readable, Readable', at, media, media')
        BY <1>2, <1>3, <1>6, <2>1, <2>2 DEF Longer, Behind, Alike, Holds
      <4> QED BY <4>1, LogOfBehind
    <3> QED BY <1>6, <3>1, Mapping DEF Grown
  <2>4. FirmLength = Len(ReadableLog)
    BY <1>7, <2>2, AllFirm
  <2>5. WriteThrough => FirmLength' = FirmLength + 1
    <3> HAVE WriteThrough
    <3>1. {i \in Readable' : Settled(i)'} = Readable \cup {at}
      BY <1>5, <2>1 DEF Settled
    <3>2. FirmLength' = FirmLength + 1
      <4>1. Cardinality(Readable \cup {at}) = Cardinality(Readable) + 1
        BY <1>2, <2>2, NthBehind DEF Behind
      <4> QED BY <2>2, <2>4, <3>1, <4>1, Mapping
    <3> QED BY <3>2
  <2>6. ~WriteThrough => FirmLength' = FirmLength
    <3> HAVE ~WriteThrough
    <3>1. {i \in Readable' : Settled(i)'} = Readable
      <4>1. <<at, "seal">> \in pending'
        BY <1>5, <1>9
      <4>2. \A i \in {at} : ~Settled(i)'
        BY <1>2, <4>1 DEF Settled, Places
      <4> QED BY <1>7, <2>1, <4>2
    <3>2. FirmLength' = FirmLength
      BY <2>2, <2>4, <3>1, Mapping
    <3> QED BY <3>2
  <2>7. FirmLength' = IF WriteThrough THEN FirmLength + 1 ELSE FirmLength
    BY <2>5, <2>6
  <2>8. EndsClean'
    <3>1. at + 1 \in 1 .. Slots + 1
      BY <1>2 DEF Places
    <3>2. \A j \in Places : j >= at + 1 => media'[j] = ErasedCell
      BY <1>2, <1>3, <1>5 DEF Places
    <3>3. \A j \in Places : j < at + 1 => Passable(media'[j])
      <4>1. \A j \in Places : j < at => Passable(media[j])
        BY <1>1 DEF IInv, ScanShape
      <4>2. \A j \in Places : j < at => Passable(media'[j])
        BY <1>2, <1>5, <4>1 DEF Places
      <4>3. Passable(media'[at])
        BY <1>6, <1>9 DEF Passable
      <4> QED BY <1>2, <4>2, <4>3 DEF Places
    <3> QED BY <3>1, <3>2, <3>3 DEF EndsClean, ErasedFrom, Passable, Sealed, Skippable
  <2> QED BY <1>3, <2>3, <2>4, <2>7, <2>8 DEF Abstract!Land
<1> QED BY <1>8, <1>9

\* A power loss takes back the last of the log if no barrier covered it, and
\* nothing else.
LEMMA PowerLossTakes ==
  ASSUME RInv, PowerLoss
  PROVE  Abstract!PowerLoss
<1>1. /\ IInv /\ media \in [Places -> Cells] /\ pending \subseteq Places \X Parts
      /\ pending' = {}
  BY DEF RInv, IInv, TypeOK, PowerLoss
<1>2. PICK left \in [pending -> Levels] :
        /\ \A p \in pending : left[p] \in Remains(media[p[1]][p[2]])
        /\ media' = [i \in Places |->
             [body |-> LeftOf(i, "body", left),
              seal |-> LeftOf(i, "seal", left),
              rec  |-> IF LeftOf(i, "body", left) = "Erased" THEN NoRec ELSE media[i].rec]]
  BY DEF PowerLoss
<1>3. ASSUME NEW i \in Places
      PROVE  /\ Durable(i) => media'[i] = media[i]
             /\ Sealed(media'[i]) => Sealed(media[i]) /\ media'[i].rec = media[i].rec
  <2>1. media[i] \in Cells
    BY <1>1
  <2>2. media'[i] = [body |-> LeftOf(i, "body", left),
                     seal |-> LeftOf(i, "seal", left),
                     rec  |-> IF LeftOf(i, "body", left) = "Erased" THEN NoRec ELSE media[i].rec]
    BY <1>2
  <2>3. ASSUME NEW p \in Parts, LeftOf(i, p, left) = "Whole"
        PROVE  media[i][p] = "Whole"
    <3>1. CASE <<i, p>> \in pending
      <4>1. left[<<i, p>>] \in Remains(media[i][p]) /\ left[<<i, p>>] = "Whole"
        BY <1>2, <2>3, <3>1 DEF LeftOf
      <4> QED BY <4>1 DEF Remains
    <3>2. CASE <<i, p>> \notin pending
      BY <2>3, <3>2 DEF LeftOf
    <3> QED BY <3>1, <3>2
  <2>4. Sealed(media'[i]) => Sealed(media[i]) /\ media'[i].rec = media[i].rec
    BY <2>2, <2>3 DEF Sealed, Parts
  <2>5. ASSUME Durable(i)
        PROVE  media'[i] = media[i]
    <3>1. LeftOf(i, "body", left) = media[i].body /\ LeftOf(i, "seal", left) = media[i].seal
      BY <2>5 DEF Durable, Parts, LeftOf
    <3>2. media[i].body = "Erased" => media[i].rec = NoRec
      <4>1. media[i].body = "Erased" => media[i] = ErasedCell
        BY <1>1 DEF IInv, MediaShape
      <4> QED BY <4>1 DEF ErasedCell
    <3> QED BY <2>1, <2>2, <3>1, <3>2 DEF Cells
  <2> QED BY <2>4, <2>5
<1>4. /\ Readable \in SUBSET Places
      /\ \A i \in Readable : media[i].rec \in Recs /\ Sealed(media[i])
  BY ReadableHolds
\* In front of a sealed slot nothing is owed.
<1>5. \A i, j \in Places : Sealed(media[i]) /\ j < i => Durable(j)
  BY DEF RInv, PendingIsLast, Durable, Sealed
<1>6. ASSUME NEW i \in Places, Sealed(media[i])
      PROVE  i \in Readable' <=> i \in Readable /\ Sealed(media'[i])
  <2>1. \A j \in Places : j < i => media'[j] = media[j]
    BY <1>3, <1>5, <1>6
  <2>2. (\A j \in Places : j < i => Passable(media'[j]))
          <=> \A j \in Places : j < i => Passable(media[j])
    BY <2>1
  <2> QED BY <1>6, <2>2 DEF Readable, Sealed, Passable, Skippable
<1>7. Readable' = {i \in Readable : Sealed(media'[i])}
  <2>1. \A i \in Readable' : i \in Places /\ Sealed(media'[i])
    BY DEF Readable, Sealed
  <2> QED BY <1>3, <1>4, <1>6, <2>1
<1>8. \A i \in Readable' : media'[i].rec = media[i].rec
  BY <1>3, <1>4, <1>7
<1>9. FirmLength' = Len(ReadableLog')
  <2>1. {i \in Readable' : Settled(i)'} = Readable'
    BY <1>1 DEF Settled
  <2>2. RInv'
    BY StepRInv DEF Next
  <2>3. Readable' \in SUBSET Places /\ \A i \in Readable' : media'[i].rec \in Recs
    BY <1>4, <1>7, <1>8
  <2>4. Len(ReadableLog') = Cardinality(Readable')
    BY <2>3, Mapping, LogIsSequence DEF Holds
  <2> QED BY <2>1, <2>4, Mapping
<1>10. CASE \A i \in Readable : Sealed(media'[i])
  <2>1. Readable' = Readable
    BY <1>7, <1>10
  <2>2. ReadableLog' = ReadableLog
    BY <1>8, <2>1, SameLog
  <2> QED BY <1>9, <2>2 DEF Abstract!PowerLoss, EndsClean
<1>11. ASSUME NEW m \in Readable, ~Sealed(media'[m])
       PROVE  Abstract!PowerLoss
  <2>1. ~Durable(m)
    BY <1>3, <1>4, <1>11
  <2>2. \A i \in Readable : i = m \/ i < m
    BY <1>4, <1>5, <2>1 DEF Places
  <2>3. \A i \in Readable : i # m => Durable(i) /\ Settled(i)
    <3>1. ASSUME NEW i \in Readable, i # m, NEW q \in pending
          PROVE  q[1] > i
      <4>1. i < m /\ q[1] \in Places /\ q[2] \in Parts /\ q = <<q[1], q[2]>>
        BY <1>1, <2>2, <3>1
      <4>2. ~(q[1] < m)
        BY <1>4, <1>5, <4>1 DEF Durable
      <4> QED BY <1>4, <4>1, <4>2 DEF Places
    <3>2. \A i \in Readable : i # m => Settled(i)
      BY <3>1 DEF Settled
    <3> QED BY <1>4, <1>5, <2>2, <3>2
  <2>4. ~Settled(m)
    BY <1>4, <2>1 DEF Durable, Settled, Places
  <2>5. Readable' = Readable \ {m}
    BY <1>3, <1>4, <1>7, <1>11, <2>3
  <2>6. {i \in Readable : Settled(i)} = Readable \ {m}
    BY <2>3, <2>4
  <2>7. FirmLength = Cardinality(Readable')
    BY <2>5, <2>6, Mapping
  <2>8. Longer(Readable', Readable, m, media', media)
    BY <1>4, <1>8, <2>2, <2>5 DEF Longer, Behind, Alike, Holds
  <2>9. LogOf(Readable', media') = SubSeq(LogOf(Readable, media), 1, Cardinality(Readable'))
    BY <2>8, LogOfFront
  <2>10. ReadableLog' = SubSeq(ReadableLog, 1, FirmLength)
    BY <2>7, <2>9, Mapping
  <2> QED BY <1>9, <2>10 DEF Abstract!PowerLoss, EndsClean
<1> QED BY <1>10, <1>11

\* A device that leaves the factory holds no log.
LEMMA InitMaps ==
  ASSUME Init
  PROVE  Abstract!Init
<1>1. Readable = {}
  BY DEF Init, Readable, Sealed, ErasedCell
<1>2. {i \in Readable : Settled(i)} = {}
  BY <1>1
<1>3. Cardinality({}) = 0
  BY FS_EmptySet
<1>4. ReadableLog = <<>>
  BY <1>1, <1>3 DEF ReadableLog
<1>5. FirmLength = 0
  BY <1>2, <1>3, Mapping
<1>6. EndsClean
  <2>1. 1 \in 1 .. Slots + 1 /\ \A j \in Places : ~(j < 1)
    BY DEF Places
  <2>2. ErasedFrom(1)
    BY DEF Init, ErasedFrom
  <2> QED BY <2>1, <2>2 DEF EndsClean
<1> QED BY <1>4, <1>5, <1>6 DEF Abstract!Init

\* Every step of the journal is a step of the log, or leaves it.
LEMMA StepMaps ==
  ASSUME RInv, [Next]_vars
  PROVE  [Abstract!Next]_<<ReadableLog, FirmLength, EndsClean>>
<1>1. CASE UNCHANGED <<media, pending>>
  <2>1. Readable' = Readable /\ EndsClean' = EndsClean
    BY <1>1 DEF Readable, EndsClean, ErasedFrom, Passable, Sealed, Skippable
  <2>2. ReadableLog' = ReadableLog
    BY <1>1, <2>1, SameLog
  <2>3. {i \in Readable' : Settled(i)'} = {i \in Readable : Settled(i)}
    BY <1>1, <2>1 DEF Settled
  <2>4. FirmLength' = FirmLength
    BY <2>3, Mapping
  <2> QED BY <2>1, <2>2, <2>4
<1>2. CASE media' = media /\ pending' = {}
  BY <1>2, BarrierSettles DEF Abstract!Next
<1>3. CASE \E rec \in Recs : Stage(rec)
  BY <1>3, StageDisturbs DEF Abstract!Next
<1>4. CASE CommitSeal
  BY <1>4, CommitLands DEF Abstract!Next
<1>5. CASE PowerLoss
  BY <1>5, PowerLossTakes DEF Abstract!Next
<1> QED
  BY <1>1, <1>2, <1>3, <1>4, <1>5
     DEF Next, vars, Boot, ScanFrame, ScanFault, After, Ends, Passes, PayloadBarrier, Barrier,
         CommitBarrier, Abandon, Reset, device

\* Seen through its readable records a journal is a log that grows by one
\* record at its end, of which a power loss takes back at most the last, and
\* only while no barrier has covered it: for any number of slots and records, on
\* either kind of device.
THEOREM Refinement == Spec => ImplementsBankLog
<1>1. Init => Abstract!Init
  BY InitMaps
<1>2. RInv /\ [Next]_vars => [Abstract!Next]_<<ReadableLog, FirmLength, EndsClean>>
  BY StepMaps
<1> QED BY <1>1, <1>2, Reachable, PTL DEF Spec, ImplementsBankLog, Abstract!Spec
=============================================================================
