---------------------------- MODULE Facade_proofs ----------------------------
(***************************************************************************)
(* What the facade promises of the order of calls, for every set of        *)
(* activities and timers and histories of any length.                      *)
(***************************************************************************)
EXTENDS Facade, TLAPS

\* What the buffer may hold, and the entries a history is made of.
Texts == {"empty", "result", "complete", "fail"}
Entries ==
  [type : {"Effect", "Timer", "Terminal"},
   arg : Activities \cup Specs \cup {NoArg} \cup Texts,
   armedAt : Nat,
   outcome : {"Open", "Answered", "Fired", "Completed", "Failed"}]

\* Types, and what the stage of a future says of its kind.
TypeOK ==
  /\ log \in Seq(Entries) /\ pos \in 0 .. Len(log) /\ pending \in 0 .. Len(log)
  /\ closed \in {"None", "Continued", "Completed", "Failed", "Refused"}
  /\ out \in Texts /\ unserviceable \in BOOLEAN
  /\ fut \in [kind : Kinds \cup {"none"}, arg : Activities \cup Specs \cup {NoArg},
              stage : {"Scheduling", "Dispatching", "Ended"}]
  /\ fut.kind = "timer" => fut.arg \in Specs
  /\ fut.stage = "Dispatching" => fut.kind = "activity"
  /\ clocks \in [Clocks -> Nat]

\* Only the last entry is open, and while it is the run writes no other.
OneOpen ==
  \A i \in 1 .. Len(log) :
    /\ log[i].outcome = "Open" =>
         i = Len(log) /\ ~(stop = "None" /\ pending = 0 /\ pos = Len(log))
    /\ log[i].type = "Effect" => log[i].armedAt = 0

\* The effect handed out is the last entry, and open.
Handed ==
  pending # 0 =>
    /\ pending = Len(log) /\ pos = Len(log)
    /\ log[pending].type = "Effect" /\ log[pending].outcome = "Open"

\* A future that would ask the dispatcher asks for the effect handed out.
Asking ==
  fut.stage = "Dispatching" /\ ~Ignored =>
    pending # 0 /\ stop = "None" /\ log[pending].arg = fut.arg

\* A run stopped for a deadline has it open at the end of its history.
Awaited ==
  stop = "WaitingUntil" =>
    /\ pending = 0 /\ pos = Len(log) /\ pos # 0
    /\ log[pos].outcome = "Open" /\ log[pos].arg = armed.spec

\* An effect nobody serves stays handed out, and the run open.
Stranded == unserviceable => pending # 0 /\ stop = "None" /\ closed = "None"

\* The buffer holds the ending that closed the run.
Buffered ==
  /\ closed = "Completed" => out = "complete"
  /\ closed = "Failed" => out = "fail"

IInv == TypeOK /\ OneOpen /\ Handed /\ Asking /\ Awaited /\ Stranded /\ Buffered
-----------------------------------------------------------------------------
(* Histories                                                               *)

\* An entry written at the end disturbs no other.
LEMMA Appended ==
  ASSUME log \in Seq(Entries), NEW e \in Entries
  PROVE  /\ Append(log, e) \in Seq(Entries)
         /\ Len(Append(log, e)) = Len(log) + 1
         /\ \A i \in 1 .. Len(log) : Append(log, e)[i] = log[i]
         /\ Append(log, e)[Len(log) + 1] = e
  OBVIOUS

\* Nor does an outcome, which is that of the last entry.
LEMMA Answered ==
  ASSUME log \in Seq(Entries), Len(log) # 0,
         NEW o \in {"Answered", "Fired"}, Answers(o)
  PROVE  /\ log' \in Seq(Entries) /\ Len(log') = Len(log)
         /\ \A i \in 1 .. Len(log) : i # Len(log) => log'[i] = log[i]
         /\ log'[Len(log)] = [log[Len(log)] EXCEPT !.outcome = o]
         /\ log'[Len(log)] \in Entries
<1>1. log[Len(log)] \in Entries
  OBVIOUS
<1>2. [log[Len(log)] EXCEPT !.outcome = o] \in Entries
  BY <1>1 DEF Entries
<1> QED
  BY <1>2 DEF Answers

\* A reading taken now is a number, and so is what a timer is measured from.
LEMMA Readings ==
  ASSUME TypeOK, fut.kind = "timer"
  PROVE  /\ fut.arg.clock \in Clocks /\ Now(fut.arg) \in Nat
         /\ Entry("Timer", fut.arg, Now(fut.arg)) \in Entries
<1>1. fut.arg \in [clock : Clocks, deadline : Nat]
  BY SpecsAssumption DEF TypeOK
<1>2. Now(fut.arg) \in Nat
  BY <1>1 DEF TypeOK, Now
<1> QED
  BY <1>1, <1>2 DEF TypeOK, Entry, Entries

\* So is the entry of an effect.
LEMMA EffectEntry ==
  ASSUME TypeOK PROVE Entry("Effect", fut.arg, 0) \in Entries
  BY DEF TypeOK, Entry, Entries
-----------------------------------------------------------------------------
(* The driver's side of a boundary                                         *)

\* A call that stops, or finds the run stopped, may have written its entry.
LEMMA HaltsKeeps ==
  ASSUME IInv, NEW type \in {"Effect", "Timer"}, NEW arg, NEW armedAt,
         Entry(type, arg, armedAt) \in Entries, type = "Effect" => armedAt = 0,
         Halts(type, arg, armedAt)
  PROVE  /\ log' \in Seq(Entries) /\ pos' \in 0 .. Len(log') /\ pending' \in 0 .. Len(log')
         /\ OneOpen' /\ Handed' /\ Awaited' /\ stop' # "None"
         /\ \A i \in 1 .. Len(log') : i > Len(log) => log'[i].type = type
         /\ stop' = "WaitingUntil" => stop = "WaitingUntil" /\ armed' = armed
<1> DEFINE e == Entry(type, arg, armedAt)
<1>1. e.type = type /\ e.armedAt = armedAt
  BY DEF Entry
<1>2. log \in Seq(Entries) /\ pos \in 0 .. Len(log) /\ pending \in 0 .. Len(log)
  BY DEF IInv, TypeOK
<1>3. UNCHANGED <<pos, pending, armed>> /\ e \in Entries
  BY DEF Halts
<1> HIDE DEF e
<1>4. CASE UNCHANGED log
  <2>1. \/ stop' = stop /\ stop # "None"
        \/ stop' \notin {"None", "WaitingUntil"}
    BY DEF Halts
  <2>2. OneOpen' /\ Handed' /\ Awaited'
    BY <1>3, <1>4, <2>1 DEF IInv, OneOpen, Handed, Awaited
  <2> QED
    BY <1>2, <1>3, <1>4, <2>1, <2>2
<1>5. CASE log' = Append(log, e) /\ log' # log
  <2>1. stop = "None" /\ pending = 0 /\ ~Replaying /\ stop' = "Failed"
    BY <1>5 DEF Halts
  <2>2. pos = Len(log)
    BY <1>2, <2>1 DEF Replaying
  <2>3. \A i \in 1 .. Len(log) :
          log[i].outcome # "Open" /\ (log[i].type = "Effect" => log[i].armedAt = 0)
    BY <2>1, <2>2 DEF IInv, OneOpen
  <2>4. /\ log' \in Seq(Entries) /\ Len(log') = Len(log) + 1
        /\ \A i \in 1 .. Len(log) : log'[i] = log[i]
        /\ log'[Len(log) + 1] = e
    BY <1>2, <1>3, <1>5, Appended
  <2>5. \A i \in 1 .. Len(log') : i \in 1 .. Len(log) \/ i = Len(log) + 1
    BY <1>2, <2>4
  <2>6. OneOpen'
    BY <1>1, <1>2, <1>3, <2>1, <2>3, <2>4, <2>5 DEF OneOpen
  <2> QED
    BY <1>1, <1>2, <1>3, <2>1, <2>4, <2>5, <2>6 DEF Handed, Awaited
<1>6. UNCHANGED log \/ log' = Append(log, e)
  BY DEF Halts, e
<1> QED
  BY <1>4, <1>5, <1>6

\* A call that goes on: over the next entry, or one it has written.
LEMMA BoundaryKeeps ==
  ASSUME IInv, NEW type \in {"Effect", "Timer"}, NEW arg, NEW armedAt,
         Entry(type, arg, armedAt) \in Entries, type = "Effect" => armedAt = 0,
         Boundary(type, arg, armedAt)
  PROVE  /\ log' \in Seq(Entries) /\ pos' \in 1 .. Len(log') /\ Len(log') \in Nat
         /\ \A i \in 1 .. Len(log') :
              /\ log'[i].outcome = "Open" => i = Len(log')
              /\ log'[i].type = "Effect" => log'[i].armedAt = 0
              /\ i > Len(log) => log'[i].type = type
         /\ log'[pos'].type = type /\ log'[pos'].arg = arg
         /\ Replaying => log' = log /\ log'[pos'] = Recorded
         /\ ~Replaying => log'[pos'].outcome = "Open"
<1> DEFINE e == Entry(type, arg, armedAt)
<1>1. e.type = type /\ e.arg = arg /\ e.armedAt = armedAt /\ e.outcome = "Open"
  BY DEF Entry
<1>2. log \in Seq(Entries) /\ pos \in 0 .. Len(log) /\ pos' = pos + 1
  BY DEF IInv, TypeOK, Boundary
<1>3. CASE Replaying
  <2>1. log' = log /\ Recorded.type = type /\ Recorded.arg = arg
    BY <1>3 DEF Boundary, Matches
  <2> QED
    BY <1>2, <1>3, <2>1 DEF Replaying, Recorded, IInv, OneOpen
<1>4. CASE ~Replaying
  <2>1. stop = "None" /\ pending = 0 /\ log' = Append(log, e)
    BY <1>4 DEF Boundary
  <2>2. pos = Len(log)
    BY <1>2, <1>4 DEF Replaying
  <2>3. \A i \in 1 .. Len(log) :
          log[i].outcome # "Open" /\ (log[i].type = "Effect" => log[i].armedAt = 0)
    BY <2>1, <2>2 DEF IInv, OneOpen
  <2>4. /\ log' \in Seq(Entries) /\ Len(log') = Len(log) + 1
        /\ \A i \in 1 .. Len(log) : log'[i] = log[i]
        /\ log'[Len(log) + 1] = e
    BY <1>2, <2>1, Appended
  <2>5. \A i \in 1 .. Len(log') : i \in 1 .. Len(log) \/ i = Len(log) + 1
    BY <1>2, <2>4
  <2> HIDE DEF e
  <2> QED
    BY <1>1, <1>2, <1>4, <2>2, <2>3, <2>4, <2>5
<1> QED
  BY <1>3, <1>4
-----------------------------------------------------------------------------
(* Steps                                                                   *)

\* What leaves the run alone may change the future and the clocks at most.
LEMMA Quiet ==
  ASSUME IInv, UNCHANGED <<log, context, ctx>>, TypeOK', Asking'
  PROVE  IInv'
BY DEF IInv, context, ctx, OneOpen, Handed, Awaited, Stranded, Buffered

\* Nothing but the workflow's future changes, and it asks nothing now.
LEMMA Held ==
  ASSUME IInv, UNCHANGED <<log, context, ctx>>, UNCHANGED clocks,
         \/ UNCHANGED fut
         \/ /\ fut'.stage # "Dispatching"
            /\ fut' \in [kind : Kinds \cup {"none"}, arg : Activities \cup Specs \cup {NoArg},
                         stage : {"Scheduling", "Dispatching", "Ended"}]
            /\ fut'.kind = "timer" => fut'.arg \in Specs
  PROVE  IInv'
<1>1. TypeOK'
  BY DEF IInv, TypeOK, context, ctx
<1>2. Asking'
  BY DEF IInv, Asking, Ignored, context, ctx
<1> QED
  BY <1>1, <1>2, Quiet

\* A future made anew asks nothing yet.
LEMMA MakeKeeps == ASSUME IInv, Make PROVE IInv'
<1>1. PICK kind \in Kinds, arg \in Activities \cup Specs \cup {NoArg} :
        Makes(kind, arg) /\ (kind = "timer" => arg \in Specs)
  BY DEF Make, Kinds
<1> QED
  BY <1>1, Held DEF Makes, ctx, context

\* The calls of an activity for its boundary.
LEMMA EffectKeeps ==
  ASSUME IInv, ScheduleHalts \/ ScheduleReplays \/ ScheduleDispatches
  PROVE  IInv'
<1> USE EffectEntry
<1>1. /\ fut.kind = "activity" /\ fut.stage = "Scheduling" /\ ~Ignored
      /\ closed = "None" /\ ~unserviceable /\ TypeOK
  BY DEF IInv, ScheduleHalts, ScheduleReplays, ScheduleDispatches, Polls, Ignored
<1>2. CASE ScheduleHalts
  <2>1. UNCHANGED <<ctx, fut, clocks>> /\ Halts("Effect", fut.arg, 0)
    BY <1>2 DEF ScheduleHalts
  <2>2. /\ log' \in Seq(Entries) /\ pos' \in 0 .. Len(log') /\ pending' \in 0 .. Len(log')
        /\ OneOpen' /\ Handed' /\ Awaited'
    BY <1>1, <2>1, HaltsKeeps
  <2> QED
    BY <1>1, <2>1, <2>2 DEF IInv, TypeOK, ctx, Asking, Stranded, Buffered
<1>3. CASE ScheduleReplays
  <2>1. /\ UNCHANGED <<stop, pending, armed, clocks, closed, unserviceable>>
        /\ Boundary("Effect", fut.arg, 0) /\ Replaying /\ Recorded.outcome # "Open"
        /\ out' = "result" /\ fut' = [fut EXCEPT !.stage = "Ended"]
    BY <1>3 DEF ScheduleReplays, Observed, Goes
  <2>2. stop = "None" /\ pending = 0 /\ log' = log
    BY <2>1 DEF Boundary
  <2>3. /\ log' \in Seq(Entries) /\ pos' \in 1 .. Len(log')
        /\ \A i \in 1 .. Len(log') :
             /\ log'[i].outcome = "Open" => i = Len(log')
             /\ log'[i].type = "Effect" => log'[i].armedAt = 0
        /\ log'[pos'] = Recorded
    BY <1>1, <2>1, BoundaryKeeps
  <2>4. TypeOK'
    BY <1>1, <2>1, <2>2, <2>3 DEF TypeOK, Texts
  <2>5. OneOpen'
    BY <2>1, <2>2, <2>3 DEF OneOpen
  <2>6. fut'.stage = "Ended"
    BY <1>1, <2>1 DEF TypeOK
  <2> QED
    BY <1>1, <2>1, <2>2, <2>4, <2>5, <2>6 DEF IInv, Handed, Asking, Awaited, Stranded, Buffered
<1>4. CASE ScheduleDispatches
  <2>1. /\ UNCHANGED <<stop, armed, ctx, clocks>> /\ Boundary("Effect", fut.arg, 0)
        /\ Replaying => Recorded.outcome = "Open"
        /\ pending' = pos' /\ fut' = [fut EXCEPT !.stage = "Dispatching"]
    BY <1>4 DEF ScheduleDispatches
  <2>2. stop = "None"
    BY <2>1 DEF Boundary
  <2>3. /\ log' \in Seq(Entries) /\ pos' \in 1 .. Len(log') /\ Len(log') \in Nat
        /\ \A i \in 1 .. Len(log') :
             /\ log'[i].outcome = "Open" => i = Len(log')
             /\ log'[i].type = "Effect" => log'[i].armedAt = 0
        /\ log'[pos'].type = "Effect" /\ log'[pos'].arg = fut.arg
        /\ log'[pos'].outcome = "Open"
    BY <1>1, <2>1, BoundaryKeeps
  <2>4. TypeOK'
    BY <1>1, <2>1, <2>3 DEF TypeOK, ctx
  <2>5. OneOpen' /\ Handed'
    BY <2>1, <2>3 DEF OneOpen, Handed
  <2>6. fut'.arg = fut.arg
    BY <1>1, <2>1 DEF TypeOK
  <2>7. Asking'
    BY <2>1, <2>2, <2>3, <2>6 DEF Asking
  <2> QED
    BY <1>1, <2>1, <2>2, <2>4, <2>5, <2>7 DEF IInv, ctx, Awaited, Stranded, Buffered
<1> QED
  BY <1>2, <1>3, <1>4

\* The dispatcher: no answer, none ever, or one.
LEMMA DispatchKeeps ==
  ASSUME IInv, DispatchPends \/ DispatchUnserviceable \/ DispatchAnswers
  PROVE  IInv'
<1>1. /\ fut.stage = "Dispatching" /\ ~Ignored /\ closed = "None" /\ ~unserviceable
      /\ pending # 0 /\ stop = "None" /\ TypeOK
  BY DEF IInv, DispatchPends, DispatchUnserviceable, DispatchAnswers, Polls, Ignored, Asking
<1>2. CASE DispatchPends
  BY <1>2, Held DEF DispatchPends
<1>3. CASE DispatchUnserviceable
  <2>1. /\ UNCHANGED <<log, context, closed, out, clocks>> /\ unserviceable' = TRUE
        /\ fut' = [fut EXCEPT !.stage = "Ended"]
    BY <1>3 DEF DispatchUnserviceable
  <2>2. TypeOK' /\ fut'.stage = "Ended"
    BY <1>1, <2>1 DEF TypeOK, context
  <2> QED
    BY <1>1, <2>1, <2>2
       DEF IInv, context, OneOpen, Handed, Asking, Awaited, Stranded, Buffered
<1>4. CASE DispatchAnswers
  <2>1. /\ pending' = 0 /\ UNCHANGED <<pos, armed, clocks, closed, unserviceable>>
        /\ fut' = [fut EXCEPT !.stage = "Ended"]
        /\ \/ Answers("Answered") /\ UNCHANGED stop
           \/ (UNCHANGED log \/ Answers("Answered")) /\ stop' = "Failed"
        /\ out' \in {out, "result"}
    BY <1>4 DEF DispatchAnswers, Observed, Goes, ctx
  <2>2. /\ pending = Len(log) /\ pos = Len(log) /\ Len(log) \in Nat /\ log \in Seq(Entries)
        /\ log[Len(log)].type = "Effect"
    BY <1>1 DEF IInv, Handed, TypeOK
  <2>3. fut'.stage = "Ended"
    BY <1>1, <2>1 DEF TypeOK
  <2>4. CASE Answers("Answered")
    <3>1. /\ log' \in Seq(Entries) /\ Len(log') = Len(log)
          /\ \A i \in 1 .. Len(log) : i # Len(log) => log'[i] = log[i]
          /\ log'[Len(log)] = [log[Len(log)] EXCEPT !.outcome = "Answered"]
      BY <1>1, <2>2, <2>4, Answered
    <3>2. log[Len(log)] \in Entries
      BY <1>1, <2>2
    <3>3. /\ log'[Len(log)].outcome = "Answered"
          /\ log'[Len(log)].armedAt = log[Len(log)].armedAt
          /\ log'[Len(log)].type = "Effect"
      BY <2>2, <3>1, <3>2 DEF Entries
    <3>4. out' \in Texts /\ pos' \in 0 .. Len(log') /\ pending' \in 0 .. Len(log')
      BY <1>1, <2>1, <2>2, <3>1 DEF TypeOK, Texts
    <3>5. TypeOK'
      BY <1>1, <2>1, <2>3, <3>1, <3>4 DEF TypeOK
    <3>6. Len(log) \in 1 .. Len(log) /\ log[Len(log)].armedAt = 0
      BY <1>1, <2>2 DEF IInv, OneOpen
    <3>7. OneOpen'
      <4> SUFFICES ASSUME NEW i \in 1 .. Len(log)
                   PROVE  /\ log'[i].outcome # "Open"
                          /\ log'[i].type = "Effect" => log'[i].armedAt = 0
        BY <3>1 DEF OneOpen
      <4>1. CASE i = Len(log)
        BY <3>3, <3>6, <4>1
      <4>2. CASE i # Len(log)
        BY <3>1, <4>2 DEF IInv, OneOpen
      <4> QED
        BY <4>1, <4>2
    <3> QED
      BY <1>1, <2>1, <2>3, <3>5, <3>7 DEF IInv, Handed, Asking, Awaited, Stranded, Buffered
  <2>5. CASE UNCHANGED log /\ stop' = "Failed"
    <3>1. out' \in Texts /\ pending' \in 0 .. Len(log')
      BY <1>1, <2>1, <2>2, <2>5 DEF TypeOK, Texts
    <3>2. TypeOK'
      BY <1>1, <2>1, <2>3, <2>5, <3>1 DEF TypeOK
    <3> QED
      BY <1>1, <2>1, <2>3, <2>5, <3>2
         DEF IInv, OneOpen, Handed, Asking, Awaited, Stranded, Buffered
  <2> QED
    BY <2>1, <2>4, <2>5
<1> QED
  BY <1>2, <1>3, <1>4

\* The calls of a timer for its boundary.
LEMMA WaitKeeps ==
  ASSUME IInv, WaitHalts \/ WaitReplays \/ WaitMeasures \/ WaitFires
  PROVE  IInv'
<1>1. /\ fut.kind = "timer" /\ fut.stage # "Dispatching" /\ ~Ignored /\ ~unserviceable
      /\ closed = "None" /\ TypeOK /\ Now(fut.arg) \in Nat
      /\ Entry("Timer", fut.arg, Now(fut.arg)) \in Entries
  BY Readings DEF IInv, WaitHalts, WaitReplays, WaitMeasures, WaitFires, Polls, Ignored, TypeOK
<1>2. CASE WaitHalts
  <2>1. UNCHANGED <<ctx, fut, clocks>> /\ Halts("Timer", fut.arg, Now(fut.arg))
    BY <1>2 DEF WaitHalts
  <2>2. /\ log' \in Seq(Entries) /\ pos' \in 0 .. Len(log') /\ pending' \in 0 .. Len(log')
        /\ OneOpen' /\ Handed' /\ Awaited'
    BY <1>1, <2>1, HaltsKeeps
  <2> QED
    BY <1>1, <2>1, <2>2 DEF IInv, TypeOK, ctx, Asking, Stranded, Buffered
<1>3. ASSUME NEW armedAt \in Nat, Boundary("Timer", fut.arg, armedAt),
             UNCHANGED <<pending, ctx, clocks>>
      PROVE  /\ stop = "None" /\ pending = 0 /\ pending' \in 0 .. Len(log')
             /\ log' \in Seq(Entries) /\ pos' \in 1 .. Len(log') /\ Len(log') \in Nat
             /\ \A i \in 1 .. Len(log') :
                  /\ log'[i].outcome = "Open" => i = Len(log')
                  /\ log'[i].type = "Effect" => log'[i].armedAt = 0
             /\ log'[pos'].arg = fut.arg
             /\ Replaying => log' = log /\ log'[pos'] = Recorded
             /\ ~Replaying => log'[pos'].outcome = "Open"
  <2>1. Entry("Timer", fut.arg, armedAt) \in Entries
    BY <1>1, <1>3 DEF TypeOK, Entry, Entries
  <2>2. stop = "None" /\ pending = 0
    BY <1>3 DEF Boundary
  <2> QED
    BY <1>1, <1>3, <2>1, <2>2, BoundaryKeeps
<1>4. CASE WaitReplays
  <2>1. /\ UNCHANGED <<stop, pending, armed, ctx, clocks>>
        /\ Boundary("Timer", fut.arg, 0) /\ Replaying /\ Recorded.outcome = "Fired"
        /\ fut' = [fut EXCEPT !.stage = "Ended"]
    BY <1>4 DEF WaitReplays, Goes
  <2>2. fut' \in [kind : Kinds \cup {"none"}, arg : Activities \cup Specs \cup {NoArg},
                  stage : {"Scheduling", "Dispatching", "Ended"}]
        /\ fut'.stage = "Ended" /\ fut'.kind = fut.kind /\ fut'.arg = fut.arg
    BY <1>1, <2>1 DEF TypeOK
  <2>3. TypeOK'
    BY <1>1, <1>3, <2>1, <2>2 DEF TypeOK, ctx
  <2>4. OneOpen'
    BY <1>3, <2>1 DEF OneOpen
  <2> QED
    BY <1>1, <1>3, <2>1, <2>2, <2>3, <2>4
       DEF IInv, ctx, Handed, Asking, Awaited, Stranded, Buffered
<1>5. CASE WaitMeasures
  <2>1. /\ UNCHANGED <<pending, ctx, clocks, fut>>
        /\ Boundary("Timer", fut.arg, Now(fut.arg))
        /\ Replaying => Recorded.outcome = "Open"
        /\ (stop' = "WaitingUntil" /\ armed'.spec = fut.arg) \/ stop' = "Failed"
    BY <1>5 DEF WaitMeasures, Remains, Unmeasured
  <2>2. TypeOK'
    BY <1>1, <1>3, <2>1 DEF TypeOK, ctx
  <2>3. OneOpen' /\ Awaited'
    BY <1>1, <1>3, <2>1 DEF OneOpen, Awaited
  <2> QED
    BY <1>1, <1>3, <2>1, <2>2, <2>3 DEF IInv, ctx, Handed, Asking, Stranded, Buffered
<1>6. CASE WaitFires
  <2> DEFINE e == Entry("Timer", fut.arg, Now(fut.arg))
             written == IF Replaying THEN log ELSE Append(log, e)
             fired == [written EXCEPT ![Len(written)].outcome = "Fired"]
  <2>1. /\ UNCHANGED <<pending, ctx, clocks>> /\ stop = "None" /\ pending = 0 /\ pos' = pos + 1
        /\ Replaying => Recorded.outcome = "Open"
        /\ \/ log' = fired /\ stop' = "None" /\ fut' = [fut EXCEPT !.stage = "Ended"]
           \/ log' \in {written, fired} /\ stop' = "Failed" /\ UNCHANGED fut
    BY <1>6 DEF WaitFires, Goes
  <2>2. pos \in 0 .. Len(log) /\ log \in Seq(Entries)
    BY <1>1 DEF TypeOK
  <2>3. /\ written \in Seq(Entries) /\ Len(written) = pos + 1 /\ Len(written) \in Nat
        /\ \A i \in 1 .. Len(written) :
             /\ i # Len(written) => written[i].outcome # "Open"
             /\ written[i].type = "Effect" => written[i].armedAt = 0
    <3>1. CASE Replaying
      BY <2>1, <2>2, <3>1 DEF Replaying, Recorded, IInv, OneOpen
    <3>2. CASE ~Replaying
      <4>1. pos = Len(log)
        BY <2>2, <3>2 DEF Replaying
      <4>2. \A i \in 1 .. Len(log) :
              log[i].outcome # "Open" /\ (log[i].type = "Effect" => log[i].armedAt = 0)
        BY <2>1, <4>1 DEF IInv, OneOpen
      <4>3. /\ written \in Seq(Entries) /\ Len(written) = Len(log) + 1
            /\ \A i \in 1 .. Len(log) : written[i] = log[i]
            /\ written[Len(log) + 1] = e
        BY <1>1, <2>2, <3>2, Appended
      <4>4. e.type = "Timer"
        BY DEF Entry
      <4>5. \A i \in 1 .. Len(written) : i \in 1 .. Len(log) \/ i = Len(log) + 1
        BY <2>2, <4>3
      <4> HIDE DEF written, e
      <4> QED
        BY <2>2, <4>1, <4>2, <4>3, <4>4, <4>5
    <3> QED
      BY <3>1, <3>2
  <2> HIDE DEF written
  <2>4. /\ fired \in Seq(Entries) /\ Len(fired) = Len(written)
        /\ \A i \in 1 .. Len(written) :
             /\ fired[i].outcome # "Open"
             /\ fired[i].type = "Effect" => fired[i].armedAt = 0
    <3>1. written[Len(written)] \in Entries
      BY <2>2, <2>3
    <3>2. /\ [written[Len(written)] EXCEPT !.outcome = "Fired"] \in Entries
          /\ [written[Len(written)] EXCEPT !.outcome = "Fired"].outcome = "Fired"
          /\ [written[Len(written)] EXCEPT !.outcome = "Fired"].type = written[Len(written)].type
          /\ [written[Len(written)] EXCEPT !.outcome = "Fired"].armedAt = written[Len(written)].armedAt
      BY <3>1 DEF Entries
    <3>3. /\ fired \in Seq(Entries) /\ Len(fired) = Len(written)
          /\ \A i \in 1 .. Len(written) : i # Len(written) => fired[i] = written[i]
          /\ fired[Len(written)] = [written[Len(written)] EXCEPT !.outcome = "Fired"]
      BY <2>2, <2>3, <3>2
    <3> HIDE DEF fired
    <3> QED
      BY <2>3, <3>2, <3>3
  <2> HIDE DEF fired
  <2>5. log' \in {written, fired}
    BY <2>1
  <2>6. fut' \in [kind : Kinds \cup {"none"}, arg : Activities \cup Specs \cup {NoArg},
                  stage : {"Scheduling", "Dispatching", "Ended"}]
        /\ fut'.stage # "Dispatching" /\ fut'.kind = fut.kind /\ fut'.arg = fut.arg
    BY <1>1, <2>1 DEF TypeOK
  <2>7. log' \in Seq(Entries) /\ Len(log') = pos' /\ pos' \in Nat
    BY <2>1, <2>2, <2>3, <2>4, <2>5
  <2>8. TypeOK'
    BY <1>1, <2>1, <2>6, <2>7 DEF TypeOK, ctx
  <2>9. OneOpen'
    BY <2>1, <2>3, <2>4, <2>5, <2>7 DEF OneOpen
  <2> QED
    BY <1>1, <2>1, <2>6, <2>8, <2>9
       DEF IInv, ctx, Handed, Asking, Awaited, Stranded, Buffered
<1> QED
  BY <1>2, <1>4, <1>5, <1>6

\* A timer polled again while the run waits for it.
LEMMA RemeasureKeeps ==
  ASSUME IInv, Remeasures \/ RemeasureFires
  PROVE  IInv'
<1>1. /\ fut.kind = "timer" /\ fut.stage # "Dispatching" /\ ~unserviceable
      /\ closed = "None" /\ TypeOK
  BY DEF IInv, Remeasures, RemeasureFires, WaitsAgain, Polls, Ignored, TypeOK
<1>2. /\ stop = "WaitingUntil" /\ armed.spec = fut.arg
      /\ UNCHANGED <<pos, pending, ctx, clocks>>
  BY DEF Remeasures, RemeasureFires, WaitsAgain
<1>3. /\ pending = 0 /\ pos = Len(log) /\ pos # 0
      /\ log \in Seq(Entries) /\ Len(log) \in Nat
      /\ log[Len(log)].outcome = "Open" /\ log[Len(log)].arg = armed.spec
  BY <1>1, <1>2 DEF IInv, Awaited, TypeOK
<1>4. CASE Remeasures
  <2>1. /\ UNCHANGED <<log, fut>>
        /\ (stop' = "WaitingUntil" /\ armed'.spec = fut.arg) \/ stop' = "Failed"
    BY <1>4 DEF Remeasures, WaitsAgain, Remains, Unmeasured
  <2>2. TypeOK'
    BY <1>1, <1>2, <2>1 DEF TypeOK, ctx
  <2> QED
    BY <1>1, <1>2, <1>3, <2>1, <2>2
       DEF IInv, ctx, OneOpen, Handed, Asking, Awaited, Stranded, Buffered
<1>5. CASE RemeasureFires
  <2>1. \/ Answers("Fired") /\ stop' = "None" /\ fut' = [fut EXCEPT !.stage = "Ended"]
        \/ Answers("Fired") /\ stop' = "Failed" /\ UNCHANGED fut
        \/ UNCHANGED log /\ stop' = "Failed" /\ UNCHANGED fut
    BY <1>5 DEF RemeasureFires, Goes
  <2>2. /\ fut' \in [kind : Kinds \cup {"none"}, arg : Activities \cup Specs \cup {NoArg},
                     stage : {"Scheduling", "Dispatching", "Ended"}]
        /\ fut'.stage # "Dispatching" /\ fut'.kind = fut.kind /\ fut'.arg = fut.arg
    BY <1>1, <2>1 DEF TypeOK
  <2>3. CASE Answers("Fired")
    <3>1. /\ log' \in Seq(Entries) /\ Len(log') = Len(log)
          /\ \A i \in 1 .. Len(log) : i # Len(log) => log'[i] = log[i]
          /\ log'[Len(log)] = [log[Len(log)] EXCEPT !.outcome = "Fired"]
      BY <1>3, <2>3, Answered
    <3>2. log[Len(log)] \in Entries
      BY <1>3
    <3>3. /\ log'[Len(log)].outcome = "Fired"
          /\ log'[Len(log)].armedAt = log[Len(log)].armedAt
          /\ log'[Len(log)].type = log[Len(log)].type
      BY <3>1, <3>2 DEF Entries
    <3>4. TypeOK'
      BY <1>1, <1>2, <1>3, <2>2, <3>1 DEF TypeOK, ctx
    <3>5. OneOpen'
      <4> SUFFICES ASSUME NEW i \in 1 .. Len(log)
                   PROVE  /\ log'[i].outcome # "Open"
                          /\ log'[i].type = "Effect" => log'[i].armedAt = 0
        BY <3>1 DEF OneOpen
      <4>1. CASE i = Len(log)
        BY <3>3, <4>1 DEF IInv, OneOpen
      <4>2. CASE i # Len(log)
        BY <3>1, <4>2 DEF IInv, OneOpen
      <4> QED
        BY <4>1, <4>2
    <3>6. stop' \in {"None", "Failed"}
      BY <2>1
    <3> QED
      BY <1>1, <1>2, <1>3, <2>2, <3>4, <3>5, <3>6
         DEF IInv, ctx, Handed, Asking, Awaited, Stranded, Buffered
  <2>4. CASE UNCHANGED log /\ stop' = "Failed"
    <3>1. TypeOK'
      BY <1>1, <1>2, <1>3, <2>2, <2>4 DEF TypeOK, ctx
    <3> QED
      BY <1>1, <1>2, <1>3, <2>2, <2>4, <3>1
         DEF IInv, ctx, OneOpen, Handed, Asking, Awaited, Stranded, Buffered
  <2> QED
    BY <2>1, <2>3, <2>4
<1> QED
  BY <1>4, <1>5

\* The calls that close a run.
LEMMA ClosingKeeps ==
  ASSUME IInv, Continues \/ \E fits \in BOOLEAN : Concludes(fits)
  PROVE  IInv'
<1>1. /\ fut.kind \notin {"timer", "activity"} /\ fut.stage # "Dispatching" /\ ~unserviceable
      /\ closed = "None" /\ TypeOK /\ UNCHANGED <<fut, clocks, unserviceable>>
  BY DEF IInv, Continues, Concludes, Polls, Ignored, TypeOK
<1>2. CASE Continues
  <2>1. /\ UNCHANGED <<pending, armed, out>> /\ closed' = "Continued"
        /\ \/ stop # "None" /\ UNCHANGED <<log, pos, stop>>
           \/ pending # 0 /\ stop' = "EffectOutstanding" /\ UNCHANGED <<log, pos>>
           \/ pending = 0 /\ stop' = "Migrated" /\ log' = <<>> /\ pos' = 0
           \/ pending = 0 /\ stop' = "Failed" /\ UNCHANGED <<log, pos>>
    BY <1>2 DEF Continues
  <2>2. CASE UNCHANGED <<log, pos>> /\ (stop' # "None" /\ (stop' # "WaitingUntil" \/ stop' = stop))
    <3>1. TypeOK'
      BY <1>1, <2>1, <2>2 DEF TypeOK
    <3> QED
      BY <1>1, <2>1, <2>2, <3>1
         DEF IInv, OneOpen, Handed, Asking, Awaited, Stranded, Buffered
  <2>3. CASE pending = 0 /\ stop' = "Migrated" /\ log' = <<>> /\ pos' = 0
    <3>1. log' \in Seq(Entries) /\ Len(log') = 0
      BY <2>3
    <3>2. TypeOK'
      BY <1>1, <2>1, <2>3, <3>1 DEF TypeOK
    <3>3. OneOpen'
      BY <3>1 DEF OneOpen
    <3> QED
      BY <1>1, <2>1, <2>3, <3>2, <3>3 DEF IInv, Handed, Asking, Awaited, Stranded, Buffered
  <2> QED
    BY <2>1, <2>2, <2>3
<1>3. CASE \E fits \in BOOLEAN : Concludes(fits)
  <2>1. /\ UNCHANGED <<log, context>>
        /\ \/ closed' = "Refused" /\ out' = out
           \/ closed' = "Failed" /\ out' = "fail"
           \/ closed' = "Completed" /\ out' = "complete"
    BY <1>3 DEF Concludes, Polls
  <2>2. TypeOK'
    BY <1>1, <2>1 DEF TypeOK, context, Texts
  <2> QED
    BY <1>1, <2>1, <2>2
       DEF IInv, context, OneOpen, Handed, Asking, Awaited, Stranded, Buffered
<1> QED
  BY <1>2, <1>3

\* The terminal record is an ending, and an entry.
LEMMA Endings ==
  ASSUME TypeOK, NEW ended \in {"Completed", "Failed"}
  PROVE  /\ Ending(ended) \in Entries
         /\ Ending(ended).outcome = ended /\ Ending(ended).type = "Terminal"
  BY DEF TypeOK, Ending, Entries, Texts

\* What a boot may add to the history as it ends.
LEMMA Concluding ==
  ASSUME IInv, NEW polled \in {"Pending", "Completed", "Failed"}, EndBoot(polled)
  PROVE  /\ Off /\ UNCHANGED clocks
         /\ \/ UNCHANGED log
            \/ /\ stop = "None" /\ pending = 0 /\ pos = Len(log) /\ ~unserviceable
               /\ closed # "Refused"
               /\ Conclusion(polled) \in {"Completed", "Failed"}
               /\ closed \in {"Completed", "Failed"} => Conclusion(polled) = closed
               /\ log' = Append(log, Ending(Conclusion(polled)))
<1>1. \/ UNCHANGED log
      \/ /\ stop = "None" /\ pending = 0 /\ Conclusion(polled) # "Suspended" /\ ~Replaying
         /\ log' = Append(log, Ending(Conclusion(polled)))
  BY DEF EndBoot, Concluded
<1>2. pos \in 0 .. Len(log) /\ Len(log) \in Nat
  BY DEF IInv, TypeOK
<1>3. unserviceable => pending # 0
  BY DEF IInv, Stranded
<1>4. Off /\ UNCHANGED clocks
  BY DEF EndBoot
<1> QED
  BY <1>1, <1>2, <1>3, <1>4 DEF Conclusion, Replaying

\* The end of a boot adds a terminal record at most.
LEMMA EndBootKeeps ==
  ASSUME IInv, NEW polled \in {"Pending", "Completed", "Failed"}, EndBoot(polled)
  PROVE  IInv'
<1>1. /\ log' \in Seq(Entries) /\ Len(log') \in Nat
      /\ \A i \in 1 .. Len(log') :
           /\ log'[i].outcome = "Open" => i = Len(log')
           /\ log'[i].type = "Effect" => log'[i].armedAt = 0
  <2>1. log \in Seq(Entries) /\ Len(log) \in Nat
    BY DEF IInv, TypeOK
  <2>2. CASE UNCHANGED log
    BY <2>1, <2>2 DEF IInv, OneOpen
  <2>3. CASE ~UNCHANGED log
    <3> DEFINE ended == Conclusion(polled)
               e == Ending(ended)
    <3>1. /\ stop = "None" /\ pending = 0 /\ pos = Len(log)
          /\ ended \in {"Completed", "Failed"} /\ log' = Append(log, e)
      BY <2>3, Concluding
    <3>2. e \in Entries /\ e.outcome # "Open" /\ e.type # "Effect"
      BY <3>1, Endings DEF IInv
    <3>3. \A i \in 1 .. Len(log) :
            log[i].outcome # "Open" /\ (log[i].type = "Effect" => log[i].armedAt = 0)
      BY <3>1 DEF IInv, OneOpen
    <3>4. /\ log' \in Seq(Entries) /\ Len(log') = Len(log) + 1
          /\ \A i \in 1 .. Len(log) : log'[i] = log[i]
          /\ log'[Len(log) + 1] = e
      BY <2>1, <3>1, <3>2, Appended
    <3>5. \A i \in 1 .. Len(log') : i \in 1 .. Len(log) \/ i = Len(log) + 1
      BY <2>1, <3>4
    <3> HIDE DEF e
    <3> QED
      BY <2>1, <3>2, <3>3, <3>4, <3>5
  <2> QED
    BY <2>2, <2>3
<1>2. Off /\ UNCHANGED clocks
  BY Concluding
<1> QED
  <2>1. TypeOK'
    <3>1. fut' = NoFuture /\ pos' = 0 /\ pending' = 0 /\ clocks' = clocks
      BY <1>2 DEF Off
    <3>2. /\ NoFuture \in [kind : Kinds \cup {"none"}, arg : Activities \cup Specs \cup {NoArg},
                          stage : {"Scheduling", "Dispatching", "Ended"}]
          /\ NoFuture.kind = "none" /\ NoFuture.stage = "Ended"
      BY DEF NoFuture
    <3>3. unserviceable' \in BOOLEAN
      BY <1>2 DEF Off
    <3>4. closed' = "None" /\ out' = "empty"
      BY <1>2 DEF Off
    <3> QED
      BY <1>1, <3>1, <3>2, <3>3, <3>4 DEF IInv, TypeOK, Texts
  <2>2. OneOpen'
    BY <1>1, <1>2 DEF OneOpen, Off
  <2> QED
    BY <1>2, <2>1, <2>2 DEF IInv, Handed, Asking, Awaited, Stranded, Buffered, Off, NoFuture

\* A reset takes the memory and leaves the history.
LEMMA ResetKeeps == ASSUME IInv, Reset PROVE IInv'
<1>1. /\ Off /\ UNCHANGED log /\ log \in Seq(Entries) /\ Len(log) \in Nat
      /\ clocks \in [Clocks -> Nat] /\ clocks' = [clocks EXCEPT !["AfterBoot"] = 0]
  BY DEF Reset, IInv, TypeOK
<1>2. clocks' \in [Clocks -> Nat]
  BY <1>1
<1>3. /\ NoFuture \in [kind : Kinds \cup {"none"}, arg : Activities \cup Specs \cup {NoArg},
                      stage : {"Scheduling", "Dispatching", "Ended"}]
      /\ NoFuture.kind = "none" /\ NoFuture.stage = "Ended"
  BY DEF NoFuture
<1>4. TypeOK'
  <2>1. unserviceable' \in BOOLEAN
    BY <1>1 DEF Off
  <2>2. fut' = NoFuture /\ pos' = 0 /\ pending' = 0 /\ closed' = "None" /\ out' = "empty"
    BY <1>1 DEF Off
  <2> QED
    BY <1>1, <1>2, <1>3, <2>1, <2>2 DEF TypeOK, Texts
<1>5. OneOpen'
  BY <1>1 DEF IInv, OneOpen, Off
<1> QED
  BY <1>1, <1>3, <1>4, <1>5 DEF IInv, Handed, Asking, Awaited, Stranded, Buffered, Off

\* A waker, the executor and the clocks leave the run alone.
LEMMA OutsideKeeps ==
  ASSUME IInv,
         \/ IgnoredPoll \/ Boot \/ Ring \/ RowWakes \/ ClockBack
         \/ (\E clock \in Clocks : Tick(clock)) \/ UNCHANGED vars
  PROVE  IInv'
<1>1. UNCHANGED <<log, context, ctx, fut>>
  BY DEF IgnoredPoll, Boot, Ring, RowWakes, ClockBack, Tick, vars, context, ctx
<1>2. clocks' \in [Clocks -> Nat]
  <2>1. clocks \in [Clocks -> Nat]
    BY DEF IInv, TypeOK
  <2>2. CASE UNCHANGED clocks
    BY <2>1, <2>2
  <2>3. CASE ClockBack
    <3>1. PICK t \in 0 .. clocks["AtPersistentTime"] - 1 :
            clocks' = [clocks EXCEPT !["AtPersistentTime"] = t]
      BY <2>3 DEF ClockBack
    <3>2. t \in Nat
      BY <2>1 DEF Clocks
    <3> QED
      BY <2>1, <3>1, <3>2
  <2>4. CASE \E clock \in Clocks : Tick(clock)
    BY <2>1, <2>4 DEF Tick
  <2> QED
    BY <2>2, <2>3, <2>4 DEF IgnoredPoll, Boot, Ring, RowWakes, vars, board
<1>3. TypeOK' /\ Asking'
  BY <1>1, <1>2 DEF IInv, TypeOK, Asking, Ignored, context, ctx
<1> QED
  BY <1>1, <1>3, Quiet

\* Whatever the workflow polls, drops and makes, in any order, across resets
\* and boots: the driver has one effect in hand, and it is the open one.
THEOREM Invariant == Spec => []IInv
<1>1. Init => IInv
  <2> SUFFICES ASSUME Init PROVE IInv
    OBVIOUS
  <2>1. log = <<>> /\ log \in Seq(Entries) /\ Len(log) = 0 /\ fut = NoFuture
    BY DEF Init
  <2>2. clocks \in [Clocks -> Nat]
    BY DEF Init, Clocks
  <2>3. /\ NoFuture \in [kind : Kinds \cup {"none"}, arg : Activities \cup Specs \cup {NoArg},
                        stage : {"Scheduling", "Dispatching", "Ended"}]
        /\ NoFuture.kind = "none" /\ NoFuture.stage = "Ended"
    BY DEF NoFuture
  <2>4. TypeOK
    <3>1. unserviceable \in BOOLEAN
      BY DEF Init
    <3>2. pos = 0 /\ pending = 0 /\ closed = "None" /\ out = "empty"
      BY DEF Init
    <3> QED
      BY <2>1, <2>2, <2>3, <3>1, <3>2 DEF TypeOK, Texts
  <2> QED
    BY <2>1, <2>3, <2>4 DEF Init, IInv, OneOpen, Handed, Asking, Awaited, Stranded, Buffered
<1>2. ASSUME IInv, [Next]_vars PROVE IInv'
  <2>1. CASE Poll
    BY <1>2, <2>1, EffectKeeps, DispatchKeeps, WaitKeeps, RemeasureKeeps, ClosingKeeps,
       OutsideKeeps DEF Poll
  <2>2. CASE \E polled \in {"Pending", "Completed", "Failed"} : EndBoot(polled)
    BY <1>2, <2>2, EndBootKeeps
  <2> QED
    BY <1>2, <2>1, <2>2, MakeKeeps, ResetKeeps, OutsideKeeps DEF Next
<1> QED
  BY <1>1, <1>2, PTL DEF Spec
-----------------------------------------------------------------------------
(* The properties                                                          *)

\* The dispatcher is asked for the effect the driver has handed out, which is
\* on media, last and open: never again for one that was answered.
THEOREM AsksForWhatIsOpen == Spec => []AsksForTheOpenEffect
<1>1. IInv => AsksForTheOpenEffect
  <2> SUFFICES ASSUME IInv, fut.stage = "Dispatching", ~Ignored
               PROVE  /\ pending = Len(log) /\ pending # 0 /\ stop = "None"
                      /\ log[pending] = Entry("Effect", fut.arg, 0)
    BY DEF AsksForTheOpenEffect
  <2>1. /\ pending # 0 /\ stop = "None" /\ pending = Len(log) /\ log \in Seq(Entries)
        /\ log[pending].arg = fut.arg
        /\ log[pending].type = "Effect" /\ log[pending].outcome = "Open"
    BY DEF IInv, Asking, Handed, TypeOK
  <2>2. log[pending] \in Entries /\ log[pending].armedAt = 0
    BY <2>1 DEF IInv, OneOpen
  <2> QED
    BY <2>1, <2>2 DEF Entries, Entry
<1> QED
  BY <1>1, Invariant, PTL

\* Once a run is closed, no future of the workflow reaches the driver, the
\* history or the buffer again in that boot.
THEOREM ClosedIsFinal == Spec => ConclusionIsFinal
<1>1. ASSUME [Next]_vars, closed # "None", at' = "Running"
      PROVE  UNCHANGED <<log, context, ctx>>
  <2>1. \A kinds : ~Polls(kinds)
    BY <1>1 DEF Polls, Ignored
  <2>2. CASE Poll
    <3>1. IgnoredPoll
      BY <2>1, <2>2 DEF Poll, ScheduleHalts, ScheduleReplays, ScheduleDispatches,
           DispatchPends, DispatchUnserviceable, DispatchAnswers, WaitHalts, WaitReplays,
           WaitMeasures, WaitFires, Remeasures, RemeasureFires, WaitsAgain, Continues, Concludes
    <3> QED
      BY <3>1 DEF IgnoredPoll
  <2>3. CASE Reset \/ \E polled \in {"Pending", "Completed", "Failed"} : EndBoot(polled)
    BY <1>1, <2>3 DEF Reset, EndBoot, Off
  <2> QED
    BY <1>1, <2>2, <2>3
       DEF Next, Make, Makes, Boot, Ring, RowWakes, ClockBack, Tick, vars, context, ctx
<1> QED
  BY <1>1, PTL DEF Spec, ConclusionIsFinal

\* Before a boot there is no effect that its dispatcher cannot serve.
Resting == at = "Down" => ~unserviceable

\* The flag goes with the boot that set it.
LEMMA RestsServed == Spec => []Resting
<1>1. Init => Resting
  BY DEF Init, Resting
<1>2. ASSUME Resting, [Next]_vars PROVE Resting'
  <2>1. CASE Reset \/ \E polled \in {"Pending", "Completed", "Failed"} : EndBoot(polled)
    BY <2>1 DEF Reset, EndBoot, Off, Resting
  <2>2. CASE Poll
    BY <1>2, <2>2 DEF Poll, IgnoredPoll, Polls, ScheduleHalts, ScheduleReplays,
         ScheduleDispatches, DispatchPends, DispatchUnserviceable, DispatchAnswers,
         WaitHalts, WaitReplays, WaitMeasures, WaitFires, Remeasures, RemeasureFires,
         WaitsAgain, Continues, Concludes, Resting, ctx, Observed
  <2> QED
    BY <1>2, <2>1, <2>2
       DEF Next, Make, Makes, Boot, Ring, RowWakes, ClockBack, Tick, vars, ctx, Resting
<1> QED
  BY <1>1, <1>2, PTL DEF Spec

\* A boot that met an effect it cannot serve ends waiting, whatever its
\* workflow polled or returned afterwards.
THEOREM UnservedWaits == Spec => UnserviceableWaits
<1>1. ASSUME IInv, Resting, [Next]_vars, unserviceable, at' = "Down", UNCHANGED vars => FALSE
      PROVE  progress' \in {"Waiting", "Reset"}
  <2>1. pending # 0 /\ stop = "None" /\ closed = "None" /\ at # "Down"
    BY <1>1 DEF IInv, Stranded, Resting
  <2>2. Reset \/ \E polled \in {"Pending", "Completed", "Failed"} : EndBoot(polled)
    <3>1. UNCHANGED at => FALSE
      BY <1>1, <2>1
    <3>2. ~Poll
      BY <3>1 DEF Poll, IgnoredPoll, Polls, ScheduleHalts, ScheduleReplays,
         ScheduleDispatches, DispatchPends, DispatchUnserviceable, DispatchAnswers,
         WaitHalts, WaitReplays, WaitMeasures, WaitFires, Remeasures, RemeasureFires,
         WaitsAgain, Continues, Concludes
    <3> QED
      BY <1>1, <3>1, <3>2 DEF Next, Make, Makes, Boot, Ring, RowWakes, ClockBack, Tick
  <2>3. CASE Reset
    BY <2>3 DEF Reset
  <2>4. ASSUME NEW polled \in {"Pending", "Completed", "Failed"}, EndBoot(polled)
        PROVE  progress' = "Waiting"
    <3>1. Conclusion(polled) = "Suspended"
      BY <1>1, <2>1 DEF Conclusion
    <3> QED
      BY <2>1, <2>4, <3>1 DEF EndBoot, Concluded
  <2> QED
    BY <2>2, <2>3, <2>4
<1>2. IInv /\ Resting /\ [Next]_vars =>
        [unserviceable /\ at' = "Down" => progress' \in {"Waiting", "Reset"}]_vars
  BY <1>1
<1> QED
  BY <1>2, Invariant, RestsServed, PTL DEF Spec, UnserviceableWaits

\* While a boot runs, its calls add no terminal record: no step but the end of
\* a boot adds one.
LEMMA CallsEndNothing ==
  ASSUME IInv, [Next]_vars,
         \A polled \in {"Pending", "Completed", "Failed"} : ~EndBoot(polled)
  PROVE  \A i \in 1 .. Len(log') : i > Len(log) => log'[i].type # "Terminal"
<1>1. log \in Seq(Entries) /\ Len(log) \in Nat /\ pos \in 0 .. Len(log)
  BY DEF IInv, TypeOK
<1>2. ASSUME Len(log') = Len(log)
      PROVE  \A i \in 1 .. Len(log') : i > Len(log) => log'[i].type # "Terminal"
  BY <1>1, <1>2
<1>3. CASE ScheduleHalts \/ ScheduleReplays \/ ScheduleDispatches
  BY <1>3, HaltsKeeps, BoundaryKeeps, EffectEntry
     DEF IInv, ScheduleHalts, ScheduleReplays, ScheduleDispatches
<1>4. CASE WaitHalts \/ WaitReplays \/ WaitMeasures
  <2>1. fut.kind = "timer" /\ TypeOK
    BY <1>4 DEF IInv, WaitHalts, WaitReplays, WaitMeasures, Polls
  <2>2. Entry("Timer", fut.arg, 0) \in Entries
    BY <2>1 DEF TypeOK, Entry, Entries
  <2> QED
    BY <1>4, <2>1, <2>2, HaltsKeeps, BoundaryKeeps, Readings
       DEF WaitHalts, WaitReplays, WaitMeasures
<1>5. CASE WaitFires
  <2> DEFINE e == Entry("Timer", fut.arg, Now(fut.arg))
             written == IF Replaying THEN log ELSE Append(log, e)
             fired == [written EXCEPT ![Len(written)].outcome = "Fired"]
  <2>1. log' \in {written, fired} /\ fut.kind = "timer" /\ TypeOK
    BY <1>5 DEF WaitFires, Polls, IInv
  <2>2. e \in Entries /\ e.type = "Timer"
    BY <2>1, Readings DEF Entry
  <2>3. CASE Replaying
    <3>1. written = log
      BY <2>3
    <3>2. Len(log') = Len(log)
      BY <2>1, <3>1, <1>1
    <3> QED
      BY <1>2, <3>2
  <2>4. CASE ~Replaying
    <3> HIDE DEF e
    <3>1. /\ written \in Seq(Entries) /\ Len(written) = Len(log) + 1
          /\ written[Len(log) + 1] = e
      BY <1>1, <2>2, <2>4, Appended
    <3> HIDE DEF written
    <3>2. [written[Len(log) + 1] EXCEPT !.outcome = "Fired"].type = "Timer"
      BY <2>2, <3>1 DEF Entries
    <3>3. Len(fired) = Len(log) + 1 /\ fired[Len(log) + 1].type = "Timer"
      BY <1>1, <3>1, <3>2
    <3> HIDE DEF fired
    <3> QED
      BY <1>1, <2>1, <2>2, <3>1, <3>3
  <2> QED
    BY <2>3, <2>4
<1>6. CASE DispatchAnswers \/ RemeasureFires
  BY <1>1, <1>2, <1>6 DEF DispatchAnswers, RemeasureFires, Answers
<1>7. CASE Continues
  BY <1>1, <1>2, <1>7 DEF Continues
<1>8. CASE UNCHANGED log
  BY <1>2, <1>8
<1> QED
  BY <1>3, <1>4, <1>5, <1>6, <1>7, <1>8
     DEF Next, Poll, IgnoredPoll, DispatchPends, DispatchUnserviceable, Remeasures, Concludes,
         Make, Makes, Boot, Reset, Ring, RowWakes, ClockBack, Tick, vars

\* The terminal record is the ending the workflow asked for, with its bytes; a
\* run that asked for one too wide, or has an effect nobody serves, gets none.
THEOREM EndingAsked == Spec => EndingIsTheOneAsked
<1> DEFINE Asked(i) ==
      \/ closed = "Completed" /\ log'[i] = [Ending("Completed") EXCEPT !.arg = "complete"]
      \/ closed = "Failed" /\ log'[i] = [Ending("Failed") EXCEPT !.arg = "fail"]
      \/ closed \in {"None", "Continued"} /\ ~unserviceable /\ pending = 0
<1>1. ASSUME IInv, [Next]_vars, NEW i \in 1 .. Len(log'),
             i > Len(log), log'[i].type = "Terminal"
      PROVE  Asked(i)
  <2>1. PICK polled \in {"Pending", "Completed", "Failed"} : EndBoot(polled)
    BY <1>1, CallsEndNothing
  <2> DEFINE ended == Conclusion(polled)
             e == Ending(ended)
  <2>2. log \in Seq(Entries) /\ Len(log) \in Nat
        /\ closed \in {"None", "Continued", "Completed", "Failed", "Refused"}
    BY <1>1 DEF IInv, TypeOK
  <2>3. /\ pending = 0 /\ ~unserviceable /\ closed # "Refused"
        /\ ended \in {"Completed", "Failed"} /\ log' = Append(log, e)
        /\ closed \in {"Completed", "Failed"} => ended = closed
    BY <1>1, <2>1, <2>2, Concluding
  <2>4. log'[i] = e
    <3>1. e \in Entries
      BY <1>1, <2>3, Endings DEF IInv
    <3> HIDE DEF e
    <3>2. Len(log') = Len(log) + 1 /\ log'[Len(log) + 1] = e
      BY <2>2, <2>3, <3>1, Appended
    <3> QED
      BY <1>1, <2>2, <3>2
  <2>5. closed = "Completed" => e = [Ending("Completed") EXCEPT !.arg = "complete"]
    BY <1>1, <2>3 DEF Ending, IInv, Buffered
  <2>6. closed = "Failed" => e = [Ending("Failed") EXCEPT !.arg = "fail"]
    BY <1>1, <2>3 DEF Ending, IInv, Buffered
  <2> HIDE DEF e
  <2> QED
    BY <2>2, <2>3, <2>4, <2>5, <2>6
<1>2. IInv /\ [Next]_vars =>
        [\A i \in 1 .. Len(log') :
           i > Len(log) /\ log'[i].type = "Terminal" => Asked(i)]_vars
  BY <1>1
<1> QED
  BY <1>2, Invariant, PTL DEF Spec, EndingIsTheOneAsked

\* The wake-up a poll arms is the one its own deadline needs.
THEOREM WakesForItsOwn == Spec => WakesForItsOwnDeadline
<1> DEFINE OwnDeadline ==
      alarm' # alarm /\ alarm' # NoArg /\ clocks' = clocks =>
        /\ log' # <<>> /\ log'[Len(log')].arg = fut.arg /\ log'[Len(log')].outcome = "Open"
        /\ alarm'.clock = fut.arg.clock
        /\ alarm'.left = Owed(fut.arg, armed'.floor)
<1>1. ASSUME IInv, [Next]_vars, alarm' # alarm, alarm' # NoArg, clocks' = clocks
      PROVE  OwnDeadline
  <2>1. log \in Seq(Entries) /\ Len(log) \in Nat /\ pos \in 0 .. Len(log) /\ TypeOK
    BY <1>1 DEF IInv, TypeOK
  <2>2. ASSUME NEW floor, Remains(fut.arg, floor), fut.kind = "timer", lastWait' = fut.arg
        PROVE  /\ alarm'.clock = fut.arg.clock
               /\ alarm'.left = Owed(fut.arg, armed'.floor)
    BY <1>1, <2>2 DEF Remains, Arms
  <2>3. ~Unmeasured
    BY <1>1 DEF Unmeasured, Arms, DeadlineRemaining
  <2>4. ~WaitHalts
    <3> SUFFICES ASSUME WaitHalts PROVE FALSE
      OBVIOUS
    <3>1. stop' = "WaitingUntil" /\ armed'.spec = fut.arg
      BY <1>1 DEF WaitHalts, Arms, DeadlineRemaining
    <3>2. stop = "WaitingUntil" /\ armed' = armed
      BY <3>1 DEF WaitHalts, Halts
    <3> QED
      BY <3>1, <3>2 DEF WaitHalts
  <2>5. CASE WaitMeasures
    <3>1. /\ fut.kind = "timer" /\ lastWait' = fut.arg
          /\ Boundary("Timer", fut.arg, Now(fut.arg))
          /\ Replaying => Recorded.outcome = "Open"
          /\ Remains(fut.arg, Floor)
      BY <2>3, <2>5 DEF WaitMeasures, Polls
    <3>2. /\ log' \in Seq(Entries) /\ pos' \in 1 .. Len(log') /\ Len(log') \in Nat
          /\ log'[pos'].arg = fut.arg /\ log'[pos'].outcome = "Open"
          /\ log'[pos'].outcome = "Open" => pos' = Len(log')
      BY <1>1, <2>1, <3>1, Readings, BoundaryKeeps
    <3> QED
      BY <2>2, <3>1, <3>2
  <2>6. CASE Remeasures
    <3>1. /\ fut.kind = "timer" /\ lastWait' = fut.arg /\ UNCHANGED log
          /\ stop = "WaitingUntil" /\ armed.spec = fut.arg
          /\ Remains(fut.arg, armed.floor)
      BY <2>3, <2>6 DEF Remeasures, WaitsAgain, Polls
    <3>2. /\ pos = Len(log) /\ pos # 0
          /\ log[pos].outcome = "Open" /\ log[pos].arg = fut.arg
      BY <1>1, <3>1 DEF IInv, Awaited
    <3> QED
      BY <2>1, <2>2, <3>1, <3>2
  <2>7. WaitMeasures \/ Remeasures
    <3>1. ~UNCHANGED alarm
      BY <1>1
    <3>2. ~UNCHANGED vars /\ ~UNCHANGED board
      BY <3>1 DEF vars, board
    <3>3. ~Reset /\ \A polled \in {"Pending", "Completed", "Failed"} : ~EndBoot(polled)
      BY <1>1 DEF Reset, EndBoot, Off
    <3>4. ~Ring /\ \A clock \in Clocks : ~Tick(clock)
      <4>1. ~Ring
        BY <1>1 DEF Ring
      <4>2. ASSUME NEW clock \in Clocks, Tick(clock) PROVE FALSE
        <5>1. clocks' = [clocks EXCEPT ![clock] = @ + 1] /\ clocks \in [Clocks -> Nat]
          BY <2>1, <4>2 DEF Tick, TypeOK
        <5>2. clocks'[clock] = clocks[clock] + 1 /\ clocks[clock] \in Nat
          BY <5>1
        <5> QED
          BY <1>1, <5>2
      <4> QED
        BY <4>1, <4>2
    <3> QED
      BY <1>1, <2>4, <3>1, <3>2, <3>3, <3>4
         DEF Next, Poll, IgnoredPoll, ScheduleHalts, ScheduleReplays, ScheduleDispatches,
             DispatchPends, DispatchUnserviceable, DispatchAnswers, WaitReplays, WaitFires,
             RemeasureFires, Continues, Concludes, Make, Makes, Boot, RowWakes, ClockBack
  <2> QED
    BY <2>5, <2>6, <2>7
<1>2. IInv /\ [Next]_vars => [OwnDeadline]_vars
  BY <1>1
<1> QED
  BY <1>2, Invariant, PTL DEF Spec, WakesForItsOwnDeadline
=============================================================================
