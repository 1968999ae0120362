----------------------------- MODULE MCDriver -----------------------------
(*************************************************************************)
(* Driver with two runs of one workflow.  The first is an effect; a      *)
(* wait, on the boot clock when the effect completed and on the          *)
(* persistent one when it failed; a gate; and an effect again when the   *)
(* gate took the newer branch.  It then goes on as the second, which is  *)
(* an effect and an end.  Every record is one byte wide and a bank holds *)
(* seven: a run that loses nothing has just the room to open its timer,  *)
(* the first run's last effect never fits, the second torn answer of a   *)
(* timer strands it, and the fourth of an effect.  One timer a run,      *)
(* armed no later than Early, needs no clock past Ticks.                 *)
(*************************************************************************)
EXTENDS Driver

CONSTANTS k, i, g, p, none

MCKinds == {k}
MCInputs == {i}
MCGates == {g}
MCPayloads == {p}
MCDeadlines == {1}
MCReadings == 0 .. Ticks
MCVersions == 1 .. 2
MCWidth(rec) == 1

Effect == [op |-> "effect", arg |-> [kind |-> k, input |-> i], val |-> none]
Wait(clock) == [op |-> "wait", arg |-> [clock |-> clock, deadline |-> 1]]
Gate == [op |-> "gate", arg |-> g]
Continue == [op |-> "continue", arg |-> none]
Complete == [op |-> "return", arg |-> "RunCompleted", val |-> p]

MCProgram(r, v, seen) ==
  IF r = 0
    THEN CASE Len(seen) = 0 -> Effect
           [] Len(seen) = 1 -> Wait(IF seen[1].what = "EffectCompleted"
                                      THEN "AfterBoot" ELSE "AtPersistentTime")
           [] Len(seen) = 2 -> Gate
           [] Len(seen) = 3 /\ seen[3].val = 2 -> Effect
           [] OTHER -> Continue
    ELSE IF seen = <<>> THEN Effect ELSE Complete
=============================================================================
