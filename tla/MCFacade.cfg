SPECIFICATION FairSpec
CONSTANTS
  a = a
  NoArg = none
  Activities <- MCActivities
  Specs <- MCSpecs
  Room = 2
  Early = 0
  Ticks = 1
PROPERTIES
  ConclusionIsFinal
  UnserviceableWaits
  EndingIsTheOneAsked
  WakesForItsOwnDeadline
  TimerWakes
INVARIANT
  AsksForTheOpenEffect
