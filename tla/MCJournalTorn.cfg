SPECIFICATION Spec
CONSTANTS
  schedule = schedule
  outcome = outcome
  none = none
  Slots = 2
  Recs <- MCRecs
  Redeliverable <- MCRedeliverable
  NoRec <- none
  WriteThrough = TRUE
INVARIANTS
  TornOutcomeIsIgnored
