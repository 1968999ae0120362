SPECIFICATION Spec
CONSTANTS
  schedule = schedule
  outcome = outcome
  none = none
  Slots = 3
  Recs <- MCRecs
  Redeliverable <- MCRedeliverable
  NoRec <- none
  WriteThrough = FALSE
INVARIANTS
  ScanYieldsHistory
  AckedIsReadable
  WriterFacesErased
  SealCoversDurableBody
PROPERTIES
  HistoryOnlyGrows
  ImplementsBankLog
