SPECIFICATION TrialSpec
CONSTANTS
  Records = {r1, r2}
  Workers = {ann, bob}
  NoOne = NoOne
  LastDay = 1
  Mandates <- MCMandates
  Stories <- MCStories
SYMMETRY Symmetry
INVARIANTS
    TermsNeverEase
PROPERTIES
    AdoptedByRight
CHECK_DEADLOCK FALSE
