\* Two threads, in place, atomic and transactional, a to_state, two restarts.
CONSTANTS
  t1 = t1
  t2 = t2
  NoThread = NoThread
  Threads = {t1, t2}
  Sections = {facts}
  Texts = {said}
  TurnIds = {1}
  NoNarrative = none
  Narratives = {none}
  Sortable = {TRUE}
  MaxId = 2
  MaxUpdates = 1
  MaxSaves = 1
  MaxRestarts = 2
SPECIFICATION Spec
SYMMETRY Symmetry
INVARIANTS
  TypeOK
  IdsFresh
  CurrentTrialsExtendLive
  NoLostUpdate
PROPERTY
  ImplementsLivingSummary
