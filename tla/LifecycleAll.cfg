\* Up to two requests to restart, at any time, and a signal that may come at any
\* time of a life with at most one of them.
SPECIFICATION FairSpec
CONSTANTS
  MaxRestarts = 2
  Signals = {0, 1}
  None = None
INVARIANTS TypeOK OneCancellable NoOrphans NewestSettings
PROPERTIES GenerationsEnd RestartWorks
