\* LifecycleAll with two restarts and no signal.
SPECIFICATION FairSpec
CONSTANTS
  MaxRestarts = 2
  Signals = {}
  None = None
PROPERTIES LastRestartWorks
