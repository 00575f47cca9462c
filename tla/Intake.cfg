SPECIFICATION FairSpec
CONSTANTS
  Clients = {"platform", "editor"}
  Actors = {"integration", "author"}
  ActorOf <- MCOwn
  Keys = {"k1", "k2"}
  Contents = {"draft"}
  Unacceptable = {}
  None = None
  MaxIntents = 3
  MaxCopies = 1
  MaxReassessments = 1
  MaxFaults = 1
INVARIANTS
  AnswersTrue
  OneChainPerAsset
PROPERTIES
  ImplementsEditHistory
  EveryEditAnswered
CHECK_DEADLOCK FALSE
