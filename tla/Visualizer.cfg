SPECIFICATION FairSpec
CONSTANTS
  MaxSources = 4
  MaxActs = 4
  MaxMessages = 1
INVARIANTS
  NeverFarAhead
  MessagesOnce
PROPERTIES
  PlayingGoesOn
  PauseSettles
  QuitEnds
