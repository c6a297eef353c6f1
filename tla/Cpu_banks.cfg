CONSTANTS
  Banks <- MeetingBanks
  Files <- ShortFiles
  PowerUps <- SomePowerUps
  Starts = {0, 3}
  MaxCycle = 7
SPECIFICATION Spec
INVARIANT TypeOK
PROPERTIES RomKeeps Stops
CHECK_DEADLOCK FALSE
