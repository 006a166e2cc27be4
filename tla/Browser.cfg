CONSTANTS
  SD <- MCSD
  Storages <- MCStorages
  Tree <- MCTree
  Members <- MCMembers
  Rank <- MCRank
  Startups <- MCStartups
  MaxEntries = 5
  Visible = 2
  MenuJump = 5
  MaxPicture = 3
SPECIFICATION PartsSpec
INVARIANTS TypeOK SelectionInRange StaysOnVolumes IdleHasNoSession MemberOfArchive BackLeadsHome
  ScreenCurrent
PROPERTIES ReturnsToGame ChordActsOnce
CHECK_DEADLOCK FALSE
