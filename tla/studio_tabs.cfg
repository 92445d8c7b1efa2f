SPECIFICATION FairTabsSpec
CONSTANTS
  Tabs = {t1}
  Words = {"a", "b"}
  Projects <- MCProjects
  Inputs <- MCInputs
  MaxIds = 3
  MaxWrites = 2
  MaxActs = 4
  MaxLost = 1
INVARIANTS
  SourcesFollow
PROPERTIES
  NoLostEdit
  DraftsKept
  ChoicesHold
  TabsCatchUp
CHECK_DEADLOCK FALSE
