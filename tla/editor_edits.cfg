CONSTANTS
  t1 = t1
  t2 = t2
  Tabs <- TwoTabs
  Ids <- TwoIds
  Names <- TwoNames
  Roles <- KnownRoles
  RoleSets <- ThreeRoleSets
  Texts <- AllTexts
  Addresses <- TwoAddresses
  Ticks <- OneTick
  Files <- FourFiles
  Drafts <- TwoDrafts
  Null = Null
  Missing = Missing
  Nothing = Nothing
  Garbage = Garbage
  MaxTeams = 2
  MaxNodes = 3
  MaxEdits = 2

SPECIFICATION Spec

INVARIANTS
  PreviewIsDeployed
  ReexportDeploysSame
  FieldFollows
  QuietIsSound

PROPERTIES
  ReloadRestores

SYMMETRY Symmetric

CHECK_DEADLOCK FALSE
