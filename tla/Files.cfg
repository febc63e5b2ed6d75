\* Two deeds of any kind on a tree of two names and two levels.
SPECIFICATION FilesSpec
CONSTANTS
  MaxDeeds = 2
  Kinds = {"sftp", "s3", "webdav", "onedrive"}
  Path <- Paths
  Target <- TheTarget
  Longer <- TheLonger
  Trees <- TheTrees
  Folders <- TheFolders
  Bare <- TheBare
  Modes <- TheModes
  Tolerance = 1
INVARIANTS FilesTypeOK PaneIsFresh SyncConverges
PROPERTY NothingElseVanishes
\* The deeds may be used up.
CHECK_DEADLOCK FALSE
