SPECIFICATION FairSpec
CONSTANTS
  obj = obj
  Keys <- OneKey
  Sibling = Sibling
  Foreign = Foreign
  BookmarkCapacity = 1
  MaxRev = 3
  MaxOpens = 2
INVARIANTS ResumeFollowed SelectionFollowed NoPhantomDelete
PROPERTY SyncRevisionConverges
CHECK_DEADLOCK FALSE
