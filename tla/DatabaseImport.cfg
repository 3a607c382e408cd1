SPECIFICATION Spec
CONSTANTS
  Import = {i1}
  Main = Main
  NoFile = NoFile
  MaxFail = 2
INVARIANT NothingLost
INVARIANT ImportInv
INVARIANT HashedOnce
 
PROPERTY Atomic
