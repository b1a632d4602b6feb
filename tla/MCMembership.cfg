CONSTANTS
  Members = {n1, n2}
  Removable = {n1}
  Maintainable = {n1}
  MaxFaults = 2
SPECIFICATION FairSpec
INVARIANT MarkedStaysOut
INVARIANT MembersInitialized
 
