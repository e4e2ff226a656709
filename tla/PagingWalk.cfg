SPECIFICATION PagingSpec
CONSTANTS
  Keys <- MCKeys
  PageSize = 2
  MaxChanges = 4
INVARIANTS MissesNoMoreThanLost RepeatsNoMoreThanGained PagingInv
CHECK_DEADLOCK FALSE
