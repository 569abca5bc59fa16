CONSTANTS
  m1 = m1
  m2 = m2
  Messages <- MCMessages
  Base <- MCBase
  MaxShifts = 1
  MaxFaults = 1
SPECIFICATION Spec
INVARIANTS LineHasFile NodeInboxKeepsAll OkMeansDeposited DepositOnce
SYMMETRY Symmetric
CHECK_DEADLOCK FALSE
