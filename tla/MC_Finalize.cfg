SPECIFICATION Spec
CONSTANTS
  Plans <- EveryPlan
  MaxFaults = 2
  MaxCrashes = 2
  MaxTampers = 2
INVARIANTS TypeOK TargetIsWhole CommittedStays ClosedIsTidy QuarantineExplained FailureExplained
PROPERTIES ForeignUntouched DownloadKept JournalSettles PublishesAtomically
CHECK_DEADLOCK FALSE
