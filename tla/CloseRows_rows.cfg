SPECIFICATION ScenesSpec
CONSTANTS
  N = 4
  At <- MCAt
  OrderOf <- MCOrderOf
  Faults = {"fail", "limited"}
INVARIANT CountedOnceInSession
PROPERTIES CoveredStays RecordedWhenKept
