CONSTANTS
  Core = Core
  Tenant = Tenant
  Else = Else
  None = None
  Unwritten = Unwritten
  AnyPort = AnyPort
  Sources <- MCSources
  UnknownTypes = {"shell"}
  Reasons = {0, 59, 60}
  Requests <- MCRequests
  Consultations <- MCConsultations
  Documents <- MCDocuments
  MaxEdits = 2
SPECIFICATION Spec
CHECK_DEADLOCK FALSE
INVARIANTS
  AllowedIsWrittenDown
  NothingOffTheList
PROPERTIES
  StrikingOutNeverAllows
