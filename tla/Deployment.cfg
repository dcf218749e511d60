CONSTANTS
  Edited <- MCEdited
  EditedColumns = {{"value", "is_active"}}
  MaxJobs = 4
SPECIFICATION Spec
INVARIANTS
  RevisionDecidesSchema
  ServiceFindsItsModel
  OnlyDataStopsJobs
PROPERTIES
  EditsSurvive
CHECK_DEADLOCK FALSE
