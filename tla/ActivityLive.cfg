\* Liveness, one thread at a time.
SPECIFICATION FairSpec
CONSTANTS
  Workers = {w1}
  Operations = {"ACTION_DELETE_LOCAL", "ACTION_DOWNLOAD", "ACTION_EXTRACT_LOCAL_ZIP"}
  MaxFiles = 1
  AlwaysUse = {FALSE}
  HurriedUser = FALSE
PROPERTIES
  QuestionShown
