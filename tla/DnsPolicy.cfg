SPECIFICATION Spec
CONSTANTS
  None = None
  Hosts <- MCHosts
  Lines <- MCLines
  Inputs <- MCInputs
  MAX_SOURCES = 2
  MAX_USER_HOSTS = 2
  MAX_DIAGNOSTICS = 2
  MAX_SUPPRESSION_REASONS = 1
INVARIANTS DecisionsByMeaning CountsAddUp OmissionsReported
CHECK_DEADLOCK FALSE
