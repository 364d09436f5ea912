SPECIFICATION MCSpec
CONSTANTS
  Severities = {"LOW", "HIGH"}
  Tenants = {t1, t2}
  None = None
  MaxEvents = 3
  MaxRules = 2
  MaxCases = 1
  MaxNotes = 1
  MaxVersion = 2
  MaxFaults = 1
  Forms <- MCForms
  MaxPolicies = 2
  MaxDay = 2
SYMMETRY MCSymmetry
INVARIANTS StoreTypeOK CaseShowsItsEvents StaleRulesExplain TenantsApart
PROPERTIES PreviewCarriedOut
CHECK_DEADLOCK FALSE
