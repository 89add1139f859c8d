SPECIFICATION MCSpec
CONSTANTS
  Section = {s1, s2}
  Field = {labels, groups}
  Value = {v1, v2}
  MaxRevision = 2
  Nothing = Nothing
INVARIANTS
  FieldsReachTheRunner ExportIsWhatWillRun MatchedAsConfigured
PROPERTIES
  RevisionsAreDelivered FieldSaveKeepsDevices
