SPECIFICATION SettingsSpec
CONSTANTS
  v1 = v1
  v2 = v2
  v3 = v3
  v4 = v4
  Versions <- FourVersions
SYMMETRY Symmetry
INVARIANTS BackupParses OneParses LastIsKept SettingsTypeOK SettingSurvives
