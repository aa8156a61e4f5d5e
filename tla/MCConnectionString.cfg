SPECIFICATION Spec
CONSTANT
  Strings <- MCStrings
INVARIANT
  SettingsExact
