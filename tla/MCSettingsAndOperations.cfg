SPECIFICATION Spec
CONSTANTS
  TestedModels <- TestedModelsValue
  ProbeRates <- ProbeRatesValue
  LinkKeys <- LinkKeysValue
  LoadModels <- LoadModelsValue
  MaxParameters = 3
  Passwords = {"p1"}
  MaxTags = 2
INVARIANTS
  SettingTypeOK SetThenGet  KnownParameter 
  TagTypeOK NoLeftovers FieldsInPlace AnswerPastEcho PasswordAsAsked 
PROPERTIES
  RefusedKeepsValue BootCarriesSettings RollBackRestores LoadedAsWritten
CHECK_DEADLOCK FALSE
