CONSTANTS
  SampleLengths <- MCSampleLengths
  Scopes = {"stage_b", "gemma", "stage b"}
  ValidScopes = {"stage_b", "gemma"}
  Sources <- MCSources
  MaxEdits = 2
  MaxStops = 1
SPECIFICATION Spec
INVARIANTS
  ParametersOnce
  AcceptedArtifactBuilds
  BuiltBundleChecks
