CONSTANT StablePasses = 3
SPECIFICATION MCSpec
INVARIANT InputLossKeepsBattery
PROPERTIES
  FullQualification
  QualifiedInputTakesOver
