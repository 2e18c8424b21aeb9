SPECIFICATION Spec
CONSTANTS
  None = None
  VolumeMax = 6
  BalanceMax = 1
  FadeMax = 2
  ToneMax = 1
  FadeMultiplier = 3
  TextMax = 2
  ResetResumes = FALSE
  Address = Address
  Stereo = Stereo
  NumIds = 3
  Scripts <- MCScripts
INVARIANTS
  TypeOK
  OnUndisturbed
  ShownCurrent
  Attributed
  EchoAsMeant
PROPERTIES
  BootEnds
