SPECIFICATION Spec
CONSTANTS
  Hil = TRUE
  NSamples = 2
  ArmSamples = {}
  Est = {0, 1}
  Est0 = 0
  Health = {"Degraded"}
  TelemFrames = 1
  EvtLimit = 1
INVARIANT OneStepPerPhysicsStep
