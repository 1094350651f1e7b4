SPECIFICATION HFairSpec
CONSTANTS
  Hil = TRUE
  NSamples = 2
  ArmSamples = {}
  Est = {0}
  Est0 = 0
  Health = {"Degraded"}
  TelemFrames = 1
  EvtLimit = 1
  SetPoint = {p0, p1}
  ZeroSetPoint = p0
  NMotors = 2
  MaxAge = 1
INVARIANTS TxExclusive HilReadsWhole NoLostWakeup SetpointWhole ActuatorsNotOlder
PROPERTIES ArmTakesEffect LostOnlyWhileBlocked TelemCycles InjectionTaken
