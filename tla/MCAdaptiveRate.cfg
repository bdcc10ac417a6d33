SPECIFICATION AdaptiveSpec
CONSTANTS
  Knob = {"DirectConcurrent", "DirectPerSecond"}
  Gate = "DirectConcurrent"
  Startup <- MCStartup
  Default <- MCDefault
  Quantum <- MCQuantum
  LoadLevel = {0, 32768}
  MemoryTotal = 100
  Usage = {0}
PROPERTY RateFollowsDialDemand
