SPECIFICATION LimitsSpec
CONSTANTS
  Task = {t1, t2}
  Units = {3, 4}
  Capacity = 6
  MaxPermits = 2
  Knob = {"Handshakes"}
  Gate = "Handshakes"
  Startup <- MCStartup
  Default <- MCDefault
  Quantum <- MCQuantum
  LoadLevel = {0, 1000, 8192}
  MemoryTotal = 100
  Usage = {0, 70, 95}
INVARIANTS NoLostWakeup NoLostPressureChange UnitsConserved
PROPERTIES ParkedIsServed DwellKept DemandReachesHard
