SPECIFICATION Spec
\* the sequence ends with the load of stage 3
CHECK_DEADLOCK FALSE
CONSTANTS
  CpuFreqs = {0, 399, 400, 500, 879, 880, 1199, 1200, 1201, 4000}
  DdrFreqs = {0, 1, 2, 4, 5}
  Ddr2Sels = {0, 4, 5}
  Ddr3Sels = {3, 4}
INVARIANTS
  TimerIsRight
  SpiClockInSpec
  CpuClockAsConfigured
