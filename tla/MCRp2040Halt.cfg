SPECIFICATION FairSpec
CONSTANTS
  reset = reset
  sram = sram
  loop = loop
  rp1 = rp1
  Systems = {rp1}
  Addrs <- MCAddrs
  ResetPc = reset
  SramBase = sram
  MaxBreakpoints = 3
  CycleModulus = 3
PROPERTIES
  EndsAtBreakpoint
