SPECIFICATION RSpec
CONSTANTS
  Procs = {"serve", "reg"}
  MaxFaults = 0
  MaxDels = 0
PROPERTY NoOverwrite
