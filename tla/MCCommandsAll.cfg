CONSTANTS
  Asked = {"ddr", "sd", "sdw", "usb", "load_sd", "jump", "boot"}
  Blocks <- MCBlocks
  Chunk = 2
  DdrFaults = {"PLL", "PHY", "TEST"}
  SdFaults = {"INIT", "READ", "WRITE"}
  UsbFaults = {"CORE"}
SPECIFICATION Spec
INVARIANTS DdrDoneMeansUp OkMeansAsSaved
