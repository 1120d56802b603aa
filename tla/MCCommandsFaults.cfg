CONSTANTS
  Asked = {"sdw", "usb", "load_sd", "jump", "boot"}
  Blocks <- MCBlocks
  Chunk = 2
  DdrFaults = {"PLL", "PHY"}
  SdFaults = {"INIT", "READ", "WRITE"}
  UsbFaults = {"CORE"}
SPECIFICATION FairSpec
INVARIANTS LinuxComplete LoadedMeansLoaded SdSizeMeansUp
PROPERTIES CommandsEnd
