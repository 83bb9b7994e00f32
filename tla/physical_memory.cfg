SPECIFICATION MemorySpec
CHECK_DEADLOCK FALSE
CONSTANTS
  DeviceFiles <- MCDeviceFiles
  SystemFiles <- MCSystemFiles
  Sizes = {1, 5}
  Megabyte = 8
  Addresses <- MCAddresses
  Data = {1, 2}
  Tracer = 0
  MaxNodes = 2
INVARIANTS
  MemoryTypeOK
  BuiltFromFiles
  MappedInRange
  MappedOneToOne
  OneNodePerRow
  RowFilledFirst
PROPERTIES
  ImplementsFlatMemory
