SPECIFICATION ToolSpec
CONSTANTS
  \* TraceBfs
  Addresses = {"a", "b", "c", "d"}
  Directions = {"forward", "backward"}
  RequestedDepths = {0, 9}
  NodeCap = 3
  EdgeCap = 3
  DepthCap = 2
  NoAddress = NoAddress
  XrefLists <- BTLists
  \* SeedTrace
  Registers = {"rax", "rbx", "esp"}
  StackPointer = "esp"
  Clobbered = {"rax"}
  Ops <- STOps
  Seeds <- STSeeds
  MaxEvents = 2
  MaxScanned = 4
  NoEvent = NoEvent
  \* ArtifactEmulator
  Base = 4
  WordBits = 8
  Regs = {"eax", "esp"}
  Instructions <- AEInstructions
  WindowSize = 3
  MaxSteps = 5
  VisitCap = 2
  ContextCap = 2
  PreviewCap = 2
  Printable = {2, 3}
  MinString = 0
  DefaultString = 2
  StringCap = 1
  Radix = 2
  Unknown = Unknown
  \* ImmediateBuffers
  ByteBase = 4
  SpanCap = 4
  NoWrite = NoWrite
  \* PathDigest
  Listing <- PDListing
  Window = 4
  RangeEnds = {3, NotAnAddress, NoEnd}
  StopSets = {{}, {1}}
  Markers = {"k1", "k2"}
  DigestEvents = 3
  SetupCap = 2
  CallPreview = 2
  MarkerPreview = 1
  SightCap = 2
  NoStop = NoStop
  NotAnAddress = NotAnAddress
  NoEnd = NoEnd
  \* FieldXrefs
  Code <- FXCode
  CodeWindow = 4
  Roots = {"esi", NoRegister}
  RootName = "root"
  StackBases = {"ebp"}
  ArgNames <- FXArgs
  Resolver = 9
  Labels <- FXLabels
  IgnoreStack = FALSE
  MaxRows = 2
  PreviewRows = 2
  NoRegister = NoRegister
  NoPush = NoPush
  \* JumpTable
  EntryCounts = {0, 2, 9}
  PointerSizes = {0, 1, 2, 3}
  MaxEntries = 3
  TableBytes <- JTBytes
  SliceOps <- JTSlices
  SliceBytes = 2
  MaxSlice = 1
  LeastAsked = 4
  TableBases = {8, Symbolic}
  Symbolic = Symbolic
  NotBytes = NotBytes
  NoAddr = NoAddr
  \* DriverDispatch
  DriverOps <- DDOps
  DriverRegister = "rcx"
  GeneralRegs = {"rax", "rbx", "rcx"}
  CallbackReg = "rcx"
  CodeAddresses = {"h1", "h2", "h3"}
  ScanLimit = 3
  FirstMajor = 2
  LastMajor = 7
  EntryWidth = 2
  NoCode = NoCode
INVARIANTS
  DecodersTypeOK
  TraceFollowsGraph
  CopiesFollowedInStep
  CutsAreTold
  EndsAreTold
  MemoryHoldsLastWrites
  SetupsAreNearest
  StringsAreMaximal
  AssignmentsAreWrites
  JumpTableIsRead
  DriverStoresReported
PROPERTIES
  NamesHaveASource
  WalksEnd
CHECK_DEADLOCK FALSE
