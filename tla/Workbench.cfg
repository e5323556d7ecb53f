SPECIFICATION Spec
CHECK_DEADLOCK FALSE
CONSTANTS
  Failed = Failed
  Missing = Missing
  MaxTdorDepth = 2
  MaxAsked = 2
  AskedDepths = {0, 2}
  ReferenceFiles <- MCReferenceFiles
  MaxSigDepth = 2
  ValueCells = {5}
  SignatureBlobs <- MCSignatureBlobs
  Shapes <- MCShapes
  BodyFiles <- MCBodyFiles
  CallModules <- MCCallModules
  UsageModules <- MCUsageModules
  FullNames <- MCFullNames
  OuterOf <- MCOuterOf
  Compared <- MCCompared
  WrittenNames <- MCWrittenNames
  NamedTypes <- MCNamedTypes
  KnownScopes <- MCKnownScopes
  ImportPairs <- MCImportPairs
  Imported <- MCImported
  ImportCalls = 2
  AttributeBlobs <- MCAttributeBlobs
  EnumWidths <- MCEnumWidths
  NestedTypeNames = {1010}
  Unparsable = {1020}
  Unnameable = {1030}
  SlashOf <- MCSlashOf
  PageCells = 4
  Interval = 5
  BitmapCovers = 8
  HeaderRoots = 2
  StreamLists <- MCStreamLists
  GivenFiles <- MCGivenFiles
  AddressLimit = 100
  LineLimit = 50
  LineSpan = 5
  SignedLimits <- MCSignedLimits
  UnsignedLimits <- MCUnsignedLimits
  SymbolFiles <- MCSymbolFiles
  FunctionLists <- MCFunctionLists
  SkippedModule = 700
  NamesName = 500
  UpperOf <- MCUpperOf
  HashOf <- MCHashOf
  FirstType = 20
  FirstMetadataType = 40
  PdbFiles <- MCPdbFiles
  BuiltFunctions <- MCBuiltFunctions
  BuiltPublics <- MCBuiltPublics
  BuiltDocuments <- MCBuiltDocuments
  BuiltSections <- MCBuiltSections
  MaxPdbEdits = 2
  MaxPdbSaves = 2
  LineBase <- MCLineBase
  LineRange = 2
  OpcodeBase = 9
  LastOpcode = 15
  MdbCalls <- MCMdbCalls
  MdbDebugs <- MCMdbDebugs
  MdbRawFiles <- MCMdbRawFiles
  HiddenLine = 9
  UnsignedFit = 32
  SignedFit = 16
  Slash = 1
  Backslash = 2
  PortableCalls <- MCPortableCalls
  PortableRawFiles <- MCPortableRawFiles
  LastSegment = 5
  UnknownSum = 77
  SymbolModules <- MCSymbolModules
  OldFiles <- MCOldFiles
  AddedMethod <- MCAddedMethod
  MaxSymbolEdits = 1
  MaxSymbolSaves = 2
  MarshalBlobs <- MCMarshalBlobs
  NativeTypes_ <- MCNativeTypes
  TypeCells = {1, 2, 130}
  GuidTexts <- MCGuidTexts
  PermissionBlobs <- MCPermissionBlobs
  LegacyTexts <- MCLegacyTexts
  EscapedName <- MCEscapedName
  BrokenNames = {503}
  ShownAs <- MCShownAs
  IndexLimit = 7
  GuidSize = 2
  TableOrder <- MCTableOrder
  TypeSystemTables = {"TypeDef", "Field", "MethodDef", "Param"}
  Columns <- MCColumns
  CodedGroups <- MCCodedGroups
  HeaderSize = 4
  RowCost = 1
  EntryCost = 1
  BudgetFactor = 1
  BudgetCap = 40
  Seeds <- MCSeeds
  Calls <- MCMetadataCalls
  CallBound = 2
  LostCells = {6, 20}
  ImageJobs <- MCImageJobs
  OriginalImages <- MCOriginalImages
  AddedPayloads <- MCAddedPayloads
  AddedSymbols <- MCAddedSymbols
  ImagePatches <- MCImagePatches
  MaxImageEdits = 2
INVARIANTS
  ReferencesKept
  TokensKept
  BodiesKept
  BlobsKept
  AnalysesExact
  NamesKept
  SymbolsKept
  ImagesKept
