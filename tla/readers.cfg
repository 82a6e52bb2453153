SPECIFICATION DecodeSpec
CONSTANTS
  LimbDigits = 2
  Power <- PowersOfTen
  MaxDigits = 6
  MaxWord = 16383
  Factors <- UnitFactors
  MaxExponent = 40
  Milli = 10
  Second = 100
  Minute = 150
  MaxSeconds = 63
  Kilo = 100
  Kibi = 64
  Exa = 140
  Exbi = 150
  MaxI128 = 8191
  MaxI64 = 1023
  MaxU64 = 2047
  MaxI32 = 31
  WholeDigits = 4
  CharOrder <- Ascii
  BareChars <- Unquoted
  LowerCase <- Lowered
  Decoded <- UEscapes
  MaxSegments = 3
  MaxDepth = 3
  IdentStart <- Starts
  IdentPart <- Parts
  HexEscape <- Hexadecimal
  FloatPoints <- Finite
  PlainPoints <- Plainly
  Sources <- AllSources
  Short = 3
INVARIANTS
  TypeOK
  NeverWraps
  ProductExact
  ReadsTheText
  MountFaithful
  FindsByPath
  ListsInOrder
  Json5Faithful
  CursorLocated
  CleanedFaithful
  YamlFaithful
  DecodesTheNode
  ErrorsNameThePlace
CHECK_DEADLOCK FALSE
