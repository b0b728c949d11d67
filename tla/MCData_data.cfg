SPECIFICATION Spec
CONSTANTS
  HashName <- MCHashName
  PayloadOf <- MCPayloadOf
  MAX_HASH_LEN = 2
  MinSize = 2
  MaxSize = 4
  NewSize = 1
  Word = 256
  BitXor <- MCXor
  PlainName <- MCPlain
  QName <- MCQName
  MAX_CHAIN = 1
  MIN_DICT_SIZE = 1
  MAX_DICT_HASH = 4
  FirstPool = 5
  Limit = {0, 3}
  Seed = 77
  Word32 = 256
  BitXor32 <- MCXor
  SortInput <- MCSortInput
  SMALL = 4
  RUN_BITS = 1
  TIM_SORT_STACK_SIZE = 5
  Place = {1, 2, 3}
  Declaration <- MCDeclaration
  StringOf <- MCStringOf
  XML_NODESET_DEFAULT = 1
  XPATH_MAX_NODESET_LENGTH = 4
  Member = {1, 2, 3, 4}
  ChildrenOf <- MCChildrenOf
  MaxLength = 4
  IntValues = 16
  Nil = Nil
  o1 = o1
  o2 = o2
  o3 = o3
  Obj = {o1, o2, o3}
  Variable = {"v"}
  Prefix <- MCPrefix
  CacheMax <- MCCacheMax
  StackBound = 2
  MaxDepth = 1
  NativeThread = {1, 2}
  Address = {1, 2, 3, 4, 5, 6, 7, 8, 9}
  MaxAbandoned = 1
  BuiltNodes = 3
  BlockDepth = 4
  NodeOf <- MCNodeOf
  INT_MAX = 7
  BASE_BUFFER_SIZE = 2
  RESIZE_SLACK = 1
  Call <- MCCall
PROPERTIES ActsAsMap Interned
INVARIANTS ScanVisitsOnce TextsIntact SortedStably SetsSound SetFunctionsExact SliceAsDocumented OwnedOnce ErrorsHandedOver CachesLive BuiltInItsBlock ValuesAsDefined
SYMMETRY ObjectsAlike
CHECK_DEADLOCK FALSE
