SPECIFICATION MCSpec
CONSTANTS
  Helpers = {p1, p2}
  Refs = {r1}
  Shas = {a}
  None = None
  Formats <- AllFormats
  Depths = {0, 1}
  MaxLines = 5
  Kinds <- AllKinds
  MaxBatch = 2
  MaxFaults = 1
  Urls <- AllUrls
  Envs <- AllEnvs
  HelperUrls <- SomeUrls
  Hyphen <- AllHyphen
  BadLabels = {"Bad", "a@b", "a=b", "a%20b", "a%40b", "a%3Db", "a%2520b"}
  RefKeys <- AllRefKeys
  Encode <- AllEncode
  Decode <- AllDecode
  Unsafe <- AllUnsafe
  Digits = {"1"}
  MaxTtl = 2
INVARIANTS OkIsListed EveryLineAnswered RunsWhatIsAsked OneAddress
CHECK_DEADLOCK FALSE
