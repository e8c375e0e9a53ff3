SPECIFICATION Spec
CONSTANTS
  Seeds = {0, 1}
  XXH32_Pieces <- Pieces32
  XXH32_MaxLen = 80
  XXH32_LenRange = 64
  XXH64_Pieces <- Pieces64
  XXH64_MaxLen = 100
  UserSizes = {136}
  XXH3_Pieces <- Pieces3
  XXH3_MaxLen = 2000
  MaxCalls = 4
  Half = 16
  Shift = 64
  PRIME32_1 = 13
  xor <- XorBits
  Stripes <- MixedStripes
  SoFar = {0, 13}
  kWords <- ScrambledWords
  SeedWords = {1, 201}
  MaxMixes = 4
CHECK_DEADLOCK FALSE
INVARIANTS
  XXH32_StreamIsOneShot
  XXH64_StreamIsOneShot
  XXH3_StreamIsOneShot
  XXH3_EveryByteCounts
  XXH3_SecretInside
  XXH3_SomeBuffered
  XXH3_VariantsAgree
