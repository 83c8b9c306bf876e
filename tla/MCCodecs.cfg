CONSTANTS
  Bytes = {0, 1, 57, 58, 255}
  Chars = {5, 62, 64, 99}
  Letters = {1, 2}
  Tags = {0, 1, 2, 3, 4, 5, 6, 7, 8, 9, 10, 11, 12, 13, 14, 15, 16, 17, 18}
  MaxBytes = 3
  MaxChars = 8
  MaxHaystack = 9
  MaxSwap = 640
  NeedleLen = 4
SPECIFICATION Spec
INVARIANTS Base58Positional Base58RoundTrip Base64Reference SearchSound SwapLengthExact BindingsConsistent
