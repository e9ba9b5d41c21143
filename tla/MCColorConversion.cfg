SPECIFICATION ColourSpec
CONSTANTS
  Sizes <- MCSizes
  Palette <- MCPalette
  Palette565 <- MCPalette565
  Samples <- MCSamples
  Paddings = {0, 3}
  Leftover = 255
  Beyond = {0, 255}
INVARIANTS
  InBoundsUnlessHalfPlanes
  ChromaIsAverage
  DecodedFromOwnBlock
  SamplesAreBT601
