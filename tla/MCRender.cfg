CONSTANTS
  TileWidth = 2
  LineTiles = 4
  OamZeroEnd = 13
  AssignYBegin = 11
  AssignYEnd = 12
  OddSkipDot = 14
  CyclesPerLine = 16
  PostRenderLine = 3
  PreRenderLine = 5
  FineRows = 2
  FrameRows = 2
  TileRows = 4
  OamSize = 3
  SpriteSize = 1
  SpritesPerLine = 2
  None = None
  Tiles <- MCTiles
  Games <- MCGames
  Masks <- MCMasks
  Ctrls <- MCCtrls
  Scrolls <- MCScrolls
  Addrs <- MCAddrs
  RenderBatches <- MCRenderBatches
  MaxWrites = 1
SPECIFICATION RenderSpec
INVARIANTS
  PictureFollowsScroll
  RenderingIsExact
PROPERTIES
  DmaEnds
