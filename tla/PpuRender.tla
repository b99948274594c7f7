------------------------------ MODULE PpuRender ------------------------------
(***************************************************************************)
(* What ppu/render.c draws, and what it does to registers while it draws:  *)
(* background tiles, sprites and the backdrop; the scroll position in the  *)
(* VRAM address, the delay of a rendering toggle, the sprite zero hit and  *)
(* the reset of the OAM address; with the register writes of ppu/ppu.c     *)
(* that disturb them and OAM DMA, which runs the PPU byte by byte.         *)
(*                                                                         *)
(* Colours are abstract: a pixel is opaque or not, and shows the backdrop, *)
(* the background or one of the sprites.  Vblank, NMI and frames are in    *)
(* PpuTiming.                                                              *)
(***************************************************************************)
EXTENDS Integers, FiniteSetsExt, Sequences

CONSTANTS
  TileWidth, LineTiles,       \* 8 dots, 32 tiles
  OamZeroEnd,                 \* PPU_OAMADDR_SET_ZERO_END, 320
  AssignYBegin, AssignYEnd,   \* 280, 304
  OddSkipDot, CyclesPerLine,  \* 338, 341
  PostRenderLine,             \* 240
  PreRenderLine,              \* 261
  FineRows,                   \* 8 rows of a tile
  FrameRows, TileRows,        \* 30 rows of tiles are shown; the counter has 32
  OamSize, SpriteSize,        \* PPU_OAM_SIZE, 256; PPU_SPRITE_SIZE, 4
  SpritesPerLine,             \* PPU_SPRITES_PER_LINE, 8
  None,                       \* no dot
  Tiles(_, _, _),             \* by x, name table and row: the opaque <<row, column>> of a tile
  Games,                      \* the sprites in OAM, and whether their limit is lifted
  Masks, Ctrls,               \* what a program writes to $2001 and $2000
  Scrolls, Addrs,             \* scroll positions and addresses a program writes
  RenderBatches,              \* the CPU cycles one PpuTicksExecute call covers
  MaxWrites                   \* bound: register writes

IncY == TileWidth * LineTiles      \* PPU_RENDER_INC_Y, 256
AssignX == IncY + 1                \* PPU_RENDER_ASSIGN_X
ToggleDelay == 3                   \* PPU_RENDER_TOGGLE_DELAY

\* A VRAM address: x is ntX and tileX, as one counter.
Address ==
  [x : 0..(2 * LineTiles - 1), ntY : {0, 1}, tileY : 0..(TileRows - 1), fineY : 0..(FineRows - 1)]

\* A sprite in OAM with the opaque <<row, column>> of its tiles.
Sprites == [x : Nat, y : Nat, front : BOOLEAN, flipH : BOOLEAN, flipV : BOOLEAN,
            ink : SUBSET (Nat \X Nat)]

ASSUME RenderConstants ==
  /\ TileWidth \in Nat \ {0} /\ LineTiles \in Nat \ {0}
  /\ {OamZeroEnd, AssignYBegin, AssignYEnd, OddSkipDot, CyclesPerLine} \subseteq Nat
  /\ {PostRenderLine, PreRenderLine} \subseteq Nat
  /\ AssignX < AssignYBegin /\ AssignYBegin <= AssignYEnd /\ AssignYEnd < OamZeroEnd
  /\ OamZeroEnd < OddSkipDot /\ OddSkipDot + 1 < CyclesPerLine
  /\ 0 < PostRenderLine /\ PostRenderLine < PreRenderLine
  /\ FineRows \in Nat \ {0} /\ TileRows \in Nat /\ FrameRows \in 1..(TileRows - 1)
  /\ {OamSize, SpriteSize} \subseteq Nat \ {0} /\ SpritesPerLine \in Nat
  /\ \A g \in Games : g.oam \in Seq(Sprites) /\ Len(g.oam) * SpriteSize = OamSize
  /\ None \notin Nat
  /\ Masks \subseteq [bg : BOOLEAN, sp : BOOLEAN, bgLeft : BOOLEAN, spLeft : BOOLEAN]
  /\ Ctrls \subseteq [ntX : {0, 1}, ntY : {0, 1}, tall : BOOLEAN]
  /\ Scrolls \subseteq [x : 0..(LineTiles - 1), fineX : 0..(TileWidth - 1),
                       tileY : 0..(TileRows - 1), fineY : 0..(FineRows - 1)]
  /\ Addrs \subseteq Address
  /\ RenderBatches \subseteq Nat \ {0} /\ MaxWrites \in Nat

VARIABLES
  ppu,     \* the fields that PpuTicksExecute changes, the mask and the sprites' height
  tmp,     \* iRegs.tmp
  fineX,   \* iRegs.fineX
  w,       \* iRegs.w
  game,    \* ppu->sprites and cfg->noSpriteLimit
  dma,     \* PpuDMAWrite: "off", "copy" or "last"
  copied,  \* history: the bytes this DMA has copied
  writes   \* history: register writes so far

vars == <<ppu, tmp, fineX, w, game, dma, copied, writes>>

Zero == [x |-> 0, ntY |-> 0, tileY |-> 0, fineY |-> 0]

\* What a pixel shows: a sprite, by its number in OAM, or one of these.
Background == 0
Backdrop == -1
NotDrawn == -2

Columns == 0..(IncY - 1)
Blank == [x \in Columns |-> NotDrawn]
NoSprites == [x \in Columns |-> 0]

States ==
  [line : Nat, dot : Nat, lastDot : Nat, odd : BOOLEAN, mask : Masks, tall : BOOLEAN,
   toggle : Nat, cur : Address, lastTile : Nat, sprites : [Columns -> Nat], first : Nat,
   hit : {None} \cup Nat, spriteZero : BOOLEAN, overflow : BOOLEAN,
   oamAddr : 0..(OamSize - 1), shown : [Columns -> Int], steady : BOOLEAN]

\* PpuInit; the program has then chosen a scroll position and a mask while nothing is
\* drawn.  sprites is lineSprites, the sprite over each pixel or 0, and first the sprite
\* whose pixels have sp0.  shown is the line in the frame buffer.  steady is history:
\* rendering has been on since the address was last set to tmp, and neither a register
\* write nor a DMA has come in between.
RenderInit ==
  /\ \E mask \in Masks :
       ppu = [line |-> PreRenderLine - 1, dot |-> 0, lastDot |-> 0, odd |-> FALSE,
              mask |-> mask, tall |-> FALSE, toggle |-> 0,
              cur |-> Zero, lastTile |-> 0, sprites |-> NoSprites, first |-> 1,
              hit |-> None, spriteZero |-> FALSE, overflow |-> FALSE,
              oamAddr |-> 0, shown |-> Blank, steady |-> FALSE]
  /\ \/ tmp = Zero /\ fineX = 0
     \/ \E v \in Scrolls : /\ tmp = [Zero EXCEPT !.x = v.x, !.tileY = v.tileY, !.fineY = v.fineY]
                            /\ fineX = v.fineX
  /\ w = FALSE
  /\ game \in Games
  /\ dma = "off" /\ copied = {}
  /\ writes = 0

Lesser(a, b) == IF a < b THEN a ELSE b
Greater(a, b) == IF a > b THEN a ELSE b

-----------------------------------------------------------------------------
MaskOn(s) == s.mask.bg \/ s.mask.sp

Toggling(s) == s.toggle # 0 /\ s.lastDot < s.toggle + ToggleDelay

\* PpuRenderingEnabled: during the delay, the opposite of what the mask says.
RenderingEnabled(s) == IF Toggling(s) THEN ~MaskOn(s) ELSE MaskOn(s)

\* IRegIncY: the next row; after the last one shown, the other name table.
IRegIncY(a) ==
  IF a.fineY + 1 < FineRows THEN [a EXCEPT !.fineY = @ + 1]
  ELSE LET tile == (a.tileY + 1) % TileRows
       IN  IF tile = FrameRows THEN [a EXCEPT !.fineY = 0, !.tileY = 0, !.ntY = 1 - @]
                               ELSE [a EXCEPT !.fineY = 0, !.tileY = tile]

IRegIncX(a) == [a EXCEPT !.x = (@ + 1) % (2 * LineTiles)]

\* GetBgTileData and GetPixelColorIdx: whether the tile at address a has a colour there.
Opaque(a, column) == <<a.fineY, column>> \in Tiles(a.x, a.ntY, a.tileY)

\* Faulty: the rest of a tile that is cut by the fine scroll is taken from the tile itself.
BgOpaqueUncrossed(a, offs) == Opaque(a, (fineX + offs) % TileWidth)

\* PpuRenderBgTile at one of its pixels: beyond the crossing it is the next tile's.
BgOpaque(a, offs) ==
  Opaque(IF offs < TileWidth - fineX THEN a ELSE IRegIncX(a), (fineX + offs) % TileWidth)

\* The leftmost tile can be masked on its own.
BgOn(s, tile) == s.mask.bg /\ (tile > 0 \/ s.mask.bgLeft)
SpOn(s, tile) == s.mask.sp /\ (tile > 0 \/ s.mask.spLeft)

SpriteAt(s, x) == IF SpOn(s, x \div TileWidth) THEN s.sprites[x] ELSE 0

\* One tile, at the address that has come to it: PpuRenderBgTile, PpuRenderSpTile or
\* PpuRenderBackDropTile; SpriteZeroHitUpdate notes the first pixel where sprite 0 is
\* over an opaque background, but for the last one of the line.
RenderTile(s) ==
  LET start == s.lastTile * TileWidth
      opaque(x) == BgOn(s, s.lastTile) /\ BgOpaque(s.cur, x - start)
      columns == start..(start + TileWidth - 1)
      colour(x) == LET i == SpriteAt(s, x)
                   IN  IF i # 0 /\ (~opaque(x) \/ game.oam[i].front) THEN i
                       ELSE IF opaque(x) THEN Background ELSE Backdrop
      meets == {x \in columns \ {IncY - 1} : opaque(x) /\ SpriteAt(s, x) = s.first}
  IN  [s EXCEPT !.cur = IRegIncX(@), !.lastTile = @ + 1,
                !.shown = [x \in Columns |-> IF x \in columns THEN colour(x) ELSE @[x]],
                !.hit = IF s.hit = None /\ ~s.spriteZero /\ meets # {} THEN Min(meets) ELSE @]

\* PpuRenderTiles: the tiles up to `end'.
RenderTiles(s, end) ==
  LET upTo[t \in States] == IF t.lastTile >= end THEN t ELSE upTo[RenderTile(t)]
  IN  upTo[s]

\* VisibleScanLineNoRender.
NoRender(s, end) ==
  [s EXCEPT !.shown = [x \in Columns |-> IF x \in s.lastDot..(end - 1) THEN Backdrop ELSE @[x]]]

Height(s) == IF s.tall THEN 2 * FineRows ELSE FineRows

\* Whether sprite i has pixel x on line y; a flip counts the rows of both tiles of a tall
\* sprite, and the columns from the other side.
Dot(s, i, y, x) ==
  LET sprite == game.oam[i]
      row == IF sprite.flipV THEN Height(s) - 1 - (y - sprite.y) ELSE y - sprite.y
      column == IF sprite.flipH THEN TileWidth - 1 - (x - sprite.x) ELSE x - sprite.x
  IN  x \in sprite.x..(sprite.x + TileWidth - 1) /\ <<row, column>> \in sprite.ink

InRange(s, i, y) ==
  LET top == game.oam[i].y IN top < PostRenderLine /\ y \in top..(top + Height(s) - 1)

\* PreRenderSpriteLine: the sprites of the next line, from the one at the OAM address on.
\* A pixel stays with the sprite that came first.
PreRenderSpriteLine(s) ==
  LET from == (s.oamAddr \div SpriteSize) + 1
      full(num) == num > SpritesPerLine /\ ~game.noLimit
      with(i, over) ==
        [x \in Columns |-> IF over[x] = 0 /\ Dot(s, i, s.line, x) THEN i ELSE over[x]]
      examined[e \in [i : Nat, num : Nat, over : [Columns -> Nat]]] ==
        IF e.i > Len(game.oam) \/ full(e.num) THEN e
        ELSE IF ~InRange(s, e.i, s.line) THEN examined[[e EXCEPT !.i = @ + 1]]
        ELSE examined[[i |-> e.i + 1, num |-> e.num + 1,
                       over |-> IF full(e.num + 1) THEN e.over ELSE with(e.i, e.over)]]
      done == examined[[i |-> from, num |-> 0, over |-> NoSprites]]
  IN  [s EXCEPT !.sprites = done.over, !.first = from,
                !.overflow = @ \/ done.num > SpritesPerLine]

\* Faulty: a step does not stop where the toggle takes effect.
TileStageEndPast(s) == Lesser(IncY, s.dot)

\* The dot up to which the toggle delay lets one step draw.
TileStageEnd(s) ==
  LET end == Lesser(IncY, s.dot)
  IN  IF Toggling(s) THEN Lesser(end, s.toggle + ToggleDelay) ELSE end

\* PPU_RENDER_TILE_PIXELS: tiles are drawn two ahead of the beam.
TilePixels(s) ==
  LET end == TileStageEnd(s)
      ahead == Lesser(((end + TileWidth - 1) \div TileWidth) + 2, LineTiles)
      drawn == IF RenderingEnabled(s) THEN RenderTiles(s, ahead) ELSE NoRender(s, end)
  IN  [drawn EXCEPT !.spriteZero = @ \/ (drawn.hit # None /\ drawn.hit >= s.lastDot
                                                          /\ drawn.hit < end),
                    !.lastDot = end]

ResetOAMAddr(s) == [s EXCEPT !.oamAddr = IF MaskOn(s) THEN 0 ELSE @]

\* PpuVisibleLineRender, one stage.
VisibleStage(s) ==
  CASE s.lastDot < IncY -> TilePixels(s)
    [] s.lastDot = IncY ->
         LET t == IF RenderingEnabled(s)
                    THEN [PreRenderSpriteLine(s) EXCEPT !.cur = IRegIncY(@)]
                    ELSE s
         IN  [t EXCEPT !.lastTile = 0, !.hit = None, !.lastDot = @ + 1]
    [] s.lastDot = AssignX ->
         LET t == IF RenderingEnabled(s) THEN [s EXCEPT !.cur.x = tmp.x, !.oamAddr = 0] ELSE s
         IN  [t EXCEPT !.lastDot = @ + 1]
    [] OTHER ->
         [IF s.lastDot <= OamZeroEnd THEN ResetOAMAddr(s) ELSE s EXCEPT !.lastDot = s.dot]

\* PpuPreRenderLine, one stage.
PreRenderStage(s) ==
  CASE s.lastDot = 0 -> [s EXCEPT !.lastDot = 1]
    [] s.lastDot = 1 -> [s EXCEPT !.spriteZero = FALSE, !.overflow = FALSE,
                                   !.sprites = NoSprites, !.lastDot = 2]
    [] s.lastDot \in 2..IncY -> [s EXCEPT !.lastDot = Lesser(AssignX, s.dot)]
    [] s.lastDot = AssignX ->
         LET t == IF MaskOn(s) THEN [s EXCEPT !.cur.x = tmp.x, !.oamAddr = 0] ELSE s
         IN  [t EXCEPT !.lastDot = @ + 1]
    [] s.lastDot \in (AssignX + 1)..(AssignYBegin - 1) ->
         [ResetOAMAddr(s) EXCEPT !.lastDot = Lesser(AssignYBegin, s.dot)]
    [] s.lastDot \in AssignYBegin..AssignYEnd ->
         LET t == IF MaskOn(s)
                    THEN [s EXCEPT !.cur = [tmp EXCEPT !.x = s.cur.x], !.oamAddr = 0,
                                   !.steady = (s.cur.x = tmp.x)]
                    ELSE s
         IN  [t EXCEPT !.lastDot = Lesser(AssignYEnd + 1, s.dot)]
    [] s.lastDot \in (AssignYEnd + 1)..(OddSkipDot - 1) ->
         [IF s.lastDot <= OamZeroEnd THEN ResetOAMAddr(s) ELSE s
            EXCEPT !.lastDot = Lesser(OddSkipDot, s.dot)]
    [] s.lastDot = OddSkipDot /\ s.odd /\ MaskOn(s) ->
         [s EXCEPT !.dot = @ + 1, !.lastDot = s.dot + 1]
    [] OTHER -> [s EXCEPT !.lastDot = s.dot]

\* One round of the loops of PpuTicksExecute.
Round(s) ==
  IF s.lastDot # s.dot
    THEN CASE s.line < PostRenderLine    -> VisibleStage(s)
           [] s.line = PreRenderLine     -> PreRenderStage(s)
           [] s.line = PreRenderLine + 1 -> [s EXCEPT !.line = 0, !.odd = ~@]
           [] OTHER                      -> [s EXCEPT !.lastDot = s.dot]
  ELSE IF s.dot >= CyclesPerLine
    THEN [s EXCEPT !.line = @ + 1, !.dot = @ - CyclesPerLine, !.lastDot = 0, !.toggle = 0,
                    !.shown = Blank]
  ELSE s

\* PpuTicksExecute: rounds until lastDot has caught up and the line is not over.
TicksExecute(s, n) ==
  LET caught[t \in States] ==
        IF t.lastDot = t.dot /\ t.dot < CyclesPerLine THEN t ELSE caught[Round(t)]
  IN  caught[[s EXCEPT !.dot = @ + 3 * n]]

-----------------------------------------------------------------------------
Ticks(n) ==
  /\ dma = "off"
  /\ ppu' = TicksExecute(ppu, n)
  /\ UNCHANGED <<tmp, fineX, w, game, dma, copied, writes>>

Write ==
  /\ dma = "off"
  /\ writes < MaxWrites
  /\ writes' = writes + 1
  /\ UNCHANGED <<game, dma, copied>>

\* $2001: switching background or sprites on or off takes effect with a delay.
MaskWrite(mask) ==
  /\ Write
  /\ ppu' = [ppu EXCEPT !.mask = mask, !.steady = FALSE,
               !.toggle = IF <<mask.bg, mask.sp>> # <<ppu.mask.bg, ppu.mask.sp>> THEN ppu.dot ELSE @]
  /\ UNCHANGED <<tmp, fineX, w>>

\* $2000: the name table and the height of sprites.
CtrlWrite(ctrl) ==
  /\ Write
  /\ tmp' = [tmp EXCEPT !.x = (@ % LineTiles) + (ctrl.ntX * LineTiles), !.ntY = ctrl.ntY]
  /\ ppu' = [ppu EXCEPT !.steady = FALSE, !.tall = ctrl.tall]
  /\ UNCHANGED <<fineX, w>>

\* $2003.
OamAddrWrite(addr) ==
  /\ Write
  /\ ppu' = [ppu EXCEPT !.steady = FALSE, !.oamAddr = addr]
  /\ UNCHANGED <<tmp, fineX, w>>

\* $2005: x first, then y.
ScrollWrite(v) ==
  /\ Write
  /\ w' = ~w
  /\ tmp' = IF w THEN [tmp EXCEPT !.tileY = v.tileY, !.fineY = v.fineY]
                 ELSE [tmp EXCEPT !.x = v.x + ((@ \div LineTiles) * LineTiles)]
  /\ fineX' = IF w THEN fineX ELSE v.fineX
  /\ ppu' = [ppu EXCEPT !.steady = FALSE]

\* $2006: the second write sets the address.  Both halves are taken from one address,
\* of which the high half is the row in the tile, the name table and the tile row.
AddrWrite(a) ==
  /\ Write
  /\ w' = ~w
  /\ tmp' = IF w THEN [tmp EXCEPT !.x = (a.x % LineTiles) + ((@ \div LineTiles) * LineTiles)]
                 ELSE [a EXCEPT !.x = (tmp.x % LineTiles) + ((@ \div LineTiles) * LineTiles)]
  /\ ppu' = [ppu EXCEPT !.steady = FALSE, !.cur = IF w THEN tmp' ELSE @]
  /\ UNCHANGED fineX

\* $2002 resets the write toggle; time has to pass for anything else to happen here.
StatusRead ==
  /\ dma = "off" /\ w
  /\ w' = FALSE
  /\ UNCHANGED <<ppu, tmp, fineX, game, dma, copied, writes>>

\* $4014 with the OAM address at 0, as the code demands.
DmaStart ==
  /\ dma = "off" /\ ppu.oamAddr = 0
  /\ dma' = "copy" /\ copied' = {}
  /\ UNCHANGED <<ppu, tmp, fineX, w, game, writes>>

\* Faulty: the incremented byte is compared with the size.
DmaByteForever ==
  /\ dma = "copy"
  /\ copied' = copied \cup {ppu.oamAddr}
  /\ LET s == TicksExecute(ppu, 2)
     IN  /\ ppu' = [s EXCEPT !.oamAddr = (@ + 1) % OamSize, !.steady = FALSE]
         /\ dma' = IF ppu'.oamAddr = OamSize THEN "last" ELSE "copy"
  /\ UNCHANGED <<tmp, fineX, w, game, writes>>

\* One byte of PpuDMAWrite; rendering may reset the address that the loop counts with.
DmaByte ==
  /\ dma = "copy"
  /\ copied' = copied \cup {ppu.oamAddr}
  /\ LET s == TicksExecute(ppu, 2)
     IN  /\ ppu' = [s EXCEPT !.oamAddr = (@ + 1) % OamSize, !.steady = FALSE]
         /\ dma' = IF s.oamAddr = OamSize - 1 THEN "last" ELSE "copy"
  /\ UNCHANGED <<tmp, fineX, w, game, writes>>

\* The cycle that waits for the bus, and one more after an odd cycle.
DmaLast ==
  /\ dma = "last"
  /\ dma' = "off"
  /\ \E n \in {1, 2} : ppu' = [TicksExecute(ppu, n) EXCEPT !.steady = FALSE]
  /\ UNCHANGED <<tmp, fineX, w, game, copied, writes>>

RenderNext ==
  \/ \E n \in RenderBatches : Ticks(n)
  \/ \E mask \in Masks : MaskWrite(mask)
  \/ \E ctrl \in Ctrls : CtrlWrite(ctrl)
  \/ \E addr \in {0, OamSize - SpriteSize} : OamAddrWrite(addr)
  \/ \E v \in Scrolls : ScrollWrite(v)
  \/ \E a \in Addrs : AddrWrite(a)
  \/ StatusRead
  \/ DmaStart
  \/ DmaByte
  \/ DmaLast

\* The loop of PpuDMAWrite does not stop on its way.  While a DMA runs, one of DmaByte and
\* DmaLast is enabled and nothing else is, so that this is WF_vars(DmaByte \/ DmaLast).
DmaGoesOn == []<>(dma = "off") \/ []<><<dma # "off">>_vars

RenderSpec == RenderInit /\ [][RenderNext]_vars /\ DmaGoesOn

-----------------------------------------------------------------------------
\* Running the PPU for a batch of cycles leaves it as running it cycle by cycle: the
\* address, the tiles drawn, the sprite zero hit, the OAM address and the delay of a
\* toggle do not depend on how the CPU splits time (render.c 142-183, 312-335,
\* 426-519).
Singly(n) ==
  LET single[k \in 0..n] == IF k = 0 THEN ppu ELSE TicksExecute(single[k - 1], 1)
  IN  single[n]
RenderingIsExact == \A n \in RenderBatches : TicksExecute(ppu, n) = Singly(n)

\* The address of the tile row that is `n' lines below the address a, and x pixels to
\* the right.
TileAt(a, n, x) ==
  LET row == (((a.ntY * FrameRows) + a.tileY) * FineRows) + a.fineY + n
      tile == (row \div FineRows) % (2 * FrameRows)
  IN  [x |-> (a.x + ((fineX + x) \div TileWidth)) % (2 * LineTiles),
       ntY |-> tile \div FrameRows, tileY |-> tile % FrameRows, fineY |-> row % FineRows]

\* Sprites are a line late: those of line n are found on line n - 1, and line 0 has none.
\* The first ones in OAM are shown, up to the limit.
Shown(s, n) ==
  LET there == {i \in 1..Len(game.oam) : n > 0 /\ InRange(s, i, n - 1)}
  IN  {i \in there : game.noLimit \/ Cardinality({j \in there : j < i}) < SpritesPerLine}

SpritesAt(s, n, x) == {i \in Shown(s, n) : SpOn(s, x \div TileWidth) /\ Dot(s, i, n - 1, x)}

GroundAt(s, n, x) ==
  BgOn(s, x \div TileWidth) /\ Opaque(TileAt(tmp, n, x), (fineX + x) % TileWidth)

\* The picture: the foremost sprite, unless it goes behind the background.
Pixel(s, n, x) ==
  LET sprites == SpritesAt(s, n, x)
      ground == GroundAt(s, n, x)
  IN  IF sprites # {} /\ (~ground \/ game.oam[Min(sprites)].front) THEN Min(sprites)
      ELSE IF ground THEN Background ELSE Backdrop

ZeroAt(s, n, x) == x # IncY - 1 /\ GroundAt(s, n, x) /\ 1 \in SpritesAt(s, n, x)

\* What line s.line of an undisturbed frame shows.
Follows(s) ==
  /\ \A x \in Columns :
       x < s.lastTile * TileWidth \/ s.lastDot > IncY => s.shown[x] = Pixel(s, s.line, x)
  /\ s.lastTile * TileWidth >= Lesser(s.lastDot, IncY) \/ s.lastDot > IncY
  /\ s.spriteZero <=> \E n \in 0..s.line, x \in Columns :
                        ZeroAt(s, n, x) /\ (n < s.line \/ x < s.lastDot)

\* In an undisturbed frame, line n shows row n of the picture below the scroll position,
\* with the sprites over it, as far as tiles were drawn, and all of it when the beam has
\* passed; and the sprite zero flag is set from the moment that the beam passes the first
\* pixel where sprite 0 meets the background (render.c 163-335, 364-432, 455-519, 533-573).
\* A scroll position in the attributes is left out.
PictureFollowsScroll ==
  ppu.steady /\ ppu.line < PostRenderLine /\ tmp.tileY < FrameRows => Follows(ppu)

\* An OAM DMA ends, even if rendering sets it back on every line, and has then copied
\* every byte (ppu.c 432-462, render.c 442-513).
DmaEnds == dma = "copy" ~> dma = "off" /\ copied = 0..(OamSize - 1)
=============================================================================
