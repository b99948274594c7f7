------------------------------ MODULE MCRender ------------------------------
(* Lines of four tiles of two by two, frames of three lines; two sprites of    *)
(* three on a line; a DMA takes more than a line and less than the vertical    *)
(* blank.                                                                      *)
EXTENDS PpuRender

MCTiles(x, ntY, tileY) ==
  {<<row, column>> \in {0, 1} \X {0, 1} : (x + 3 * ntY + 2 * tileY + row + (x * column)) % 3 # 0}

MCMasks == {[bg |-> TRUE, sp |-> TRUE, bgLeft |-> FALSE, spLeft |-> TRUE],
            [bg |-> TRUE, sp |-> FALSE, bgLeft |-> TRUE, spLeft |-> TRUE],
            [bg |-> FALSE, sp |-> FALSE, bgLeft |-> TRUE, spLeft |-> FALSE]}
MCCtrls == {[ntX |-> 0, ntY |-> 0, tall |-> FALSE], [ntX |-> 1, ntY |-> 1, tall |-> TRUE]}

Sprite(x, y, front, ink) ==
  [x |-> x, y |-> y, front |-> front, flipH |-> FALSE, flipV |-> FALSE, ink |-> ink]
MCGames ==
  {[oam |-> <<Sprite(2, 0, FALSE, {<<0, 0>>, <<1, 1>>}),
              Sprite(3, 1, TRUE, {<<0, 0>>, <<0, 1>>, <<2, 1>>}),
              Sprite(6, 1, TRUE, {<<0, 0>>, <<0, 1>>})>>, noLimit |-> FALSE],
   [oam |-> <<[Sprite(7, 0, TRUE, {<<0, 1>>, <<0, 0>>}) EXCEPT !.flipH = TRUE],
              [Sprite(0, 0, FALSE, {<<0, 0>>, <<1, 1>>}) EXCEPT !.flipV = TRUE],
              Sprite(1, 0, TRUE, {<<0, 0>>, <<1, 0>>})>>, noLimit |-> TRUE]}

MCScrolls == {[x |-> 1, fineX |-> 1, tileY |-> 1, fineY |-> 1]}
MCAddrs == {[x |-> 6, ntY |-> 1, tileY |-> 0, fineY |-> 1]}
MCRenderBatches == {1, 4}
=============================================================================
