--------------------------- MODULE PpuRender_proofs ---------------------------
(***************************************************************************)
(* Proofs about PpuRender, for every size of a line and a frame, every     *)
(* pattern of tiles and every set of sprites: an undisturbed frame shows   *)
(* what the scroll position asks for, and a batch of cycles does what the  *)
(* single ones do.                                                         *)
(***************************************************************************)
EXTENDS PpuRender, FiniteSetTheorems, WellFoundedInduction, TLAPS

(***************************************************************************)
(* What a line shows was fetched before: the address runs ahead of the     *)
(* beam by up to two tiles, and a hit with sprite zero is noted when the   *)
(* tile is drawn and told when the beam comes by; the sprites were found   *)
(* on the line before.  The invariant says where in its line each of these *)
(* is, while the frame is steady.                                          *)
(***************************************************************************)

\* The address a is in the row n lines below the scroll position.
AtRow(a, n) ==
  LET goal == TileAt(tmp, n, 0)
  IN  a.ntY = goal.ntY /\ a.tileY = goal.tileY /\ a.fineY = goal.fineY

\* The foremost sprite of line n at x, or 0.
At(s, n, x) == {i \in Shown(s, n) : Dot(s, i, n - 1, x)}
Foremost(s, n, x) == IF At(s, n, x) = {} THEN 0 ELSE Min(At(s, n, x))

\* Where sprite zero has met the background of the line in the tiles drawn.
Met(s) == {x \in Columns : x < s.lastTile * TileWidth /\ ZeroAt(s, s.line, x)}
MetBefore(s) == \E n \in 0..(s.line - 1), x \in Columns : ZeroAt(s, n, x)

Placed(s) ==
  /\ s \in States /\ s.lastDot <= s.dot
  /\ s.line <= PreRenderLine + 1 /\ (s.line = PreRenderLine + 1 => s.lastDot = 0)
  /\ s.lastTile <= LineTiles /\ s.first >= 1

\* Behind the last tile of a line its counters are back.
Swept(s) ==
  s.line >= PostRenderLine \/ s.lastDot > IncY => s.lastTile = 0 /\ s.hit = None

\* The first line has no sprites.
Cleared(s) ==
  (s.line = PreRenderLine /\ s.lastDot >= 2) \/ s.line = PreRenderLine + 1 =>
    s.sprites = NoSprites /\ ~s.spriteZero

Calm(s) ==
  s.steady => /\ MaskOn(s) /\ s.oamAddr = 0
              /\ s.line # PreRenderLine => s.toggle = 0
              /\ \/ s.line = PreRenderLine /\ s.lastDot > AssignYBegin
                 \/ s.line = PreRenderLine + 1
                 => s.cur = tmp

\* Up to the end of the tiles, and behind it.
InTiles(s) ==
  /\ AtRow(s.cur, s.line) /\ s.cur.x = (tmp.x + s.lastTile) % (2 * LineTiles)
  /\ \A x \in Columns : s.sprites[x] = Foremost(s, s.line, x)
  /\ s.line > 0 => s.first = 1
  /\ s.hit = IF MetBefore(s) \/ Met(s) = {} THEN None ELSE Min(Met(s))
BehindTiles(s) ==
  /\ AtRow(s.cur, s.line + 1) /\ (s.lastDot > AssignX => s.cur.x = tmp.x)
  /\ \A x \in Columns : s.sprites[x] = Foremost(s, s.line + 1, x)
  /\ s.first = 1

Draws(s) ==
  s.steady /\ s.line < PostRenderLine /\ tmp.tileY < FrameRows =>
    /\ Follows(s)
    /\ s.lastDot <= IncY => InTiles(s)
    /\ s.lastDot > IncY => BehindTiles(s)

RenderedOK(s) == Placed(s) /\ Swept(s) /\ Cleared(s) /\ Calm(s) /\ Draws(s)

RenderInv ==
  /\ tmp \in Address /\ fineX \in 0..(TileWidth - 1) /\ w \in BOOLEAN /\ game \in Games
  /\ RenderedOK(ppu)

-----------------------------------------------------------------------------
(* Loops.  The model writes one as a function that calls itself on what a    *)
(* turn makes of its argument, until that is done.  S is what the argument   *)
(* may be, D where the loop is done, R its turn.                             *)

IsLoop(f, S, D, R) == \A t \in S : f[t] = IF t \in D THEN t ELSE f[R[t]]

\* Every turn keeps P, and comes closer to the end.
Closer(P, D, R, M, N) ==
  \A t \in P : t \notin D =>
    R[t] \in P /\ (M[R[t]] < M[t] \/ (M[R[t]] = M[t] /\ N[R[t]] < N[t]))

\* Such a function exists: its graph is the least set of pairs that the turns allow.
LEMMA LoopExists ==
  ASSUME NEW S, NEW D, NEW R \in [S -> S]
  PROVE  \E f \in [S -> S \cup {S}] : IsLoop(f, S, D, R)
<1> DEFINE Closed(Q) == \A t \in S, u \in S :
                          (t \in D /\ u = t) \/ (t \notin D /\ <<R[t], u>> \in Q) => <<t, u>> \in Q
           G == {p \in S \X S : \A Q \in SUBSET (S \X S) : Closed(Q) => p \in Q}
           Ends(t) == \E u \in S : <<t, u>> \in G
           Last(t) == IF Ends(t) THEN CHOOSE u \in S : <<t, u>> \in G ELSE S
           f == [t \in S |-> Last(t)]
<1>1. Closed(G)
  <2> SUFFICES ASSUME NEW t \in S, NEW u \in S,
                      (t \in D /\ u = t) \/ (t \notin D /\ <<R[t], u>> \in G),
                      NEW Q \in SUBSET (S \X S), Closed(Q)
               PROVE  <<t, u>> \in Q
    BY Zenon
  <2>1. <<R[t], u>> \in G => <<R[t], u>> \in Q
    BY Zenon
  <2> QED
    BY <2>1, Zenon
<1>2. \A t \in S, u \in S : <<t, u>> \in G =>
        (t \in D /\ u = t) \/ (t \notin D /\ <<R[t], u>> \in G)
  <2> DEFINE Q == {p \in G : (p[1] \in D /\ p[2] = p[1]) \/ (p[1] \notin D /\ <<R[p[1]], p[2]>> \in G)}
  <2>1. Q \in SUBSET (S \X S)
    OBVIOUS
  <2>2. Closed(Q)
    <3> SUFFICES ASSUME NEW t \in S, NEW u \in S,
                        (t \in D /\ u = t) \/ (t \notin D /\ <<R[t], u>> \in Q)
                 PROVE  <<t, u>> \in Q
      BY Zenon
    <3>1. (t \in D /\ u = t) \/ (t \notin D /\ <<R[t], u>> \in G)
      OBVIOUS
    <3>2. <<t, u>> \in G
      BY <1>1, <3>1, Zenon
    <3> QED
      BY <3>1, <3>2
  <2>3. \A p \in G : p \in Q
    BY <2>1, <2>2, Zenon
  <2> QED
    BY <2>3
<1> HIDE DEF G
<1>3. \A t \in S, u, v \in S : <<t, u>> \in G /\ <<t, v>> \in G => u = v
  <2> DEFINE Q == {p \in G : \A v \in S : <<p[1], v>> \in G => v = p[2]}
  <2>1. Q \in SUBSET (S \X S)
    BY DEF G
  <2>2. Closed(Q)
    <3> SUFFICES ASSUME NEW t \in S, NEW u \in S,
                        (t \in D /\ u = t) \/ (t \notin D /\ <<R[t], u>> \in Q)
                 PROVE  <<t, u>> \in Q
      BY Zenon
    <3>1. (t \in D /\ u = t) \/ (t \notin D /\ <<R[t], u>> \in G)
      OBVIOUS
    <3>2. <<t, u>> \in G
      BY <1>1, <3>1, Zenon
    <3>3. ASSUME NEW v \in S, <<t, v>> \in G PROVE v = u
      BY <1>2, <3>3
    <3> QED
      BY <3>2, <3>3
  <2>3. \A p \in G : p \in Q
    BY <2>1, <2>2, Zenon DEF G
  <2> QED
    BY <2>3
<1>4. \A t \in S : t \in D => Last(t) = t
  BY <1>1, <1>2
<1>5. \A t \in S : t \notin D => Last(t) = Last(R[t])
  <2> TAKE t \in S
  <2> HAVE t \notin D
  <2>1. R[t] \in S
    OBVIOUS
  <2>2. \A u \in S : <<t, u>> \in G <=> <<R[t], u>> \in G
    BY <1>1, <1>2, Zenon
  <2>3. CASE Ends(t)
    BY <1>3, <2>1, <2>2, <2>3
  <2>4. CASE ~Ends(t)
    BY <2>1, <2>2, <2>4
  <2> QED
    BY <2>3, <2>4
<1> HIDE DEF Last
<1>6. \A t \in S : f[t] = IF t \in D THEN t ELSE f[R[t]]
  BY <1>4, <1>5
<1>7. f \in [S -> S \cup {S}]
  <2>1. \A t \in S : Last(t) \in S \cup {S}
    BY DEF Last
  <2> QED
    BY <2>1
<1> HIDE DEF f
<1> QED
  BY <1>6, <1>7 DEF IsLoop

LEMMA Least == \A T \in SUBSET Nat : T # {} => \E m \in T : \A k \in T : m <= k
<1> SUFFICES ASSUME NEW T \in SUBSET Nat, T # {} PROVE \E m \in T : \A k \in T : m <= k
  OBVIOUS
<1> DEFINE R == {p \in Nat \X Nat : p[1] < p[2]}
<1>1. IsWellFoundedOn(R, Nat)
  BY NatLessThanWellFounded DEF OpToRel
<1>2. \A j, k \in Nat : j < k => <<j, k>> \in R
  OBVIOUS
<1> HIDE DEF R
<1>3. PICK m \in T : \A y \in T : ~(<<y, m>> \in R)
  BY <1>1, WFMin, Zenon
<1>4. ASSUME NEW k \in T PROVE m <= k
  <2>1. m \in Nat /\ k \in Nat
    OBVIOUS
  <2>2. ~(k < m)
    BY <1>2, <1>3, <2>1, Zenon
  <2> QED BY <2>1, <2>2
<1> QED BY <1>4

\* Induction along a pair of numbers: what holds if it holds before is in Q.
LEMMA InductionAlong ==
  ASSUME NEW P, NEW M \in [P -> Nat], NEW N \in [P -> Nat], NEW Q,
         \A t \in P : (\A u \in P : M[u] < M[t] \/ (M[u] = M[t] /\ N[u] < N[t]) => u \in Q)
                      => t \in Q
  PROVE  \A t \in P : t \in Q
<1> DEFINE Bad == {t \in P : t \notin Q}
           Ms == {M[t] : t \in Bad}
<1> SUFFICES ASSUME NEW b \in Bad PROVE FALSE
  OBVIOUS
<1>1. Ms \in SUBSET Nat /\ M[b] \in Ms
  OBVIOUS
<1>2. PICK m \in Ms : \A k \in Ms : m <= k
  <2>1. Ms # {}
    BY <1>1
  <2> HIDE DEF Ms
  <2> QED BY <1>1, <2>1, Least
<1>3. PICK c \in Bad : m = M[c]
  BY <1>2
<1> DEFINE Ns == {N[t] : t \in {u \in Bad : M[u] = m}}
<1>4. Ns \in SUBSET Nat /\ N[c] \in Ns
  BY <1>3
<1>5. PICK n \in Ns : \A k \in Ns : n <= k
  <2>1. Ns # {}
    BY <1>4
  <2> HIDE DEF Ns
  <2> QED BY <1>4, <2>1, Least
<1>6. PICK d \in Bad : M[d] = m /\ n = N[d]
  BY <1>5
<1>7. \A u \in P : M[u] < M[d] \/ (M[u] = M[d] /\ N[u] < N[d]) => u \in Q
  <2> SUFFICES ASSUME NEW u \in P, u \notin Q, M[u] < M[d] \/ (M[u] = M[d] /\ N[u] < N[d])
               PROVE  FALSE
    OBVIOUS
  <2>1. M[u] \in Nat /\ M[d] \in Nat /\ N[u] \in Nat /\ N[d] \in Nat
    OBVIOUS
  <2>2. m <= M[u]
    BY <1>2
  <2>3. M[u] = m => n <= N[u]
    BY <1>5
  <2> HIDE DEF Bad, Ms, Ns
  <2> QED BY <1>6, <2>1, <2>2, <2>3
<1> QED BY <1>7

\* What every turn keeps, and what gets closer to the end with every turn.
LEMMA LoopKeeps ==
  ASSUME NEW S, NEW D, NEW R, NEW f, IsLoop(f, S, D, R),
         NEW P \in SUBSET S, NEW M \in [P -> Nat], NEW N \in [P -> Nat],
         Closer(P, D, R, M, N)
  PROVE  \A t \in P : f[t] \in P /\ f[t] \in D
<1> DEFINE Q == {t \in P : f[t] \in P /\ f[t] \in D}
<1>1. ASSUME NEW t \in P,
             \A u \in P : M[u] < M[t] \/ (M[u] = M[t] /\ N[u] < N[t]) => u \in Q
      PROVE  t \in Q
  <2>1. f[t] = IF t \in D THEN t ELSE f[R[t]]
    BY DEF IsLoop
  <2>2. CASE t \in D
    BY <2>1, <2>2
  <2>3. CASE t \notin D
    <3>1. R[t] \in Q
      BY <1>1, <2>3 DEF Closer
    <3> QED BY <2>1, <2>3, <3>1
  <2> QED BY <2>2, <2>3
<1> HIDE DEF Q
<1>2. \A t \in P : t \in Q
  BY <1>1, InductionAlong
<1> QED BY <1>2 DEF Q

-----------------------------------------------------------------------------
(* Sizes, rows and columns. *)

LEMMA Sizes ==
  /\ TileWidth \in Nat \ {0} /\ LineTiles \in Nat \ {0} /\ IncY \in Nat \ {0}
  /\ IncY = LineTiles * TileWidth /\ AssignX = IncY + 1
  /\ {OamZeroEnd, AssignYBegin, AssignYEnd, OddSkipDot, CyclesPerLine} \subseteq Nat
  /\ AssignX < AssignYBegin /\ AssignYBegin <= AssignYEnd /\ AssignYEnd < OamZeroEnd
  /\ OamZeroEnd < OddSkipDot /\ OddSkipDot + 1 < CyclesPerLine
  /\ {PostRenderLine, PreRenderLine} \subseteq Nat
  /\ 0 < PostRenderLine /\ PostRenderLine < PreRenderLine
  /\ FineRows \in Nat \ {0} /\ TileRows \in Nat /\ FrameRows \in Nat \ {0} /\ FrameRows < TileRows
  /\ {OamSize, SpriteSize} \subseteq Nat \ {0} /\ SpritesPerLine \in Nat /\ None \notin Nat
<1>1. TileWidth * LineTiles = LineTiles * TileWidth /\ TileWidth * LineTiles \in Nat \ {0}
  <2>1. TileWidth \in Nat \ {0} /\ LineTiles \in Nat \ {0}
    BY RenderConstants
  <2> QED BY <2>1
<1> QED BY <1>1, RenderConstants DEF IncY, AssignX

\* The registers of the scroll position, and the game.
Given == tmp \in Address /\ fineX \in 0..(TileWidth - 1) /\ game \in Games

LEMMA DivMod ==
  ASSUME NEW n \in Nat, NEW m \in Nat \ {0}
  PROVE  /\ n \div m \in Nat /\ n % m \in 0..(m - 1)
         /\ n = (n \div m) * m + (n % m)
OBVIOUS

LEMMA ModIs ==
  ASSUME NEW a \in Nat, NEW m \in Nat \ {0}, NEW q \in Nat, NEW r \in Nat, a = q * m + r, r < m
  PROVE  a % m = r /\ a \div m = q
OBVIOUS

\* One more, and its parts.
LEMMA ModNext ==
  ASSUME NEW a \in Nat, NEW m \in Nat \ {0}
  PROVE  /\ (a % m) + 1 < m => (a + 1) % m = (a % m) + 1 /\ (a + 1) \div m = a \div m
         /\ (a % m) + 1 = m => (a + 1) % m = 0 /\ (a + 1) \div m = (a \div m) + 1
<1> DEFINE q == a \div m
           r == a % m
<1>1. q \in Nat /\ r \in 0..(m - 1) /\ a = q * m + r
  BY DivMod
<1>2. (q + 1) * m = q * m + m /\ q * m \in Nat /\ (q + 1) * m \in Nat
  BY <1>1
<1> HIDE DEF q, r
<1>3. ASSUME r + 1 < m PROVE (a + 1) % m = r + 1 /\ (a + 1) \div m = q
  <2>1. a + 1 = q * m + (r + 1)
    BY <1>1, <1>2
  <2> QED BY <1>1, <1>3, <2>1, ModIs
<1>4. ASSUME r + 1 = m PROVE (a + 1) % m = 0 /\ (a + 1) \div m = q + 1
  <2>1. a + 1 = (q + 1) * m + 0
    BY <1>1, <1>2, <1>4
  <2>2. 0 \in Nat /\ 0 < m /\ q + 1 \in Nat /\ a + 1 \in Nat
    BY <1>1
  <2> QED BY <2>1, <2>2, ModIs
<1> QED BY <1>3, <1>4 DEF q, r

\* A count that wraps on its way wraps as one that wraps at the end.
LEMMA ModTwice ==
  ASSUME NEW z \in Nat, NEW m \in Nat \ {0}
  PROVE  ((z % m) + 1) % m = (z + 1) % m
<1>1. z % m \in 0..(m - 1)
  BY DivMod, Zenon
<1>2. CASE (z % m) + 1 < m
  <2>1. (z + 1) % m = (z % m) + 1
    BY <1>2, ModNext, Zenon
  <2>2. (z % m) + 1 \in Nat /\ (z % m) + 1 = 0 * m + ((z % m) + 1) /\ 0 \in Nat
    BY <1>1
  <2>3. ((z % m) + 1) % m = (z % m) + 1
    BY <1>2, <2>2, ModIs, Zenon
  <2> QED BY <2>1, <2>3, Zenon
<1>3. CASE ~((z % m) + 1 < m)
  <2>1. (z % m) + 1 = m
    BY <1>1, <1>3
  <2>2. (z + 1) % m = 0
    BY <2>1, ModNext, Zenon
  <2>3. m % m = 0
    <3>1. m = 1 * m + 0 /\ 0 \in Nat /\ 1 \in Nat /\ 0 < m /\ m \in Nat
      OBVIOUS
    <3> QED BY <3>1, ModIs, Zenon
  <2> QED BY <2>1, <2>2, <2>3, Zenon
<1> QED BY <1>2, <1>3

\* A column is in the line's tiles from its left, and where in its tile.
LEMMA Column ==
  ASSUME NEW x \in Columns
  PROVE  /\ x \in Nat /\ x < IncY /\ x \div TileWidth \in 0..(LineTiles - 1)
         /\ x % TileWidth \in 0..(TileWidth - 1)
         /\ x = (x \div TileWidth) * TileWidth + (x % TileWidth)
<1>1. x \in Nat /\ x < IncY
  BY Sizes DEF Columns
<1>2. TileWidth \in Nat \ {0} /\ LineTiles \in Nat \ {0} /\ IncY = LineTiles * TileWidth
  BY Sizes
<1>3. /\ x \div TileWidth \in Nat /\ x % TileWidth \in 0..(TileWidth - 1)
      /\ x = (x \div TileWidth) * TileWidth + (x % TileWidth)
  BY <1>1, <1>2, DivMod
<1> DEFINE d == x \div TileWidth
<1>4. d < LineTiles
  <2> SUFFICES ASSUME LineTiles <= d PROVE FALSE
    BY <1>2, <1>3
  <2>1. LineTiles * TileWidth <= d * TileWidth
    <3> HIDE DEF d
    <3> SUFFICES ASSUME NEW k \in Nat, d = LineTiles + k PROVE LineTiles * TileWidth <= d * TileWidth
      <4>1. d - LineTiles \in Nat /\ d = LineTiles + (d - LineTiles)
        BY <1>2, <1>3 DEF d
      <4> QED BY <4>1
    <3> QED BY <1>2
  <2> QED BY <1>1, <1>2, <1>3, <2>1
<1> QED BY <1>1, <1>2, <1>3, <1>4

\* The pixels of a tile.
LEMMA InTile ==
  ASSUME NEW x \in Columns, NEW k \in Nat
  PROVE  /\ x < k * TileWidth <=> x \div TileWidth < k
         /\ x \in (k * TileWidth)..(k * TileWidth + TileWidth - 1) <=> x \div TileWidth = k
         /\ k * TileWidth \in Nat /\ (k + 1) * TileWidth = k * TileWidth + TileWidth
<1> DEFINE d == x \div TileWidth
           r == x % TileWidth
<1>1. x \in Nat /\ d \in Nat /\ r \in 0..(TileWidth - 1) /\ x = d * TileWidth + r
  BY Column, Sizes
<1>2. TileWidth \in Nat \ {0}
  BY Sizes
<1> HIDE DEF d, r
<1>3. k * TileWidth \in Nat /\ (k + 1) * TileWidth = k * TileWidth + TileWidth
  BY <1>2
<1>4. \A i, j \in Nat : i < j => i * TileWidth + TileWidth <= j * TileWidth
  <2> SUFFICES ASSUME NEW i \in Nat, NEW j \in Nat, i < j
               PROVE  i * TileWidth + TileWidth <= j * TileWidth
    OBVIOUS
  <2>1. PICK e \in Nat : j = i + 1 + e
    <3>1. j - i - 1 \in Nat /\ j = i + 1 + (j - i - 1)
      OBVIOUS
    <3> QED BY <3>1
  <2>2. j * TileWidth = i * TileWidth + TileWidth + e * TileWidth /\ e * TileWidth \in Nat
        /\ i * TileWidth \in Nat
    BY <1>2, <2>1
  <2> QED BY <1>2, <2>2
<1>5. d < k => d * TileWidth + TileWidth <= k * TileWidth
  BY <1>1, <1>4
<1>6. k < d => k * TileWidth + TileWidth <= d * TileWidth
  BY <1>1, <1>4
<1>7. d = k => d * TileWidth = k * TileWidth
  OBVIOUS
<1>8. d * TileWidth \in Nat
  BY <1>1, <1>2
<1>9. /\ x < k * TileWidth <=> d < k
      /\ x \in (k * TileWidth)..(k * TileWidth + TileWidth - 1) <=> d = k
  BY <1>1, <1>2, <1>3, <1>5, <1>6, <1>7, <1>8
<1> QED BY <1>3, <1>9 DEF d

LEMMA Types ==
  ASSUME Given
  PROVE  /\ tmp.x \in 0..(2 * LineTiles - 1) /\ tmp.ntY \in {0, 1} /\ tmp.tileY \in 0..(TileRows - 1)
         /\ tmp.fineY \in 0..(FineRows - 1) /\ fineX \in 0..(TileWidth - 1)
BY DEF Given, Address

LEMMA AddressFields ==
  ASSUME NEW a \in Address
  PROVE  /\ a.x \in 0..(2 * LineTiles - 1) /\ a.ntY \in {0, 1} /\ a.tileY \in 0..(TileRows - 1)
         /\ a.fineY \in 0..(FineRows - 1)
BY DEF Address

\* The rows of the two name tables, counted through.
Row(n) == (((tmp.ntY * FrameRows) + tmp.tileY) * FineRows) + tmp.fineY + n

LEMMA RowFields ==
  ASSUME Given, NEW n \in Nat, NEW x \in Nat
  PROVE  /\ Row(n) \in Nat /\ Row(n + 1) = Row(n) + 1
         /\ TileAt(tmp, n, x).ntY = ((Row(n) \div FineRows) % (2 * FrameRows)) \div FrameRows
         /\ TileAt(tmp, n, x).tileY = ((Row(n) \div FineRows) % (2 * FrameRows)) % FrameRows
         /\ TileAt(tmp, n, x).fineY = Row(n) % FineRows
         /\ TileAt(tmp, n, x).x = (tmp.x + ((fineX + x) \div TileWidth)) % (2 * LineTiles)
<1>1. tmp.ntY \in Nat /\ tmp.tileY \in Nat /\ tmp.fineY \in Nat
  BY Types, Sizes
<1>2. FrameRows \in Nat /\ FineRows \in Nat
  BY Sizes
<1> DEFINE k == ((tmp.ntY * FrameRows) + tmp.tileY) * FineRows
<1>3. k \in Nat
  BY <1>1, <1>2
<1>4. Row(n) = k + tmp.fineY + n /\ Row(n + 1) = k + tmp.fineY + (n + 1)
  BY DEF Row
<1> HIDE DEF k
<1>5. Row(n) \in Nat /\ Row(n + 1) = Row(n) + 1
  BY <1>1, <1>3, <1>4
<1> QED BY <1>5, Zenon DEF TileAt, Row

\* The next row of tiles is below, or at the top of the other name table.
LEMMA RowBelow ==
  ASSUME Given, tmp.tileY < FrameRows, NEW n \in Nat, NEW a \in Address, AtRow(a, n)
  PROVE  AtRow(IRegIncY(a), n + 1)
<1> DEFINE r == Row(n)
           q == r \div FineRows
           tile == q % (2 * FrameRows)
           q1 == (r + 1) \div FineRows
           tile1 == q1 % (2 * FrameRows)
           b == IRegIncY(a)
<1>1. /\ FineRows \in Nat \ {0} /\ FrameRows \in Nat \ {0} /\ 2 * FrameRows \in Nat \ {0}
      /\ TileRows \in Nat /\ FrameRows < TileRows
  BY Sizes
<1>2. r \in Nat /\ q \in Nat /\ tile \in 0..(2 * FrameRows - 1) /\ q1 \in Nat
  <2>1. r \in Nat
    BY RowFields
  <2> HIDE DEF r
  <2>2. q \in Nat /\ q1 \in Nat
    <3>1. r + 1 \in Nat
      BY <2>1
    <3> QED BY <1>1, <2>1, <3>1, DivMod, Zenon
  <2> HIDE DEF q
  <2>3. tile \in 0..(2 * FrameRows - 1)
    BY <1>1, <2>2, DivMod
  <2> QED BY <2>1, <2>2, <2>3
<1>3. a.ntY = tile \div FrameRows /\ a.tileY = tile % FrameRows /\ a.fineY = r % FineRows
  BY RowFields DEF AtRow
<1>4. AtRow(b, n + 1) <=> b.ntY = tile1 \div FrameRows /\ b.tileY = tile1 % FrameRows
                          /\ b.fineY = (r + 1) % FineRows
  <2>1. n + 1 \in Nat /\ Row(n + 1) = r + 1
    BY RowFields
  <2> DEFINE g == TileAt(tmp, n + 1, 0)
  <2>2. /\ g.ntY = tile1 \div FrameRows /\ g.tileY = tile1 % FrameRows
        /\ g.fineY = (r + 1) % FineRows
    BY <2>1, RowFields
  <2> QED BY <2>2 DEF AtRow
<1>5. a.fineY \in 0..(FineRows - 1) /\ a.tileY \in 0..(TileRows - 1) /\ a.ntY \in {0, 1}
  BY AddressFields
<1>6. a.tileY \in 0..(FrameRows - 1) /\ tile = a.ntY * FrameRows + a.tileY
  <2> HIDE DEF tile
  <2>1. tile \in Nat
    BY <1>1, <1>2
  <2>2. /\ tile \div FrameRows \in Nat /\ tile % FrameRows \in 0..(FrameRows - 1)
        /\ tile = (tile \div FrameRows) * FrameRows + (tile % FrameRows)
    BY <1>1, <2>1, DivMod, Zenon
  <2> QED BY <1>3, <2>2, Zenon
<1>7. CASE a.fineY + 1 < FineRows
  <2>1. (r + 1) % FineRows = a.fineY + 1 /\ q1 = q
    <3>1. (r % FineRows) + 1 < FineRows
      BY <1>3, <1>7
    <3> HIDE DEF r
    <3>2. (r + 1) % FineRows = (r % FineRows) + 1 /\ (r + 1) \div FineRows = r \div FineRows
      BY <1>1, <1>2, <3>1, ModNext, Zenon
    <3> QED BY <1>3, <3>2, Zenon
  <2>2. b.fineY = a.fineY + 1 /\ b.tileY = a.tileY /\ b.ntY = a.ntY
    BY <1>7, AddressFields DEF IRegIncY, Address
  <2> QED BY <1>3, <1>4, <2>1, <2>2
<1>8. CASE ~(a.fineY + 1 < FineRows)
  <2>1. (r + 1) % FineRows = 0 /\ q1 = q + 1
    <3>1. a.fineY + 1 = FineRows
      BY <1>1, <1>5, <1>8
    <3> HIDE DEF r
    <3> QED BY <1>1, <1>2, <1>3, <3>1, ModNext
  <2>2. (a.tileY + 1) % TileRows = a.tileY + 1
    <3>1. a.tileY + 1 = 0 * TileRows + (a.tileY + 1) /\ a.tileY + 1 < TileRows
      BY <1>1, <1>6
    <3>2. 0 \in Nat /\ a.tileY + 1 \in Nat /\ TileRows \in Nat \ {0}
      BY <1>1, <1>6
    <3> QED BY <3>1, <3>2, ModIs
  <2>3. CASE a.tileY + 1 = FrameRows
    <3>1. b.fineY = 0 /\ b.tileY = 0 /\ b.ntY = 1 - a.ntY
      BY <1>8, <2>2, <2>3 DEF IRegIncY, Address
    <3>2. CASE a.ntY = 0
      <4>1. tile + 1 = FrameRows /\ FrameRows < 2 * FrameRows
        BY <1>1, <1>6, <2>3, <3>2
      <4>2. tile1 = FrameRows
        <5> HIDE DEF q
        <5>1. (q % (2 * FrameRows)) + 1 < 2 * FrameRows
          BY <4>1
        <5>2. (q + 1) % (2 * FrameRows) = (q % (2 * FrameRows)) + 1
          BY <1>1, <1>2, <5>1, ModNext, Zenon
        <5>3. tile1 = tile + 1
          BY <2>1, <5>2, Zenon
        <5> QED BY <4>1, <5>3, Zenon
      <4>3. FrameRows % FrameRows = 0 /\ FrameRows \div FrameRows = 1
        BY <1>1, ModIs
      <4> QED BY <1>4, <2>1, <3>1, <3>2, <4>2, <4>3
    <3>3. CASE a.ntY = 1
      <4>1. tile + 1 = 2 * FrameRows
        BY <1>1, <1>6, <2>3, <3>3
      <4>2. tile1 = 0
        <5> HIDE DEF q
        <5>1. (q % (2 * FrameRows)) + 1 = 2 * FrameRows
          BY <4>1, Zenon
        <5>2. (q + 1) % (2 * FrameRows) = 0
          BY <1>1, <1>2, <5>1, ModNext, Zenon
        <5> QED BY <2>1, <5>2, Zenon
      <4>3. 0 % FrameRows = 0 /\ 0 \div FrameRows = 0
        BY <1>1, ModIs
      <4> QED BY <1>4, <2>1, <3>1, <3>3, <4>2, <4>3
    <3> QED BY <1>5, <3>2, <3>3
  <2>4. CASE a.tileY + 1 # FrameRows
    <3>1. b.fineY = 0 /\ b.tileY = a.tileY + 1 /\ b.ntY = a.ntY
      BY <1>8, <2>2, <2>4 DEF IRegIncY, Address
    <3>2. (tile % FrameRows) + 1 < FrameRows
      BY <1>1, <1>3, <1>6, <2>4
    <3>3. (tile + 1) % FrameRows = a.tileY + 1 /\ (tile + 1) \div FrameRows = a.ntY
      <4> HIDE DEF tile
      <4>1. tile \in Nat
        BY <1>1, <1>2
      <4>2. (tile + 1) % FrameRows = (tile % FrameRows) + 1 /\ (tile + 1) \div FrameRows = tile \div FrameRows
        BY <1>1, <3>2, <4>1, ModNext, Zenon
      <4> QED BY <1>3, <4>2, Zenon
    <3>4. tile + 1 < 2 * FrameRows
      <4> HIDE DEF tile
      <4>1. a.ntY * FrameRows + FrameRows <= 2 * FrameRows
        BY <1>1, <1>5
      <4>2. a.tileY + 1 < FrameRows /\ a.ntY * FrameRows \in Nat
        BY <1>1, <1>5, <1>6, <2>4
      <4> QED BY <1>1, <1>6, <4>1, <4>2
    <3>5. tile1 = tile + 1
      <4> HIDE DEF q
      <4>1. (q + 1) % (2 * FrameRows) = (q % (2 * FrameRows)) + 1
        BY <1>1, <1>2, <3>4, ModNext, Zenon
      <4> QED BY <2>1, <4>1, Zenon
    <3> QED BY <1>4, <2>1, <3>1, <3>3, <3>5
  <2> QED BY <2>3, <2>4
<1> QED BY <1>7, <1>8

\* The address of an undisturbed frame's first line.
LEMMA RowFirst ==
  ASSUME Given, tmp.tileY < FrameRows
  PROVE  AtRow(tmp, 0)
<1> DEFINE t == tmp.ntY * FrameRows + tmp.tileY
<1>1. /\ FineRows \in Nat \ {0} /\ FrameRows \in Nat \ {0} /\ 2 * FrameRows \in Nat \ {0}
      /\ tmp.ntY \in {0, 1} /\ tmp.tileY \in Nat /\ tmp.fineY \in Nat /\ tmp.fineY < FineRows
  BY Sizes, Types
<1>2. t \in Nat /\ t < 2 * FrameRows
  BY <1>1
<1>3. Row(0) = t * FineRows + tmp.fineY
  <2>1. t * FineRows \in Nat
    BY <1>1, <1>2
  <2> QED BY <1>1, <2>1 DEF Row
<1>4. Row(0) \div FineRows = t /\ Row(0) % FineRows = tmp.fineY
  <2>1. Row(0) \in Nat
    BY RowFields
  <2> HIDE DEF t
  <2> QED BY <1>1, <1>2, <1>3, <2>1, ModIs
<1>5. t % (2 * FrameRows) = t
  <2>1. t = 0 * (2 * FrameRows) + t /\ 0 \in Nat
    BY <1>1, <1>2
  <2> HIDE DEF t
  <2> QED BY <1>1, <1>2, <2>1, ModIs
<1>6. t \div FrameRows = tmp.ntY /\ t % FrameRows = tmp.tileY
  BY <1>1, <1>2, ModIs
<1> QED BY <1>4, <1>5, <1>6, RowFields DEF AtRow

-----------------------------------------------------------------------------
(* Tiles. *)

LEMMA StateFields ==
  ASSUME NEW s \in States
  PROVE  /\ s.line \in Nat /\ s.dot \in Nat /\ s.lastDot \in Nat /\ s.odd \in BOOLEAN
         /\ s.mask \in Masks /\ s.tall \in BOOLEAN /\ s.toggle \in Nat /\ s.cur \in Address
         /\ s.lastTile \in Nat /\ s.sprites \in [Columns -> Nat] /\ s.first \in Nat
         /\ s.hit \in {None} \cup Nat /\ s.spriteZero \in BOOLEAN /\ s.overflow \in BOOLEAN
         /\ s.oamAddr \in 0..(OamSize - 1) /\ s.shown \in [Columns -> Int] /\ s.steady \in BOOLEAN
BY DEF States

\* A tile is at its address, and what the fine scroll cuts off is the next one's.
LEMMA GroundDrawn ==
  ASSUME Given, NEW a \in Address, NEW k \in Nat, NEW n \in Nat,
         AtRow(a, n), a.x = (tmp.x + k) % (2 * LineTiles),
         NEW x \in Columns, x \div TileWidth = k
  PROVE  BgOpaque(a, x - k * TileWidth) <=> Opaque(TileAt(tmp, n, x), (fineX + x) % TileWidth)
<1> DEFINE offs == x - k * TileWidth
           g == TileAt(tmp, n, x)
           at == (fineX + offs) % TileWidth
<1>1. TileWidth \in Nat \ {0} /\ 2 * LineTiles \in Nat \ {0} /\ k * TileWidth \in Nat
      /\ (k + 1) * TileWidth = k * TileWidth + TileWidth
  BY Sizes, InTile
<1>2. offs \in 0..(TileWidth - 1) /\ x = k * TileWidth + offs
  <2>1. x % TileWidth \in 0..(TileWidth - 1) /\ x \in Nat
        /\ x = k * TileWidth + (x % TileWidth)
    BY Column
  <2> DEFINE r == x % TileWidth
  <2> HIDE DEF r
  <2>2. r \in 0..(TileWidth - 1) /\ x = k * TileWidth + r
    BY <2>1 DEF r
  <2> QED BY <1>1, <2>2
<1>3. fineX \in 0..(TileWidth - 1) /\ tmp.x \in Nat
  BY Types, Sizes
<1>4. g.ntY = a.ntY /\ g.tileY = a.tileY /\ g.fineY = a.fineY
      /\ g.x = (tmp.x + ((fineX + x) \div TileWidth)) % (2 * LineTiles)
  <2>1. x \in Nat /\ 0 \in Nat
    BY Column
  <2>2. a.ntY = TileAt(tmp, n, 0).ntY /\ a.tileY = TileAt(tmp, n, 0).tileY
        /\ a.fineY = TileAt(tmp, n, 0).fineY
    BY Zenon DEF AtRow
  <2>3. \A y \in Nat : /\ TileAt(tmp, n, y).ntY = ((Row(n) \div FineRows) % (2 * FrameRows)) \div FrameRows
                       /\ TileAt(tmp, n, y).tileY = ((Row(n) \div FineRows) % (2 * FrameRows)) % FrameRows
                       /\ TileAt(tmp, n, y).fineY = Row(n) % FineRows
    BY RowFields
  <2>4. g.x = (tmp.x + ((fineX + x) \div TileWidth)) % (2 * LineTiles)
    BY <2>1, RowFields, Zenon
  <2> QED BY <2>1, <2>2, <2>3, <2>4, Zenon
<1> HIDE DEF offs, g
<1>5. CASE offs < TileWidth - fineX
  <2>1. fineX + x = k * TileWidth + (fineX + offs) /\ fineX + x \in Nat
        /\ fineX + offs \in Nat /\ fineX + offs < TileWidth
    BY <1>1, <1>2, <1>3, <1>5
  <2>2. (fineX + x) % TileWidth = fineX + offs /\ (fineX + x) \div TileWidth = k
    BY <1>1, <2>1, ModIs, Zenon
  <2>3. at = fineX + offs
    <3>1. fineX + offs = 0 * TileWidth + (fineX + offs) /\ 0 \in Nat
      BY <1>1, <2>1
    <3> QED BY <1>1, <2>1, <3>1, ModIs, Zenon
  <2>4. g.x = a.x
    BY <1>4, <2>2, Zenon
  <2>5. BgOpaque(a, offs) <=> <<a.fineY, at>> \in Tiles(a.x, a.ntY, a.tileY)
    BY <1>5 DEF BgOpaque, Opaque
  <2>6. <<g.fineY, (fineX + x) % TileWidth>> \in Tiles(g.x, g.ntY, g.tileY)
        <=> <<a.fineY, at>> \in Tiles(a.x, a.ntY, a.tileY)
    BY <1>4, <2>2, <2>3, <2>4, Zenon
  <2> QED BY <2>5, <2>6, Zenon DEF Opaque, offs, g
<1>6. CASE ~(offs < TileWidth - fineX)
  <2> DEFINE r == fineX + offs - TileWidth
             b == IRegIncX(a)
  <2>1. fineX + x = (k + 1) * TileWidth + r /\ fineX + x \in Nat
        /\ r \in Nat /\ r < TileWidth /\ k + 1 \in Nat /\ fineX + offs = 1 * TileWidth + r
        /\ 1 \in Nat /\ fineX + offs \in Nat
    BY <1>1, <1>2, <1>3, <1>6
  <2> HIDE DEF r
  <2>2. (fineX + x) % TileWidth = r /\ (fineX + x) \div TileWidth = k + 1
    BY <1>1, <2>1, ModIs
  <2>3. at = r
    BY <1>1, <2>1, ModIs, Zenon
  <2>4. b.x = (a.x + 1) % (2 * LineTiles) /\ b.ntY = a.ntY /\ b.tileY = a.tileY /\ b.fineY = a.fineY
    BY DEF IRegIncX, Address
  <2>5. g.x = b.x
    <3> DEFINE m == 2 * LineTiles
               z == tmp.x + k
    <3>1. z \in Nat /\ m \in Nat \ {0} /\ tmp.x + (k + 1) = z + 1
      BY <1>1, <1>3
    <3>2. g.x = (z + 1) % m
      BY <1>4, <2>2, <3>1
    <3>3. b.x = ((z % m) + 1) % m
      BY <2>4
    <3> HIDE DEF z, m
    <3>4. ((z % m) + 1) % m = (z + 1) % m
      BY <3>1, ModTwice, Zenon
    <3> QED BY <3>2, <3>3, <3>4, Zenon
  <2>6. BgOpaque(a, offs) <=> <<b.fineY, at>> \in Tiles(b.x, b.ntY, b.tileY)
    BY <1>6 DEF BgOpaque, Opaque
  <2>7. <<g.fineY, (fineX + x) % TileWidth>> \in Tiles(g.x, g.ntY, g.tileY)
        <=> <<b.fineY, at>> \in Tiles(b.x, b.ntY, b.tileY)
    BY <1>4, <2>2, <2>3, <2>4, <2>5, Zenon
  <2> QED BY <2>6, <2>7, Zenon DEF Opaque, offs, g
<1> QED BY <1>5, <1>6

-----------------------------------------------------------------------------
(* The picture. *)

LEMMA MinOf ==
  ASSUME NEW T \in SUBSET Nat, NEW y \in T
  PROVE  Min(T) \in T /\ Min(T) \in Nat /\ Min(T) <= y
<1>1. \E m \in T : \A k \in T : m <= k
  BY Least
<1>2. Min(T) \in T /\ \A k \in T : Min(T) <= k
  BY <1>1 DEF Min
<1> QED BY <1>2

\* The picture depends on the mask and the height of the sprites.
LEMMA SamePicture ==
  ASSUME NEW s, NEW t, t.mask = s.mask, t.tall = s.tall, NEW n, NEW x
  PROVE  /\ Shown(t, n) = Shown(s, n) /\ At(t, n, x) = At(s, n, x)
         /\ Foremost(t, n, x) = Foremost(s, n, x) /\ SpritesAt(t, n, x) = SpritesAt(s, n, x)
         /\ GroundAt(t, n, x) <=> GroundAt(s, n, x)
         /\ Pixel(t, n, x) = Pixel(s, n, x)
         /\ ZeroAt(t, n, x) <=> ZeroAt(s, n, x)
<1>1. Height(t) = Height(s)
  BY DEF Height
<1>2. \A i, y : InRange(t, i, y) <=> InRange(s, i, y)
  BY <1>1 DEF InRange
<1>3. \A i, y : Dot(t, i, y, x) <=> Dot(s, i, y, x)
  BY <1>1 DEF Dot
<1>4. \A k : (SpOn(t, k) <=> SpOn(s, k)) /\ (BgOn(t, k) <=> BgOn(s, k))
  BY DEF SpOn, BgOn
<1>5. Shown(t, n) = Shown(s, n)
  <2> DEFINE A == {i \in 1..Len(game.oam) : n > 0 /\ InRange(t, i, n - 1)}
             B == {i \in 1..Len(game.oam) : n > 0 /\ InRange(s, i, n - 1)}
  <2>1. A = B
    BY <1>2
  <2> HIDE DEF A, B
  <2> QED BY <2>1 DEF Shown, A, B
<1>6. At(t, n, x) = At(s, n, x) /\ SpritesAt(t, n, x) = SpritesAt(s, n, x)
  BY <1>3, <1>4, <1>5 DEF At, SpritesAt
<1>7. GroundAt(t, n, x) <=> GroundAt(s, n, x)
  BY <1>4 DEF GroundAt
<1>8. Foremost(t, n, x) = Foremost(s, n, x) /\ Pixel(t, n, x) = Pixel(s, n, x)
      /\ (ZeroAt(t, n, x) <=> ZeroAt(s, n, x))
  BY <1>6, <1>7 DEF Foremost, Pixel, ZeroAt
<1> QED BY <1>5, <1>6, <1>7, <1>8

LEMMA GameSprites ==
  ASSUME Given
  PROVE  Len(game.oam) \in Nat /\ \A i \in 1..Len(game.oam) : game.oam[i] \in Sprites
<1>1. game.oam \in Seq(Sprites)
  BY RenderConstants, Zenon DEF Given
<1> QED BY <1>1

LEMMA ForemostIs ==
  ASSUME Given, NEW s, NEW n, NEW x
  PROVE  /\ At(s, n, x) \in SUBSET (Nat \ {0}) /\ Foremost(s, n, x) \in Nat
         /\ At(s, n, x) = {} => Foremost(s, n, x) = 0
         /\ \A i \in At(s, n, x) : Foremost(s, n, x) \in At(s, n, x) /\ Foremost(s, n, x) <= i
                                   /\ Foremost(s, n, x) = Min(At(s, n, x))
<1> DEFINE A == At(s, n, x)
<1>1. A \in SUBSET (Nat \ {0})
  BY GameSprites DEF At, Shown
<1>2. A = {} => Foremost(s, n, x) = 0
  BY DEF Foremost
<1>3. A # {} => Foremost(s, n, x) = Min(A)
  BY DEF Foremost
<1> HIDE DEF A
<1>4. ASSUME NEW i \in A PROVE Min(A) \in A /\ Min(A) <= i /\ Foremost(s, n, x) = Min(A) /\ Min(A) \in Nat
  <2>1. A \in SUBSET Nat /\ A # {}
    BY <1>1
  <2> QED BY <2>1, <1>3, MinOf
<1>5. Foremost(s, n, x) \in Nat
  <2>1. CASE A = {}
    BY <1>2, <2>1
  <2>2. CASE A # {}
    BY <1>4, <2>2
  <2> QED BY <2>1, <2>2
<1> QED BY <1>1, <1>2, <1>4, <1>5 DEF A

\* What a pixel shows where the line's sprites are the foremost ones.
LEMMA PixelDrawn ==
  ASSUME Given, NEW s, NEW n \in Nat, NEW x, s.sprites[x] = Foremost(s, n, x)
  PROVE  LET i == SpriteAt(s, x)
             ground == GroundAt(s, n, x)
         IN  Pixel(s, n, x) = IF i # 0 /\ (~ground \/ game.oam[i].front) THEN i
                              ELSE IF ground THEN Background ELSE Backdrop
<1> DEFINE on == SpOn(s, x \div TileWidth)
           A == At(s, n, x)
<1>1. CASE on
  <2>1. SpritesAt(s, n, x) = A /\ SpriteAt(s, x) = Foremost(s, n, x)
    BY <1>1 DEF SpritesAt, At, SpriteAt
  <2>2. CASE A = {}
    <3>1. SpriteAt(s, x) = 0
      BY <2>1, <2>2, ForemostIs
    <3> QED BY <2>1, <2>2, <3>1 DEF Pixel
  <2>3. CASE A # {}
    <3>1. SpriteAt(s, x) = Min(A) /\ Min(A) # 0
      BY <2>1, <2>3, ForemostIs
    <3> QED BY <2>1, <2>3, <3>1, Zenon DEF Pixel
  <2> QED BY <2>2, <2>3
<1>2. CASE ~on
  <2>1. SpritesAt(s, n, x) = {} /\ SpriteAt(s, x) = 0
    BY <1>2 DEF SpritesAt, SpriteAt
  <2> QED BY <2>1 DEF Pixel
<1> QED BY <1>1, <1>2

\* Where sprite zero is.
LEMMA ZeroDrawn ==
  ASSUME Given, NEW s, NEW n \in Nat, NEW x, s.sprites[x] = Foremost(s, n, x),
         s.first \in Nat \ {0}, n > 0 => s.first = 1
  PROVE  SpriteAt(s, x) = s.first <=> 1 \in SpritesAt(s, n, x)
<1> DEFINE on == SpOn(s, x \div TileWidth)
           A == At(s, n, x)
<1>1. CASE on
  <2>1. SpritesAt(s, n, x) = A /\ SpriteAt(s, x) = Foremost(s, n, x)
    BY <1>1 DEF SpritesAt, At, SpriteAt
  <2>2. CASE n = 0
    <3>1. A = {}
      BY <2>2 DEF At, Shown
    <3>2. SpriteAt(s, x) = 0
      BY <2>1, <3>1, ForemostIs
    <3> QED BY <2>1, <3>1, <3>2
  <2>3. CASE n > 0
    <3>1. ASSUME 1 \in A PROVE Foremost(s, n, x) = 1
      BY <3>1, ForemostIs
    <3>2. ASSUME Foremost(s, n, x) = 1 PROVE 1 \in A
      BY <3>2, ForemostIs
    <3> QED BY <2>1, <2>3, <3>1, <3>2
  <2> QED BY <2>2, <2>3
<1>2. CASE ~on
  <2>1. SpritesAt(s, n, x) = {} /\ SpriteAt(s, x) = 0
    BY <1>2 DEF SpritesAt, SpriteAt
  <2> QED BY <2>1
<1> QED BY <1>1, <1>2

-----------------------------------------------------------------------------
(* Drawing tiles. *)

\* What drawing leaves as it is.
OnlyDrawn(t, s) ==
  /\ t.line = s.line /\ t.dot = s.dot /\ t.lastDot = s.lastDot /\ t.odd = s.odd
  /\ t.mask = s.mask /\ t.tall = s.tall /\ t.toggle = s.toggle /\ t.sprites = s.sprites
  /\ t.first = s.first /\ t.spriteZero = s.spriteZero /\ t.overflow = s.overflow
  /\ t.oamAddr = s.oamAddr /\ t.steady = s.steady

\* A tile's ground, colours and hits, as RenderTile makes them.
TileOpaque(s, x) == BgOn(s, s.lastTile) /\ BgOpaque(s.cur, x - s.lastTile * TileWidth)
TileColumns(s) == (s.lastTile * TileWidth)..(s.lastTile * TileWidth + TileWidth - 1)
TileColour(s, x) ==
  LET i == SpriteAt(s, x)
  IN  IF i # 0 /\ (~TileOpaque(s, x) \/ game.oam[i].front) THEN i
      ELSE IF TileOpaque(s, x) THEN Background ELSE Backdrop
Meets(s) ==
  {x \in TileColumns(s) \ {IncY - 1} : TileOpaque(s, x) /\ SpriteAt(s, x) = s.first}

LEMMA IncXType ==
  ASSUME NEW a \in Address
  PROVE  /\ IRegIncX(a) \in Address
         /\ IRegIncX(a).x = (a.x + 1) % (2 * LineTiles) /\ IRegIncX(a).ntY = a.ntY
         /\ IRegIncX(a).tileY = a.tileY /\ IRegIncX(a).fineY = a.fineY
<1>1. a.x \in Nat /\ 2 * LineTiles \in Nat \ {0}
  BY Sizes, AddressFields
<1> DEFINE z == (a.x + 1) % (2 * LineTiles)
<1>2. z \in 0..(2 * LineTiles - 1)
  <2>1. a.x + 1 \in Nat
    BY <1>1
  <2> QED BY <1>1, <2>1, DivMod, Zenon
<1>3. IRegIncX(a) = [a EXCEPT !.x = z]
  BY DEF IRegIncX
<1> HIDE DEF z
<1>4. IRegIncX(a) \in Address /\ IRegIncX(a).x = z /\ IRegIncX(a).ntY = a.ntY
      /\ IRegIncX(a).tileY = a.tileY /\ IRegIncX(a).fineY = a.fineY
  BY <1>2, <1>3 DEF Address
<1> QED BY <1>4 DEF z

LEMMA TileDrawn ==
  ASSUME Given, NEW s \in States
  PROVE  LET t == RenderTile(s)
         IN  /\ t \in States /\ OnlyDrawn(t, s)
             /\ t.cur = IRegIncX(s.cur) /\ t.lastTile = s.lastTile + 1
             /\ t.hit = IF s.hit = None /\ ~s.spriteZero /\ Meets(s) # {} THEN Min(Meets(s)) ELSE s.hit
             /\ \A x \in Columns :
                  t.shown[x] = IF x \div TileWidth = s.lastTile THEN TileColour(s, x) ELSE s.shown[x]
<1> DEFINE t == RenderTile(s)
           hit == IF s.hit = None /\ ~s.spriteZero /\ Meets(s) # {} THEN Min(Meets(s)) ELSE s.hit
           C(x) == IF x \in TileColumns(s) THEN TileColour(s, x) ELSE s.shown[x]
           shown == [x \in Columns |-> C(x)]
           cur == IRegIncX(s.cur)
<1>1. t = [s EXCEPT !.cur = cur, !.lastTile = @ + 1, !.shown = shown, !.hit = hit]
  BY DEF RenderTile, Meets, TileColumns, TileColour, TileOpaque
<1>2. cur \in Address
  BY StateFields, IncXType
<1>3. shown \in [Columns -> Int]
  <2>1. \A x \in Columns : C(x) \in Int
    <3> TAKE x \in Columns
    <3>1. s.shown[x] \in Int /\ s.sprites[x] \in Nat
      BY StateFields
    <3>2. SpriteAt(s, x) \in Int
      BY <3>1 DEF SpriteAt
    <3>3. TileColour(s, x) \in Int
      BY <3>2 DEF TileColour, Background, Backdrop
    <3> QED BY <3>1, <3>3
  <2> HIDE DEF C
  <2> QED BY <2>1
<1>4. hit \in {None} \cup Nat
  <2>1. CASE Meets(s) # {}
    <3>1. Meets(s) \in SUBSET Nat
      BY StateFields, Sizes, InTile DEF Meets, TileColumns
    <3>2. Min(Meets(s)) \in Nat
      BY <2>1, <3>1, MinOf
    <3> QED BY <3>2, StateFields
  <2>2. CASE Meets(s) = {}
    BY <2>2, StateFields
  <2> QED BY <2>1, <2>2
<1>5. \A x \in Columns : x \in TileColumns(s) <=> x \div TileWidth = s.lastTile
  BY StateFields, InTile DEF TileColumns
<1>6. \A x \in Columns : shown[x] = IF x \div TileWidth = s.lastTile THEN TileColour(s, x) ELSE s.shown[x]
  BY <1>5
<1> HIDE DEF cur, shown, hit, t
<1>7. t.cur = cur /\ t.lastTile = s.lastTile + 1 /\ t.shown = shown /\ t.hit = hit
  BY <1>1 DEF States
<1>8. OnlyDrawn(t, s)
  BY <1>1 DEF States, OnlyDrawn
<1>9. t \in States
  <2>1. s.lastTile + 1 \in Nat
    BY StateFields
  <2> QED BY <1>1, <1>2, <1>3, <1>4, <2>1 DEF States
<1> QED BY <1>6, <1>7, <1>8, <1>9 DEF t, cur, hit

\* The tiles up to `end', one after the other.
\* The loop that draws tiles, whatever it starts from.
LEMMA TilesTurn ==
  ASSUME Given, NEW end \in Nat
  PROVE  \E upTo : /\ IsLoop(upTo, States, {t \in States : t.lastTile >= end},
                             [t \in States |-> RenderTile(t)])
                   /\ \A s : RenderTiles(s, end) = upTo[s]
<1> DEFINE D == {t \in States : t.lastTile >= end}
           R == [t \in States |-> RenderTile(t)]
           A(g, t) == IF t.lastTile >= end THEN t ELSE g[RenderTile(t)]
           F(g) == [t \in States |-> A(g, t)]
           upTo == CHOOSE g : g = F(g)
<1>1. R \in [States -> States]
  BY TileDrawn
<1>2. ASSUME NEW g, NEW t \in States PROVE A(g, t) = IF t \in D THEN t ELSE g[R[t]]
  OBVIOUS
<1>3. \E g : g = F(g)
  <2>1. PICK g \in [States -> States \cup {States}] : IsLoop(g, States, D, R)
    <3> HIDE DEF D, R
    <3> QED BY <1>1, LoopExists, Zenon
  <2>2. \A t \in States : g[t] = A(g, t)
    BY <1>2, <2>1 DEF IsLoop
  <2> HIDE DEF A, D, R
  <2>3. g = [t \in States |-> A(g, t)]
    BY <2>1, <2>2
  <2> QED BY <2>3
<1>4. upTo = F(upTo)
  <2> HIDE DEF F
  <2> QED BY <1>3, Zenon
<1>5. \A s : RenderTiles(s, end) = upTo[s]
  BY Zenon DEF RenderTiles
<1>6. IsLoop(upTo, States, D, R)
  <2> HIDE DEF A, D, R, upTo
  <2>1. \A t \in States : upTo[t] = A(upTo, t)
    BY <1>4
  <2> QED BY <1>2, <2>1 DEF IsLoop
<1> HIDE DEF D, R, upTo
<1> QED BY <1>5, <1>6, Zenon DEF D, R

LEMMA TilesDrawn ==
  ASSUME Given, NEW end \in Nat, NEW P \in SUBSET States,
         \A t \in P : t.lastTile < end => RenderTile(t) \in P,
         NEW s \in P
  PROVE  RenderTiles(s, end) \in P /\ ~(RenderTiles(s, end).lastTile < end)
<1> DEFINE D == {t \in States : t.lastTile >= end}
           R == [t \in States |-> RenderTile(t)]
           M == [t \in P |-> IF t.lastTile < end THEN end - t.lastTile ELSE 0]
           N == [t \in P |-> 0]
<1>1. PICK upTo : IsLoop(upTo, States, D, R) /\ \A t : RenderTiles(t, end) = upTo[t]
  BY TilesTurn
<1>2. M \in [P -> Nat] /\ N \in [P -> Nat]
  <2>1. \A t \in P : t.lastTile \in Nat
    BY StateFields
  <2> QED BY <2>1
<1>3. Closer(P, D, R, M, N)
  <2> SUFFICES ASSUME NEW t \in P, t \notin D PROVE R[t] \in P /\ M[R[t]] < M[t]
    BY Zenon DEF Closer
  <2>1. t \in States /\ t.lastTile \in Nat /\ t.lastTile < end
    BY StateFields
  <2> DEFINE u == RenderTile(t)
  <2>2. R[t] = u /\ u \in P /\ u.lastTile = t.lastTile + 1
    BY <2>1, TileDrawn
  <2> HIDE DEF u
  <2>3. M[u] = (IF u.lastTile < end THEN end - u.lastTile ELSE 0) /\ M[t] = end - t.lastTile
    BY <2>1, <2>2
  <2> HIDE DEF M, R
  <2> QED BY <2>1, <2>2, <2>3
<1> HIDE DEF M, N, R
<1>4. upTo[s] \in P /\ upTo[s] \in D
  <2> HIDE DEF D
  <2> QED BY <1>1, <1>2, <1>3, LoopKeeps, Zenon
<1>5. upTo[s].lastTile \in Nat /\ upTo[s].lastTile >= end
  BY <1>4, StateFields
<1> QED BY <1>1, <1>4, <1>5

LEMMA MinIs ==
  ASSUME NEW T \in SUBSET Nat, NEW m \in T, \A y \in T : m <= y
  PROVE  Min(T) = m
<1>1. Min(T) \in T /\ Min(T) <= m
  BY MinOf
<1>2. Min(T) \in Nat /\ m \in Nat /\ m <= Min(T)
  BY <1>1
<1> DEFINE n == Min(T)
<1> HIDE DEF n
<1>3. n <= m /\ m <= n /\ n \in Nat /\ m \in Nat
  BY <1>1, <1>2 DEF n
<1>4. n = m
  BY <1>3
<1> QED BY <1>4 DEF n

\* The tiles drawn show the picture, and the flag is from the line's hits or from before.
TilesShown(s) ==
  /\ \A x \in Columns : x < s.lastTile * TileWidth => s.shown[x] = Pixel(s, s.line, x)
  /\ s.spriteZero => MetBefore(s) \/ Met(s) # {}
  /\ MetBefore(s) => s.spriteZero

LEMMA MetIn ==
  ASSUME NEW s
  PROVE  Met(s) \in SUBSET Nat
BY Column DEF Met

\* A tile's hits are the line's hits in it.
LEMMA MeetsIs ==
  ASSUME Given, NEW s \in States, s.lastTile < LineTiles, s.first >= 1, InTiles(s)
  PROVE  /\ Meets(s) \in SUBSET Columns
         /\ \A x \in Columns : x \in Meets(s) <=> x \div TileWidth = s.lastTile /\ ZeroAt(s, s.line, x)
         /\ \A x \in Columns : x \div TileWidth = s.lastTile => TileColour(s, x) = Pixel(s, s.line, x)
<1>1. s.lastTile \in Nat /\ s.line \in Nat /\ s.first \in Nat \ {0}
  BY StateFields
<1>2. Meets(s) \in SUBSET Columns
  <2> SUFFICES ASSUME NEW x \in TileColumns(s) PROVE x \in Columns
    BY DEF Meets
  <2>1. TileWidth \in Nat \ {0} /\ LineTiles \in Nat \ {0} /\ IncY = LineTiles * TileWidth
    BY Sizes
  <2>2. s.lastTile * TileWidth \in Nat
    BY <1>1, <2>1
  <2>3. s.lastTile * TileWidth + TileWidth <= LineTiles * TileWidth
    <3>1. PICK e \in Nat : LineTiles = s.lastTile + 1 + e
      <4>1. LineTiles - s.lastTile - 1 \in Nat /\ LineTiles = s.lastTile + 1 + (LineTiles - s.lastTile - 1)
        BY <1>1, <2>1
      <4> QED BY <4>1
    <3> DEFINE k == s.lastTile
    <3>2. k \in Nat /\ LineTiles = k + 1 + e
      BY <1>1, <3>1
    <3> HIDE DEF k
    <3>3. LineTiles * TileWidth = k * TileWidth + TileWidth + e * TileWidth /\ e * TileWidth \in Nat
      BY <2>1, <3>2
    <3>4. k * TileWidth \in Nat
      BY <2>1, <3>2
    <3>5. k * TileWidth + TileWidth <= LineTiles * TileWidth
      BY <2>1, <3>3, <3>4
    <3> QED BY <3>5 DEF k
  <2>4. LineTiles * TileWidth \in Nat
    BY <2>1
  <2>5. x \in (s.lastTile * TileWidth)..(s.lastTile * TileWidth + TileWidth - 1)
    BY DEF TileColumns
  <2> DEFINE a == s.lastTile * TileWidth
             b == LineTiles * TileWidth
  <2>6. a \in Nat /\ b \in Nat /\ a + TileWidth <= b /\ x \in a..(a + TileWidth - 1) /\ IncY = b
    BY <2>1, <2>2, <2>3, <2>4, <2>5
  <2> HIDE DEF a, b
  <2> QED BY <2>1, <2>6 DEF Columns
<1>3. ASSUME NEW x \in Columns, x \div TileWidth = s.lastTile
      PROVE  /\ TileOpaque(s, x) <=> GroundAt(s, s.line, x)
             /\ SpriteAt(s, x) = s.first <=> 1 \in SpritesAt(s, s.line, x)
             /\ TileColour(s, x) = Pixel(s, s.line, x)
             /\ x \in TileColumns(s)
  <2>1. BgOpaque(s.cur, x - s.lastTile * TileWidth)
        <=> Opaque(TileAt(tmp, s.line, x), (fineX + x) % TileWidth)
    <3>1. s.cur \in Address /\ AtRow(s.cur, s.line)
          /\ s.cur.x = (tmp.x + s.lastTile) % (2 * LineTiles)
      BY StateFields DEF InTiles
    <3> QED BY <1>1, <1>3, <3>1, GroundDrawn, Zenon
  <2>2. TileOpaque(s, x) <=> GroundAt(s, s.line, x)
    BY <1>3, <2>1 DEF TileOpaque, GroundAt
  <2>3. s.sprites[x] = Foremost(s, s.line, x) /\ (s.line > 0 => s.first = 1)
    BY DEF InTiles
  <2>4. SpriteAt(s, x) = s.first <=> 1 \in SpritesAt(s, s.line, x)
    BY <1>1, <2>3, ZeroDrawn
  <2>5. TileColour(s, x) = Pixel(s, s.line, x)
    BY <1>1, <2>2, <2>3, PixelDrawn DEF TileColour
  <2>6. x \in TileColumns(s)
    BY <1>1, <1>3, InTile DEF TileColumns
  <2> QED BY <2>2, <2>4, <2>5, <2>6
<1>4. \A x \in Columns : x \in TileColumns(s) => x \div TileWidth = s.lastTile
  BY <1>1, InTile DEF TileColumns
<1>5. ASSUME NEW x \in Columns
      PROVE  x \in Meets(s) <=> x \div TileWidth = s.lastTile /\ ZeroAt(s, s.line, x)
  <2>1. CASE x \div TileWidth = s.lastTile
    BY <1>3, <2>1 DEF Meets, ZeroAt
  <2>2. CASE x \div TileWidth # s.lastTile
    BY <1>4, <2>2 DEF Meets
  <2> QED BY <2>1, <2>2
<1> QED BY <1>2, <1>3, <1>5

\* Another tile keeps to the picture.
LEMMA TileKeeps ==
  ASSUME Given, NEW s \in States, s.lastTile < LineTiles, s.first >= 1, InTiles(s), TilesShown(s)
  PROVE  InTiles(RenderTile(s)) /\ TilesShown(RenderTile(s))
<1> DEFINE t == RenderTile(s)
<1>1. /\ t \in States /\ t.line = s.line /\ t.mask = s.mask /\ t.tall = s.tall
      /\ t.sprites = s.sprites /\ t.first = s.first /\ t.spriteZero = s.spriteZero
      /\ t.cur = IRegIncX(s.cur) /\ t.lastTile = s.lastTile + 1
  BY TileDrawn DEF OnlyDrawn
<1>2. t.hit = IF s.hit = None /\ ~s.spriteZero /\ Meets(s) # {} THEN Min(Meets(s)) ELSE s.hit
  BY TileDrawn
<1>3. \A x \in Columns :
        t.shown[x] = IF x \div TileWidth = s.lastTile THEN TileColour(s, x) ELSE s.shown[x]
  BY TileDrawn
<1> HIDE DEF t
<1>4. s.lastTile \in Nat /\ s.line \in Nat /\ s.spriteZero \in BOOLEAN /\ s.cur \in Address
  BY StateFields
<1>5. ASSUME NEW n, NEW x
      PROVE  /\ Foremost(t, n, x) = Foremost(s, n, x) /\ Pixel(t, n, x) = Pixel(s, n, x)
             /\ ZeroAt(t, n, x) <=> ZeroAt(s, n, x)
  BY <1>1, SamePicture
<1>6. \A x \in Columns : x < t.lastTile * TileWidth <=>
                           x < s.lastTile * TileWidth \/ x \div TileWidth = s.lastTile
  <2> TAKE x \in Columns
  <2>1. (x < t.lastTile * TileWidth <=> x \div TileWidth < s.lastTile + 1)
        /\ (x < s.lastTile * TileWidth <=> x \div TileWidth < s.lastTile)
    <3>1. s.lastTile + 1 \in Nat
      BY <1>4
    <3> QED BY <1>1, <1>4, <3>1, InTile
  <2>2. x \div TileWidth \in Nat
    BY Column, Sizes
  <2> QED BY <1>4, <2>1, <2>2
<1>7. AtRow(t.cur, t.line)
  BY <1>1, <1>4, IncXType DEF InTiles, AtRow
<1>8. t.cur.x = (tmp.x + t.lastTile) % (2 * LineTiles)
  <2> DEFINE m == 2 * LineTiles
             z == tmp.x + s.lastTile
  <2>1. z \in Nat /\ m \in Nat \ {0} /\ tmp.x + t.lastTile = z + 1
    BY <1>1, <1>4, Types, Sizes
  <2>2. t.cur.x = ((z % m) + 1) % m
    BY <1>1, <1>4, IncXType DEF InTiles
  <2> HIDE DEF z, m
  <2>3. ((z % m) + 1) % m = (z + 1) % m
    BY <2>1, ModTwice
  <2> QED BY <2>1, <2>2, <2>3 DEF m
<1>9. \A x \in Columns : t.sprites[x] = Foremost(t, t.line, x)
  BY <1>1, <1>5 DEF InTiles
<1>10. t.line > 0 => t.first = 1
  BY <1>1 DEF InTiles
<1>11. MetBefore(t) <=> MetBefore(s)
  BY <1>1, <1>5 DEF MetBefore
<1>12. Met(t) = Met(s) \cup Meets(s)
  <2>1. Meets(s) \subseteq Columns
        /\ \A x \in Columns : x \in Meets(s) <=> x \div TileWidth = s.lastTile /\ ZeroAt(s, s.line, x)
    BY MeetsIs
  <2>2. \A x \in Columns : x \in Met(t) <=> x \in Met(s) \/ x \in Meets(s)
    BY <1>1, <1>5, <1>6, <2>1 DEF Met
  <2>3. Met(t) \subseteq Columns /\ Met(s) \subseteq Columns
    BY DEF Met
  <2> QED BY <2>1, <2>2, <2>3
<1>13. t.hit = IF MetBefore(t) \/ Met(t) = {} THEN None ELSE Min(Met(t))
  <2>1. s.hit = IF MetBefore(s) \/ Met(s) = {} THEN None ELSE Min(Met(s))
    BY DEF InTiles
  <2>2. Met(s) \in SUBSET Nat /\ Met(t) \in SUBSET Nat
    BY MetIn
  <2>3. CASE MetBefore(s)
    BY <1>2, <1>11, <2>1, <2>3 DEF TilesShown
  <2>4. CASE ~MetBefore(s) /\ Met(s) # {}
    <3>1. s.hit = Min(Met(s)) /\ Min(Met(s)) \in Met(s) /\ \A y \in Met(s) : Min(Met(s)) <= y
      BY <2>1, <2>2, <2>4, MinOf
    <3>2. t.hit = Min(Met(s))
      BY <1>2, <2>2, <3>1, Sizes
    <3>3. \A y \in Meets(s), z \in Met(s) : z <= y
      <4> SUFFICES ASSUME NEW y \in Meets(s), NEW z \in Met(s) PROVE z <= y
        OBVIOUS
      <4>1. y \in Columns /\ y \div TileWidth = s.lastTile
        BY MeetsIs
      <4>2. z \in Columns /\ z < s.lastTile * TileWidth
        BY DEF Met
      <4>3. ~(y < s.lastTile * TileWidth) /\ s.lastTile * TileWidth \in Nat
        BY <1>4, <4>1, InTile
      <4> QED BY <4>1, <4>2, <4>3, Column
    <3>4. Min(Met(t)) = Min(Met(s))
      <4>1. Min(Met(s)) \in Met(t) /\ \A y \in Met(t) : Min(Met(s)) <= y
        BY <1>12, <3>1, <3>3
      <4> QED BY <2>2, <4>1, MinIs
    <3> QED BY <1>11, <1>12, <2>4, <3>2, <3>4
  <2>5. CASE ~MetBefore(s) /\ Met(s) = {}
    <3>1. ~s.spriteZero /\ s.hit = None
      BY <2>1, <2>5 DEF TilesShown
    <3>2. Met(t) = Meets(s)
      BY <1>12, <2>5
    <3> QED BY <1>2, <1>11, <2>5, <3>1, <3>2
  <2> QED BY <2>3, <2>4, <2>5
<1>14. InTiles(t)
  BY <1>7, <1>8, <1>9, <1>10, <1>13 DEF InTiles
<1>15. TilesShown(t)
  <2>1. \A x \in Columns : x < t.lastTile * TileWidth => t.shown[x] = Pixel(t, t.line, x)
    <3> SUFFICES ASSUME NEW x \in Columns, x < t.lastTile * TileWidth
                 PROVE  t.shown[x] = Pixel(s, s.line, x)
      BY <1>1, <1>5
    <3>1. CASE x \div TileWidth = s.lastTile
      BY <1>3, <3>1, MeetsIs
    <3>2. CASE x \div TileWidth # s.lastTile
      BY <1>3, <1>6, <3>2 DEF TilesShown
    <3> QED BY <3>1, <3>2
  <2>2. t.spriteZero => MetBefore(t) \/ Met(t) # {}
    BY <1>1, <1>11, <1>12 DEF TilesShown
  <2>3. MetBefore(t) => t.spriteZero
    BY <1>1, <1>11 DEF TilesShown
  <2> QED BY <2>1, <2>2, <2>3 DEF TilesShown
<1> QED BY <1>14, <1>15 DEF t

LEMMA OnlyDrawnTwice ==
  ASSUME NEW s, NEW t, NEW u, OnlyDrawn(t, s), OnlyDrawn(u, t)
  PROVE  OnlyDrawn(u, s)
BY DEF OnlyDrawn

LEMMA TilesType ==
  ASSUME Given, NEW s \in States, NEW end \in Nat
  PROVE  LET t == RenderTiles(s, end)
         IN  /\ t \in States /\ OnlyDrawn(t, s) /\ s.lastTile <= t.lastTile /\ end <= t.lastTile
             /\ s.lastTile <= LineTiles /\ end <= LineTiles => t.lastTile <= LineTiles
<1> DEFINE P == {t \in States : /\ OnlyDrawn(t, s) /\ s.lastTile <= t.lastTile
                                /\ s.lastTile <= LineTiles /\ end <= LineTiles
                                     => t.lastTile <= LineTiles}
           r == RenderTiles(s, end)
<1>1. s \in P
  BY StateFields DEF OnlyDrawn
<1>2. ASSUME NEW t \in P, t.lastTile < end PROVE RenderTile(t) \in P
  <2> DEFINE u == RenderTile(t)
  <2>1. u \in States /\ OnlyDrawn(u, t) /\ u.lastTile = t.lastTile + 1
    BY TileDrawn
  <2>2. t.lastTile \in Nat /\ s.lastTile \in Nat /\ LineTiles \in Nat
    BY StateFields, Sizes
  <2>3. OnlyDrawn(t, s)
    OBVIOUS
  <2> HIDE DEF u
  <2>4. OnlyDrawn(u, s)
    BY <2>1, <2>3, OnlyDrawnTwice
  <2>5. s.lastTile <= u.lastTile
    BY <2>1, <2>2
  <2>6. ASSUME s.lastTile <= LineTiles, end <= LineTiles PROVE u.lastTile <= LineTiles
    BY <1>2, <2>1, <2>2, <2>6
  <2>7. u \in P
    BY <2>1, <2>4, <2>5, <2>6
  <2> QED BY <2>7 DEF u
<1>3. P \in SUBSET States
  OBVIOUS
<1> HIDE DEF P
<1>4. r \in P /\ ~(r.lastTile < end)
  BY <1>1, <1>2, <1>3, TilesDrawn
<1>5. r \in States /\ r.lastTile \in Nat /\ end <= r.lastTile
  BY <1>3, <1>4, StateFields
<1> QED BY <1>4, <1>5 DEF P

\* The tiles of an undisturbed line.
LEMMA TilesKeep ==
  ASSUME Given, NEW s \in States, s.lastTile <= LineTiles, s.first >= 1, InTiles(s), TilesShown(s),
         NEW end \in Nat, end <= LineTiles
  PROVE  InTiles(RenderTiles(s, end)) /\ TilesShown(RenderTiles(s, end))
<1> DEFINE P == {t \in States : t.lastTile <= LineTiles /\ t.first >= 1 /\ InTiles(t) /\ TilesShown(t)}
<1>1. s \in P
  OBVIOUS
<1>2. ASSUME NEW t \in P, t.lastTile < end PROVE RenderTile(t) \in P
  <2> DEFINE u == RenderTile(t)
  <2>1. t.lastTile \in Nat /\ LineTiles \in Nat
    BY StateFields, Sizes
  <2>2. t.lastTile < LineTiles
    BY <1>2, <2>1
  <2>3. InTiles(u) /\ TilesShown(u)
    BY <2>2, TileKeeps
  <2>4. u \in States /\ u.first = t.first /\ u.lastTile = t.lastTile + 1
    BY TileDrawn DEF OnlyDrawn
  <2> HIDE DEF u
  <2>5. u \in P
    BY <2>1, <2>2, <2>3, <2>4
  <2> QED BY <2>5 DEF u
<1>3. P \in SUBSET States
  OBVIOUS
<1> HIDE DEF P
<1>4. RenderTiles(s, end) \in P
  BY <1>1, <1>2, <1>3, TilesDrawn
<1> QED BY <1>4 DEF P

-----------------------------------------------------------------------------
(* The sprites of the next line. *)

\* Those of the first i - 1 sprites in OAM that line y finds, and their foremost one at x.
Found(s, i, y) == {j \in 1..(i - 1) : InRange(s, j, y)}
BestSoFar(s, i, y, x) == {j \in Shown(s, y + 1) : j < i /\ Dot(s, j, y, x)}

\* What PreRenderSpriteLine carries from sprite to sprite.
Full(num) == num > SpritesPerLine /\ ~game.noLimit
Exam == [i : Nat, num : Nat, over : [Columns -> Nat]]
Examined(s, e) ==
  LET i == e.i
  IN  IF ~InRange(s, i, s.line) THEN [e EXCEPT !.i = @ + 1]
      ELSE [i |-> i + 1, num |-> e.num + 1,
            over |-> IF Full(e.num + 1) THEN e.over
                     ELSE [x \in Columns |-> IF e.over[x] = 0 /\ Dot(s, i, s.line, x) THEN i ELSE e.over[x]]]

LEMMA ExaminedType ==
  ASSUME Given, NEW s \in States, NEW e \in Exam
  PROVE  Examined(s, e) \in Exam /\ Examined(s, e).i = e.i + 1
<1> DEFINE C(x) == IF e.over[x] = 0 /\ Dot(s, e.i, s.line, x) THEN e.i ELSE e.over[x]
           with == [x \in Columns |-> C(x)]
           over == IF Full(e.num + 1) THEN e.over ELSE with
<1>1. e.i \in Nat /\ e.num \in Nat /\ e.over \in [Columns -> Nat]
  BY DEF Exam
<1>2. with \in [Columns -> Nat]
  <2>1. \A x \in Columns : C(x) \in Nat
    BY <1>1
  <2> HIDE DEF C
  <2> QED BY <2>1
<1>3. over \in [Columns -> Nat]
  BY <1>1, <1>2
<1>4. Examined(s, e) = IF ~InRange(s, e.i, s.line) THEN [e EXCEPT !.i = @ + 1]
                       ELSE [i |-> e.i + 1, num |-> e.num + 1, over |-> over]
  BY DEF Examined
<1> HIDE DEF over
<1> QED BY <1>1, <1>3, <1>4 DEF Exam

\* One sprite after the other, until OAM ends or the line is full.
LEMMA SpritesExamined ==
  ASSUME Given, NEW s \in States, NEW P \in SUBSET Exam,
         \A e \in P : e.i <= Len(game.oam) /\ ~Full(e.num) => Examined(s, e) \in P,
         [i |-> (s.oamAddr \div SpriteSize) + 1, num |-> 0, over |-> NoSprites] \in P
  PROVE  \E e \in P :
           /\ ~(e.i <= Len(game.oam) /\ ~Full(e.num))
           /\ PreRenderSpriteLine(s) =
                [s EXCEPT !.sprites = e.over, !.first = (s.oamAddr \div SpriteSize) + 1,
                          !.overflow = @ \/ e.num > SpritesPerLine]
<1> DEFINE from == (s.oamAddr \div SpriteSize) + 1
           begin == [i |-> from, num |-> 0, over |-> NoSprites]
           D == {e \in Exam : e.i > Len(game.oam) \/ Full(e.num)}
           R == [e \in Exam |-> Examined(s, e)]
           A(g, e) == IF e.i > Len(game.oam) \/ Full(e.num) THEN e
                      ELSE IF ~InRange(s, e.i, s.line) THEN g[[e EXCEPT !.i = @ + 1]]
                      ELSE g[[i |-> e.i + 1, num |-> e.num + 1,
                              over |-> IF Full(e.num + 1) THEN e.over
                                       ELSE [x \in Columns |-> IF e.over[x] = 0 /\ Dot(s, e.i, s.line, x)
                                                                 THEN e.i ELSE e.over[x]]]]
           F(g) == [e \in Exam |-> A(g, e)]
           examined == CHOOSE g : g = F(g)
           M == [e \in P |-> IF e.i <= Len(game.oam) THEN Len(game.oam) + 1 - e.i ELSE 0]
           N == [e \in P |-> 0]
           done == examined[begin]
<1>1. R \in [Exam -> Exam]
  BY ExaminedType
<1>2. ASSUME NEW g, NEW e \in Exam PROVE A(g, e) = IF e \in D THEN e ELSE g[R[e]]
  <2>1. A(g, e) = IF e.i > Len(game.oam) \/ Full(e.num) THEN e ELSE g[Examined(s, e)]
    BY Zenon DEF Examined
  <2> QED BY <2>1
<1>3. \E g : g = F(g)
  <2>1. PICK g \in [Exam -> Exam \cup {Exam}] : IsLoop(g, Exam, D, R)
    <3> HIDE DEF D, R
    <3> QED BY <1>1, LoopExists, Zenon
  <2> HIDE DEF A, D, R
  <2>2. \A e \in Exam : g[e] = A(g, e)
    BY <1>2, <2>1 DEF IsLoop
  <2>3. g = [e \in Exam |-> A(g, e)]
    BY <2>1, <2>2
  <2> QED BY <2>3
<1>4. examined = F(examined)
  <2> HIDE DEF F
  <2> QED BY <1>3, Zenon
<1>5. PreRenderSpriteLine(s) = [s EXCEPT !.sprites = done.over, !.first = from,
                                         !.overflow = @ \/ done.num > SpritesPerLine]
  BY Zenon DEF PreRenderSpriteLine, Full, Exam
<1>6. IsLoop(examined, Exam, D, R)
  <2> HIDE DEF A, D, R, examined
  <2>1. \A e \in Exam : examined[e] = A(examined, e)
    BY <1>4
  <2> QED BY <1>2, <2>1 DEF IsLoop
<1>7. M \in [P -> Nat] /\ N \in [P -> Nat]
  <2>1. \A e \in P : e.i \in Nat
    BY DEF Exam
  <2>2. Len(game.oam) \in Nat
    BY GameSprites
  <2> QED BY <2>1, <2>2
<1>8. Closer(P, D, R, M, N)
  <2> SUFFICES ASSUME NEW e \in P, e \notin D PROVE R[e] \in P /\ M[R[e]] < M[e]
    BY Zenon DEF Closer
  <2>1. e \in Exam /\ e.i \in Nat /\ Len(game.oam) \in Nat
    BY GameSprites DEF Exam
  <2>2. e.i <= Len(game.oam) /\ ~Full(e.num)
    BY <2>1
  <2> DEFINE u == Examined(s, e)
  <2>3. R[e] = u /\ u \in P /\ u.i = e.i + 1
    BY <2>1, <2>2, ExaminedType
  <2> HIDE DEF u
  <2>4. M[u] = (IF u.i <= Len(game.oam) THEN Len(game.oam) + 1 - u.i ELSE 0)
        /\ M[e] = Len(game.oam) + 1 - e.i
    BY <2>1, <2>2, <2>3
  <2> HIDE DEF M, R
  <2> QED BY <2>1, <2>2, <2>3, <2>4
<1> HIDE DEF M, N, R, examined
<1>9. done \in P /\ done \in D
  <2> HIDE DEF D, begin
  <2>1. begin \in P
    BY DEF begin
  <2> QED BY <1>6, <1>7, <1>8, <2>1, LoopKeeps, Zenon
<1>10. ~(done.i <= Len(game.oam) /\ ~Full(done.num))
  <2>1. done.i \in Nat /\ Len(game.oam) \in Nat
    BY <1>9, GameSprites DEF Exam
  <2> QED BY <1>9, <2>1
<1> HIDE DEF done
<1> QED BY <1>5, <1>9, <1>10, Zenon

LEMMA FoundIs ==
  ASSUME NEW s, NEW i \in Nat \ {0}, NEW y
  PROVE  /\ IsFiniteSet(Found(s, i, y)) /\ Cardinality(Found(s, i, y)) \in Nat
         /\ InRange(s, i, y) => Cardinality(Found(s, i + 1, y)) = Cardinality(Found(s, i, y)) + 1
         /\ ~InRange(s, i, y) => Found(s, i + 1, y) = Found(s, i, y)
<1> DEFINE F == Found(s, i, y)
<1>1. IsFiniteSet(F)
  <2>1. IsFiniteSet(1..(i - 1))
    BY FS_Interval
  <2>2. F \subseteq 1..(i - 1)
    BY DEF Found
  <2> QED BY <2>1, <2>2, FS_Subset, Zenon
<1>2. Cardinality(F) \in Nat
  BY <1>1, FS_CardinalityType, Zenon
<1>3. ASSUME InRange(s, i, y) PROVE Cardinality(Found(s, i + 1, y)) = Cardinality(F) + 1
  <2>1. Found(s, i + 1, y) = F \cup {i} /\ i \notin F
    BY <1>3 DEF Found
  <2> QED BY <1>1, <2>1, FS_AddElement
<1>4. ASSUME ~InRange(s, i, y) PROVE Found(s, i + 1, y) = F
  BY <1>4 DEF Found
<1> QED BY <1>1, <1>2, <1>3, <1>4

LEMMA FoundGrows ==
  ASSUME NEW s, NEW i \in Nat \ {0}, NEW j \in Nat \ {0}, i <= j, NEW y
  PROVE  Cardinality(Found(s, i, y)) <= Cardinality(Found(s, j, y))
<1>1. Found(s, i, y) \in SUBSET Found(s, j, y)
  BY DEF Found
<1>2. IsFiniteSet(Found(s, j, y))
  BY FoundIs
<1> QED BY <1>1, <1>2, FS_Subset

LEMMA ShownIs ==
  ASSUME Given, NEW s, NEW y \in Nat
  PROVE  /\ Shown(s, y + 1) \subseteq 1..Len(game.oam)
         /\ \A i \in 1..Len(game.oam) :
              i \in Shown(s, y + 1) <=>
                InRange(s, i, y) /\ (game.noLimit \/ Cardinality(Found(s, i, y)) < SpritesPerLine)
<1> DEFINE there == {i \in 1..Len(game.oam) : y + 1 > 0 /\ InRange(s, i, (y + 1) - 1)}
<1>1. (y + 1) - 1 = y /\ y + 1 > 0
  OBVIOUS
<1>2. \A i : i \in there <=> i \in 1..Len(game.oam) /\ InRange(s, i, y)
  BY <1>1, Zenon
<1>3. Shown(s, y + 1) =
        {i \in there : game.noLimit \/ Cardinality({j \in there : j < i}) < SpritesPerLine}
  BY Zenon DEF Shown
<1> HIDE DEF there
<1>4. ASSUME NEW i \in 1..Len(game.oam) PROVE {j \in there : j < i} = Found(s, i, y)
  <2>1. Len(game.oam) \in Nat
    BY GameSprites
  <2> DEFINE L == Len(game.oam)
  <2> HIDE DEF L
  <2>2. L \in Nat /\ i \in 1..L /\ \A k : k \in there <=> k \in 1..L /\ InRange(s, k, y)
    BY <1>2, <2>1 DEF L
  <2> QED BY <2>2 DEF Found
<1>5. \A i \in 1..Len(game.oam) :
        Cardinality({j \in there : j < i}) = Cardinality(Found(s, i, y))
  BY <1>4, Zenon
<1> QED BY <1>2, <1>3, <1>5

\* The least of the first sprites at x, or 0.
Least0(T) == IF T = {} THEN 0 ELSE Min(T)

\* The foremost sprites of the next line.
LEMMA SpritesForemost ==
  ASSUME Given, NEW s \in States, s.oamAddr = 0
  PROVE  \E over \in [Columns -> Nat], overflow \in BOOLEAN :
           /\ PreRenderSpriteLine(s) = [s EXCEPT !.sprites = over, !.first = 1, !.overflow = overflow]
           /\ \A x \in Columns : over[x] = Foremost(s, s.line + 1, x)
<1> DEFINE L == Len(game.oam)
           y == s.line
           B(i, x) == BestSoFar(s, i, y, x)
           P == {e \in Exam : /\ e.i \in 1..(L + 1) /\ e.num = Cardinality(Found(s, e.i, y))
                              /\ \A x \in Columns : e.over[x] = Least0(B(e.i, x))}
           begin == [i |-> 1, num |-> 0, over |-> NoSprites]
<1>1. L \in Nat /\ y \in Nat /\ s.overflow \in BOOLEAN /\ SpritesPerLine \in Nat
  BY StateFields, GameSprites, Sizes
<1>2. (s.oamAddr \div SpriteSize) + 1 = 1
  <2>1. 0 = 0 * SpriteSize + 0 /\ 0 \in Nat /\ SpriteSize \in Nat \ {0}
    BY Sizes
  <2> QED BY <2>1, ModIs
<1>3. Shown(s, y + 1) \subseteq 1..L
      /\ \A i \in 1..L : i \in Shown(s, y + 1) <=>
           InRange(s, i, y) /\ (game.noLimit \/ Cardinality(Found(s, i, y)) < SpritesPerLine)
  BY <1>1, ShownIs
<1>4. \A i \in Nat : \A x : B(i, x) \in SUBSET (Nat \ {0}) /\ \A j \in B(i, x) : j < i
  BY <1>1, <1>3 DEF BestSoFar
<1>5. begin \in P
  <2>1. Found(s, 1, y) = {}
    BY DEF Found
  <2>2. Cardinality(Found(s, 1, y)) = 0
    BY <2>1, FS_EmptySet
  <2>3. \A x \in Columns : B(1, x) = {}
    BY <1>1, <1>3 DEF BestSoFar
  <2>4. NoSprites \in [Columns -> Nat] /\ \A x \in Columns : NoSprites[x] = 0
    BY DEF NoSprites
  <2>5. \A x \in Columns : NoSprites[x] = Least0(B(1, x))
    BY <2>3, <2>4 DEF Least0
  <2>6. begin \in Exam
    BY <2>4 DEF Exam
  <2> HIDE DEF B
  <2> QED BY <1>1, <2>2, <2>5, <2>6
<1>6. ASSUME NEW e \in P, e.i <= L, ~Full(e.num) PROVE Examined(s, e) \in P
  <2> DEFINE i == e.i
             u == Examined(s, e)
  <2>1. i \in 1..L /\ e \in Exam /\ e.over \in [Columns -> Nat] /\ e.num \in Nat
    BY <1>1, <1>6 DEF Exam
  <2>2. e.num = Cardinality(Found(s, i, y)) /\ \A x \in Columns : e.over[x] = Least0(B(i, x))
    BY Zenon
  <2>3. u \in Exam /\ u.i = i + 1
    BY <2>1, ExaminedType
  <2>4. CASE ~InRange(s, i, y)
    <3>1. u = [e EXCEPT !.i = @ + 1]
      BY <2>4 DEF Examined
    <3>2. u.num = e.num /\ u.over = e.over
      BY <2>1, <3>1 DEF Exam
    <3>3. Found(s, i + 1, y) = Found(s, i, y)
      BY <2>1, <2>4, FoundIs
    <3>4. \A x \in Columns : B(i + 1, x) = B(i, x)
      BY <1>1, <1>3, <2>1, <2>4 DEF BestSoFar
    <3> HIDE DEF B, u
    <3>5. u.i \in 1..(L + 1) /\ u.num = Cardinality(Found(s, u.i, y))
      BY <1>1, <2>1, <2>2, <2>3, <3>2, <3>3
    <3>6. \A x \in Columns : u.over[x] = Least0(B(u.i, x))
      BY <2>2, <2>3, <3>2, <3>4
    <3>7. u \in P
      BY <2>3, <3>5, <3>6
    <3> QED BY <3>7 DEF u
  <2>5. CASE InRange(s, i, y)
    <3> DEFINE C(x) == IF e.over[x] = 0 /\ Dot(s, i, y, x) THEN i ELSE e.over[x]
               with == [x \in Columns |-> C(x)]
    <3>1. u = [i |-> i + 1, num |-> e.num + 1, over |-> IF Full(e.num + 1) THEN e.over ELSE with]
      BY <2>5 DEF Examined
    <3>2. u.num = e.num + 1 /\ u.over = IF Full(e.num + 1) THEN e.over ELSE with
      BY <3>1
    <3>3. Cardinality(Found(s, i + 1, y)) = e.num + 1
      BY <2>1, <2>2, <2>5, FoundIs
    <3>4. Full(e.num + 1) <=> i \notin Shown(s, y + 1)
      BY <1>1, <1>3, <2>1, <2>2, <2>5 DEF Full
    <3>5. \A x \in Columns : u.over[x] = Least0(B(i + 1, x))
      <4> TAKE x \in Columns
      <4>1. CASE Full(e.num + 1)
        <5>1. B(i + 1, x) = B(i, x)
          BY <1>1, <1>3, <2>1, <3>4, <4>1 DEF BestSoFar
        <5> QED BY <2>2, <3>2, <4>1, <5>1
      <4>2. CASE ~Full(e.num + 1)
        <5>1. u.over[x] = C(x)
          BY <3>2, <4>2
        <5>2. e.over[x] = Least0(B(i, x))
          BY <2>2
        <5>3. CASE Dot(s, i, y, x)
          <6>1. B(i + 1, x) = B(i, x) \cup {i}
            BY <1>1, <1>3, <2>1, <3>4, <4>2, <5>3 DEF BestSoFar
          <6> DEFINE T == B(i, x)
          <6>2. T \in SUBSET (Nat \ {0}) /\ \A j \in T : j < i
            BY <1>4, <2>1
          <6>3. B(i + 1, x) = T \cup {i} /\ e.over[x] = Least0(T)
            BY <5>2, <6>1
          <6> HIDE DEF T, B, u
          <6>4. CASE T = {}
            <7>1. Least0(T) = 0 /\ Least0(T \cup {i}) = Min({i})
              BY <6>4 DEF Least0
            <7>2. Min({i}) = i
              BY <2>1, MinIs
            <7> QED BY <5>1, <5>3, <6>3, <7>1, <7>2
          <6>5. CASE T # {}
            <7>1. Min(T) \in T /\ \A j \in T : Min(T) <= j
              BY <6>2, <6>5, MinOf
            <7>2. Min(T \cup {i}) = Min(T)
              <8> DEFINE m == Min(T)
              <8>1. m \in T /\ \A j \in T : m <= j
                BY <7>1
              <8> HIDE DEF m
              <8>2. m \in Nat /\ i \in Nat /\ m < i
                BY <2>1, <6>2, <8>1
              <8>3. T \cup {i} \in SUBSET Nat /\ m \in T \cup {i}
                BY <6>2, <8>1, <8>2
              <8>4. \A j \in T \cup {i} : m <= j
                BY <8>1, <8>2
              <8> QED BY <8>3, <8>4, MinIs DEF m
            <7>3. Least0(T) = Min(T) /\ Least0(T \cup {i}) = Min(T) /\ Min(T) # 0
              BY <6>2, <6>5, <7>1, <7>2 DEF Least0
            <7> QED BY <5>1, <6>3, <7>3
          <6> QED BY <6>4, <6>5
        <5>4. CASE ~Dot(s, i, y, x)
          <6>1. B(i + 1, x) = B(i, x)
            BY <1>1, <1>3, <2>1, <5>4 DEF BestSoFar
          <6> QED BY <5>1, <5>2, <5>4, <6>1
        <5> QED BY <5>3, <5>4
      <4> QED BY <4>1, <4>2
    <3> HIDE DEF B, u
    <3>6. u.i \in 1..(L + 1) /\ u.num = Cardinality(Found(s, u.i, y))
      BY <1>1, <2>1, <2>3, <3>2, <3>3
    <3>7. \A x \in Columns : u.over[x] = Least0(B(u.i, x))
      BY <2>3, <3>5
    <3>8. u \in P
      BY <2>3, <3>6, <3>7
    <3> QED BY <3>8 DEF u
  <2> QED BY <2>4, <2>5
<1>7. P \in SUBSET Exam
  OBVIOUS
<1>8. PICK e \in P :
        /\ ~(e.i <= L /\ ~Full(e.num))
        /\ PreRenderSpriteLine(s) =
             [s EXCEPT !.sprites = e.over, !.first = (s.oamAddr \div SpriteSize) + 1,
                       !.overflow = @ \/ e.num > SpritesPerLine]
  <2> HIDE DEF P
  <2> QED BY <1>2, <1>5, <1>6, <1>7, SpritesExamined
<1>9. \A x \in Columns : e.over[x] = Foremost(s, y + 1, x)
  <2> TAKE x \in Columns
  <2>1. (y + 1) - 1 = y
    BY <1>1
  <2>2. At(s, y + 1, x) = {j \in Shown(s, y + 1) : Dot(s, j, y, x)}
    BY <2>1 DEF At
  <2>3. e.i \in 1..(L + 1) /\ e.num = Cardinality(Found(s, e.i, y)) /\ e.over[x] = Least0(B(e.i, x))
    BY Zenon
  <2>4. \A j \in Shown(s, y + 1) : j < e.i
    <3> SUFFICES ASSUME NEW j \in Shown(s, y + 1), ~(j < e.i) PROVE FALSE
      OBVIOUS
    <3>1. j \in 1..L /\ e.i <= j /\ e.i \in Nat \ {0}
      BY <1>1, <1>3, <2>3
    <3>2. Full(e.num)
      BY <1>1, <1>8, <2>3, <3>1
    <3>3. Cardinality(Found(s, e.i, y)) <= Cardinality(Found(s, j, y))
      BY <3>1, FoundGrows
    <3>4. Cardinality(Found(s, j, y)) \in Nat /\ e.num \in Nat
      BY <2>3, <3>1, FoundIs
    <3> QED BY <1>1, <1>3, <2>3, <3>1, <3>2, <3>3, <3>4 DEF Full
  <2>5. B(e.i, x) = At(s, y + 1, x)
    BY <2>2, <2>4 DEF BestSoFar
  <2> QED BY <2>3, <2>5 DEF Foremost, Least0
<1>10. e.over \in [Columns -> Nat]
  BY DEF Exam
<1> DEFINE overflow == s.overflow \/ e.num > SpritesPerLine
<1>11. overflow \in BOOLEAN
  OBVIOUS
<1>12. PreRenderSpriteLine(s) = [s EXCEPT !.sprites = e.over, !.first = 1, !.overflow = overflow]
  BY <1>2, <1>8
<1> HIDE DEF overflow
<1> QED BY <1>9, <1>10, <1>11, <1>12

LEMMA SpriteLineType ==
  ASSUME Given, NEW s \in States
  PROVE  \E over \in [Columns -> Nat], overflow \in BOOLEAN, first \in Nat \ {0} :
           PreRenderSpriteLine(s) =
             [s EXCEPT !.sprites = over, !.first = first, !.overflow = overflow]
<1> DEFINE begin == [i |-> (s.oamAddr \div SpriteSize) + 1, num |-> 0, over |-> NoSprites]
<1>1. s.oamAddr \div SpriteSize \in Nat
  <2>1. s.oamAddr \in Nat /\ SpriteSize \in Nat \ {0}
    BY StateFields, Sizes
  <2> QED BY <2>1, DivMod, Zenon
<1>2. begin \in Exam
  BY <1>1 DEF Exam, NoSprites
<1>3. Exam \in SUBSET Exam /\ \A e \in Exam : Examined(s, e) \in Exam
  BY ExaminedType
<1>4. PICK e \in Exam :
        PreRenderSpriteLine(s) =
          [s EXCEPT !.sprites = e.over, !.first = (s.oamAddr \div SpriteSize) + 1,
                    !.overflow = @ \/ e.num > SpritesPerLine]
  BY <1>2, <1>3, SpritesExamined
<1> DEFINE overflow == s.overflow \/ e.num > SpritesPerLine
           first == (s.oamAddr \div SpriteSize) + 1
<1>5. overflow \in BOOLEAN /\ first \in Nat \ {0} /\ e.over \in [Columns -> Nat]
  BY <1>1 DEF Exam
<1>6. PreRenderSpriteLine(s) = [s EXCEPT !.sprites = e.over, !.first = first, !.overflow = overflow]
  BY <1>4
<1> HIDE DEF overflow, first
<1> QED BY <1>5, <1>6

-----------------------------------------------------------------------------
(* The stages of a line. *)

LEMMA TileStageEndIs ==
  ASSUME NEW s \in States
  PROVE  /\ TileStageEnd(s) \in Nat /\ TileStageEnd(s) <= IncY /\ TileStageEnd(s) <= s.dot
         /\ s.lastDot < IncY /\ s.lastDot < s.dot => s.lastDot < TileStageEnd(s)
         /\ ~Toggling(s) => TileStageEnd(s) = Lesser(IncY, s.dot)
<1>1. s.dot \in Nat /\ s.lastDot \in Nat /\ s.toggle \in Nat /\ IncY \in Nat
  BY StateFields, Sizes
<1> QED BY <1>1 DEF TileStageEnd, Toggling, Lesser, ToggleDelay

\* How far the tiles are drawn before the beam gets to `end'.
AheadOf(end) == Lesser(((end + TileWidth - 1) \div TileWidth) + 2, LineTiles)

LEMMA AheadIs ==
  ASSUME NEW end \in Nat, end <= IncY
  PROVE  AheadOf(end) \in Nat /\ AheadOf(end) <= LineTiles /\ end <= AheadOf(end) * TileWidth
<1> DEFINE z == end + TileWidth - 1
           q == z \div TileWidth
           r == z % TileWidth
<1>1. TileWidth \in Nat \ {0} /\ LineTiles \in Nat \ {0} /\ IncY = LineTiles * TileWidth
  BY Sizes
<1>2. z \in Nat
  BY <1>1
<1>3. q \in Nat /\ r \in 0..(TileWidth - 1) /\ z = q * TileWidth + r
  <2> HIDE DEF z
  <2> QED BY <1>1, <1>2, DivMod, Zenon
<1>4. AheadOf(end) = Lesser(q + 2, LineTiles)
  BY DEF AheadOf
<1>5. z = end + TileWidth - 1
  OBVIOUS
<1> HIDE DEF q, r, z
<1>6. (q + 2) * TileWidth = q * TileWidth + 2 * TileWidth /\ q * TileWidth \in Nat
  BY <1>1, <1>3
<1>7. end <= (q + 2) * TileWidth
  BY <1>1, <1>3, <1>5, <1>6
<1> QED BY <1>1, <1>3, <1>4, <1>7 DEF Lesser

\* What one step draws.
LEMMA TilePixelsIs ==
  ASSUME Given, NEW s \in States
  PROVE  LET end == TileStageEnd(s)
         IN  \E d \in States :
               /\ OnlyDrawn(d, s)
               /\ TilePixels(s) =
                    [d EXCEPT !.spriteZero = @ \/ (d.hit # None /\ d.hit >= s.lastDot /\ d.hit < end),
                              !.lastDot = end]
               /\ RenderingEnabled(s) => d = RenderTiles(s, AheadOf(end))
               /\ s.lastTile <= LineTiles => d.lastTile <= LineTiles
<1> DEFINE end == TileStageEnd(s)
           C(x) == IF x \in s.lastDot..(end - 1) THEN Backdrop ELSE s.shown[x]
           blank == [x \in Columns |-> C(x)]
           d == IF RenderingEnabled(s) THEN RenderTiles(s, AheadOf(end)) ELSE NoRender(s, end)
<1>1. end \in Nat /\ end <= IncY
  BY TileStageEndIs
<1>2. AheadOf(end) \in Nat /\ AheadOf(end) <= LineTiles
  <2> HIDE DEF end
  <2> QED BY <1>1, AheadIs
<1>3. TilePixels(s) = [d EXCEPT !.spriteZero = @ \/ (d.hit # None /\ d.hit >= s.lastDot /\ d.hit < end),
                                !.lastDot = end]
  BY Zenon DEF TilePixels, AheadOf
<1>4. d \in States /\ OnlyDrawn(d, s) /\ (s.lastTile <= LineTiles => d.lastTile <= LineTiles)
  <2>1. CASE RenderingEnabled(s)
    <3> HIDE DEF end
    <3>1. d = RenderTiles(s, AheadOf(end))
      BY <2>1
    <3> QED BY <1>2, <3>1, TilesType
  <2>2. CASE ~RenderingEnabled(s)
    <3>1. d = [s EXCEPT !.shown = blank]
      BY <2>2 DEF NoRender
    <3>2. blank \in [Columns -> Int]
      <4>1. \A x \in Columns : C(x) \in Int
        BY StateFields DEF Backdrop
      <4> HIDE DEF C
      <4> QED BY <4>1
    <3> HIDE DEF blank, d
    <3>3. d \in States
      BY <3>1, <3>2 DEF States
    <3>4. OnlyDrawn(d, s)
      BY <3>1 DEF OnlyDrawn, States
    <3>5. d.lastTile = s.lastTile
      BY <3>1 DEF States
    <3> QED BY <3>3, <3>4, <3>5
  <2> QED BY <2>1, <2>2
<1>5. RenderingEnabled(s) => d = RenderTiles(s, AheadOf(end))
  OBVIOUS
<1> HIDE DEF d, end
<1> QED BY <1>3, <1>4, <1>5, Zenon DEF end

LEMMA SameMet ==
  ASSUME NEW s, NEW t, t.mask = s.mask, t.tall = s.tall, t.line = s.line
  PROVE  /\ MetBefore(t) <=> MetBefore(s)
         /\ t.lastTile = s.lastTile => Met(t) = Met(s)
<1>1. ASSUME NEW n, NEW x PROVE ZeroAt(t, n, x) <=> ZeroAt(s, n, x)
  BY SamePicture
<1>2. MetBefore(t) <=> MetBefore(s)
  BY <1>1 DEF MetBefore
<1>3. ASSUME t.lastTile = s.lastTile PROVE Met(t) = Met(s)
  <2>1. \A x \in Columns : x \in Met(t) <=> x \in Met(s)
    BY <1>1, <1>3 DEF Met
  <2>2. Met(t) \subseteq Columns /\ Met(s) \subseteq Columns
    BY DEF Met
  <2> QED BY <2>1, <2>2
<1> QED BY <1>2, <1>3

\* The beam has gone on, in the same line.
Onward(t, s) == t.line = s.line /\ t.dot = s.dot /\ s.lastDot < t.lastDot

LEMMA TilesStage ==
  ASSUME Given, NEW s \in States
  PROVE  LET t == TilePixels(s)
         IN  /\ t \in States
             /\ t.line = s.line /\ t.dot = s.dot /\ t.mask = s.mask /\ t.tall = s.tall
             /\ t.toggle = s.toggle /\ t.sprites = s.sprites /\ t.first = s.first
             /\ t.oamAddr = s.oamAddr /\ t.steady = s.steady /\ t.lastDot = TileStageEnd(s)
             /\ s.lastTile <= LineTiles => t.lastTile <= LineTiles
<1> DEFINE end == TileStageEnd(s)
           t == TilePixels(s)
<1>1. PICK d \in States :
        /\ OnlyDrawn(d, s)
        /\ t = [d EXCEPT !.spriteZero = @ \/ (d.hit # None /\ d.hit >= s.lastDot /\ d.hit < end),
                         !.lastDot = end]
        /\ s.lastTile <= LineTiles => d.lastTile <= LineTiles
  BY TilePixelsIs
<1> DEFINE zero == d.spriteZero \/ (d.hit # None /\ d.hit >= s.lastDot /\ d.hit < end)
<1>2. t = [d EXCEPT !.spriteZero = zero, !.lastDot = end] /\ zero \in BOOLEAN
  BY <1>1
<1>3. end \in Nat
  BY TileStageEndIs
<1> HIDE DEF t, zero, end
<1>4. t \in States
  BY <1>2, <1>3 DEF States
<1>5. /\ t.line = d.line /\ t.dot = d.dot /\ t.mask = d.mask /\ t.tall = d.tall
      /\ t.toggle = d.toggle /\ t.sprites = d.sprites /\ t.first = d.first
      /\ t.oamAddr = d.oamAddr /\ t.steady = d.steady /\ t.lastDot = end /\ t.lastTile = d.lastTile
  BY <1>2 DEF States
<1>6. /\ t.line = s.line /\ t.dot = s.dot /\ t.mask = s.mask /\ t.tall = s.tall
      /\ t.toggle = s.toggle /\ t.sprites = s.sprites /\ t.first = s.first
      /\ t.oamAddr = s.oamAddr /\ t.steady = s.steady
  BY <1>1, <1>5 DEF OnlyDrawn
<1> QED BY <1>1, <1>4, <1>5, <1>6 DEF t, end

\* The tiles of a line that nothing disturbs.
LEMMA TilesStageDraws ==
  ASSUME Given, NEW s \in States, s.lastDot < IncY, s.lastDot < s.dot, s.line < PostRenderLine,
         s.lastTile <= LineTiles, s.first >= 1, ~Toggling(s), MaskOn(s), Follows(s), InTiles(s)
  PROVE  Follows(TilePixels(s)) /\ InTiles(TilePixels(s))
<1> DEFINE end == TileStageEnd(s)
           t == TilePixels(s)
           ahead == AheadOf(end)
           r == RenderTiles(s, ahead)
<1>1. RenderingEnabled(s)
  BY DEF RenderingEnabled
<1>2. r \in States /\ OnlyDrawn(r, s) /\ ahead <= r.lastTile /\ r.lastTile <= LineTiles
      /\ end \in Nat /\ ahead \in Nat /\ end <= ahead * TileWidth /\ end <= IncY /\ end <= s.dot
      /\ s.lastDot < end /\ ahead <= LineTiles
  <2>1. end \in Nat /\ end <= IncY /\ end <= s.dot /\ s.lastDot < end
    BY TileStageEndIs
  <2> HIDE DEF end
  <2>2. ahead \in Nat /\ ahead <= LineTiles /\ end <= ahead * TileWidth
    BY <2>1, AheadIs
  <2> HIDE DEF ahead
  <2>3. r \in States /\ OnlyDrawn(r, s) /\ ahead <= r.lastTile /\ r.lastTile <= LineTiles
    BY <2>2, TilesType
  <2> QED BY <2>1, <2>2, <2>3
<1>3. t = [r EXCEPT !.spriteZero = @ \/ (r.hit # None /\ r.hit >= s.lastDot /\ r.hit < end),
                    !.lastDot = end]
  <2>1. \E d \in States :
          /\ t = [d EXCEPT !.spriteZero = @ \/ (d.hit # None /\ d.hit >= s.lastDot /\ d.hit < end),
                           !.lastDot = end]
          /\ RenderingEnabled(s) => d = r
    BY TilePixelsIs
  <2> HIDE DEF r, end, t
  <2> QED BY <1>1, <2>1
<1>4. s.lastDot \in Nat /\ s.line \in Nat /\ IncY \in Nat /\ TileWidth \in Nat /\ s.dot \in Nat
  BY StateFields, Sizes
<1>5. s.spriteZero <=> \E n \in 0..s.line, x \in Columns : ZeroAt(s, n, x) /\ (n < s.line \/ x < s.lastDot)
  BY DEF Follows
<1>6. TilesShown(s)
  <2>1. \A x \in Columns : x < s.lastTile * TileWidth => s.shown[x] = Pixel(s, s.line, x)
    BY DEF Follows
  <2>2. s.lastTile * TileWidth >= s.lastDot
    BY <1>4 DEF Follows, Lesser
  <2>3. s.lastTile * TileWidth \in Nat
    BY <1>4, StateFields
  <2>4. ASSUME s.spriteZero, ~MetBefore(s) PROVE Met(s) # {}
    <3>1. PICK n \in 0..s.line, x \in Columns : ZeroAt(s, n, x) /\ (n < s.line \/ x < s.lastDot)
      BY <1>5, <2>4
    <3>2. n = s.line
      BY <1>4, <2>4, <3>1 DEF MetBefore
    <3>3. x < s.lastTile * TileWidth
      <4> DEFINE k == s.lastTile * TileWidth
      <4>1. x < s.lastDot /\ k >= s.lastDot /\ k \in Nat
        BY <1>4, <2>2, <2>3, <3>1, <3>2
      <4> HIDE DEF k
      <4>2. x \in Nat /\ x < k
        BY <1>4, <4>1, Column
      <4> QED BY <4>2 DEF k
    <3> QED BY <3>1, <3>2, <3>3 DEF Met
  <2>5. ASSUME MetBefore(s) PROVE s.spriteZero
    BY <1>4, <1>5, <2>5 DEF MetBefore
  <2> QED BY <2>1, <2>4, <2>5 DEF TilesShown
<1>7. InTiles(r) /\ TilesShown(r)
  <2> HIDE DEF ahead
  <2> QED BY <1>2, <1>6, TilesKeep
<1>8. r.line = s.line /\ r.mask = s.mask /\ r.tall = s.tall /\ (r.spriteZero <=> s.spriteZero)
      /\ r.sprites = s.sprites /\ r.first = s.first
  BY <1>2 DEF OnlyDrawn
<1> DEFINE zero == r.spriteZero \/ (r.hit # None /\ r.hit >= s.lastDot /\ r.hit < end)
<1>9. t.line = r.line /\ t.mask = r.mask /\ t.tall = r.tall /\ t.sprites = r.sprites
      /\ t.first = r.first /\ t.cur = r.cur /\ t.lastTile = r.lastTile /\ t.hit = r.hit
      /\ t.shown = r.shown /\ t.lastDot = end /\ t.spriteZero = zero
  <2>1. t = [r EXCEPT !.spriteZero = zero, !.lastDot = end]
    BY <1>3
  <2> HIDE DEF r, t, zero, end
  <2> QED BY <1>2, <2>1 DEF States
<1> HIDE DEF r, t, end, ahead
<1>10. ASSUME NEW n, NEW x
       PROVE  /\ Foremost(t, n, x) = Foremost(r, n, x) /\ Pixel(t, n, x) = Pixel(r, n, x)
              /\ ZeroAt(t, n, x) <=> ZeroAt(s, n, x)
              /\ ZeroAt(r, n, x) <=> ZeroAt(s, n, x)
  <2>1. Foremost(t, n, x) = Foremost(r, n, x) /\ Pixel(t, n, x) = Pixel(r, n, x)
        /\ (ZeroAt(t, n, x) <=> ZeroAt(r, n, x))
    BY <1>9, SamePicture
  <2>2. ZeroAt(r, n, x) <=> ZeroAt(s, n, x)
    BY <1>8, SamePicture
  <2> QED BY <2>1, <2>2
<1>11. Met(t) = Met(r) /\ (MetBefore(t) <=> MetBefore(r)) /\ (MetBefore(r) <=> MetBefore(s))
  BY <1>8, <1>9, SameMet
<1>12. InTiles(t)
  <2>1. AtRow(t.cur, t.line) /\ t.cur.x = (tmp.x + t.lastTile) % (2 * LineTiles)
    BY <1>7, <1>9 DEF InTiles
  <2>2. \A x \in Columns : t.sprites[x] = Foremost(t, t.line, x)
    BY <1>7, <1>9, <1>10 DEF InTiles
  <2>3. t.line > 0 => t.first = 1
    BY <1>7, <1>9 DEF InTiles
  <2>4. t.hit = IF MetBefore(t) \/ Met(t) = {} THEN None ELSE Min(Met(t))
    BY <1>7, <1>9, <1>11 DEF InTiles
  <2> QED BY <2>1, <2>2, <2>3, <2>4 DEF InTiles
<1>13. r.lastTile \in Nat /\ end <= r.lastTile * TileWidth
  <2>1. r.lastTile \in Nat
    BY <1>2, StateFields
  <2>2. PICK e \in Nat : r.lastTile = ahead + e
    <3>1. r.lastTile - ahead \in Nat /\ r.lastTile = ahead + (r.lastTile - ahead)
      BY <1>2, <2>1
    <3> QED BY <3>1
  <2> DEFINE k == r.lastTile
  <2>3. k = ahead + e
    BY <2>2
  <2> HIDE DEF k
  <2>4. k * TileWidth = ahead * TileWidth + e * TileWidth /\ e * TileWidth \in Nat
        /\ ahead * TileWidth \in Nat
    BY <1>2, <1>4, <2>3
  <2>5. end <= k * TileWidth
    BY <1>2, <2>4
  <2> QED BY <2>1, <2>5 DEF k
<1>14. ASSUME NEW x \in Columns PROVE x \in Met(r) <=> x < r.lastTile * TileWidth /\ ZeroAt(s, s.line, x)
  BY <1>8, <1>10 DEF Met
<1>15. r.hit = IF MetBefore(s) \/ Met(r) = {} THEN None ELSE Min(Met(r))
  BY <1>7, <1>11 DEF InTiles
<1>16. zero <=> \E n \in 0..s.line, x \in Columns : ZeroAt(s, n, x) /\ (n < s.line \/ x < end)
  <2>1. ASSUME zero PROVE \E n \in 0..s.line, x \in Columns : ZeroAt(s, n, x) /\ (n < s.line \/ x < end)
    <3>1. CASE s.spriteZero
      <4>1. PICK n \in 0..s.line, x \in Columns : ZeroAt(s, n, x) /\ (n < s.line \/ x < s.lastDot)
        BY <1>5, <3>1
      <4>2. x < s.lastDot => x < end
        BY <1>2, <1>4, <4>1, Column
      <4> QED BY <4>1, <4>2
    <3>2. CASE ~s.spriteZero
      <4>1. r.hit # None /\ r.hit < end
        BY <1>8, <2>1, <3>2
      <4>2. r.hit = Min(Met(r)) /\ Met(r) # {}
        BY <1>15, <4>1
      <4>3. Min(Met(r)) \in Met(r)
        BY <4>2, MinOf, MetIn
      <4>4. r.hit \in Met(r) /\ Met(r) \subseteq Columns
        BY <4>2, <4>3 DEF Met
      <4>5. ZeroAt(s, s.line, r.hit)
        BY <1>14, <4>4
      <4>6. s.line \in 0..s.line
        BY <1>4
      <4> QED BY <4>1, <4>4, <4>5, <4>6
    <3> QED BY <3>1, <3>2
  <2>2. ASSUME NEW n \in 0..s.line, NEW x \in Columns, ZeroAt(s, n, x), n < s.line \/ x < end
        PROVE  zero
    <3>1. CASE MetBefore(s)
      <4>1. s.spriteZero
        BY <1>6, <3>1 DEF TilesShown
      <4> QED BY <1>8, <4>1
    <3>2. CASE ~MetBefore(s)
      <4>1. n = s.line /\ x < end
        BY <1>4, <2>2, <3>2 DEF MetBefore
      <4>2. x < r.lastTile * TileWidth
        <5> DEFINE k == r.lastTile * TileWidth
        <5>1. k \in Nat /\ end <= k
          BY <1>4, <1>13
        <5> HIDE DEF k
        <5>2. x < k
          BY <1>2, <4>1, <5>1, Column
        <5> QED BY <5>2 DEF k
      <4>3. x \in Met(r)
        BY <1>14, <2>2, <4>1, <4>2
      <4> DEFINE h == Min(Met(r))
      <4>4. h \in Met(r) /\ h <= x /\ h \in Nat
        BY <4>3, MinOf, MetIn
      <4>5. r.hit = h
        BY <1>15, <3>2, <4>3
      <4> HIDE DEF h
      <4>6. h \in Columns /\ ZeroAt(s, s.line, h)
        <5>1. h \in Columns
          BY <4>4 DEF Met
        <5> QED BY <1>14, <4>4, <5>1
      <4>7. h # None /\ h < end
        BY <1>2, <4>1, <4>4, Sizes, Column
      <4>8. CASE h >= s.lastDot
        BY <4>5, <4>7, <4>8
      <4>9. CASE h < s.lastDot
        <5>1. s.line \in 0..s.line
          BY <1>4
        <5>2. s.spriteZero
          BY <1>5, <4>6, <4>9, <5>1
        <5> QED BY <1>8, <5>2
      <4> QED BY <1>4, <4>4, <4>8, <4>9
    <3> QED BY <3>1, <3>2
  <2> HIDE DEF zero
  <2> QED BY <2>1, <2>2
<1>17. Follows(t)
  <2>1. \A x \in Columns :
          x < t.lastTile * TileWidth \/ t.lastDot > IncY => t.shown[x] = Pixel(t, t.line, x)
    BY <1>2, <1>4, <1>7, <1>9, <1>10 DEF TilesShown
  <2>2. t.lastTile * TileWidth >= Lesser(t.lastDot, IncY)
    <3>1. Lesser(t.lastDot, IncY) = end
      BY <1>2, <1>4, <1>9 DEF Lesser
    <3> DEFINE k == r.lastTile * TileWidth
    <3>2. k \in Nat /\ end <= k
      BY <1>4, <1>13
    <3> HIDE DEF k
    <3>3. k >= end
      BY <1>2, <3>2
    <3> QED BY <1>9, <3>1, <3>3 DEF k
  <2>3. t.spriteZero <=> \E n \in 0..t.line, x \in Columns :
                           ZeroAt(t, n, x) /\ (n < t.line \/ x < t.lastDot)
    <3> HIDE DEF zero
    <3> QED BY <1>8, <1>9, <1>10, <1>16
  <2> QED BY <2>1, <2>2, <2>3 DEF Follows
<1> QED BY <1>12, <1>17 DEF t

LEMMA IncYType ==
  ASSUME NEW a \in Address
  PROVE  IRegIncY(a) \in Address /\ IRegIncY(a).x = a.x
<1>1. FineRows \in Nat \ {0} /\ TileRows \in Nat \ {0}
  BY Sizes
<1>2. a.fineY \in 0..(FineRows - 1) /\ a.tileY \in 0..(TileRows - 1) /\ a.ntY \in {0, 1}
  BY AddressFields
<1> DEFINE tile == (a.tileY + 1) % TileRows
<1>3. tile \in 0..(TileRows - 1)
  <2>1. a.tileY + 1 \in Nat
    BY <1>1, <1>2
  <2> QED BY <1>1, <2>1, DivMod, Zenon
<1>4. IRegIncY(a) = IF a.fineY + 1 < FineRows THEN [a EXCEPT !.fineY = @ + 1]
                    ELSE IF tile = FrameRows THEN [a EXCEPT !.fineY = 0, !.tileY = 0, !.ntY = 1 - @]
                    ELSE [a EXCEPT !.fineY = 0, !.tileY = tile]
  BY Zenon DEF IRegIncY
<1> HIDE DEF tile
<1>5. CASE a.fineY + 1 < FineRows
  <2>1. IRegIncY(a) = [a EXCEPT !.fineY = @ + 1]
    BY <1>4, <1>5
  <2>2. a.fineY + 1 \in 0..(FineRows - 1)
    BY <1>1, <1>2, <1>5
  <2> QED BY <2>1, <2>2 DEF Address
<1>6. CASE ~(a.fineY + 1 < FineRows) /\ tile = FrameRows
  <2>1. IRegIncY(a) = [a EXCEPT !.fineY = 0, !.tileY = 0, !.ntY = 1 - @]
    BY <1>4, <1>6
  <2>2. 1 - a.ntY \in {0, 1} /\ 0 \in 0..(FineRows - 1) /\ 0 \in 0..(TileRows - 1)
    BY <1>1, <1>2
  <2> QED BY <2>1, <2>2 DEF Address
<1>7. CASE ~(a.fineY + 1 < FineRows) /\ tile # FrameRows
  <2>1. IRegIncY(a) = [a EXCEPT !.fineY = 0, !.tileY = tile]
    BY <1>4, <1>7
  <2>2. 0 \in 0..(FineRows - 1)
    BY <1>1
  <2> QED BY <1>3, <2>1, <2>2 DEF Address
<1> QED BY <1>5, <1>6, <1>7

\* The stage behind the tiles: the row below and its sprites.
SpriteStage(s) ==
  LET t == IF RenderingEnabled(s) THEN [PreRenderSpriteLine(s) EXCEPT !.cur = IRegIncY(@)] ELSE s
  IN  [t EXCEPT !.lastTile = 0, !.hit = None, !.lastDot = @ + 1]

\* The stage that takes the column of the scroll position.
AssignXStage(s) ==
  LET t == IF RenderingEnabled(s) THEN [s EXCEPT !.cur.x = tmp.x, !.oamAddr = 0] ELSE s
  IN  [t EXCEPT !.lastDot = @ + 1]

RestStage(s) == [IF s.lastDot <= OamZeroEnd THEN ResetOAMAddr(s) ELSE s EXCEPT !.lastDot = s.dot]

LEMMA VisibleStages ==
  ASSUME NEW s \in States
  PROVE  /\ s.lastDot < IncY => VisibleStage(s) = TilePixels(s)
         /\ s.lastDot = IncY => VisibleStage(s) = SpriteStage(s)
         /\ s.lastDot = AssignX => VisibleStage(s) = AssignXStage(s)
         /\ s.lastDot > AssignX => VisibleStage(s) = RestStage(s)
         /\ s.lastDot < IncY \/ s.lastDot = IncY \/ s.lastDot = AssignX \/ s.lastDot > AssignX
<1>1. s.lastDot \in Nat /\ IncY \in Nat /\ AssignX = IncY + 1
  BY StateFields, Sizes
<1>2. VisibleStage(s) =
        CASE s.lastDot < IncY -> TilePixels(s)
          [] s.lastDot = IncY -> SpriteStage(s)
          [] s.lastDot = AssignX -> AssignXStage(s)
          [] OTHER -> RestStage(s)
  BY DEF VisibleStage, SpriteStage, AssignXStage, RestStage
<1> QED BY <1>1, <1>2

\* What a stage may do without drawing: the line, the dot, the mask and the toggle stay.
Calmly(t, s) ==
  /\ t \in States /\ t.line = s.line /\ t.dot = s.dot /\ t.mask = s.mask /\ t.tall = s.tall
  /\ t.toggle = s.toggle /\ (s.oamAddr = 0 => t.oamAddr = 0) /\ (s.first >= 1 => t.first >= 1)

LEMMA SpriteStageIs ==
  ASSUME Given, NEW s \in States
  PROVE  LET t == SpriteStage(s)
         IN  /\ Calmly(t, s) /\ t.steady = s.steady /\ t.lastDot = s.lastDot + 1
             /\ t.lastTile = 0 /\ t.hit = None /\ t.spriteZero = s.spriteZero /\ t.shown = s.shown
             /\ RenderingEnabled(s) /\ s.oamAddr = 0 =>
                  /\ t.cur = IRegIncY(s.cur) /\ t.first = 1
                  /\ \A x \in Columns : t.sprites[x] = Foremost(s, s.line + 1, x)
<1> DEFINE t == SpriteStage(s)
<1>1. s.lastDot + 1 \in Nat /\ s.cur \in Address /\ IRegIncY(s.cur) \in Address
  BY StateFields, IncYType
<1>2. CASE ~RenderingEnabled(s)
  <2>1. t = [s EXCEPT !.lastTile = 0, !.hit = None, !.lastDot = @ + 1]
    BY <1>2 DEF SpriteStage
  <2> HIDE DEF t
  <2>2. t \in States
    BY <1>1, <2>1 DEF States
  <2>3. /\ t.line = s.line /\ t.dot = s.dot /\ t.mask = s.mask /\ t.tall = s.tall
        /\ t.toggle = s.toggle /\ t.oamAddr = s.oamAddr /\ t.first = s.first /\ t.steady = s.steady
        /\ t.lastDot = s.lastDot + 1 /\ t.lastTile = 0 /\ t.hit = None
        /\ t.spriteZero = s.spriteZero /\ t.shown = s.shown
    BY <2>1 DEF States
  <2> QED BY <1>2, <2>2, <2>3 DEF t, Calmly
<1>3. ASSUME RenderingEnabled(s), NEW over \in [Columns -> Nat], NEW overflow \in BOOLEAN,
             NEW first \in Nat \ {0},
             PreRenderSpriteLine(s) = [s EXCEPT !.sprites = over, !.first = first, !.overflow = overflow]
      PROVE  /\ Calmly(t, s) /\ t.steady = s.steady /\ t.lastDot = s.lastDot + 1
             /\ t.lastTile = 0 /\ t.hit = None /\ t.spriteZero = s.spriteZero /\ t.shown = s.shown
             /\ t.cur = IRegIncY(s.cur) /\ t.first = first /\ t.sprites = over
  <2> DEFINE p == PreRenderSpriteLine(s)
             u == [p EXCEPT !.cur = IRegIncY(@)]
  <2>1. t = [u EXCEPT !.lastTile = 0, !.hit = None, !.lastDot = @ + 1]
    BY <1>3 DEF SpriteStage
  <2>2. p \in States /\ p.cur = s.cur /\ p.lastDot = s.lastDot
    BY <1>3 DEF States
  <2>3. /\ p.line = s.line /\ p.dot = s.dot /\ p.mask = s.mask /\ p.tall = s.tall
        /\ p.toggle = s.toggle /\ p.oamAddr = s.oamAddr /\ p.first = first /\ p.steady = s.steady
        /\ p.spriteZero = s.spriteZero /\ p.shown = s.shown /\ p.sprites = over
    BY <1>3 DEF States
  <2>4. u = [p EXCEPT !.cur = IRegIncY(p.cur)]
    BY <2>2 DEF States
  <2> HIDE DEF p, u, t
  <2>5. u \in States /\ u.cur = IRegIncY(s.cur) /\ u.lastDot = s.lastDot
    BY <1>1, <2>2, <2>4 DEF States
  <2>6. /\ u.line = s.line /\ u.dot = s.dot /\ u.mask = s.mask /\ u.tall = s.tall
        /\ u.toggle = s.toggle /\ u.oamAddr = s.oamAddr /\ u.first = first /\ u.steady = s.steady
        /\ u.spriteZero = s.spriteZero /\ u.shown = s.shown /\ u.sprites = over
    BY <2>2, <2>3, <2>4 DEF States
  <2>7. t = [u EXCEPT !.lastTile = 0, !.hit = None, !.lastDot = s.lastDot + 1]
    BY <2>1, <2>5 DEF States
  <2>8. t \in States /\ t.lastDot = s.lastDot + 1 /\ t.lastTile = 0 /\ t.hit = None
    BY <1>1, <2>5, <2>7 DEF States
  <2>9. /\ t.line = s.line /\ t.dot = s.dot /\ t.mask = s.mask /\ t.tall = s.tall
        /\ t.toggle = s.toggle /\ t.oamAddr = s.oamAddr /\ t.first = first /\ t.steady = s.steady
        /\ t.spriteZero = s.spriteZero /\ t.shown = s.shown /\ t.sprites = over /\ t.cur = IRegIncY(s.cur)
    BY <2>5, <2>6, <2>7 DEF States
  <2> QED BY <2>8, <2>9 DEF Calmly
<1>4. CASE RenderingEnabled(s)
  <2>1. CASE s.oamAddr = 0
    <3>1. PICK over \in [Columns -> Nat], overflow \in BOOLEAN :
            /\ PreRenderSpriteLine(s) = [s EXCEPT !.sprites = over, !.first = 1, !.overflow = overflow]
            /\ \A x \in Columns : over[x] = Foremost(s, s.line + 1, x)
      BY <2>1, SpritesForemost
    <3>2. 1 \in Nat \ {0}
      OBVIOUS
    <3> HIDE DEF t
    <3>3. /\ Calmly(t, s) /\ t.steady = s.steady /\ t.lastDot = s.lastDot + 1
          /\ t.lastTile = 0 /\ t.hit = None /\ t.spriteZero = s.spriteZero /\ t.shown = s.shown
          /\ t.cur = IRegIncY(s.cur) /\ t.first = 1 /\ t.sprites = over
      BY <1>3, <1>4, <3>1, <3>2
    <3> QED BY <3>1, <3>3 DEF t
  <2>2. CASE s.oamAddr # 0
    <3>1. PICK over \in [Columns -> Nat], overflow \in BOOLEAN, first \in Nat \ {0} :
            PreRenderSpriteLine(s) = [s EXCEPT !.sprites = over, !.first = first, !.overflow = overflow]
      BY SpriteLineType
    <3> HIDE DEF t
    <3>2. /\ Calmly(t, s) /\ t.steady = s.steady /\ t.lastDot = s.lastDot + 1
          /\ t.lastTile = 0 /\ t.hit = None /\ t.spriteZero = s.spriteZero /\ t.shown = s.shown
      BY <1>3, <1>4, <3>1
    <3> QED BY <2>2, <3>2 DEF t
  <2> QED BY <2>1, <2>2
<1> QED BY <1>2, <1>4

\* Behind the tiles the line is as it was drawn.
LEMMA FollowsOn ==
  ASSUME Given, NEW s \in States, s.lastDot >= IncY, Follows(s), NEW t, t.mask = s.mask,
         t.tall = s.tall, t.line = s.line, t.spriteZero = s.spriteZero, t.shown = s.shown,
         t.lastDot \in Nat, t.lastDot > IncY
  PROVE  Follows(t)
<1>1. s.lastDot \in Nat /\ IncY \in Nat /\ s.lastTile \in Nat /\ TileWidth \in Nat \ {0}
  BY StateFields, Sizes
<1>2. ASSUME NEW n, NEW x
      PROVE  Pixel(t, n, x) = Pixel(s, n, x) /\ (ZeroAt(t, n, x) <=> ZeroAt(s, n, x))
  BY SamePicture
<1>3. \A x \in Columns : t.shown[x] = Pixel(t, t.line, x)
  <2> TAKE x \in Columns
  <2>1. x < s.lastTile * TileWidth \/ s.lastDot > IncY
    <3> DEFINE k == s.lastTile * TileWidth
    <3>1. k \in Nat /\ (k >= Lesser(s.lastDot, IncY) \/ s.lastDot > IncY)
      BY <1>1 DEF Follows
    <3> HIDE DEF k
    <3>2. x < k \/ s.lastDot > IncY
      BY <1>1, <3>1, Column DEF Lesser
    <3> QED BY <3>2 DEF k
  <2>2. s.shown[x] = Pixel(s, s.line, x)
    BY <2>1 DEF Follows
  <2> QED BY <1>2, <2>2
<1>4. t.lastTile * TileWidth >= Lesser(t.lastDot, IncY) \/ t.lastDot > IncY
  OBVIOUS
<1>5. \A x \in Columns : x < s.lastDot /\ x < t.lastDot
  BY <1>1, Column
<1>6. t.spriteZero <=> \E n \in 0..t.line, x \in Columns :
                         ZeroAt(t, n, x) /\ (n < t.line \/ x < t.lastDot)
  <2>1. s.spriteZero <=> \E n \in 0..s.line, x \in Columns :
                           ZeroAt(s, n, x) /\ (n < s.line \/ x < s.lastDot)
    BY DEF Follows
  <2> QED BY <1>2, <1>5, <2>1
<1> QED BY <1>3, <1>4, <1>6 DEF Follows

LEMMA SpriteStageKeeps ==
  ASSUME Given, NEW s, RenderedOK(s), s.line < PostRenderLine, s.lastDot = IncY, s.lastDot < s.dot
  PROVE  RenderedOK(SpriteStage(s)) /\ Onward(SpriteStage(s), s)
<1> DEFINE t == SpriteStage(s)
<1>1. s \in States /\ s.lastTile <= LineTiles /\ s.first >= 1
  BY DEF RenderedOK, Placed
<1>2. s.line \in Nat /\ s.dot \in Nat /\ IncY \in Nat /\ {PostRenderLine, PreRenderLine} \subseteq Nat
      /\ PostRenderLine < PreRenderLine /\ AssignX = IncY + 1 /\ LineTiles \in Nat
  BY <1>1, StateFields, Sizes
<1>3. /\ t \in States /\ t.line = s.line /\ t.dot = s.dot /\ t.mask = s.mask /\ t.tall = s.tall
      /\ t.toggle = s.toggle /\ (s.oamAddr = 0 => t.oamAddr = 0) /\ t.first >= 1
      /\ t.steady = s.steady /\ t.lastDot = s.lastDot + 1
      /\ t.lastTile = 0 /\ t.hit = None /\ t.spriteZero = s.spriteZero /\ t.shown = s.shown
  BY <1>1, SpriteStageIs DEF Calmly
<1>4. ASSUME RenderingEnabled(s), s.oamAddr = 0
      PROVE  /\ t.cur = IRegIncY(s.cur) /\ t.first = 1
             /\ \A x \in Columns : t.sprites[x] = Foremost(s, s.line + 1, x)
  BY <1>1, <1>4, SpriteStageIs
<1> HIDE DEF t
<1>5. Onward(t, s)
  BY <1>2, <1>3 DEF Onward
<1>6. Placed(t)
  BY <1>2, <1>3 DEF Placed
<1>7. Swept(t) /\ Cleared(t)
  BY <1>2, <1>3 DEF Swept, Cleared
<1>8. Calm(t)
  BY <1>2, <1>3 DEF RenderedOK, Calm, MaskOn
<1>9. Draws(t)
  <2> SUFFICES ASSUME s.steady, tmp.tileY < FrameRows PROVE Follows(t) /\ BehindTiles(t)
    BY <1>2, <1>3 DEF Draws
  <2>1. Follows(s) /\ InTiles(s)
    BY <1>2 DEF RenderedOK, Draws
  <2>2. MaskOn(s) /\ s.oamAddr = 0 /\ s.toggle = 0
    BY <1>2 DEF RenderedOK, Calm
  <2>3. RenderingEnabled(s)
    BY <2>2 DEF RenderingEnabled, Toggling
  <2>4. Follows(t)
    BY <1>1, <1>2, <1>3, <2>1, FollowsOn
  <2>5. AtRow(t.cur, t.line + 1)
    <3>1. AtRow(s.cur, s.line) /\ s.cur \in Address
      BY <1>1, <2>1, StateFields DEF InTiles
    <3> QED BY <1>2, <1>3, <1>4, <2>2, <2>3, <3>1, RowBelow
  <2>6. ASSUME NEW n, NEW x PROVE Foremost(t, n, x) = Foremost(s, n, x)
    BY <1>3, SamePicture
  <2>7. \A x \in Columns : t.sprites[x] = Foremost(t, t.line + 1, x)
    BY <1>3, <1>4, <2>2, <2>3, <2>6
  <2>8. ~(t.lastDot > AssignX)
    BY <1>2, <1>3
  <2> QED BY <1>4, <2>2, <2>3, <2>4, <2>5, <2>7, <2>8 DEF BehindTiles
<1> QED BY <1>5, <1>6, <1>7, <1>8, <1>9 DEF RenderedOK, t

LEMMA TilesStageKeeps ==
  ASSUME Given, NEW s, RenderedOK(s), s.line < PostRenderLine, s.lastDot < IncY, s.lastDot < s.dot
  PROVE  RenderedOK(TilePixels(s)) /\ Onward(TilePixels(s), s)
<1> DEFINE t == TilePixels(s)
<1>1. s \in States /\ s.lastTile <= LineTiles /\ s.first >= 1
  BY DEF RenderedOK, Placed
<1>2. s.line \in Nat /\ s.dot \in Nat /\ IncY \in Nat /\ {PostRenderLine, PreRenderLine} \subseteq Nat
      /\ PostRenderLine < PreRenderLine /\ AssignX = IncY + 1 /\ LineTiles \in Nat
  BY <1>1, StateFields, Sizes
<1>3. /\ t \in States /\ t.line = s.line /\ t.dot = s.dot /\ t.mask = s.mask /\ t.tall = s.tall
      /\ t.toggle = s.toggle /\ t.oamAddr = s.oamAddr /\ t.first = s.first
      /\ t.steady = s.steady /\ t.lastTile <= LineTiles
      /\ t.lastDot \in Nat /\ t.lastDot <= IncY /\ s.lastDot < t.lastDot /\ t.lastDot <= t.dot
  <2>1. /\ t \in States /\ t.line = s.line /\ t.dot = s.dot /\ t.mask = s.mask /\ t.tall = s.tall
        /\ t.toggle = s.toggle /\ t.oamAddr = s.oamAddr /\ t.first = s.first
        /\ t.steady = s.steady /\ t.lastTile <= LineTiles /\ t.lastDot = TileStageEnd(s)
    BY <1>1, TilesStage
  <2> QED BY <1>1, <2>1, TileStageEndIs
<1> HIDE DEF t
<1>4. Onward(t, s)
  BY <1>3 DEF Onward
<1>5. Placed(t)
  BY <1>1, <1>2, <1>3 DEF Placed
<1>6. Swept(t) /\ Cleared(t)
  BY <1>2, <1>3 DEF Swept, Cleared
<1>7. Calm(t)
  BY <1>2, <1>3 DEF RenderedOK, Calm, MaskOn
<1>8. Draws(t)
  <2> SUFFICES ASSUME s.steady, tmp.tileY < FrameRows PROVE Follows(t) /\ InTiles(t)
    BY <1>2, <1>3 DEF Draws
  <2>1. Follows(s) /\ InTiles(s)
    BY <1>1, <1>2, StateFields DEF RenderedOK, Draws
  <2>2. MaskOn(s) /\ s.toggle = 0
    BY <1>2 DEF RenderedOK, Calm
  <2>3. ~Toggling(s)
    BY <2>2 DEF Toggling
  <2> QED BY <1>1, <2>1, <2>2, <2>3, TilesStageDraws DEF t
<1> QED BY <1>4, <1>5, <1>6, <1>7, <1>8 DEF RenderedOK, t

\* The two stages behind it.
LEMMA LateStageIs ==
  ASSUME Given, NEW s \in States, s.line < PostRenderLine, s.lastDot < s.dot, s.lastDot >= AssignX
  PROVE  LET t == VisibleStage(s)
         IN  /\ Calmly(t, s) /\ t.steady = s.steady /\ s.lastDot < t.lastDot /\ t.lastDot <= s.dot
             /\ t.lastTile = s.lastTile /\ t.hit = s.hit /\ t.spriteZero = s.spriteZero
             /\ t.shown = s.shown /\ t.sprites = s.sprites /\ t.first = s.first
             /\ t.cur.ntY = s.cur.ntY /\ t.cur.tileY = s.cur.tileY /\ t.cur.fineY = s.cur.fineY
             /\ s.lastDot = AssignX /\ RenderingEnabled(s) => t.cur.x = tmp.x
             /\ s.lastDot > AssignX => t.cur = s.cur
<1> DEFINE t == VisibleStage(s)
<1>1. s.lastDot \in Nat /\ s.dot \in Nat /\ s.cur \in Address /\ tmp.x \in 0..(2 * LineTiles - 1)
      /\ 0 \in 0..(OamSize - 1) /\ AssignX \in Nat
  BY StateFields, Sizes, Types
<1>2. CASE s.lastDot = AssignX
  <2>1. t = AssignXStage(s)
    BY <1>2, VisibleStages
  <2>2. CASE RenderingEnabled(s)
    <3> DEFINE cur == [s.cur EXCEPT !.x = tmp.x]
    <3>1. t = [s EXCEPT !.cur = cur, !.oamAddr = 0, !.lastDot = s.lastDot + 1]
      BY <2>1, <2>2 DEF AssignXStage, States
    <3>2. cur \in Address /\ cur.x = tmp.x /\ cur.ntY = s.cur.ntY /\ cur.tileY = s.cur.tileY
          /\ cur.fineY = s.cur.fineY
      BY <1>1 DEF Address
    <3> HIDE DEF cur, t
    <3>3. t \in States
      <4>1. cur \in Address /\ 0 \in 0..(OamSize - 1) /\ s.lastDot + 1 \in Nat
        BY <1>1, <3>2
      <4> QED BY <3>1, <4>1 DEF States
    <3>4. /\ t.line = s.line /\ t.dot = s.dot /\ t.mask = s.mask /\ t.tall = s.tall
          /\ t.toggle = s.toggle /\ t.oamAddr = 0 /\ t.first = s.first
          /\ t.steady = s.steady /\ t.lastDot = s.lastDot + 1
          /\ t.lastTile = s.lastTile /\ t.hit = s.hit /\ t.spriteZero = s.spriteZero
          /\ t.shown = s.shown /\ t.sprites = s.sprites /\ t.cur = cur
      BY <3>1 DEF States
    <3> QED BY <1>1, <1>2, <3>2, <3>3, <3>4 DEF t, Calmly
  <2>3. CASE ~RenderingEnabled(s)
    <3>1. t = [s EXCEPT !.lastDot = s.lastDot + 1]
      BY <2>1, <2>3 DEF AssignXStage, States
    <3> HIDE DEF t
    <3>2. t \in States
      BY <1>1, <3>1 DEF States
    <3>3. /\ t.line = s.line /\ t.dot = s.dot /\ t.mask = s.mask /\ t.tall = s.tall
          /\ t.toggle = s.toggle /\ t.oamAddr = s.oamAddr /\ t.first = s.first
          /\ t.steady = s.steady /\ t.lastDot = s.lastDot + 1
          /\ t.lastTile = s.lastTile /\ t.hit = s.hit /\ t.spriteZero = s.spriteZero
          /\ t.shown = s.shown /\ t.sprites = s.sprites /\ t.cur = s.cur
      BY <3>1 DEF States
    <3> QED BY <1>1, <1>2, <2>3, <3>2, <3>3 DEF t, Calmly
  <2> QED BY <2>2, <2>3
<1>3. CASE s.lastDot > AssignX
  <2>1. t = RestStage(s)
    BY <1>3, VisibleStages
  <2> DEFINE addr == IF s.lastDot <= OamZeroEnd /\ MaskOn(s) THEN 0 ELSE s.oamAddr
  <2>2. t = [s EXCEPT !.oamAddr = addr, !.lastDot = s.dot]
    <3>1. CASE s.lastDot <= OamZeroEnd
      BY <2>1, <3>1 DEF RestStage, ResetOAMAddr, States
    <3>2. CASE ~(s.lastDot <= OamZeroEnd)
      BY <2>1, <3>2 DEF RestStage, States
    <3> QED BY <3>1, <3>2
  <2>3. addr \in 0..(OamSize - 1) /\ (s.oamAddr = 0 => addr = 0)
    BY <1>1, StateFields
  <2> HIDE DEF addr, t
  <2>4. t \in States
    BY <1>1, <2>2, <2>3 DEF States
  <2>5. /\ t.line = s.line /\ t.dot = s.dot /\ t.mask = s.mask /\ t.tall = s.tall
        /\ t.toggle = s.toggle /\ t.oamAddr = addr /\ t.first = s.first
        /\ t.steady = s.steady /\ t.lastDot = s.dot
        /\ t.lastTile = s.lastTile /\ t.hit = s.hit /\ t.spriteZero = s.spriteZero
        /\ t.shown = s.shown /\ t.sprites = s.sprites /\ t.cur = s.cur
    BY <2>2 DEF States
  <2> QED BY <1>1, <1>3, <2>3, <2>4, <2>5 DEF t, Calmly
<1> QED BY <1>1, <1>2, <1>3

LEMMA LateStageKeeps ==
  ASSUME Given, NEW s, RenderedOK(s), s.line < PostRenderLine, s.lastDot >= AssignX, s.lastDot < s.dot
  PROVE  RenderedOK(VisibleStage(s)) /\ Onward(VisibleStage(s), s)
<1> DEFINE t == VisibleStage(s)
<1>1. s \in States /\ s.lastTile <= LineTiles /\ s.first >= 1
  BY DEF RenderedOK, Placed
<1>2. s.line \in Nat /\ s.dot \in Nat /\ IncY \in Nat /\ {PostRenderLine, PreRenderLine} \subseteq Nat
      /\ PostRenderLine < PreRenderLine /\ AssignX = IncY + 1 /\ LineTiles \in Nat /\ s.lastDot \in Nat
  BY <1>1, StateFields, Sizes
<1>3. /\ t \in States /\ t.line = s.line /\ t.dot = s.dot /\ t.mask = s.mask /\ t.tall = s.tall
      /\ t.toggle = s.toggle /\ (s.oamAddr = 0 => t.oamAddr = 0) /\ t.first = s.first
      /\ t.steady = s.steady /\ s.lastDot < t.lastDot /\ t.lastDot <= t.dot
      /\ t.lastTile = s.lastTile /\ t.hit = s.hit /\ t.spriteZero = s.spriteZero
      /\ t.shown = s.shown /\ t.sprites = s.sprites
      /\ t.cur.ntY = s.cur.ntY /\ t.cur.tileY = s.cur.tileY /\ t.cur.fineY = s.cur.fineY
  BY <1>1, LateStageIs DEF Calmly
<1>4. /\ s.lastDot = AssignX /\ RenderingEnabled(s) => t.cur.x = tmp.x
      /\ s.lastDot > AssignX => t.cur = s.cur
  BY <1>1, LateStageIs
<1> HIDE DEF t
<1>5. t.lastDot \in Nat
  BY <1>3, StateFields
<1>6. Onward(t, s)
  BY <1>3 DEF Onward
<1>7. Placed(t)
  BY <1>1, <1>2, <1>3 DEF Placed
<1>8. Swept(t) /\ Cleared(t)
  BY <1>2, <1>3 DEF RenderedOK, Swept, Cleared
<1>9. Calm(t)
  BY <1>2, <1>3 DEF RenderedOK, Calm, MaskOn
<1>10. Draws(t)
  <2> SUFFICES ASSUME s.steady, tmp.tileY < FrameRows PROVE Follows(t) /\ BehindTiles(t)
    BY <1>2, <1>3, <1>5 DEF Draws
  <2>1. Follows(s) /\ BehindTiles(s)
    BY <1>2 DEF RenderedOK, Draws
  <2>2. MaskOn(s) /\ s.toggle = 0
    BY <1>2 DEF RenderedOK, Calm
  <2>3. RenderingEnabled(s)
    BY <2>2 DEF RenderingEnabled, Toggling
  <2>4. s.lastDot >= IncY /\ t.lastDot > IncY
    BY <1>2, <1>3, <1>5
  <2>5. Follows(t)
    BY <1>1, <1>3, <1>5, <2>1, <2>4, FollowsOn
  <2>6. AtRow(t.cur, t.line + 1)
    BY <1>3, <2>1 DEF BehindTiles, AtRow
  <2>7. t.cur.x = tmp.x
    BY <1>2, <1>4, <2>1, <2>3, Sizes DEF BehindTiles
  <2>8. ASSUME NEW n, NEW x PROVE Foremost(t, n, x) = Foremost(s, n, x)
    BY <1>3, SamePicture
  <2>9. \A x \in Columns : t.sprites[x] = Foremost(t, t.line + 1, x)
    BY <1>3, <2>1, <2>8 DEF BehindTiles
  <2> QED BY <1>3, <2>1, <2>5, <2>6, <2>7, <2>9 DEF BehindTiles
<1> QED BY <1>6, <1>7, <1>8, <1>9, <1>10 DEF RenderedOK, t

-----------------------------------------------------------------------------
(* The pre-render line. *)

\* What a stage of it does.
PreRendered(t, s) ==
  /\ t \in States /\ t.line = s.line /\ t.mask = s.mask /\ t.tall = s.tall /\ t.toggle = s.toggle
  /\ t.first = s.first /\ t.lastTile = s.lastTile /\ t.hit = s.hit /\ t.shown = s.shown
  /\ s.oamAddr = 0 => t.oamAddr = 0
  /\ s.lastDot < t.lastDot /\ t.lastDot <= t.dot
  /\ t.dot = s.dot \/ (s.lastDot = OddSkipDot /\ t.dot = s.dot + 1 /\ t.lastDot = t.dot)
  /\ s.lastDot = 0 => t.lastDot = 1
  /\ s.lastDot = 1 => t.sprites = NoSprites /\ ~t.spriteZero
  /\ s.lastDot > 1 => t.sprites = s.sprites /\ t.spriteZero = s.spriteZero
  /\ s.lastDot < AssignYBegin => t.lastDot <= AssignYBegin /\ t.steady = s.steady
  /\ s.lastDot \in AssignYBegin..AssignYEnd =>
       IF MaskOn(s) THEN t.steady => t.cur = tmp /\ t.oamAddr = 0 ELSE t.steady = s.steady
  /\ s.lastDot > AssignYEnd => t.steady = s.steady /\ t.cur = s.cur

LEMMA PreRenderStages ==
  ASSUME Given, NEW s \in States, s.lastDot < s.dot
  PROVE  PreRendered(PreRenderStage(s), s)
<1> DEFINE t == PreRenderStage(s)
<1> SUFFICES PreRendered(t, s)
  OBVIOUS
<1>1. s.lastDot \in Nat /\ s.dot \in Nat /\ s.cur \in Address /\ 0 \in 0..(OamSize - 1)
      /\ s.oamAddr \in 0..(OamSize - 1)
  BY StateFields, Sizes
<1>2. /\ {IncY, AssignX, AssignYBegin, AssignYEnd, OamZeroEnd, OddSkipDot} \subseteq Nat
      /\ 0 < IncY /\ AssignX = IncY + 1 /\ AssignX < AssignYBegin /\ AssignYBegin <= AssignYEnd
      /\ AssignYEnd < OamZeroEnd /\ OamZeroEnd < OddSkipDot
  BY Sizes
<1> DEFINE first == [s EXCEPT !.lastDot = 1]
           clear == [s EXCEPT !.spriteZero = FALSE, !.overflow = FALSE,
                              !.sprites = NoSprites, !.lastDot = 2]
           wait == [s EXCEPT !.lastDot = Lesser(AssignX, s.dot)]
           assignX == [IF MaskOn(s) THEN [s EXCEPT !.cur.x = tmp.x, !.oamAddr = 0] ELSE s
                         EXCEPT !.lastDot = @ + 1]
           reset == [ResetOAMAddr(s) EXCEPT !.lastDot = Lesser(AssignYBegin, s.dot)]
           assignY == [IF MaskOn(s)
                         THEN [s EXCEPT !.cur = [tmp EXCEPT !.x = s.cur.x], !.oamAddr = 0,
                                        !.steady = (s.cur.x = tmp.x)]
                         ELSE s EXCEPT !.lastDot = Lesser(AssignYEnd + 1, s.dot)]
           late == [IF s.lastDot <= OamZeroEnd THEN ResetOAMAddr(s) ELSE s
                      EXCEPT !.lastDot = Lesser(OddSkipDot, s.dot)]
           skip == [s EXCEPT !.dot = @ + 1, !.lastDot = s.dot + 1]
           rest == [s EXCEPT !.lastDot = s.dot]
<1>3. /\ s.lastDot = 0 => t = first
      /\ s.lastDot = 1 => t = clear
      /\ s.lastDot \in 2..IncY => t = wait
      /\ s.lastDot = AssignX => t = assignX
      /\ s.lastDot \in (AssignX + 1)..(AssignYBegin - 1) => t = reset
      /\ s.lastDot \in AssignYBegin..AssignYEnd => t = assignY
      /\ s.lastDot \in (AssignYEnd + 1)..(OddSkipDot - 1) => t = late
      /\ s.lastDot = OddSkipDot /\ s.odd /\ MaskOn(s) => t = skip
      /\ s.lastDot >= OddSkipDot /\ ~(s.lastDot = OddSkipDot /\ s.odd /\ MaskOn(s)) => t = rest
  <2>1. t = CASE s.lastDot = 0 -> first
              [] s.lastDot = 1 -> clear
              [] s.lastDot \in 2..IncY -> wait
              [] s.lastDot = AssignX -> assignX
              [] s.lastDot \in (AssignX + 1)..(AssignYBegin - 1) -> reset
              [] s.lastDot \in AssignYBegin..AssignYEnd -> assignY
              [] s.lastDot \in (AssignYEnd + 1)..(OddSkipDot - 1) -> late
              [] s.lastDot = OddSkipDot /\ s.odd /\ MaskOn(s) -> skip
              [] OTHER -> rest
    BY Zenon DEF PreRenderStage
  <2> HIDE DEF t, first, clear, wait, assignX, reset, assignY, late, skip, rest
  <2> QED BY <1>1, <1>2, <2>1
<1> HIDE DEF t
\* Where only the dot moves on.
<1>4. ASSUME NEW to \in Nat, t = [s EXCEPT !.lastDot = to], s.lastDot < to, to <= s.dot,
             s.lastDot # 1, s.lastDot = 0 => to = 1, s.lastDot < AssignYBegin => to <= AssignYBegin,
             s.lastDot \in AssignYBegin..AssignYEnd => ~MaskOn(s)
      PROVE  PreRendered(t, s)
  <2>1. t \in States
    BY <1>4 DEF States
  <2>2. /\ t.line = s.line /\ t.mask = s.mask /\ t.tall = s.tall /\ t.toggle = s.toggle
        /\ t.first = s.first /\ t.lastTile = s.lastTile /\ t.hit = s.hit /\ t.shown = s.shown
        /\ t.oamAddr = s.oamAddr /\ t.dot = s.dot /\ t.lastDot = to /\ t.sprites = s.sprites
        /\ t.spriteZero = s.spriteZero /\ t.steady = s.steady /\ t.cur = s.cur
    BY <1>4 DEF States
  <2> QED BY <1>1, <1>2, <1>4, <2>1, <2>2 DEF PreRendered
\* Where the OAM address may be reset besides.
<1>5. ASSUME NEW to \in Nat, NEW addr \in {0, s.oamAddr}, t = [s EXCEPT !.oamAddr = addr, !.lastDot = to],
             s.lastDot < to, to <= s.dot,
             s.lastDot > 1, s.lastDot < AssignYBegin => to <= AssignYBegin,
             s.lastDot \notin AssignYBegin..AssignYEnd
      PROVE  PreRendered(t, s)
  <2>1. t \in States
    <3>1. addr \in 0..(OamSize - 1)
      BY <1>1
    <3> QED BY <1>5, <3>1 DEF States
  <2>2. /\ t.line = s.line /\ t.mask = s.mask /\ t.tall = s.tall /\ t.toggle = s.toggle
        /\ t.first = s.first /\ t.lastTile = s.lastTile /\ t.hit = s.hit /\ t.shown = s.shown
        /\ t.oamAddr = addr /\ t.dot = s.dot /\ t.lastDot = to /\ t.sprites = s.sprites
        /\ t.spriteZero = s.spriteZero /\ t.steady = s.steady /\ t.cur = s.cur
    BY <1>5 DEF States
  <2> QED BY <1>1, <1>2, <1>5, <2>1, <2>2 DEF PreRendered
<1>6. CASE s.lastDot = 0
  <2>1. t = [s EXCEPT !.lastDot = 1]
    BY <1>3, <1>6
  <2> QED BY <1>1, <1>2, <1>4, <1>6, <2>1
<1>7. CASE s.lastDot = 1
  <2>1. t = [s EXCEPT !.spriteZero = FALSE, !.overflow = FALSE, !.sprites = NoSprites, !.lastDot = 2]
    BY <1>3, <1>7
  <2>2. NoSprites \in [Columns -> Nat]
    BY DEF NoSprites
  <2>3. t \in States
    BY <2>1, <2>2 DEF States
  <2>4. /\ t.line = s.line /\ t.mask = s.mask /\ t.tall = s.tall /\ t.toggle = s.toggle
        /\ t.first = s.first /\ t.lastTile = s.lastTile /\ t.hit = s.hit /\ t.shown = s.shown
        /\ t.oamAddr = s.oamAddr /\ t.dot = s.dot /\ t.lastDot = 2 /\ t.sprites = NoSprites
        /\ t.spriteZero = FALSE /\ t.steady = s.steady
    BY <2>1 DEF States
  <2> QED BY <1>1, <1>2, <1>7, <2>3, <2>4 DEF PreRendered
<1>8. CASE s.lastDot \in 2..IncY
  <2>1. t = [s EXCEPT !.lastDot = Lesser(AssignX, s.dot)]
    BY <1>3, <1>8
  <2>2. Lesser(AssignX, s.dot) \in Nat /\ s.lastDot < Lesser(AssignX, s.dot)
        /\ Lesser(AssignX, s.dot) <= s.dot /\ Lesser(AssignX, s.dot) <= AssignX
    BY <1>1, <1>2, <1>8 DEF Lesser
  <2>3. s.lastDot # 1 /\ s.lastDot # 0 /\ Lesser(AssignX, s.dot) <= AssignYBegin
        /\ s.lastDot \notin AssignYBegin..AssignYEnd
    BY <1>1, <1>2, <1>8, <2>2
  <2> QED BY <1>4, <2>1, <2>2, <2>3
<1>9. CASE s.lastDot = AssignX
  <2>0. s.lastDot \notin 2..IncY /\ s.lastDot # 0 /\ s.lastDot # 1
    BY <1>1, <1>2, <1>9
  <2>1. t = [IF MaskOn(s) THEN [s EXCEPT !.cur.x = tmp.x, !.oamAddr = 0] ELSE s
               EXCEPT !.lastDot = @ + 1]
    BY <1>3, <1>9, <2>0
  <2>2. CASE MaskOn(s)
    <3> DEFINE cur == [s.cur EXCEPT !.x = tmp.x]
    <3>1. t = [s EXCEPT !.cur = cur, !.oamAddr = 0, !.lastDot = s.lastDot + 1]
      BY <2>1, <2>2 DEF States
    <3>2. cur \in Address
      BY <1>1, Types DEF Address
    <3> HIDE DEF cur
    <3>3. t \in States
      <4>1. cur \in Address /\ 0 \in 0..(OamSize - 1) /\ s.lastDot + 1 \in Nat
        BY <1>1, <3>2
      <4> QED BY <3>1, <4>1 DEF States
    <3>4. /\ t.line = s.line /\ t.mask = s.mask /\ t.tall = s.tall /\ t.toggle = s.toggle
          /\ t.first = s.first /\ t.lastTile = s.lastTile /\ t.hit = s.hit /\ t.shown = s.shown
          /\ t.oamAddr = 0 /\ t.dot = s.dot /\ t.lastDot = s.lastDot + 1 /\ t.sprites = s.sprites
          /\ t.spriteZero = s.spriteZero /\ t.steady = s.steady
      BY <3>1 DEF States
    <3> QED BY <1>1, <1>2, <1>9, <3>3, <3>4 DEF PreRendered
  <2>3. CASE ~MaskOn(s)
    <3>1. t = [s EXCEPT !.lastDot = s.lastDot + 1]
      BY <2>1, <2>3 DEF States
    <3>2. s.lastDot + 1 \in Nat /\ s.lastDot < s.lastDot + 1 /\ s.lastDot + 1 <= s.dot
          /\ s.lastDot + 1 <= AssignYBegin
      BY <1>1, <1>2, <1>9
    <3> QED BY <1>4, <2>0, <2>3, <3>1, <3>2
  <2> QED BY <2>2, <2>3
<1>10. CASE s.lastDot \in (AssignX + 1)..(AssignYBegin - 1)
  <2> DEFINE to == Lesser(AssignYBegin, s.dot)
             addr == IF MaskOn(s) THEN 0 ELSE s.oamAddr
  <2>1. s.lastDot \notin 2..IncY /\ s.lastDot # 0 /\ s.lastDot # 1 /\ s.lastDot # AssignX
    BY <1>1, <1>2, <1>10
  <2>2. t = [s EXCEPT !.oamAddr = addr, !.lastDot = to]
    BY <1>3, <1>10, <2>1 DEF ResetOAMAddr, States
  <2>3. to \in Nat /\ s.lastDot < to /\ to <= s.dot /\ s.lastDot > 1 /\ to <= AssignYBegin
        /\ s.lastDot \notin AssignYBegin..AssignYEnd
    BY <1>1, <1>2, <1>10 DEF Lesser
  <2>4. addr \in {0, s.oamAddr}
    OBVIOUS
  <2> HIDE DEF to, addr
  <2> QED BY <1>5, <2>2, <2>3, <2>4
<1>11. CASE s.lastDot \in AssignYBegin..AssignYEnd
  <2> DEFINE to == Lesser(AssignYEnd + 1, s.dot)
  <2>1. s.lastDot \notin 2..IncY /\ s.lastDot # 0 /\ s.lastDot # 1 /\ s.lastDot # AssignX
        /\ s.lastDot \notin (AssignX + 1)..(AssignYBegin - 1)
    BY <1>1, <1>2, <1>11
  <2>2. t = [IF MaskOn(s)
               THEN [s EXCEPT !.cur = [tmp EXCEPT !.x = s.cur.x], !.oamAddr = 0,
                              !.steady = (s.cur.x = tmp.x)]
               ELSE s EXCEPT !.lastDot = to]
    BY <1>3, <1>11, <2>1
  <2>3. to \in Nat /\ s.lastDot < to /\ to <= s.dot /\ ~(s.lastDot < AssignYBegin) /\ s.lastDot > 1
    BY <1>1, <1>2, <1>11 DEF Lesser
  <2> HIDE DEF to
  <2>4. CASE MaskOn(s)
    <3> DEFINE cur == [tmp EXCEPT !.x = s.cur.x]
               steady == (s.cur.x = tmp.x)
    <3>1. t = [s EXCEPT !.cur = cur, !.oamAddr = 0, !.steady = steady, !.lastDot = to]
      BY <2>2, <2>4 DEF States
    <3>2. cur \in Address
      BY <1>1 DEF Address, Given
    <3>3. steady => cur = tmp
      BY DEF Address, Given
    <3>4. steady \in BOOLEAN
      OBVIOUS
    <3> HIDE DEF cur, steady
    <3>5. t \in States
      BY <1>1, <2>3, <3>1, <3>2, <3>4 DEF States
    <3>6. /\ t.line = s.line /\ t.mask = s.mask /\ t.tall = s.tall /\ t.toggle = s.toggle
          /\ t.first = s.first /\ t.lastTile = s.lastTile /\ t.hit = s.hit /\ t.shown = s.shown
          /\ t.oamAddr = 0 /\ t.dot = s.dot /\ t.lastDot = to /\ t.sprites = s.sprites
          /\ t.spriteZero = s.spriteZero /\ t.steady = steady /\ t.cur = cur
      BY <3>1 DEF States
    <3> QED BY <1>1, <1>2, <1>11, <2>3, <2>4, <3>3, <3>5, <3>6 DEF PreRendered
  <2>5. CASE ~MaskOn(s)
    <3>1. t = [s EXCEPT !.lastDot = to]
      BY <2>2, <2>5
    <3>2. s.lastDot # 1 /\ s.lastDot # 0
      BY <2>1
    <3> QED BY <1>4, <2>3, <2>5, <3>1, <3>2
  <2> QED BY <2>4, <2>5
<1>12. CASE s.lastDot \in (AssignYEnd + 1)..(OddSkipDot - 1)
  <2> DEFINE to == Lesser(OddSkipDot, s.dot)
             addr == IF s.lastDot <= OamZeroEnd /\ MaskOn(s) THEN 0 ELSE s.oamAddr
  <2>1. s.lastDot \notin 2..IncY /\ s.lastDot # 0 /\ s.lastDot # 1 /\ s.lastDot # AssignX
        /\ s.lastDot \notin (AssignX + 1)..(AssignYBegin - 1)
        /\ s.lastDot \notin AssignYBegin..AssignYEnd
    BY <1>1, <1>2, <1>12
  <2>2. t = [IF s.lastDot <= OamZeroEnd THEN ResetOAMAddr(s) ELSE s EXCEPT !.lastDot = to]
    BY <1>3, <1>12, <2>1
  <2>3. to \in Nat /\ s.lastDot < to /\ to <= s.dot /\ s.lastDot > 1 /\ ~(s.lastDot < AssignYBegin)
    BY <1>1, <1>2, <1>12 DEF Lesser
  <2> HIDE DEF to
  <2>4. t = [s EXCEPT !.oamAddr = addr, !.lastDot = to]
    <3>1. CASE s.lastDot <= OamZeroEnd
      BY <2>2, <3>1 DEF ResetOAMAddr, States
    <3>2. CASE ~(s.lastDot <= OamZeroEnd)
      BY <2>2, <3>2 DEF States
    <3> QED BY <3>1, <3>2
  <2>5. addr \in {0, s.oamAddr}
    OBVIOUS
  <2> HIDE DEF addr
  <2> QED BY <1>5, <2>1, <2>3, <2>4, <2>5
<1>13. CASE s.lastDot >= OddSkipDot
  <2>1. s.lastDot \notin 2..IncY /\ s.lastDot # 0 /\ s.lastDot # 1 /\ s.lastDot # AssignX
        /\ s.lastDot \notin (AssignX + 1)..(AssignYBegin - 1)
        /\ s.lastDot \notin AssignYBegin..AssignYEnd
        /\ s.lastDot \notin (AssignYEnd + 1)..(OddSkipDot - 1)
        /\ ~(s.lastDot < AssignYBegin) /\ s.lastDot > 1 /\ s.lastDot > AssignYEnd
    BY <1>1, <1>2, <1>13
  <2>2. CASE s.lastDot = OddSkipDot /\ s.odd /\ MaskOn(s)
    <3>1. t = [s EXCEPT !.dot = s.dot + 1, !.lastDot = s.dot + 1]
      BY <1>3, <2>1, <2>2 DEF States
    <3>2. s.dot + 1 \in Nat
      BY <1>1
    <3>3. t \in States
      BY <3>1, <3>2 DEF States
    <3>4. /\ t.line = s.line /\ t.mask = s.mask /\ t.tall = s.tall /\ t.toggle = s.toggle
          /\ t.first = s.first /\ t.lastTile = s.lastTile /\ t.hit = s.hit /\ t.shown = s.shown
          /\ t.oamAddr = s.oamAddr /\ t.dot = s.dot + 1 /\ t.lastDot = s.dot + 1
          /\ t.sprites = s.sprites
          /\ t.spriteZero = s.spriteZero /\ t.steady = s.steady /\ t.cur = s.cur
      BY <3>1 DEF States
    <3> QED BY <1>1, <1>2, <2>1, <2>2, <3>3, <3>4 DEF PreRendered
  <2>3. CASE ~(s.lastDot = OddSkipDot /\ s.odd /\ MaskOn(s))
    <3>1. t = [s EXCEPT !.lastDot = s.dot]
      BY <1>3, <1>13, <2>3
    <3>2. s.dot <= s.dot
      BY <1>1
    <3> QED BY <1>1, <1>4, <2>1, <3>1, <3>2
  <2> QED BY <2>2, <2>3
<1>14. \/ s.lastDot = 0 \/ s.lastDot = 1 \/ s.lastDot \in 2..IncY \/ s.lastDot = AssignX
       \/ s.lastDot \in (AssignX + 1)..(AssignYBegin - 1) \/ s.lastDot \in AssignYBegin..AssignYEnd
       \/ s.lastDot \in (AssignYEnd + 1)..(OddSkipDot - 1) \/ s.lastDot >= OddSkipDot
  BY <1>1, <1>2
<1> QED BY <1>6, <1>7, <1>8, <1>9, <1>10, <1>11, <1>12, <1>13, <1>14

LEMMA PreRenderKeeps ==
  ASSUME Given, NEW s, RenderedOK(s), s.line = PreRenderLine, s.lastDot < s.dot
  PROVE  LET t == PreRenderStage(s) IN RenderedOK(t) /\ PreRendered(t, s)
<1> DEFINE t == PreRenderStage(s)
<1> SUFFICES RenderedOK(t) /\ PreRendered(t, s)
  OBVIOUS
<1>1. s \in States /\ s.lastTile <= LineTiles /\ s.first >= 1
  BY DEF RenderedOK, Placed
<1>2. PreRendered(t, s)
  BY <1>1, PreRenderStages
<1> HIDE DEF t
<1>3. /\ s.lastDot \in Nat /\ t.lastDot \in Nat /\ t.dot \in Nat /\ {PostRenderLine, PreRenderLine} \subseteq Nat
      /\ PostRenderLine < PreRenderLine /\ AssignYBegin \in Nat /\ AssignYEnd \in Nat
      /\ t \in States /\ t.line = PreRenderLine
  BY <1>1, <1>2, StateFields, Sizes DEF PreRendered
<1>4. Placed(t)
  BY <1>1, <1>2, <1>3 DEF Placed, PreRendered
<1>5. Swept(t)
  BY <1>2, <1>3 DEF Swept, PreRendered, RenderedOK
<1>6. Cleared(t)
  BY <1>2, <1>3 DEF Cleared, PreRendered, RenderedOK
<1>7. Calm(t)
  <2> SUFFICES ASSUME t.steady
               PROVE  MaskOn(t) /\ t.oamAddr = 0 /\ (t.lastDot > AssignYBegin => t.cur = tmp)
    BY <1>3 DEF Calm
  <2>1. s.steady => MaskOn(s) /\ s.oamAddr = 0 /\ (s.lastDot > AssignYBegin => s.cur = tmp)
    BY <1>3 DEF Calm, RenderedOK
  <2>2. MaskOn(t) <=> MaskOn(s)
    BY <1>2 DEF MaskOn, PreRendered
  <2>3. CASE s.lastDot < AssignYBegin
    <3>1. t.lastDot <= AssignYBegin /\ t.steady = s.steady /\ (s.oamAddr = 0 => t.oamAddr = 0)
      BY <1>2, <2>3 DEF PreRendered
    <3>2. s.steady /\ ~(t.lastDot > AssignYBegin)
      BY <1>3, <3>1
    <3> QED BY <2>1, <2>2, <3>1, <3>2
  <2>4. CASE s.lastDot \in AssignYBegin..AssignYEnd
    BY <1>2, <1>3, <2>1, <2>2, <2>4 DEF PreRendered
  <2>5. CASE s.lastDot > AssignYEnd
    <3>1. s.lastDot > AssignYBegin
      BY <1>3, <2>5, Sizes
    <3> QED BY <1>2, <1>3, <2>1, <2>2, <2>5, <3>1 DEF PreRendered
  <2> QED BY <1>3, <2>3, <2>4, <2>5
<1>8. Draws(t)
  BY <1>3 DEF Draws
<1> QED BY <1>2, <1>4, <1>5, <1>6, <1>7, <1>8 DEF RenderedOK

-----------------------------------------------------------------------------
(* One round of PpuTicksExecute. *)

\* A stage that PpuTicksExecute may enter anywhere leaves a state.
LEMMA StageType ==
  ASSUME Given, NEW s \in States
  PROVE  VisibleStage(s) \in States /\ PreRenderStage(s) \in States
<1>1. s.lastDot \in Nat /\ s.dot \in Nat /\ s.cur \in Address /\ tmp.x \in 0..(2 * LineTiles - 1)
      /\ 0 \in 0..(OamSize - 1) /\ s.lastDot + 1 \in Nat /\ s.dot + 1 \in Nat
  BY StateFields, Sizes, Types
<1>2. /\ {IncY, AssignX, AssignYBegin, AssignYEnd, OamZeroEnd, OddSkipDot} \subseteq Nat
  BY Sizes
<1>3. ASSUME NEW to \in Nat PROVE [s EXCEPT !.lastDot = to] \in States
  BY DEF States
<1>4. ASSUME NEW to \in Nat PROVE [ResetOAMAddr(s) EXCEPT !.lastDot = to] \in States
  <2>1. CASE MaskOn(s)
    <3>1. ResetOAMAddr(s) = [s EXCEPT !.oamAddr = 0]
      BY <2>1 DEF ResetOAMAddr
    <3> QED BY <1>1, <3>1 DEF States
  <2>2. CASE ~MaskOn(s)
    <3>1. ResetOAMAddr(s) = s
      BY <2>2 DEF ResetOAMAddr, States
    <3> QED BY <1>3, <3>1
  <2> QED BY <2>1, <2>2
<1>5. ASSUME NEW to \in Nat
      PROVE  [[s EXCEPT !.cur.x = tmp.x, !.oamAddr = 0] EXCEPT !.lastDot = to] \in States
  <2> DEFINE cur == [s.cur EXCEPT !.x = tmp.x]
  <2>1. cur \in Address
    BY <1>1 DEF Address
  <2>2. [[s EXCEPT !.cur.x = tmp.x, !.oamAddr = 0] EXCEPT !.lastDot = to] =
          [s EXCEPT !.cur = cur, !.oamAddr = 0, !.lastDot = to]
    BY DEF States
  <2> HIDE DEF cur
  <2> QED BY <1>1, <2>1, <2>2 DEF States
<1>6. ASSUME NEW to \in Nat
      PROVE  [[s EXCEPT !.cur = [tmp EXCEPT !.x = s.cur.x], !.oamAddr = 0,
                        !.steady = (s.cur.x = tmp.x)] EXCEPT !.lastDot = to] \in States
  <2> DEFINE cur == [tmp EXCEPT !.x = s.cur.x]
             steady == (s.cur.x = tmp.x)
  <2>1. cur \in Address /\ steady \in BOOLEAN
    BY <1>1 DEF Given, Address
  <2> DEFINE u == [[s EXCEPT !.cur = cur, !.oamAddr = 0, !.steady = steady] EXCEPT !.lastDot = to]
  <2> SUFFICES u \in States
    OBVIOUS
  <2>2. u = [s EXCEPT !.cur = cur, !.oamAddr = 0, !.steady = steady, !.lastDot = to]
    BY DEF States
  <2> HIDE DEF cur, steady, u
  <2> QED BY <1>1, <2>1, <2>2 DEF States
<1>7. VisibleStage(s) \in States
  <2>1. CASE s.lastDot < IncY
    BY <2>1, TilesStage, VisibleStages
  <2>2. CASE s.lastDot = IncY
    BY <2>2, SpriteStageIs, VisibleStages DEF Calmly
  <2>3. CASE s.lastDot = AssignX
    <3>1. CASE RenderingEnabled(s)
      <4>1. AssignXStage(s) = [[s EXCEPT !.cur.x = tmp.x, !.oamAddr = 0] EXCEPT !.lastDot = s.lastDot + 1]
        BY <3>1 DEF AssignXStage, States
      <4> QED BY <1>1, <1>5, <2>3, <4>1, VisibleStages
    <3>2. CASE ~RenderingEnabled(s)
      <4>1. AssignXStage(s) = [s EXCEPT !.lastDot = s.lastDot + 1]
        BY <3>2 DEF AssignXStage, States
      <4> QED BY <1>1, <1>3, <2>3, <4>1, VisibleStages
    <3> QED BY <3>1, <3>2
  <2>4. CASE s.lastDot > AssignX
    <3>1. RestStage(s) = [ResetOAMAddr(s) EXCEPT !.lastDot = s.dot] \/ RestStage(s) = [s EXCEPT !.lastDot = s.dot]
      BY DEF RestStage
    <3> QED BY <1>1, <1>3, <1>4, <2>4, <3>1, VisibleStages
  <2> QED BY <2>1, <2>2, <2>3, <2>4, VisibleStages
<1>8. PreRenderStage(s) \in States
  <2> DEFINE first == [s EXCEPT !.lastDot = 1]
             clear == [s EXCEPT !.spriteZero = FALSE, !.overflow = FALSE,
                                !.sprites = NoSprites, !.lastDot = 2]
             wait == [s EXCEPT !.lastDot = Lesser(AssignX, s.dot)]
             assignX == [IF MaskOn(s) THEN [s EXCEPT !.cur.x = tmp.x, !.oamAddr = 0] ELSE s
                           EXCEPT !.lastDot = @ + 1]
             reset == [ResetOAMAddr(s) EXCEPT !.lastDot = Lesser(AssignYBegin, s.dot)]
             assignY == [IF MaskOn(s)
                           THEN [s EXCEPT !.cur = [tmp EXCEPT !.x = s.cur.x], !.oamAddr = 0,
                                          !.steady = (s.cur.x = tmp.x)]
                           ELSE s EXCEPT !.lastDot = Lesser(AssignYEnd + 1, s.dot)]
             late == [IF s.lastDot <= OamZeroEnd THEN ResetOAMAddr(s) ELSE s
                        EXCEPT !.lastDot = Lesser(OddSkipDot, s.dot)]
             skip == [s EXCEPT !.dot = @ + 1, !.lastDot = s.dot + 1]
             rest == [s EXCEPT !.lastDot = s.dot]
  <2>1. PreRenderStage(s) \in {first, clear, wait, assignX, reset, assignY, late, skip, rest}
    <3>1. PreRenderStage(s) =
            CASE s.lastDot = 0 -> first
              [] s.lastDot = 1 -> clear
              [] s.lastDot \in 2..IncY -> wait
              [] s.lastDot = AssignX -> assignX
              [] s.lastDot \in (AssignX + 1)..(AssignYBegin - 1) -> reset
              [] s.lastDot \in AssignYBegin..AssignYEnd -> assignY
              [] s.lastDot \in (AssignYEnd + 1)..(OddSkipDot - 1) -> late
              [] s.lastDot = OddSkipDot /\ s.odd /\ MaskOn(s) -> skip
              [] OTHER -> rest
      BY Zenon DEF PreRenderStage
    <3> HIDE DEF first, clear, wait, assignX, reset, assignY, late, skip, rest
    <3> QED BY <3>1
  <2>2. {Lesser(AssignX, s.dot), Lesser(AssignYBegin, s.dot), Lesser(AssignYEnd + 1, s.dot),
         Lesser(OddSkipDot, s.dot)} \subseteq Nat
    BY <1>1, <1>2 DEF Lesser
  <2>3. {first, wait, rest, reset} \subseteq States
    BY <1>1, <1>3, <1>4, <2>2
  <2>4. clear \in States /\ skip \in States
    <3>1. NoSprites \in [Columns -> Nat]
      BY DEF NoSprites
    <3>2. clear \in States
      BY <3>1 DEF States
    <3> DEFINE next == s.dot + 1
    <3>3. skip = [s EXCEPT !.dot = next, !.lastDot = next] /\ next \in Nat
      BY <1>1 DEF States
    <3> HIDE DEF next
    <3>4. [s EXCEPT !.dot = next, !.lastDot = next] \in States
      BY <3>3 DEF States
    <3> QED BY <3>2, <3>3, <3>4
  <2>5. assignX \in States
    <3>1. CASE MaskOn(s)
      <4>1. assignX = [[s EXCEPT !.cur.x = tmp.x, !.oamAddr = 0] EXCEPT !.lastDot = s.lastDot + 1]
        BY <3>1 DEF States
      <4> QED BY <1>1, <1>5, <4>1
    <3>2. CASE ~MaskOn(s)
      <4>1. assignX = [s EXCEPT !.lastDot = s.lastDot + 1]
        BY <3>2 DEF States
      <4> QED BY <1>1, <1>3, <4>1
    <3> QED BY <3>1, <3>2
  <2>6. assignY \in States
    <3>1. CASE MaskOn(s)
      BY <1>6, <2>2, <3>1
    <3>2. CASE ~MaskOn(s)
      BY <1>3, <2>2, <3>2
    <3> QED BY <3>1, <3>2
  <2>7. late \in States
    <3>1. CASE s.lastDot <= OamZeroEnd
      BY <1>4, <2>2, <3>1
    <3>2. CASE ~(s.lastDot <= OamZeroEnd)
      BY <1>3, <2>2, <3>2
    <3> QED BY <3>1, <3>2
  <2> HIDE DEF first, clear, wait, assignX, reset, assignY, late, skip, rest
  <2> QED BY <2>1, <2>3, <2>4, <2>5, <2>6, <2>7
<1> QED BY <1>7, <1>8

LEMMA Rounds ==
  ASSUME NEW s \in States
  PROVE  /\ s.lastDot # s.dot /\ s.line < PostRenderLine => Round(s) = VisibleStage(s)
         /\ s.lastDot # s.dot /\ s.line = PreRenderLine => Round(s) = PreRenderStage(s)
         /\ s.lastDot # s.dot /\ s.line = PreRenderLine + 1 =>
              Round(s) = [s EXCEPT !.line = 0, !.odd = ~@]
         /\ s.lastDot # s.dot /\ ~(s.line < PostRenderLine) /\ s.line # PreRenderLine
              /\ s.line # PreRenderLine + 1 => Round(s) = [s EXCEPT !.lastDot = s.dot]
         /\ s.lastDot = s.dot /\ s.dot >= CyclesPerLine =>
              Round(s) = [s EXCEPT !.line = @ + 1, !.dot = @ - CyclesPerLine, !.lastDot = 0, !.toggle = 0,
                                   !.shown = Blank]
         /\ s.lastDot = s.dot /\ ~(s.dot >= CyclesPerLine) => Round(s) = s
<1> DEFINE first == [s EXCEPT !.line = 0, !.odd = ~@]
           rest == [s EXCEPT !.lastDot = s.dot]
           next == [s EXCEPT !.line = @ + 1, !.dot = @ - CyclesPerLine, !.lastDot = 0, !.toggle = 0,
                             !.shown = Blank]
<1>1. s.line \in Nat /\ {PostRenderLine, PreRenderLine} \subseteq Nat /\ PostRenderLine < PreRenderLine
  BY StateFields, Sizes
<1>2. Round(s) = IF s.lastDot # s.dot
                   THEN CASE s.line < PostRenderLine    -> VisibleStage(s)
                          [] s.line = PreRenderLine     -> PreRenderStage(s)
                          [] s.line = PreRenderLine + 1 -> first
                          [] OTHER                      -> rest
                 ELSE IF s.dot >= CyclesPerLine THEN next ELSE s
  BY Zenon DEF Round
<1> HIDE DEF first, rest, next
<1>3. s.line < PostRenderLine => s.line # PreRenderLine /\ s.line # PreRenderLine + 1
  BY <1>1
<1>4. PreRenderLine # PreRenderLine + 1 /\ ~(PreRenderLine < PostRenderLine)
      /\ ~(PreRenderLine + 1 < PostRenderLine)
  BY <1>1
<1>5. /\ s.lastDot # s.dot /\ s.line < PostRenderLine => Round(s) = VisibleStage(s)
      /\ s.lastDot # s.dot /\ s.line = PreRenderLine => Round(s) = PreRenderStage(s)
      /\ s.lastDot # s.dot /\ s.line = PreRenderLine + 1 => Round(s) = first
      /\ s.lastDot # s.dot /\ ~(s.line < PostRenderLine) /\ s.line # PreRenderLine
           /\ s.line # PreRenderLine + 1 => Round(s) = rest
  BY <1>2, <1>3, <1>4
<1>6. /\ s.lastDot = s.dot /\ s.dot >= CyclesPerLine => Round(s) = next
      /\ s.lastDot = s.dot /\ ~(s.dot >= CyclesPerLine) => Round(s) = s
  BY <1>2
<1> QED BY <1>5, <1>6, Zenon DEF first, rest, next

LEMMA RoundType ==
  ASSUME Given, NEW s \in States
  PROVE  Round(s) \in States
<1>1. s.lastDot \in Nat /\ s.dot \in Nat /\ s.line \in Nat /\ s.odd \in BOOLEAN /\ CyclesPerLine \in Nat
      /\ s.line + 1 \in Nat /\ {PostRenderLine, PreRenderLine} \subseteq Nat
  BY StateFields, Sizes
<1>2. CASE s.lastDot # s.dot /\ s.line < PostRenderLine
  BY <1>2, Rounds, StageType
<1>3. CASE s.lastDot # s.dot /\ s.line = PreRenderLine
  BY <1>3, Rounds, StageType
<1>4. CASE s.lastDot # s.dot /\ s.line = PreRenderLine + 1
  <2> DEFINE odd == ~s.odd
  <2>1. Round(s) = [s EXCEPT !.line = 0, !.odd = odd] /\ odd \in BOOLEAN
    BY <1>4, Rounds DEF States
  <2> HIDE DEF odd
  <2>2. [s EXCEPT !.line = 0, !.odd = odd] \in States
    BY <2>1 DEF States
  <2> QED BY <2>1, <2>2
<1>5. CASE s.lastDot # s.dot /\ ~(s.line < PostRenderLine) /\ s.line # PreRenderLine
           /\ s.line # PreRenderLine + 1
  <2>1. Round(s) = [s EXCEPT !.lastDot = s.dot]
    BY <1>5, Rounds
  <2>2. [s EXCEPT !.lastDot = s.dot] \in States
    BY <1>1 DEF States
  <2> QED BY <2>1, <2>2
<1>6. CASE s.lastDot = s.dot /\ s.dot >= CyclesPerLine
  <2> DEFINE line == s.line + 1
             dot == s.dot - CyclesPerLine
  <2>1. Round(s) = [s EXCEPT !.line = line, !.dot = dot, !.lastDot = 0, !.toggle = 0, !.shown = Blank]
    BY <1>6, Rounds DEF States
  <2>2. line \in Nat /\ dot \in Nat
    BY <1>1, <1>6
  <2>3. Blank \in [Columns -> Int]
    BY DEF Blank, NotDrawn
  <2> HIDE DEF line, dot
  <2>4. [s EXCEPT !.line = line, !.dot = dot, !.lastDot = 0, !.toggle = 0, !.shown = Blank] \in States
    BY <2>2, <2>3 DEF States
  <2> QED BY <2>1, <2>4
<1>7. CASE s.lastDot = s.dot /\ ~(s.dot >= CyclesPerLine)
  BY <1>7, Rounds
<1> QED BY <1>2, <1>3, <1>4, <1>5, <1>6, <1>7

\* Where nothing of a line is drawn yet.
LEMMA LineStarts ==
  ASSUME Given, NEW t \in States, t.lastTile = 0, t.lastDot = 0, t.hit = None,
         AtRow(t.cur, t.line), t.cur.x = tmp.x,
         \A x \in Columns : t.sprites[x] = Foremost(t, t.line, x),
         t.line > 0 => t.first = 1,
         t.spriteZero <=> \E n \in 0..(t.line - 1), x \in Columns : ZeroAt(t, n, x)
  PROVE  Follows(t) /\ InTiles(t)
<1>1. IncY \in Nat \ {0} /\ TileWidth \in Nat /\ 0 * TileWidth = 0 /\ t.line \in Nat
  BY Sizes, StateFields
<1>2. ASSUME NEW x \in Columns PROVE ~(x < 0) /\ x \in Nat
  BY Column
<1>3. Met(t) = {}
  BY <1>1, <1>2 DEF Met
<1>4. t.cur.x = (tmp.x + t.lastTile) % (2 * LineTiles)
  <2>1. tmp.x \in Nat /\ tmp.x < 2 * LineTiles /\ 2 * LineTiles \in Nat \ {0} /\ 0 \in Nat
    BY Types, Sizes
  <2>2. tmp.x + t.lastTile = tmp.x /\ tmp.x = 0 * (2 * LineTiles) + tmp.x
    BY <2>1
  <2>3. tmp.x % (2 * LineTiles) = tmp.x
    BY <2>1, <2>2, ModIs
  <2> QED BY <2>2, <2>3
<1>5. InTiles(t)
  BY <1>3, <1>4 DEF InTiles
<1>6. \A x \in Columns : x < t.lastTile * TileWidth \/ t.lastDot > IncY => t.shown[x] = Pixel(t, t.line, x)
  BY <1>1, <1>2
<1>7. t.lastTile * TileWidth >= Lesser(t.lastDot, IncY)
  BY <1>1 DEF Lesser
<1>8. t.spriteZero <=> \E n \in 0..t.line, x \in Columns : ZeroAt(t, n, x) /\ (n < t.line \/ x < t.lastDot)
  <2>1. ASSUME NEW n \in 0..t.line, NEW x \in Columns PROVE n < t.line \/ x < t.lastDot <=> n \in 0..(t.line - 1)
    BY <1>1, <1>2
  <2>2. \A n \in 0..(t.line - 1) : n \in 0..t.line
    BY <1>1
  <2> QED BY <2>1, <2>2
<1> QED BY <1>5, <1>6, <1>7, <1>8 DEF Follows

\* From the line after the last one to the first.
LEMMA FirstLineKeeps ==
  ASSUME Given, NEW s, RenderedOK(s), s.line = PreRenderLine + 1,
         NEW t, t = [s EXCEPT !.line = 0, !.odd = ~@]
  PROVE  RenderedOK(t) /\ t.line = 0 /\ t.dot = s.dot /\ t.lastDot = s.lastDot
<1>1. s \in States /\ s.lastTile <= LineTiles /\ s.first >= 1 /\ s.lastDot <= s.dot /\ s.lastDot = 0
  BY DEF RenderedOK, Placed
<1>2. {PostRenderLine, PreRenderLine} \subseteq Nat /\ PostRenderLine < PreRenderLine /\ s.odd \in BOOLEAN
      /\ 0 < PostRenderLine /\ IncY \in Nat /\ LineTiles \in Nat /\ s.dot \in Nat
      /\ AssignX = IncY + 1 /\ AssignX < AssignYBegin /\ AssignYBegin \in Nat
  BY <1>1, Sizes, StateFields
<1> DEFINE odd == ~s.odd
<1>3. t = [s EXCEPT !.line = 0, !.odd = odd] /\ odd \in BOOLEAN
  BY <1>1, <1>2 DEF States
<1> HIDE DEF odd
<1>4. t \in States
  BY <1>1, <1>3 DEF States
<1>5. /\ t.line = 0 /\ t.dot = s.dot /\ t.lastDot = 0 /\ t.mask = s.mask /\ t.tall = s.tall
      /\ t.toggle = s.toggle /\ t.cur = s.cur /\ t.lastTile = s.lastTile /\ t.sprites = s.sprites
      /\ t.first = s.first /\ t.hit = s.hit /\ t.spriteZero = s.spriteZero
      /\ t.oamAddr = s.oamAddr /\ t.steady = s.steady
  BY <1>1, <1>3 DEF States
<1>6. s.lastTile = 0 /\ s.hit = None
  BY <1>2 DEF RenderedOK, Swept
<1>7. s.sprites = NoSprites /\ ~s.spriteZero
  BY DEF RenderedOK, Cleared
<1>8. s.steady => MaskOn(s) /\ s.oamAddr = 0 /\ s.toggle = 0 /\ s.cur = tmp
  BY <1>2 DEF RenderedOK, Calm
<1>9. Placed(t)
  BY <1>1, <1>2, <1>4, <1>5 DEF Placed
<1>10. Swept(t) /\ Cleared(t)
  BY <1>2, <1>5, <1>6 DEF Swept, Cleared
<1>11. Calm(t)
  BY <1>2, <1>5, <1>8 DEF Calm, MaskOn
<1>12. Draws(t)
  <2> SUFFICES ASSUME t.steady, tmp.tileY < FrameRows PROVE Follows(t) /\ InTiles(t)
    BY <1>2, <1>5 DEF Draws
  <2>1. t.cur = tmp
    BY <1>5, <1>8
  <2>2. AtRow(t.cur, t.line)
    BY <1>5, <2>1, RowFirst
  <2>3. \A x \in Columns : t.sprites[x] = Foremost(t, t.line, x)
    <3>1. Shown(t, 0) = {}
      BY DEF Shown
    <3>2. \A x \in Columns : Foremost(t, 0, x) = 0 /\ NoSprites[x] = 0
      BY <3>1 DEF Foremost, At, NoSprites
    <3> QED BY <1>5, <1>7, <3>2
  <2>4. ~(t.line > 0)
    BY <1>5
  <2>5. t.spriteZero <=> \E n \in 0..(t.line - 1), x \in Columns : ZeroAt(t, n, x)
    BY <1>5, <1>7
  <2> QED BY <1>4, <1>5, <1>6, <2>1, <2>2, <2>3, <2>4, <2>5, LineStarts
<1> QED BY <1>1, <1>5, <1>9, <1>10, <1>11, <1>12 DEF RenderedOK

\* What changes from one line to the next.
LineAfter(t, s) ==
  /\ t \in States /\ t.line = s.line + 1 /\ t.dot = s.dot - CyclesPerLine /\ t.lastDot = 0
  /\ t.mask = s.mask /\ t.tall = s.tall /\ t.toggle = 0 /\ t.cur = s.cur /\ t.lastTile = s.lastTile
  /\ t.sprites = s.sprites /\ t.first = s.first /\ t.hit = s.hit /\ t.spriteZero = s.spriteZero
  /\ t.oamAddr = s.oamAddr /\ t.steady = s.steady

LEMMA LineEndIs ==
  ASSUME Given, NEW s \in States, s.dot >= CyclesPerLine,
         NEW t, t = [s EXCEPT !.line = @ + 1, !.dot = @ - CyclesPerLine, !.lastDot = 0, !.toggle = 0,
                              !.shown = Blank]
  PROVE  LineAfter(t, s)
<1> DEFINE line == s.line + 1
           dot == s.dot - CyclesPerLine
<1>1. t = [s EXCEPT !.line = line, !.dot = dot, !.lastDot = 0, !.toggle = 0, !.shown = Blank]
  BY DEF States
<1>2. line \in Nat /\ dot \in Nat /\ Blank \in [Columns -> Int]
  BY StateFields, Sizes DEF Blank, NotDrawn
<1>3. line = s.line + 1 /\ dot = s.dot - CyclesPerLine
  OBVIOUS
<1> HIDE DEF line, dot
<1>4. t \in States
  <2>1. [s EXCEPT !.line = line, !.dot = dot, !.lastDot = 0, !.toggle = 0, !.shown = Blank] \in States
    BY <1>2 DEF States
  <2> QED BY <1>1, <2>1
<1>5. /\ t.line = line /\ t.dot = dot /\ t.lastDot = 0 /\ t.mask = s.mask
      /\ t.tall = s.tall /\ t.toggle = 0 /\ t.cur = s.cur /\ t.lastTile = s.lastTile
      /\ t.sprites = s.sprites /\ t.first = s.first /\ t.hit = s.hit /\ t.spriteZero = s.spriteZero
      /\ t.oamAddr = s.oamAddr /\ t.steady = s.steady
  BY <1>1 DEF States
<1> QED BY <1>3, <1>4, <1>5, Zenon DEF LineAfter

LEMMA LineEndKeeps ==
  ASSUME Given, NEW s, RenderedOK(s), s.lastDot = s.dot, s.dot >= CyclesPerLine, NEW t, LineAfter(t, s)
  PROVE  RenderedOK(t)
<1>1. s \in States /\ s.lastTile <= LineTiles /\ s.first >= 1 /\ s.line <= PreRenderLine + 1
      /\ (s.line = PreRenderLine + 1 => s.lastDot = 0)
  BY DEF RenderedOK, Placed
<1>2. {PostRenderLine, PreRenderLine} \subseteq Nat /\ PostRenderLine < PreRenderLine
      /\ IncY \in Nat /\ LineTiles \in Nat /\ s.dot \in Nat /\ s.line \in Nat /\ CyclesPerLine \in Nat
      /\ AssignX = IncY + 1 /\ AssignX < AssignYBegin /\ AssignYBegin < CyclesPerLine
      /\ AssignYBegin \in Nat /\ s.lastDot \in Nat
  BY <1>1, Sizes, StateFields
<1>3. s.lastDot > AssignYBegin /\ s.lastDot > AssignX /\ s.lastDot > IncY /\ s.lastDot >= 2
      /\ s.line <= PreRenderLine
  <2>1. s.lastDot > AssignYBegin
    BY <1>2
  <2>2. s.lastDot > AssignX /\ s.lastDot > IncY /\ s.lastDot >= 2
    BY <1>2, <2>1, Sizes
  <2> QED BY <1>1, <1>2, <2>1, <2>2
<1>4. t \in States
  BY DEF LineAfter
<1>5. /\ t.line = s.line + 1 /\ t.dot = s.dot - CyclesPerLine /\ t.lastDot = 0 /\ t.mask = s.mask
      /\ t.tall = s.tall /\ t.toggle = 0 /\ t.cur = s.cur /\ t.lastTile = s.lastTile
      /\ t.sprites = s.sprites /\ t.first = s.first /\ t.hit = s.hit /\ t.spriteZero = s.spriteZero
      /\ t.oamAddr = s.oamAddr /\ t.steady = s.steady
  BY DEF LineAfter
<1>6. s.lastTile = 0 /\ s.hit = None
  BY <1>3 DEF RenderedOK, Swept
<1>7. Placed(t)
  BY <1>1, <1>2, <1>3, <1>4, <1>5 DEF Placed
<1>8. Swept(t)
  BY <1>5, <1>6 DEF Swept
<1>9. Cleared(t)
  <2>1. t.line = PreRenderLine + 1 => s.line = PreRenderLine
    BY <1>2, <1>5
  <2>2. ~(t.lastDot >= 2)
    BY <1>5
  <2>3. s.line = PreRenderLine => s.sprites = NoSprites /\ ~s.spriteZero
    BY <1>3 DEF RenderedOK, Cleared
  <2> QED BY <1>5, <2>1, <2>2, <2>3 DEF Cleared
<1>10. Calm(t)
  <2>1. t.line = PreRenderLine + 1 => s.line = PreRenderLine
    BY <1>2, <1>5
  <2>2. ~(t.lastDot > AssignYBegin)
    BY <1>2, <1>5
  <2>3. s.steady => MaskOn(s) /\ s.oamAddr = 0 /\ (s.line = PreRenderLine => s.cur = tmp)
    BY <1>3 DEF RenderedOK, Calm
  <2> QED BY <1>5, <2>1, <2>2, <2>3 DEF Calm, MaskOn
<1>11. Draws(t)
  <2> SUFFICES ASSUME t.steady, tmp.tileY < FrameRows, s.line < PostRenderLine PROVE Follows(t) /\ InTiles(t)
    <3>1. ~(t.lastDot > IncY) /\ (t.line < PostRenderLine => s.line < PostRenderLine)
      BY <1>2, <1>5
    <3> QED BY <3>1 DEF Draws
  <2>1. Follows(s) /\ BehindTiles(s)
    BY <1>3, <1>5 DEF RenderedOK, Draws
  <2>2. AtRow(t.cur, t.line) /\ t.cur.x = tmp.x /\ t.first = 1
    BY <1>3, <1>5, <2>1 DEF BehindTiles
  <2>3. ASSUME NEW n, NEW x
        PROVE  Foremost(t, n, x) = Foremost(s, n, x) /\ (ZeroAt(t, n, x) <=> ZeroAt(s, n, x))
    <3>1. t.mask = s.mask /\ t.tall = s.tall
      BY <1>5
    <3> QED BY <3>1, SamePicture
  <2>4. \A x \in Columns : t.sprites[x] = Foremost(t, t.line, x)
    BY <1>5, <2>1, <2>3 DEF BehindTiles
  <2>5. \A x \in Columns : x < s.lastDot
    BY <1>2, <1>3, Column
  <2>6. t.spriteZero <=> \E n \in 0..(t.line - 1), x \in Columns : ZeroAt(t, n, x)
    <3>1. s.spriteZero <=> \E n \in 0..s.line, x \in Columns :
                             ZeroAt(s, n, x) /\ (n < s.line \/ x < s.lastDot)
      BY <2>1 DEF Follows
    <3>2. t.line - 1 = s.line
      BY <1>2, <1>5
    <3> QED BY <1>5, <2>3, <2>5, <3>1, <3>2
  <2> QED BY <1>4, <1>5, <1>6, <2>2, <2>4, <2>6, LineStarts
<1> QED BY <1>5, <1>7, <1>8, <1>9, <1>10, <1>11 DEF RenderedOK

\* How far a round has to go still: the dots of the lines, then those of this one.
Weight(t) == t.dot + (IF t.line = PreRenderLine /\ t.lastDot <= OddSkipDot THEN 1 ELSE 0)
Left(t) == t.dot - t.lastDot + (IF t.line = PreRenderLine + 1 THEN 1 ELSE 0)

LEMMA RoundKeeps ==
  ASSUME Given, NEW s, RenderedOK(s), ~(s.lastDot = s.dot /\ s.dot < CyclesPerLine)
  PROVE  LET t == Round(s)
         IN  /\ RenderedOK(t)
             /\ Weight(t) < Weight(s) \/ (Weight(t) = Weight(s) /\ Left(t) < Left(s))
<1> DEFINE t == Round(s)
<1> SUFFICES RenderedOK(t) /\ (Weight(t) < Weight(s) \/ (Weight(t) = Weight(s) /\ Left(t) < Left(s)))
  OBVIOUS
<1>1. s \in States /\ s.lastTile <= LineTiles /\ s.first >= 1 /\ s.line <= PreRenderLine + 1
      /\ s.lastDot <= s.dot
  BY DEF RenderedOK, Placed
<1>2. {PostRenderLine, PreRenderLine} \subseteq Nat /\ PostRenderLine < PreRenderLine
      /\ s.dot \in Nat /\ s.line \in Nat /\ CyclesPerLine \in Nat /\ s.lastDot \in Nat
      /\ OddSkipDot \in Nat /\ OddSkipDot + 1 < CyclesPerLine /\ IncY \in Nat /\ AssignX = IncY + 1
  BY <1>1, Sizes, StateFields
\* In its line, the beam goes on.
<1>3. ASSUME NEW u \in States, Onward(u, s) PROVE Weight(u) <= Weight(s) /\ Left(u) < Left(s)
  <2>1. u.line = s.line /\ u.dot = s.dot /\ s.lastDot < u.lastDot /\ u.lastDot \in Nat
    BY <1>3, StateFields DEF Onward
  <2> QED BY <1>2, <2>1 DEF Weight, Left
<1>4. ASSUME RenderedOK(t), Onward(t, s)
      PROVE  Weight(t) < Weight(s) \/ (Weight(t) = Weight(s) /\ Left(t) < Left(s))
  <2>1. t \in States
    BY <1>4 DEF RenderedOK, Placed
  <2>2. t.dot \in Nat
    BY <2>1, StateFields
  <2> HIDE DEF t
  <2>3. Weight(t) <= Weight(s) /\ Left(t) < Left(s)
    BY <1>3, <1>4, <2>1
  <2>4. Weight(t) \in Nat /\ Weight(s) \in Nat
    BY <1>2, <2>2 DEF Weight
  <2> QED BY <2>3, <2>4
<1>5. CASE s.lastDot # s.dot /\ s.line < PostRenderLine
  <2>0. s.lastDot < s.dot /\ t = VisibleStage(s)
    <3>1. t = VisibleStage(s)
      BY <1>1, <1>5, Rounds, Zenon
    <3> QED BY <1>1, <1>2, <1>5, <3>1
  <2>1. CASE s.lastDot < IncY
    <3>1. t = TilePixels(s)
      BY <1>1, <2>0, <2>1, VisibleStages
    <3> HIDE DEF t
    <3>2. RenderedOK(t) /\ Onward(t, s)
      BY <1>5, <2>0, <2>1, <3>1, TilesStageKeeps
    <3> QED BY <1>4, <3>2
  <2>2. CASE s.lastDot = IncY
    <3>1. t = SpriteStage(s)
      BY <1>1, <2>0, <2>2, VisibleStages
    <3> HIDE DEF t
    <3>2. RenderedOK(t) /\ Onward(t, s)
      BY <1>5, <2>0, <2>2, <3>1, SpriteStageKeeps
    <3> QED BY <1>4, <3>2
  <2>3. CASE s.lastDot >= AssignX
    <3> HIDE DEF t
    <3>2. RenderedOK(t) /\ Onward(t, s)
      BY <1>5, <2>0, <2>3, LateStageKeeps
    <3> QED BY <1>4, <3>2
  <2> QED BY <1>2, <2>1, <2>2, <2>3
<1>6. CASE s.lastDot # s.dot /\ s.line = PreRenderLine
  <2>1. s.lastDot < s.dot /\ t = PreRenderStage(s)
    <3>1. t = PreRenderStage(s)
      BY <1>1, <1>6, Rounds, Zenon
    <3> QED BY <1>1, <1>2, <1>6, <3>1
  <2> HIDE DEF t
  <2>2. RenderedOK(t) /\ PreRendered(t, s)
    BY <1>6, <2>1, PreRenderKeeps
  <2>3. t.line = PreRenderLine /\ t.dot \in Nat /\ t.lastDot \in Nat /\ s.lastDot < t.lastDot
        /\ t.lastDot <= t.dot
        /\ (t.dot = s.dot \/ (s.lastDot = OddSkipDot /\ t.dot = s.dot + 1 /\ t.lastDot = t.dot))
    BY <1>6, <2>2, StateFields DEF PreRendered
  <2>4. CASE t.dot = s.dot
    <3>1. Onward(t, s)
      BY <1>6, <2>3, <2>4 DEF Onward
    <3> QED BY <1>4, <2>2, <3>1
  <2>5. CASE s.lastDot = OddSkipDot /\ t.dot = s.dot + 1 /\ t.lastDot = t.dot
    <3>1. Weight(t) = t.dot /\ Weight(s) = s.dot + 1
      BY <1>2, <1>6, <2>1, <2>3, <2>5 DEF Weight
    <3>2. Left(t) = 0 /\ Left(s) = s.dot - s.lastDot
      BY <1>2, <1>6, <2>3, <2>5 DEF Left
    <3> QED BY <1>2, <2>1, <2>2, <2>5, <3>1, <3>2
  <2> QED BY <2>3, <2>4, <2>5
<1>7. CASE s.lastDot # s.dot /\ s.line = PreRenderLine + 1
  <2>1. t = [s EXCEPT !.line = 0, !.odd = ~@]
    BY <1>1, <1>7, Rounds
  <2> HIDE DEF t
  <2>2. RenderedOK(t) /\ t.line = 0 /\ t.dot = s.dot /\ t.lastDot = s.lastDot
    BY <1>7, <2>1, FirstLineKeeps
  <2> HIDE <2>1
  <2>3. Weight(t) = Weight(s) /\ Left(t) < Left(s)
    BY <1>2, <1>7, <2>2 DEF Weight, Left
  <2> QED BY <2>2, <2>3
<1>8. CASE s.lastDot # s.dot /\ ~(s.line < PostRenderLine) /\ s.line # PreRenderLine
           /\ s.line # PreRenderLine + 1
  <2>1. t = [s EXCEPT !.lastDot = s.dot]
    BY <1>1, <1>8, Rounds
  <2> HIDE DEF t
  <2>2. t \in States
    BY <1>1, <1>2, <2>1 DEF States
  <2>3. /\ t.line = s.line /\ t.dot = s.dot /\ t.lastDot = s.dot /\ t.mask = s.mask
        /\ t.tall = s.tall /\ t.toggle = s.toggle /\ t.cur = s.cur /\ t.lastTile = s.lastTile
        /\ t.sprites = s.sprites /\ t.first = s.first /\ t.hit = s.hit /\ t.spriteZero = s.spriteZero
        /\ t.oamAddr = s.oamAddr /\ t.steady = s.steady
    BY <1>1, <2>1 DEF States
  <2> HIDE <2>1
  <2>4. Placed(t)
    BY <1>1, <1>2, <1>8, <2>2, <2>3 DEF Placed
  <2>5. Swept(t) /\ Cleared(t)
    BY <1>2, <1>8, <2>3 DEF RenderedOK, Swept, Cleared
  <2>6. Calm(t)
    BY <1>2, <1>8, <2>3 DEF RenderedOK, Calm, MaskOn
  <2>7. Draws(t)
    BY <1>8, <2>3 DEF Draws
  <2>8. Onward(t, s)
    BY <1>1, <1>2, <1>8, <2>3 DEF Onward
  <2>9. RenderedOK(t)
    BY <2>4, <2>5, <2>6, <2>7 DEF RenderedOK
  <2> QED BY <1>4, <2>8, <2>9
<1>9. CASE s.lastDot = s.dot /\ s.dot >= CyclesPerLine
  <2>1. t = [s EXCEPT !.line = @ + 1, !.dot = @ - CyclesPerLine, !.lastDot = 0, !.toggle = 0,
                      !.shown = Blank]
    BY <1>1, <1>9, Rounds
  <2> HIDE DEF t
  <2>2. LineAfter(t, s)
    BY <1>1, <1>9, <2>1, LineEndIs
  <2> HIDE <2>1
  <2>3. RenderedOK(t)
    BY <1>9, <2>2, LineEndKeeps
  <2>4. t.dot = s.dot - CyclesPerLine
    BY <2>2 DEF LineAfter
  <2>5. Weight(t) <= t.dot + 1 /\ Weight(s) >= s.dot
    BY <1>2, <1>9, <2>4 DEF Weight
  <2>6. Weight(t) \in Nat /\ Weight(s) \in Nat
    BY <1>2, <1>9, <2>4 DEF Weight
  <2>7. Weight(t) < Weight(s)
    BY <1>2, <2>4, <2>5, <2>6
  <2> QED BY <2>3, <2>7
<1> QED BY <1>2, <1>5, <1>6, <1>7, <1>8, <1>9

\* What the invariant says does not depend on the dot, as long as the beam is not behind it.
LEMMA SameRendered ==
  ASSUME NEW s, RenderedOK(s), NEW t \in States, t.line = s.line, t.lastDot = s.lastDot,
         s.lastDot <= t.dot, t.mask = s.mask, t.tall = s.tall, t.toggle = s.toggle, t.cur = s.cur,
         t.lastTile = s.lastTile, t.sprites = s.sprites, t.first = s.first, t.hit = s.hit,
         t.spriteZero = s.spriteZero, t.steady = s.steady, t.shown = s.shown,
         s.oamAddr = 0 => t.oamAddr = 0
  PROVE  RenderedOK(t)
<1>1. Placed(t) /\ Swept(t) /\ Cleared(t)
  BY DEF RenderedOK, Placed, Swept, Cleared
<1>2. Calm(t)
  BY DEF RenderedOK, Calm, MaskOn
<1>3. Draws(t)
  <2>1. ASSUME NEW n, NEW x
        PROVE  /\ Foremost(t, n, x) = Foremost(s, n, x) /\ Pixel(t, n, x) = Pixel(s, n, x)
               /\ ZeroAt(t, n, x) <=> ZeroAt(s, n, x)
    BY SamePicture
  <2>2. (MetBefore(t) <=> MetBefore(s)) /\ Met(t) = Met(s)
    BY SameMet
  <2>3. Follows(s) => Follows(t)
    BY <2>1 DEF Follows
  <2>4. InTiles(s) => InTiles(t)
    BY <2>1, <2>2 DEF InTiles
  <2>5. BehindTiles(s) => BehindTiles(t)
    BY <2>1 DEF BehindTiles
  <2> QED BY <2>3, <2>4, <2>5 DEF RenderedOK, Draws
<1> QED BY <1>1, <1>2, <1>3 DEF RenderedOK

Plus(s, d) == [s EXCEPT !.dot = s.dot + d]

AtRest(s) == s.lastDot = s.dot /\ s.dot < CyclesPerLine

\* The loops of PpuTicksExecute.
CatchUp[t \in States] == IF t.lastDot = t.dot /\ t.dot < CyclesPerLine THEN t ELSE CatchUp[Round(t)]

LEMMA PlusIs ==
  ASSUME NEW s \in States, NEW d \in Nat
  PROVE  LET t == Plus(s, d)
         IN  /\ t \in States /\ t.line = s.line /\ t.dot = s.dot + d /\ t.lastDot = s.lastDot
             /\ t.odd = s.odd /\ t.mask = s.mask /\ t.tall = s.tall /\ t.toggle = s.toggle
             /\ t.cur = s.cur /\ t.lastTile = s.lastTile /\ t.sprites = s.sprites
             /\ t.first = s.first /\ t.hit = s.hit /\ t.spriteZero = s.spriteZero
             /\ t.overflow = s.overflow /\ t.oamAddr = s.oamAddr /\ t.shown = s.shown
             /\ t.steady = s.steady
<1> DEFINE dot == s.dot + d
<1>1. dot \in Nat /\ Plus(s, d) = [s EXCEPT !.dot = dot]
  BY StateFields DEF Plus
<1> HIDE DEF dot
<1>2. [s EXCEPT !.dot = dot] \in States
  BY <1>1 DEF States
<1> QED BY <1>1, <1>2 DEF States, dot

\* A turn of the loops.
LEMMA CatchUpTurn ==
  ASSUME Given
  PROVE  IsLoop(CatchUp, States, {t \in States : AtRest(t)}, [t \in States |-> Round(t)])
<1> DEFINE D == {t \in States : AtRest(t)}
           R == [t \in States |-> Round(t)]
           A(g, t) == IF t.lastDot = t.dot /\ t.dot < CyclesPerLine THEN t ELSE g[Round(t)]
           F(g) == [t \in States |-> A(g, t)]
           caught == CHOOSE g : g = F(g)
<1>1. R \in [States -> States]
  BY RoundType
<1>2. ASSUME NEW g, NEW t \in States PROVE A(g, t) = IF t \in D THEN t ELSE g[R[t]]
  BY DEF AtRest
<1>3. \E g : g = F(g)
  <2>1. PICK g \in [States -> States \cup {States}] : IsLoop(g, States, D, R)
    <3> HIDE DEF D, R
    <3> QED BY <1>1, LoopExists, Zenon
  <2>2. \A t \in States : g[t] = A(g, t)
    BY <1>2, <2>1 DEF IsLoop
  <2> HIDE DEF A, D, R
  <2>3. g = [t \in States |-> A(g, t)]
    BY <2>1, <2>2
  <2> QED BY <2>3
<1>4. caught = F(caught)
  <2> HIDE DEF F
  <2> QED BY <1>3, Zenon
<1>5. CatchUp = caught
  BY Zenon DEF CatchUp
<1> HIDE DEF A, D, R, caught
<1>6. \A t \in States : caught[t] = A(caught, t)
  BY <1>4
<1> QED BY <1>2, <1>5, <1>6 DEF IsLoop, D, R

LEMMA TicksAre ==
  ASSUME NEW s, NEW n
  PROVE  TicksExecute(s, n) = CatchUp[Plus(s, 3 * n)]
BY Zenon DEF TicksExecute, CatchUp, Plus

LEMMA RenderedPlus ==
  ASSUME NEW s, RenderedOK(s), NEW d \in Nat
  PROVE  RenderedOK(Plus(s, d))
<1>1. s \in States /\ s.lastDot <= s.dot
  BY DEF RenderedOK, Placed
<1>2. s.lastDot <= s.dot + d
  BY <1>1, StateFields
<1> DEFINE t == Plus(s, d)
<1>3. /\ t \in States /\ t.line = s.line /\ t.dot = s.dot + d /\ t.lastDot = s.lastDot
      /\ t.mask = s.mask /\ t.tall = s.tall /\ t.toggle = s.toggle
      /\ t.cur = s.cur /\ t.lastTile = s.lastTile /\ t.sprites = s.sprites
      /\ t.first = s.first /\ t.hit = s.hit /\ t.spriteZero = s.spriteZero
      /\ t.oamAddr = s.oamAddr /\ t.shown = s.shown /\ t.steady = s.steady
  BY <1>1, PlusIs
<1> HIDE DEF t
<1>4. RenderedOK(t)
  BY <1>2, <1>3, SameRendered
<1> QED BY <1>4 DEF t

\* A batch of cycles.
LEMMA TicksKeep ==
  ASSUME Given, NEW s, RenderedOK(s), NEW n \in Nat
  PROVE  RenderedOK(TicksExecute(s, n))
<1> DEFINE D == {t \in States : AtRest(t)}
           R == [t \in States |-> Round(t)]
           P == {t \in States : RenderedOK(t)}
           M == [t \in P |-> Weight(t)]
           N == [t \in P |-> Left(t)]
           r == Plus(s, 3 * n)
<1>1. IsLoop(CatchUp, States, D, R) /\ TicksExecute(s, n) = CatchUp[r]
  BY CatchUpTurn, TicksAre
<1>2. ASSUME NEW t, RenderedOK(t)
      PROVE  t \in States /\ t.dot \in Nat /\ t.lastDot \in Nat /\ t.lastDot <= t.dot
  BY <1>2, StateFields DEF RenderedOK, Placed
<1>3. M \in [P -> Nat] /\ N \in [P -> Nat]
  <2>1. ASSUME NEW t, RenderedOK(t) PROVE Weight(t) \in Nat /\ Left(t) \in Nat
    BY <1>2, <2>1 DEF Weight, Left
  <2> QED BY <2>1
<1>4. Closer(P, D, R, M, N)
  <2> SUFFICES ASSUME NEW t \in P, t \notin D
               PROVE  R[t] \in P /\ (M[R[t]] < M[t] \/ (M[R[t]] = M[t] /\ N[R[t]] < N[t]))
    BY Zenon DEF Closer
  <2>1. t \in States /\ RenderedOK(t) /\ ~AtRest(t)
    OBVIOUS
  <2> DEFINE u == Round(t)
  <2>2. R[t] = u
    BY <2>1
  <2>3. RenderedOK(u) /\ (Weight(u) < Weight(t) \/ (Weight(u) = Weight(t) /\ Left(u) < Left(t)))
    BY <2>1, RoundKeeps DEF AtRest
  <2> HIDE DEF u
  <2>4. u \in P
    BY <1>2, <2>3
  <2>5. M[u] = Weight(u) /\ M[t] = Weight(t) /\ N[u] = Left(u) /\ N[t] = Left(t)
    BY <2>4
  <2> HIDE DEF M, N, R, P, D
  <2> QED BY <2>2, <2>3, <2>4, <2>5
<1>5. r \in P
  <2>1. RenderedOK(r)
    BY RenderedPlus
  <2> HIDE DEF r
  <2> QED BY <1>2, <2>1
<1> HIDE DEF M, N, R, P, r
<1>6. CatchUp[r] \in P
  <2> HIDE DEF D
  <2>1. P \in SUBSET States
    BY DEF P
  <2> QED BY <1>1, <1>3, <1>4, <1>5, <2>1, LoopKeeps, Zenon
<1> QED BY <1>1, <1>6 DEF P

-----------------------------------------------------------------------------
(* The registers.  The picture depends on the scroll position and the game;  *)
(* what is said of a state stays true where these are left alone.            *)

LEMMA SameGoal ==
  ASSUME tmp' = tmp, fineX' = fineX, game' = game
  PROVE  \A s : RenderedOK(s)' <=> RenderedOK(s)
<1>1. \A s, i, y : InRange(s, i, y)' <=> InRange(s, i, y)
  BY DEF InRange, Height
<1>2. \A s, i, y, x : Dot(s, i, y, x)' <=> Dot(s, i, y, x)
  BY DEF Dot, Height
<1>3. \A s, n : Shown(s, n)' = Shown(s, n)
  <2> TAKE s, n
  <2> DEFINE there == {i \in 1..Len(game.oam) : n > 0 /\ InRange(s, i, n - 1)}
             few(i) == game.noLimit \/ Cardinality({j \in there : j < i}) < SpritesPerLine
  <2>1. there' = there
    BY <1>1
  <2>2. Shown(s, n) = {i \in there : few(i)} /\ Shown(s, n)' = {i \in there : few(i)}'
    BY DEF Shown
  <2>3. \A i : few(i)' <=> few(i)
    <3> HIDE DEF there
    <3> QED BY <2>1
  <2> HIDE DEF there, few
  <2> QED BY <2>1, <2>2, <2>3
<1>4. \A s, n, x : At(s, n, x)' = At(s, n, x) /\ SpritesAt(s, n, x)' = SpritesAt(s, n, x)
  BY <1>2, <1>3 DEF At, SpritesAt, SpOn
<1>5. \A s, n, x : Foremost(s, n, x)' = Foremost(s, n, x)
  BY <1>4 DEF Foremost
<1>6. \A a, n, x : TileAt(a, n, x)' = TileAt(a, n, x)
  BY DEF TileAt
<1>7. \A s, n, x : GroundAt(s, n, x)' <=> GroundAt(s, n, x)
  BY <1>6 DEF GroundAt, Opaque, BgOn
<1>8. \A s, n, x : Pixel(s, n, x)' = Pixel(s, n, x) /\ (ZeroAt(s, n, x)' <=> ZeroAt(s, n, x))
  BY <1>4, <1>7 DEF Pixel, ZeroAt
<1>9. \A s : (Met(s)' = Met(s)) /\ (MetBefore(s)' <=> MetBefore(s))
  BY <1>8 DEF Met, MetBefore
<1>10. \A s : Follows(s)' <=> Follows(s)
  BY <1>8 DEF Follows
<1>11. \A a, n : AtRow(a, n)' <=> AtRow(a, n)
  BY <1>6 DEF AtRow
<1>12. \A s : (InTiles(s)' <=> InTiles(s)) /\ (BehindTiles(s)' <=> BehindTiles(s))
  BY <1>5, <1>9, <1>11 DEF InTiles, BehindTiles
<1>13. \A s : (Placed(s)' <=> Placed(s)) /\ (Swept(s)' <=> Swept(s)) /\ (Cleared(s)' <=> Cleared(s))
  BY DEF Placed, Swept, Cleared, States
<1>14. \A s : (Calm(s)' <=> Calm(s)) /\ (Draws(s)' <=> Draws(s))
  BY <1>10, <1>12 DEF Calm, Draws, MaskOn
<1> QED BY <1>13, <1>14 DEF RenderedOK

\* A write or a DMA disturbs the frame: nothing is said of what it shows any more.
LEMMA Disturbed ==
  ASSUME NEW s, RenderedOK(s), NEW t \in States, ~t.steady, t.line = s.line, t.dot = s.dot,
         t.lastDot = s.lastDot, t.lastTile = s.lastTile, t.first = s.first, t.hit = s.hit,
         t.sprites = s.sprites, t.spriteZero = s.spriteZero
  PROVE  RenderedOK(t)'
<1>1. Placed(t)'
  BY DEF RenderedOK, Placed, States
<1>2. Swept(t)' /\ Cleared(t)'
  BY DEF RenderedOK, Swept, Cleared
<1>3. Calm(t)' /\ Draws(t)'
  BY DEF Calm, Draws
<1> QED BY <1>1, <1>2, <1>3 DEF RenderedOK

\* The name table of an address and a tile in it.
LEMMA NameTable ==
  ASSUME NEW x \in 0..(2 * LineTiles - 1), NEW tile \in 0..(LineTiles - 1)
  PROVE  /\ tile + ((x \div LineTiles) * LineTiles) \in 0..(2 * LineTiles - 1)
         /\ x % LineTiles \in 0..(LineTiles - 1)
         /\ tile + 0 * LineTiles \in 0..(2 * LineTiles - 1)
         /\ tile + 1 * LineTiles \in 0..(2 * LineTiles - 1)
<1>1. LineTiles \in Nat \ {0} /\ x \in Nat
  BY Sizes
<1>2. x % LineTiles \in 0..(LineTiles - 1)
  BY <1>1, DivMod
<1>3. x \div LineTiles \in {0, 1}
  <2>1. CASE x < LineTiles
    <3>1. x = 0 * LineTiles + x
      BY <1>1
    <3> QED BY <1>1, <2>1, <3>1, ModIs
  <2>2. CASE ~(x < LineTiles)
    <3>1. x - LineTiles \in Nat /\ x = 1 * LineTiles + (x - LineTiles) /\ x - LineTiles < LineTiles
      BY <1>1, <2>2
    <3> QED BY <1>1, <3>1, ModIs
  <2> QED BY <2>1, <2>2
<1>4. 0 * LineTiles = 0 /\ 1 * LineTiles = LineTiles
  BY <1>1
<1> QED BY <1>1, <1>2, <1>3, <1>4

LEMMA OamHolds ==
  ASSUME Given
  PROVE  {0, OamSize - SpriteSize} \subseteq 0..(OamSize - 1)
<1>1. Len(game.oam) \in Nat /\ Len(game.oam) * SpriteSize = OamSize
      /\ OamSize \in Nat \ {0} /\ SpriteSize \in Nat \ {0}
  BY GameSprites, RenderConstants DEF Given
<1> DEFINE k == Len(game.oam)
<1>2. k \in Nat /\ k * SpriteSize = OamSize
  BY <1>1
<1> HIDE DEF k
<1>3. k # 0
  BY <1>1, <1>2
<1>4. SpriteSize <= OamSize
  <2>1. k - 1 \in Nat /\ (k - 1) * SpriteSize \in Nat /\ k * SpriteSize = (k - 1) * SpriteSize + SpriteSize
    BY <1>1, <1>2, <1>3
  <2> QED BY <1>1, <1>2, <2>1
<1> QED BY <1>1, <1>4

\* What a program writes is an address, and a fine scroll.
LEMMA ScrollType ==
  ASSUME RenderInv, RenderNext
  PROVE  tmp' \in Address /\ fineX' \in 0..(TileWidth - 1) /\ w' \in BOOLEAN /\ game' \in Games
<1>1. tmp \in Address /\ fineX \in 0..(TileWidth - 1) /\ w \in BOOLEAN /\ game \in Games
      /\ tmp.x \in 0..(2 * LineTiles - 1)
  BY DEF RenderInv, Address
<1>2. LineTiles \in Nat \ {0}
  BY Sizes
<1> DEFINE low == tmp.x % LineTiles
           high == (tmp.x \div LineTiles) * LineTiles
<1>3. low \in 0..(LineTiles - 1) /\ \A tile \in 0..(LineTiles - 1) : tile + high \in 0..(2 * LineTiles - 1)
  <2>1. 0 \in 0..(LineTiles - 1)
    BY <1>2
  <2>2. low \in 0..(LineTiles - 1)
    BY <1>1, <2>1, NameTable
  <2>3. ASSUME NEW tile \in 0..(LineTiles - 1) PROVE tile + high \in 0..(2 * LineTiles - 1)
    BY <1>1, NameTable
  <2> QED BY <2>2, <2>3
<1>4. ASSUME NEW ctrl \in Ctrls, CtrlWrite(ctrl)
      PROVE  tmp' \in Address /\ fineX' \in 0..(TileWidth - 1) /\ w' \in BOOLEAN /\ game' \in Games
  <2> DEFINE x == low + ctrl.ntX * LineTiles
  <2>1. ctrl.ntX \in {0, 1} /\ ctrl.ntY \in {0, 1}
    BY RenderConstants
  <2>2. x \in 0..(2 * LineTiles - 1)
    <3>1. low + 0 * LineTiles \in 0..(2 * LineTiles - 1) /\ low + 1 * LineTiles \in 0..(2 * LineTiles - 1)
      BY <1>1, <1>3, NameTable
    <3> HIDE DEF low
    <3> QED BY <2>1, <3>1
  <2>3. tmp' = [tmp EXCEPT !.x = x, !.ntY = ctrl.ntY]
    BY <1>1, <1>4 DEF CtrlWrite, Address
  <2> HIDE DEF x
  <2>4. tmp' \in Address
    BY <1>1, <2>1, <2>2, <2>3 DEF Address
  <2> QED BY <1>1, <1>4, <2>4 DEF CtrlWrite, Write
<1>5. ASSUME NEW v \in Scrolls, ScrollWrite(v)
      PROVE  tmp' \in Address /\ fineX' \in 0..(TileWidth - 1) /\ w' \in BOOLEAN /\ game' \in Games
  <2> DEFINE x == v.x + high
  <2>1. v.x \in 0..(LineTiles - 1) /\ v.fineX \in 0..(TileWidth - 1) /\ v.tileY \in 0..(TileRows - 1)
        /\ v.fineY \in 0..(FineRows - 1)
    BY RenderConstants
  <2>2. x \in 0..(2 * LineTiles - 1)
    BY <1>3, <2>1
  <2>3. tmp' = IF w THEN [tmp EXCEPT !.tileY = v.tileY, !.fineY = v.fineY] ELSE [tmp EXCEPT !.x = x]
    BY <1>1, <1>5 DEF ScrollWrite, Address
  <2> HIDE DEF x
  <2>4. tmp' \in Address
    BY <1>1, <2>1, <2>2, <2>3 DEF Address
  <2>5. fineX' \in 0..(TileWidth - 1)
    BY <1>1, <1>5, <2>1 DEF ScrollWrite
  <2> QED BY <1>1, <1>5, <2>4, <2>5 DEF ScrollWrite, Write
<1>6. ASSUME NEW a \in Addrs, AddrWrite(a)
      PROVE  tmp' \in Address /\ fineX' \in 0..(TileWidth - 1) /\ w' \in BOOLEAN /\ game' \in Games
  <2> DEFINE x == (a.x % LineTiles) + high
             y == low + (a.x \div LineTiles) * LineTiles
  <2>1. a \in Address /\ a.x \in 0..(2 * LineTiles - 1)
    BY RenderConstants DEF Address
  <2>2. x \in 0..(2 * LineTiles - 1) /\ y \in 0..(2 * LineTiles - 1)
    <3>1. a.x % LineTiles \in 0..(LineTiles - 1)
      BY <2>1, <1>3, NameTable
    <3>2. y \in 0..(2 * LineTiles - 1)
      BY <2>1, <1>3, NameTable
    <3> QED BY <1>3, <3>1, <3>2
  <2>3. tmp' = IF w THEN [tmp EXCEPT !.x = x] ELSE [a EXCEPT !.x = y]
    BY <1>1, <1>6, <2>1 DEF AddrWrite, Address
  <2> HIDE DEF x, y
  <2>4. tmp' \in Address
    BY <1>1, <2>1, <2>2, <2>3 DEF Address
  <2> QED BY <1>1, <1>6, <2>4 DEF AddrWrite, Write
<1> HIDE DEF low, high
<1>7. ASSUME UNCHANGED <<tmp, fineX, game>>, w' \in BOOLEAN
      PROVE  tmp' \in Address /\ fineX' \in 0..(TileWidth - 1) /\ w' \in BOOLEAN /\ game' \in Games
  BY <1>1, <1>7
<1>8. ASSUME \/ \E n \in RenderBatches : Ticks(n)
             \/ \E mask \in Masks : MaskWrite(mask)
             \/ \E addr \in {0, OamSize - SpriteSize} : OamAddrWrite(addr)
             \/ StatusRead \/ DmaStart \/ DmaByte \/ DmaLast
      PROVE  UNCHANGED <<tmp, fineX, game>> /\ w' \in BOOLEAN
  BY <1>1, <1>8 DEF Ticks, MaskWrite, OamAddrWrite, StatusRead, DmaStart, DmaByte, DmaLast, Write
<1> QED BY <1>4, <1>5, <1>6, <1>7, <1>8 DEF RenderNext

\* Running the PPU, and what else leaves the picture alone.
LEMMA RunKeeps ==
  ASSUME RenderInv, UNCHANGED <<tmp, fineX, game>>, NEW t, RenderedOK(t), ppu' = t
  PROVE  RenderedOK(ppu)'
<1>1. \A s : RenderedOK(s)' <=> RenderedOK(s)
  BY SameGoal
<1>2. PICK u : u = t /\ u = ppu'
  OBVIOUS
<1>3. RenderedOK(u)'
  BY <1>1, <1>2
<1> QED BY <1>2, <1>3

\* The register writes and the bytes of a DMA, that disturb what PpuTicksExecute left.
LEMMA DisturbKeeps ==
  ASSUME Given, NEW s, RenderedOK(s), NEW mask \in Masks, NEW toggle \in Nat, NEW tall \in BOOLEAN,
         NEW cur \in Address, NEW addr \in 0..(OamSize - 1), NEW steady, steady = FALSE,
         ppu' = [s EXCEPT !.mask = mask, !.toggle = toggle, !.tall = tall, !.cur = cur,
                          !.oamAddr = addr, !.steady = steady]
  PROVE  RenderedOK(ppu)'
<1>1. PICK t : t = ppu'
  OBVIOUS
<1>2. s \in States
  BY DEF RenderedOK, Placed
<1>3. t = [s EXCEPT !.mask = mask, !.toggle = toggle, !.tall = tall, !.cur = cur,
                    !.oamAddr = addr, !.steady = steady]
  BY <1>1
<1>4. t \in States
  <2>1. steady \in BOOLEAN
    OBVIOUS
  <2>2. [s EXCEPT !.mask = mask, !.toggle = toggle, !.tall = tall, !.cur = cur,
                  !.oamAddr = addr, !.steady = steady] \in States
    BY <1>2, <2>1 DEF States
  <2> QED BY <1>3, <2>2
<1>5. t.line = s.line /\ t.dot = s.dot /\ t.lastDot = s.lastDot /\ t.lastTile = s.lastTile
      /\ t.first = s.first /\ t.hit = s.hit /\ t.sprites = s.sprites /\ t.spriteZero = s.spriteZero
      /\ t.steady = steady
  BY <1>2, <1>3 DEF States
<1>6. RenderedOK(t)'
  BY <1>4, <1>5, Disturbed
<1> QED BY <1>1, <1>6

LEMMA ActionKeeps ==
  ASSUME RenderInv, RenderNext
  PROVE  RenderedOK(ppu)'
<1>1. Given /\ RenderedOK(ppu) /\ ppu \in States /\ w \in BOOLEAN
  BY DEF RenderInv, Given, RenderedOK, Placed
<1>2. /\ ppu.mask \in Masks /\ ppu.toggle \in Nat /\ ppu.tall \in BOOLEAN /\ ppu.cur \in Address
      /\ ppu.oamAddr \in 0..(OamSize - 1) /\ ppu.dot \in Nat
  BY <1>1, StateFields
<1>3. \A n \in Nat : RenderedOK(TicksExecute(ppu, n))
  BY <1>1, TicksKeep
<1>4. ASSUME NEW n \in RenderBatches, Ticks(n) PROVE RenderedOK(ppu)'
  <2>1. n \in Nat
    BY RenderConstants
  <2> DEFINE t == TicksExecute(ppu, n)
  <2>2. RenderedOK(t) /\ ppu' = t /\ UNCHANGED <<tmp, fineX, game>>
    BY <1>3, <1>4, <2>1 DEF Ticks
  <2> HIDE DEF t
  <2> QED BY <2>2, RunKeeps
<1>5. ASSUME NEW mask \in Masks, MaskWrite(mask) PROVE RenderedOK(ppu)'
  <2> DEFINE toggle == IF <<mask.bg, mask.sp>> # <<ppu.mask.bg, ppu.mask.sp>> THEN ppu.dot ELSE ppu.toggle
  <2>1. ppu' = [ppu EXCEPT !.mask = mask, !.toggle = toggle, !.tall = ppu.tall, !.cur = ppu.cur,
                           !.oamAddr = ppu.oamAddr, !.steady = FALSE]
    BY <1>1, <1>5 DEF MaskWrite, States
  <2>2. toggle \in Nat
    BY <1>2
  <2> HIDE DEF toggle
  <2> QED BY <1>1, <1>2, <2>1, <2>2, DisturbKeeps
<1>6. ASSUME NEW ctrl \in Ctrls, CtrlWrite(ctrl) PROVE RenderedOK(ppu)'
  <2>1. ppu' = [ppu EXCEPT !.mask = ppu.mask, !.toggle = ppu.toggle, !.tall = ctrl.tall, !.cur = ppu.cur,
                           !.oamAddr = ppu.oamAddr, !.steady = FALSE]
    BY <1>1, <1>6 DEF CtrlWrite, States
  <2>2. ctrl.tall \in BOOLEAN
    BY RenderConstants
  <2> QED BY <1>1, <1>2, <2>1, <2>2, DisturbKeeps
<1>7. ASSUME NEW addr \in {0, OamSize - SpriteSize}, OamAddrWrite(addr) PROVE RenderedOK(ppu)'
  <2>1. ppu' = [ppu EXCEPT !.mask = ppu.mask, !.toggle = ppu.toggle, !.tall = ppu.tall, !.cur = ppu.cur,
                           !.oamAddr = addr, !.steady = FALSE]
    BY <1>1, <1>7 DEF OamAddrWrite, States
  <2>2. addr \in 0..(OamSize - 1)
    BY <1>1, OamHolds
  <2> QED BY <1>1, <1>2, <2>1, <2>2, DisturbKeeps
<1>8. ASSUME NEW v \in Scrolls, ScrollWrite(v) PROVE RenderedOK(ppu)'
  <2>1. ppu' = [ppu EXCEPT !.mask = ppu.mask, !.toggle = ppu.toggle, !.tall = ppu.tall, !.cur = ppu.cur,
                           !.oamAddr = ppu.oamAddr, !.steady = FALSE]
    BY <1>1, <1>8 DEF ScrollWrite, States
  <2> QED BY <1>1, <1>2, <2>1, DisturbKeeps
<1>9. ASSUME NEW a \in Addrs, AddrWrite(a) PROVE RenderedOK(ppu)'
  <2>1. PICK cur : cur = IF w THEN tmp' ELSE ppu.cur
    OBVIOUS
  <2>2. ppu' = [ppu EXCEPT !.mask = ppu.mask, !.toggle = ppu.toggle, !.tall = ppu.tall, !.cur = cur,
                           !.oamAddr = ppu.oamAddr, !.steady = FALSE]
    BY <1>1, <1>9, <2>1 DEF AddrWrite, States
  <2>3. cur \in Address
    BY <1>2, <2>1, ScrollType
  <2> QED BY <1>1, <1>2, <2>2, <2>3, DisturbKeeps
<1>10. ASSUME StatusRead \/ DmaStart PROVE RenderedOK(ppu)'
  <2>1. UNCHANGED <<tmp, fineX, game>> /\ ppu' = ppu
    BY <1>10 DEF StatusRead, DmaStart
  <2> QED BY <1>1, <2>1, RunKeeps
<1>11. ASSUME NEW n \in Nat, NEW addr \in 0..(OamSize - 1),
              \/ ppu' = [TicksExecute(ppu, n) EXCEPT !.oamAddr = addr, !.steady = FALSE]
              \/ ppu' = [TicksExecute(ppu, n) EXCEPT !.steady = FALSE]
       PROVE  RenderedOK(ppu)'
  <2> DEFINE s == TicksExecute(ppu, n)
  <2>1. RenderedOK(s)
    BY <1>3
  <2>2. ppu' = [s EXCEPT !.oamAddr = addr, !.steady = FALSE] \/ ppu' = [s EXCEPT !.steady = FALSE]
    BY <1>11
  <2> HIDE DEF s
  <2>3. s \in States
    BY <2>1 DEF RenderedOK, Placed
  <2>4. PICK to \in 0..(OamSize - 1) : ppu' = [s EXCEPT !.mask = s.mask, !.toggle = s.toggle, !.tall = s.tall,
                                                        !.cur = s.cur, !.oamAddr = to, !.steady = FALSE]
    <3>1. CASE ppu' = [s EXCEPT !.oamAddr = addr, !.steady = FALSE]
      <4>1. ppu' = [s EXCEPT !.mask = s.mask, !.toggle = s.toggle, !.tall = s.tall,
                             !.cur = s.cur, !.oamAddr = addr, !.steady = FALSE]
        BY <2>3, <3>1 DEF States
      <4> QED BY <4>1
    <3>2. CASE ppu' = [s EXCEPT !.steady = FALSE]
      <4>1. ppu' = [s EXCEPT !.mask = s.mask, !.toggle = s.toggle, !.tall = s.tall,
                             !.cur = s.cur, !.oamAddr = s.oamAddr, !.steady = FALSE]
        BY <2>3, <3>2 DEF States
      <4> QED BY <2>3, <4>1, StateFields
    <3> QED BY <2>2, <3>1, <3>2
  <2>5. /\ s.mask \in Masks /\ s.toggle \in Nat /\ s.tall \in BOOLEAN /\ s.cur \in Address
    BY <2>3, StateFields
  <2> QED BY <1>1, <2>1, <2>4, <2>5, DisturbKeeps
<1>12. ASSUME DmaByte PROVE RenderedOK(ppu)'
  <2> DEFINE s == TicksExecute(ppu, 2)
             addr == (s.oamAddr + 1) % OamSize
  <2>1. s \in States
    BY <1>3 DEF RenderedOK, Placed
  <2>2. ppu' = [s EXCEPT !.oamAddr = (@ + 1) % OamSize, !.steady = FALSE]
    BY <1>12 DEF DmaByte
  <2> HIDE DEF s
  <2>3. s.oamAddr + 1 \in Nat /\ OamSize \in Nat \ {0}
    BY <2>1, StateFields, Sizes
  <2>4. addr \in 0..(OamSize - 1)
    BY <2>3, DivMod
  <2>5. ppu' = [s EXCEPT !.oamAddr = addr, !.steady = FALSE]
    BY <2>1, <2>2 DEF States
  <2> HIDE DEF addr
  <2> QED BY <1>11, <2>4, <2>5 DEF s
<1>13. ASSUME DmaLast PROVE RenderedOK(ppu)'
  <2>1. PICK n \in {1, 2} : ppu' = [TicksExecute(ppu, n) EXCEPT !.steady = FALSE]
    BY <1>13 DEF DmaLast
  <2> QED BY <1>2, <1>11, <2>1
<1> QED BY <1>4, <1>5, <1>6, <1>7, <1>8, <1>9, <1>10, <1>12, <1>13 DEF RenderNext

LEMMA RenderStarts ==
  RenderInit => RenderInv
<1> SUFFICES ASSUME RenderInit PROVE RenderInv
  OBVIOUS
<1>1. PICK mask \in Masks :
        ppu = [line |-> PreRenderLine - 1, dot |-> 0, lastDot |-> 0, odd |-> FALSE,
               mask |-> mask, tall |-> FALSE, toggle |-> 0,
               cur |-> Zero, lastTile |-> 0, sprites |-> NoSprites, first |-> 1,
               hit |-> None, spriteZero |-> FALSE, overflow |-> FALSE,
               oamAddr |-> 0, shown |-> Blank, steady |-> FALSE]
  BY DEF RenderInit
<1>2. {PostRenderLine, PreRenderLine} \subseteq Nat /\ PreRenderLine - 1 \in Nat
      /\ 0 < PostRenderLine /\ PostRenderLine < PreRenderLine
      /\ 0 \in 0..(OamSize - 1) /\ 0 \in 0..(TileRows - 1) /\ 0 \in 0..(FineRows - 1)
      /\ 0 \in 0..(2 * LineTiles - 1) /\ 0 \in 0..(TileWidth - 1) /\ LineTiles \in Nat
  BY Sizes
<1>3. Zero \in Address
  BY <1>2 DEF Zero, Address
<1>4. NoSprites \in [Columns -> Nat] /\ Blank \in [Columns -> Int]
  BY DEF NoSprites, Blank, NotDrawn
<1>5. ppu \in States
  BY <1>1, <1>2, <1>3, <1>4 DEF States
<1>6. ppu.line = PreRenderLine - 1 /\ ppu.dot = 0 /\ ppu.lastDot = 0 /\ ppu.lastTile = 0 /\ ppu.first = 1
      /\ ppu.hit = None /\ ~ppu.steady
  BY <1>1
<1>7. Placed(ppu) /\ Swept(ppu)
  BY <1>2, <1>5, <1>6 DEF Placed, Swept
<1>8. Cleared(ppu) /\ Calm(ppu) /\ Draws(ppu)
  BY <1>2, <1>6 DEF Cleared, Calm, Draws
<1>9. tmp \in Address /\ fineX \in 0..(TileWidth - 1)
  <2>1. CASE tmp = Zero /\ fineX = 0
    BY <1>2, <1>3, <2>1
  <2>2. ASSUME NEW v \in Scrolls, tmp = [Zero EXCEPT !.x = v.x, !.tileY = v.tileY, !.fineY = v.fineY],
               fineX = v.fineX
        PROVE  tmp \in Address /\ fineX \in 0..(TileWidth - 1)
    <3>1. v.x \in 0..(LineTiles - 1) /\ v.fineX \in 0..(TileWidth - 1) /\ v.tileY \in 0..(TileRows - 1)
          /\ v.fineY \in 0..(FineRows - 1)
      BY RenderConstants
    <3>2. v.x \in 0..(2 * LineTiles - 1)
      BY <1>2, <3>1
    <3> QED BY <1>3, <2>2, <3>1, <3>2 DEF Address
  <2> QED BY <2>1, <2>2 DEF RenderInit
<1> QED BY <1>7, <1>8, <1>9 DEF RenderInv, RenderedOK, RenderInit

\* Every state keeps what is said of the beam, the tiles ahead of it, the sprites found
\* for the next line and the registers (render.c 142-573, with the writes of ppu.c).
THEOREM RenderInvariant == RenderSpec => []RenderInv
<1>1. RenderInit => RenderInv
  BY RenderStarts
<1>2. RenderInv /\ [RenderNext]_vars => RenderInv'
  <2> SUFFICES ASSUME RenderInv, [RenderNext]_vars PROVE RenderInv'
    OBVIOUS
  <2>1. CASE RenderNext
    BY <2>1, ScrollType, ActionKeeps DEF RenderInv
  <2>2. CASE UNCHANGED vars
    <3>1. UNCHANGED <<tmp, fineX, game, w>> /\ ppu' = ppu
      BY <2>2 DEF vars
    <3>2. RenderedOK(ppu)'
      BY <3>1, RunKeeps DEF RenderInv
    <3> QED BY <3>1, <3>2 DEF RenderInv
  <2> QED BY <2>1, <2>2
<1> QED BY <1>1, <1>2, PTL DEF RenderSpec

\* An undisturbed frame shows the picture below the scroll position with its sprites, and
\* sets the sprite zero flag when the beam passes the first pixel where sprite 0 meets
\* the background (render.c 163-335, 364-432, 455-519, 533-573).
THEOREM PictureTheorem == RenderSpec => []PictureFollowsScroll
<1>1. RenderInv => PictureFollowsScroll
  BY DEF RenderInv, RenderedOK, Draws, PictureFollowsScroll
<1> QED BY <1>1, RenderInvariant, PTL

-----------------------------------------------------------------------------
(* A batch of cycles and its parts.  A stage of a batch either takes what    *)
(* the stage of a part would take, and the rest of the batch is still to     *)
(* come, or it goes where the part had to stop and a second stage goes on.   *)

\* States are the same if their fields are.
LEMMA SameState ==
  ASSUME NEW s \in States, NEW t \in States,
         t.line = s.line, t.dot = s.dot, t.lastDot = s.lastDot, t.odd = s.odd, t.mask = s.mask,
         t.tall = s.tall, t.toggle = s.toggle, t.cur = s.cur, t.lastTile = s.lastTile,
         t.sprites = s.sprites, t.first = s.first, t.hit = s.hit, t.spriteZero = s.spriteZero,
         t.overflow = s.overflow, t.oamAddr = s.oamAddr, t.shown = s.shown, t.steady = s.steady
  PROVE  t = s
BY DEF States

LEMMA PlusTwice ==
  ASSUME NEW s \in States, NEW d \in Nat, NEW e \in Nat
  PROVE  Plus(Plus(s, d), e) = Plus(s, d + e)
<1>1. s.dot + d + e = s.dot + (d + e)
  BY StateFields
<1>2. Plus(Plus(s, d), e) = [s EXCEPT !.dot = s.dot + d + e]
  BY DEF Plus, States
<1> QED BY <1>1, <1>2 DEF Plus

LEMMA CatchUpIs ==
  ASSUME Given, NEW s \in States
  PROVE  CatchUp[s] = IF AtRest(s) THEN s ELSE CatchUp[Round(s)]
BY CatchUpTurn DEF IsLoop

\* The stage of the batch, and the stage of its part.
Joined(s, d) ==
  Round(Plus(s, d)) = Plus(Round(s), d) \/ Round(Plus(s, d)) = Round(Plus(Round(s), d))

LEMMA JoinedSplits ==
  ASSUME Given, NEW s \in States, NEW d \in Nat \ {0}, s.lastDot <= s.dot, ~AtRest(s),
         Round(s).lastDot <= Round(s).dot, Joined(s, d)
  PROVE  CatchUp[Plus(s, d)] = CatchUp[Plus(Round(s), d)]
<1> DEFINE t == Round(s)
<1>1. t \in States
  BY RoundType
<1>2. t.lastDot <= t.dot
  OBVIOUS
<1>3. ASSUME NEW u \in States, u.lastDot <= u.dot
      PROVE  Plus(u, d) \in States /\ ~AtRest(Plus(u, d))
  <2>1. Plus(u, d) \in States /\ Plus(u, d).dot = u.dot + d /\ Plus(u, d).lastDot = u.lastDot
    BY PlusIs
  <2> QED BY <1>3, <2>1, StateFields DEF AtRest
<1> HIDE DEF t
<1>4. CatchUp[Plus(s, d)] = CatchUp[Round(Plus(s, d))]
  BY <1>3, CatchUpIs
<1>5. CatchUp[Plus(t, d)] = CatchUp[Round(Plus(t, d))]
  BY <1>1, <1>2, <1>3, CatchUpIs
<1>6. Round(Plus(s, d)) = Plus(t, d) \/ Round(Plus(s, d)) = Round(Plus(t, d))
  BY DEF Joined, t
<1> QED BY <1>4, <1>5, <1>6 DEF t

\* What the stages behind the tiles may change.
Later(s, dot, lastDot, cur, oam, steady) ==
  [s EXCEPT !.dot = dot, !.lastDot = lastDot, !.cur = cur, !.oamAddr = oam, !.steady = steady]

LEMMA LaterIs ==
  ASSUME NEW s \in States, NEW dot \in Nat, NEW lastDot \in Nat, NEW cur \in Address,
         NEW oam \in 0..(OamSize - 1), NEW steady \in BOOLEAN
  PROVE  LET t == Later(s, dot, lastDot, cur, oam, steady)
         IN  /\ t \in States /\ t.line = s.line /\ t.dot = dot /\ t.lastDot = lastDot
             /\ t.odd = s.odd /\ t.mask = s.mask /\ t.toggle = s.toggle
             /\ t.cur = cur /\ t.oamAddr = oam /\ t.steady = steady
<1>1. Later(s, dot, lastDot, cur, oam, steady) \in States
  BY DEF Later, States
<1> QED BY <1>1 DEF Later, States

LEMMA LaterTwice ==
  ASSUME NEW s \in States, NEW dot, NEW lastDot, NEW cur, NEW oam, NEW steady,
         NEW dot2, NEW lastDot2, NEW cur2, NEW oam2, NEW steady2
  PROVE  Later(Later(s, dot, lastDot, cur, oam, steady), dot2, lastDot2, cur2, oam2, steady2)
           = Later(s, dot2, lastDot2, cur2, oam2, steady2)
BY DEF Later, States

LEMMA PlusLater ==
  ASSUME NEW s \in States, NEW d
  PROVE  /\ Plus(s, d) = Later(s, s.dot + d, s.lastDot, s.cur, s.oamAddr, s.steady)
         /\ \A dot, lastDot, cur, oam, steady :
              Plus(Later(s, dot, lastDot, cur, oam, steady), d)
                = Later(s, dot + d, lastDot, cur, oam, steady)
<1>1. Plus(s, d) = Later(s, s.dot + d, s.lastDot, s.cur, s.oamAddr, s.steady)
  BY DEF Later, Plus, States
<1>2. ASSUME NEW dot, NEW lastDot, NEW cur, NEW oam, NEW steady
      PROVE  Plus(Later(s, dot, lastDot, cur, oam, steady), d)
               = Later(s, dot + d, lastDot, cur, oam, steady)
  BY DEF Later, Plus, States
<1> QED BY <1>1, <1>2

\* How the stages go that only move on, take the scroll position or reset the OAM address.
AtX(a) == [a EXCEPT !.x = tmp.x]
AtY(a) == [tmp EXCEPT !.x = a.x]
ResetTo(s) == IF MaskOn(s) THEN 0 ELSE s.oamAddr

LEMMA ResetIs ==
  ASSUME NEW s \in States, NEW to
  PROVE  /\ [ResetOAMAddr(s) EXCEPT !.lastDot = to] = Later(s, s.dot, to, s.cur, ResetTo(s), s.steady)
         /\ [s EXCEPT !.lastDot = to] = Later(s, s.dot, to, s.cur, s.oamAddr, s.steady)
BY DEF ResetOAMAddr, ResetTo, Later, States

LEMMA LateRounds ==
  ASSUME Given, NEW s \in States, s.lastDot # s.dot
  PROVE  /\ s.line < PostRenderLine /\ s.lastDot = AssignX =>
              Round(s) = Later(s, s.dot, s.lastDot + 1,
                               IF RenderingEnabled(s) THEN AtX(s.cur) ELSE s.cur,
                               IF RenderingEnabled(s) THEN 0 ELSE s.oamAddr, s.steady)
         /\ s.line < PostRenderLine /\ s.lastDot > AssignX =>
              Round(s) = Later(s, s.dot, s.dot, s.cur,
                               IF s.lastDot <= OamZeroEnd THEN ResetTo(s) ELSE s.oamAddr, s.steady)
         /\ ~(s.line < PostRenderLine) /\ s.line # PreRenderLine /\ s.line # PreRenderLine + 1 =>
              Round(s) = Later(s, s.dot, s.dot, s.cur, s.oamAddr, s.steady)
<1>1. ASSUME s.line < PostRenderLine, s.lastDot = AssignX
      PROVE  Round(s) = Later(s, s.dot, s.lastDot + 1,
                               IF RenderingEnabled(s) THEN AtX(s.cur) ELSE s.cur,
                               IF RenderingEnabled(s) THEN 0 ELSE s.oamAddr, s.steady)
  <2>1. Round(s) = AssignXStage(s)
    BY <1>1, Rounds, VisibleStages
  <2>2. CASE RenderingEnabled(s)
    <3>1. AssignXStage(s) = [[s EXCEPT !.cur.x = tmp.x, !.oamAddr = 0] EXCEPT !.lastDot = @ + 1]
      BY <2>2 DEF AssignXStage
    <3>2. AssignXStage(s) = Later(s, s.dot, s.lastDot + 1, AtX(s.cur), 0, s.steady)
      BY <3>1 DEF Later, AtX, States
    <3> QED BY <2>1, <2>2, <3>2
  <2>3. CASE ~RenderingEnabled(s)
    <3>1. AssignXStage(s) = [s EXCEPT !.lastDot = @ + 1]
      BY <2>3 DEF AssignXStage
    <3>2. AssignXStage(s) = Later(s, s.dot, s.lastDot + 1, s.cur, s.oamAddr, s.steady)
      BY <3>1 DEF Later, States
    <3> QED BY <2>1, <2>3, <3>2
  <2> QED BY <2>2, <2>3
<1>2. ASSUME s.line < PostRenderLine, s.lastDot > AssignX
      PROVE  Round(s) = Later(s, s.dot, s.dot, s.cur,
                              IF s.lastDot <= OamZeroEnd THEN ResetTo(s) ELSE s.oamAddr, s.steady)
  <2>1. Round(s) = RestStage(s)
    BY <1>2, Rounds, VisibleStages
  <2> QED BY <2>1, ResetIs DEF RestStage
<1>3. ASSUME ~(s.line < PostRenderLine), s.line # PreRenderLine, s.line # PreRenderLine + 1
      PROVE  Round(s) = Later(s, s.dot, s.dot, s.cur, s.oamAddr, s.steady)
  <2>1. Round(s) = [s EXCEPT !.lastDot = s.dot]
    BY <1>3, Rounds
  <2> QED BY <2>1, ResetIs
<1> QED BY <1>1, <1>2, <1>3

LEMMA PreRenderRounds ==
  ASSUME Given, NEW s \in States, s.lastDot # s.dot, s.line = PreRenderLine
  PROVE  /\ s.lastDot = 0 => Round(s) = Later(s, s.dot, 1, s.cur, s.oamAddr, s.steady)
         /\ s.lastDot \in 2..IncY =>
              Round(s) = Later(s, s.dot, Lesser(AssignX, s.dot), s.cur, s.oamAddr, s.steady)
         /\ s.lastDot = AssignX =>
              Round(s) = Later(s, s.dot, s.lastDot + 1, IF MaskOn(s) THEN AtX(s.cur) ELSE s.cur,
                               ResetTo(s), s.steady)
         /\ s.lastDot \in (AssignX + 1)..(AssignYBegin - 1) =>
              Round(s) = Later(s, s.dot, Lesser(AssignYBegin, s.dot), s.cur, ResetTo(s), s.steady)
         /\ s.lastDot \in AssignYBegin..AssignYEnd =>
              Round(s) = Later(s, s.dot, Lesser(AssignYEnd + 1, s.dot),
                               IF MaskOn(s) THEN AtY(s.cur) ELSE s.cur, ResetTo(s),
                               IF MaskOn(s) THEN s.cur.x = tmp.x ELSE s.steady)
         /\ s.lastDot \in (AssignYEnd + 1)..(OddSkipDot - 1) =>
              Round(s) = Later(s, s.dot, Lesser(OddSkipDot, s.dot), s.cur,
                               IF s.lastDot <= OamZeroEnd THEN ResetTo(s) ELSE s.oamAddr, s.steady)
         /\ s.lastDot = OddSkipDot /\ s.odd /\ MaskOn(s) =>
              Round(s) = Later(s, s.dot + 1, s.dot + 1, s.cur, s.oamAddr, s.steady)
         /\ s.lastDot >= OddSkipDot /\ ~(s.lastDot = OddSkipDot /\ s.odd /\ MaskOn(s)) =>
              Round(s) = Later(s, s.dot, s.dot, s.cur, s.oamAddr, s.steady)
<1>1. s.lastDot \in Nat /\ s.dot \in Nat
  BY StateFields
<1>2. /\ {IncY, AssignX, AssignYBegin, AssignYEnd, OamZeroEnd, OddSkipDot} \subseteq Nat
      /\ 0 < IncY /\ AssignX = IncY + 1 /\ AssignX < AssignYBegin /\ AssignYBegin <= AssignYEnd
      /\ AssignYEnd < OamZeroEnd /\ OamZeroEnd < OddSkipDot
  BY Sizes
<1> DEFINE t == Round(s)
           first == [s EXCEPT !.lastDot = 1]
           clear == [s EXCEPT !.spriteZero = FALSE, !.overflow = FALSE,
                              !.sprites = NoSprites, !.lastDot = 2]
           wait == [s EXCEPT !.lastDot = Lesser(AssignX, s.dot)]
           assignX == [IF MaskOn(s) THEN [s EXCEPT !.cur.x = tmp.x, !.oamAddr = 0] ELSE s
                         EXCEPT !.lastDot = @ + 1]
           reset == [ResetOAMAddr(s) EXCEPT !.lastDot = Lesser(AssignYBegin, s.dot)]
           assignY == [IF MaskOn(s)
                         THEN [s EXCEPT !.cur = [tmp EXCEPT !.x = s.cur.x], !.oamAddr = 0,
                                        !.steady = (s.cur.x = tmp.x)]
                         ELSE s EXCEPT !.lastDot = Lesser(AssignYEnd + 1, s.dot)]
           late == [IF s.lastDot <= OamZeroEnd THEN ResetOAMAddr(s) ELSE s
                      EXCEPT !.lastDot = Lesser(OddSkipDot, s.dot)]
           skip == [s EXCEPT !.dot = @ + 1, !.lastDot = s.dot + 1]
           rest == [s EXCEPT !.lastDot = s.dot]
<1>3. /\ s.lastDot = 0 => t = first
      /\ s.lastDot \in 2..IncY => t = wait
      /\ s.lastDot = AssignX => t = assignX
      /\ s.lastDot \in (AssignX + 1)..(AssignYBegin - 1) => t = reset
      /\ s.lastDot \in AssignYBegin..AssignYEnd => t = assignY
      /\ s.lastDot \in (AssignYEnd + 1)..(OddSkipDot - 1) => t = late
      /\ s.lastDot = OddSkipDot /\ s.odd /\ MaskOn(s) => t = skip
      /\ s.lastDot >= OddSkipDot /\ ~(s.lastDot = OddSkipDot /\ s.odd /\ MaskOn(s)) => t = rest
  <2>1. t = PreRenderStage(s)
    BY Rounds
  <2>2. t = CASE s.lastDot = 0 -> first
              [] s.lastDot = 1 -> clear
              [] s.lastDot \in 2..IncY -> wait
              [] s.lastDot = AssignX -> assignX
              [] s.lastDot \in (AssignX + 1)..(AssignYBegin - 1) -> reset
              [] s.lastDot \in AssignYBegin..AssignYEnd -> assignY
              [] s.lastDot \in (AssignYEnd + 1)..(OddSkipDot - 1) -> late
              [] s.lastDot = OddSkipDot /\ s.odd /\ MaskOn(s) -> skip
              [] OTHER -> rest
    BY <2>1, Zenon DEF PreRenderStage
  <2> HIDE DEF t, first, clear, wait, assignX, reset, assignY, late, skip, rest
  <2> QED BY <1>1, <1>2, <2>2
<1>4. first = Later(s, s.dot, 1, s.cur, s.oamAddr, s.steady)
      /\ wait = Later(s, s.dot, Lesser(AssignX, s.dot), s.cur, s.oamAddr, s.steady)
      /\ rest = Later(s, s.dot, s.dot, s.cur, s.oamAddr, s.steady)
  BY ResetIs
<1>5. reset = Later(s, s.dot, Lesser(AssignYBegin, s.dot), s.cur, ResetTo(s), s.steady)
  BY ResetIs
<1>6. late = Later(s, s.dot, Lesser(OddSkipDot, s.dot), s.cur,
                   IF s.lastDot <= OamZeroEnd THEN ResetTo(s) ELSE s.oamAddr, s.steady)
  BY ResetIs
<1>7. skip = Later(s, s.dot + 1, s.dot + 1, s.cur, s.oamAddr, s.steady)
  BY DEF Later, States
<1>8. assignX = Later(s, s.dot, s.lastDot + 1, IF MaskOn(s) THEN AtX(s.cur) ELSE s.cur,
                      ResetTo(s), s.steady)
  <2>1. CASE MaskOn(s)
    <3>1. assignX = [[s EXCEPT !.cur.x = tmp.x, !.oamAddr = 0] EXCEPT !.lastDot = @ + 1]
      BY <2>1
    <3>2. assignX = Later(s, s.dot, s.lastDot + 1, AtX(s.cur), 0, s.steady)
      BY <3>1 DEF Later, AtX, States
    <3> QED BY <2>1, <3>2 DEF ResetTo
  <2>2. CASE ~MaskOn(s)
    <3>1. assignX = [s EXCEPT !.lastDot = s.lastDot + 1]
      BY <2>2
    <3> QED BY <2>2, <3>1, ResetIs DEF ResetTo
  <2> QED BY <2>1, <2>2
<1>9. assignY = Later(s, s.dot, Lesser(AssignYEnd + 1, s.dot),
                      IF MaskOn(s) THEN AtY(s.cur) ELSE s.cur, ResetTo(s),
                      IF MaskOn(s) THEN s.cur.x = tmp.x ELSE s.steady)
  <2>1. CASE MaskOn(s)
    <3> DEFINE steady == (s.cur.x = tmp.x)
               to == Lesser(AssignYEnd + 1, s.dot)
    <3>1. assignY = [[s EXCEPT !.cur = AtY(s.cur), !.oamAddr = 0, !.steady = steady] EXCEPT !.lastDot = to]
      BY <2>1 DEF AtY
    <3> HIDE DEF steady, to, assignY
    <3>2. assignY = Later(s, s.dot, to, AtY(s.cur), 0, steady)
      BY <3>1 DEF Later, States
    <3> QED BY <2>1, <3>2 DEF ResetTo, steady, to
  <2>2. CASE ~MaskOn(s)
    <3>1. assignY = [s EXCEPT !.lastDot = Lesser(AssignYEnd + 1, s.dot)]
      BY <2>2
    <3> QED BY <2>2, <3>1, ResetIs DEF ResetTo
  <2> QED BY <2>1, <2>2
<1> HIDE DEF t, first, clear, wait, assignX, reset, assignY, late, skip, rest
<1>10. /\ s.lastDot = 0 => t = Later(s, s.dot, 1, s.cur, s.oamAddr, s.steady)
       /\ s.lastDot \in 2..IncY => t = Later(s, s.dot, Lesser(AssignX, s.dot), s.cur, s.oamAddr, s.steady)
  BY <1>3, <1>4, Zenon
<1> QED BY <1>3, <1>4, <1>5, <1>6, <1>7, <1>8, <1>9, <1>10, Zenon DEF t

\* Where a stage does not go by the dot, and where it stops at the dot.
LEMMA JoinedAtOnce ==
  ASSUME NEW s \in States, NEW d, NEW dot, NEW lastDot, NEW cur, NEW oam, NEW steady,
         Round(s) = Later(s, dot, lastDot, cur, oam, steady),
         Round(Plus(s, d)) = Later(Plus(s, d), dot + d, lastDot, cur, oam, steady)
  PROVE  Joined(s, d)
<1>1. Round(Plus(s, d)) = Later(s, dot + d, lastDot, cur, oam, steady)
  BY PlusLater, LaterTwice
<1>2. Plus(Round(s), d) = Later(s, dot + d, lastDot, cur, oam, steady)
  BY PlusLater
<1> QED BY <1>1, <1>2 DEF Joined

LEMMA JoinedInTwo ==
  ASSUME NEW s \in States, NEW d, NEW dot, NEW lastDot, NEW cur, NEW oam, NEW steady,
         Round(s) = Later(s, dot, lastDot, cur, oam, steady),
         NEW dot2, NEW lastDot2, NEW cur2, NEW oam2, NEW steady2,
         Round(Plus(s, d)) = Later(Plus(s, d), dot2, lastDot2, cur2, oam2, steady2),
         Round(Plus(Round(s), d)) = Later(Plus(Round(s), d), dot2, lastDot2, cur2, oam2, steady2)
  PROVE  Joined(s, d)
<1>1. Round(Plus(s, d)) = Later(s, dot2, lastDot2, cur2, oam2, steady2)
  BY PlusLater, LaterTwice
<1>2. Plus(Round(s), d) = Later(s, dot + d, lastDot, cur, oam, steady)
  BY PlusLater
<1>3. Round(Plus(Round(s), d)) = Later(s, dot2, lastDot2, cur2, oam2, steady2)
  BY <1>2, LaterTwice
<1> QED BY <1>1, <1>3 DEF Joined

\* The state between a stage and the next one.
Between(t, s, dot, lastDot, cur, oam, steady) ==
  /\ t \in States /\ t.line = s.line /\ t.dot = dot /\ t.lastDot = lastDot /\ t.odd = s.odd
  /\ t.mask = s.mask /\ t.cur = cur /\ t.oamAddr = oam /\ t.steady = steady

LEMMA Halves ==
  ASSUME NEW s \in States, NEW d \in Nat, NEW dot \in Nat, NEW lastDot \in Nat, NEW cur \in Address,
         NEW oam \in 0..(OamSize - 1), NEW steady \in BOOLEAN,
         Round(s) = Later(s, dot, lastDot, cur, oam, steady)
  PROVE  Between(Plus(Round(s), d), s, dot + d, lastDot, cur, oam, steady)
<1> DEFINE t == Plus(Round(s), d)
<1>1. t = Later(s, dot + d, lastDot, cur, oam, steady)
  <2>1. Plus(Later(s, dot, lastDot, cur, oam, steady), d) = Later(s, dot + d, lastDot, cur, oam, steady)
    BY DEF Plus, Later, States
  <2> QED BY <2>1, Zenon
<1>2. dot + d \in Nat
  OBVIOUS
<1> HIDE DEF t
<1>3. /\ t \in States /\ t.line = s.line /\ t.dot = dot + d /\ t.lastDot = lastDot
      /\ t.odd = s.odd /\ t.mask = s.mask /\ t.cur = cur /\ t.oamAddr = oam /\ t.steady = steady
  BY <1>1, <1>2, LaterIs
<1> QED BY <1>3 DEF t, Between

LEMMA ScrollTypes ==
  ASSUME Given, NEW s \in States
  PROVE  /\ AtX(s.cur) \in Address /\ AtY(s.cur) \in Address /\ ResetTo(s) \in 0..(OamSize - 1)
         /\ AtY(s.cur).x = s.cur.x /\ AtY(AtY(s.cur)) = AtY(s.cur) /\ s.oamAddr \in 0..(OamSize - 1)
         /\ 0 \in 0..(OamSize - 1) /\ s.cur \in Address
<1>1. s.cur \in Address /\ tmp \in Address /\ s.oamAddr \in 0..(OamSize - 1) /\ OamSize \in Nat \ {0}
  BY StateFields, Sizes DEF Given
<1>2. AtX(s.cur) \in Address /\ AtY(s.cur) \in Address
  BY <1>1 DEF AtX, AtY, Address
<1>3. AtY(s.cur).x = s.cur.x /\ AtY(AtY(s.cur)) = AtY(s.cur)
  BY <1>1 DEF AtY, Address
<1> QED BY <1>1, <1>2, <1>3 DEF ResetTo

LEMMA LateJoined ==
  ASSUME Given, NEW s \in States, NEW d \in Nat \ {0}, s.lastDot < s.dot,
         \/ s.line < PostRenderLine /\ s.lastDot >= AssignX
         \/ ~(s.line < PostRenderLine) /\ s.line # PreRenderLine /\ s.line # PreRenderLine + 1
  PROVE  Joined(s, d)
<1> DEFINE a == Plus(s, d)
           b == Plus(Round(s), d)
<1>0. d \in Nat /\ s.dot \in Nat /\ s.lastDot \in Nat /\ s.cur \in Address /\ s.steady \in BOOLEAN
  BY StateFields
<1>1. /\ a \in States /\ a.line = s.line /\ a.dot = s.dot + d /\ a.lastDot = s.lastDot
      /\ a.mask = s.mask /\ a.toggle = s.toggle /\ a.cur = s.cur /\ a.oamAddr = s.oamAddr
      /\ a.steady = s.steady
  BY PlusIs
<1>2. s.lastDot \in Nat /\ s.dot \in Nat /\ s.lastDot # s.dot /\ a.lastDot # a.dot
      /\ OamZeroEnd \in Nat /\ AssignX \in Nat
  BY <1>1, StateFields, Sizes
<1>3. ResetTo(a) = ResetTo(s) /\ (RenderingEnabled(a) <=> RenderingEnabled(s))
  BY <1>1 DEF ResetTo, MaskOn, RenderingEnabled, Toggling
<1> HIDE DEF a
<1>4. CASE s.line < PostRenderLine /\ s.lastDot = AssignX
  <2> DEFINE cur == IF RenderingEnabled(s) THEN AtX(s.cur) ELSE s.cur
             oam == IF RenderingEnabled(s) THEN 0 ELSE s.oamAddr
  <2>1. Round(s) = Later(s, s.dot, s.lastDot + 1, cur, oam, s.steady)
    BY <1>2, <1>4, LateRounds
  <2>2. Round(a) = Later(a, s.dot + d, s.lastDot + 1, cur, oam, s.steady)
    BY <1>1, <1>2, <1>3, <1>4, LateRounds
  <2> HIDE DEF cur, oam
  <2> QED BY <2>1, <2>2, JoinedAtOnce DEF a
<1>5. CASE s.line < PostRenderLine /\ s.lastDot > AssignX
  <2> DEFINE oam == IF s.lastDot <= OamZeroEnd THEN ResetTo(s) ELSE s.oamAddr
  <2>1. Round(s) = Later(s, s.dot, s.dot, s.cur, oam, s.steady)
    BY <1>2, <1>5, LateRounds
  <2>2. Round(a) = Later(a, s.dot + d, s.dot + d, s.cur, oam, s.steady)
    BY <1>1, <1>2, <1>3, <1>5, LateRounds
  <2>3. oam \in 0..(OamSize - 1) /\ s.cur \in Address
    BY ScrollTypes
  <2>4. /\ b \in States /\ b.line = s.line /\ b.dot = s.dot + d /\ b.lastDot = s.dot
        /\ b.mask = s.mask /\ b.cur = s.cur /\ b.oamAddr = oam /\ b.steady = s.steady
    <3> HIDE DEF oam
    <3>1. Between(b, s, s.dot + d, s.dot, s.cur, oam, s.steady)
      BY <1>0, <2>1, <2>3, Halves, Zenon
    <3> QED BY <3>1 DEF Between
  <2>5. (IF b.lastDot <= OamZeroEnd THEN ResetTo(b) ELSE b.oamAddr) = oam
    BY <1>2, <2>4 DEF ResetTo, MaskOn
  <2> HIDE DEF oam, b
  <2>6. Round(b) = Later(b, s.dot + d, s.dot + d, s.cur, oam, s.steady)
    <3>1. b.lastDot # b.dot /\ b.line < PostRenderLine /\ b.lastDot > AssignX
      BY <1>2, <1>5, <2>4
    <3>2. Round(b) = Later(b, b.dot, b.dot, b.cur,
                           IF b.lastDot <= OamZeroEnd THEN ResetTo(b) ELSE b.oamAddr, b.steady)
      BY <2>4, <3>1, LateRounds
    <3> QED BY <2>4, <2>5, <3>2
  <2> QED BY <2>1, <2>2, <2>6, JoinedInTwo DEF a, b
<1>6. CASE ~(s.line < PostRenderLine) /\ s.line # PreRenderLine /\ s.line # PreRenderLine + 1
  <2>1. Round(s) = Later(s, s.dot, s.dot, s.cur, s.oamAddr, s.steady)
    BY <1>2, <1>6, LateRounds
  <2>2. Round(a) = Later(a, s.dot + d, s.dot + d, s.cur, s.oamAddr, s.steady)
    BY <1>1, <1>2, <1>6, LateRounds
  <2>3. /\ b \in States /\ b.line = s.line /\ b.dot = s.dot + d /\ b.lastDot = s.dot
        /\ b.cur = s.cur /\ b.oamAddr = s.oamAddr /\ b.steady = s.steady
    <3>1. s.oamAddr \in 0..(OamSize - 1)
      BY ScrollTypes
    <3>2. Between(b, s, s.dot + d, s.dot, s.cur, s.oamAddr, s.steady)
      BY <1>0, <2>1, <3>1, Halves, Zenon
    <3> QED BY <3>2 DEF Between
  <2> HIDE DEF b
  <2>4. Round(b) = Later(b, s.dot + d, s.dot + d, s.cur, s.oamAddr, s.steady)
    <3>1. b.lastDot # b.dot
      BY <1>2, <2>3
    <3> QED BY <1>6, <2>3, <3>1, LateRounds
  <2> QED BY <2>1, <2>2, <2>4, JoinedInTwo DEF a, b
<1> QED BY <1>2, <1>4, <1>5, <1>6

\* The lines before the first one: where the stage ends at a dot `to' of its own.
LEMMA PreRenderJoined ==
  ASSUME Given, NEW s \in States, NEW d \in Nat \ {0}, s.lastDot < s.dot, s.line = PreRenderLine,
         s.lastDot # 1
  PROVE  Joined(s, d)
<1> DEFINE a == Plus(s, d)
           b == Plus(Round(s), d)
<1>0. d \in Nat /\ s.dot \in Nat /\ s.lastDot \in Nat /\ s.cur \in Address /\ s.steady \in BOOLEAN
      /\ s.dot + 1 \in Nat /\ s.dot + 1 + d = s.dot + d + 1
  BY StateFields
<1>1. /\ a \in States /\ a.line = s.line /\ a.dot = s.dot + d /\ a.lastDot = s.lastDot
      /\ a.mask = s.mask /\ a.odd = s.odd /\ a.cur = s.cur /\ a.oamAddr = s.oamAddr
      /\ a.steady = s.steady
  BY PlusIs
<1>2. s.lastDot # s.dot /\ a.lastDot # a.dot
  BY <1>0, <1>1
<1>3. ResetTo(a) = ResetTo(s) /\ (MaskOn(a) <=> MaskOn(s))
  BY <1>1 DEF ResetTo, MaskOn
<1>4. /\ {IncY, AssignX, AssignYBegin, AssignYEnd, OamZeroEnd, OddSkipDot} \subseteq Nat
      /\ 0 < IncY /\ AssignX = IncY + 1 /\ AssignX < AssignYBegin /\ AssignYBegin <= AssignYEnd
      /\ AssignYEnd < OamZeroEnd /\ OamZeroEnd < OddSkipDot
  BY Sizes
<1>5. ASSUME NEW to \in Nat, to <= s.dot
      PROVE  Lesser(to, s.dot) = to /\ Lesser(to, s.dot + d) = to
  BY <1>0, <1>5 DEF Lesser
<1>6. ASSUME NEW to \in Nat, ~(to <= s.dot)
      PROVE  Lesser(to, s.dot) = s.dot
  BY <1>0, <1>6 DEF Lesser
<1>7. /\ AtX(s.cur) \in Address /\ AtY(s.cur) \in Address /\ ResetTo(s) \in 0..(OamSize - 1)
      /\ AtY(s.cur).x = s.cur.x /\ AtY(AtY(s.cur)) = AtY(s.cur) /\ s.oamAddr \in 0..(OamSize - 1)
  BY ScrollTypes
\* What is to be shown of a stage that had to stop at the dot.
<1>8. ASSUME NEW cur \in Address, NEW oam \in 0..(OamSize - 1), NEW steady \in BOOLEAN,
             Round(s) = Later(s, s.dot, s.dot, cur, oam, steady)
      PROVE  /\ b \in States /\ b.line = PreRenderLine /\ b.dot = s.dot + d /\ b.lastDot = s.dot
             /\ b.odd = s.odd /\ b.mask = s.mask /\ b.cur = cur /\ b.oamAddr = oam /\ b.steady = steady
             /\ b.lastDot # b.dot
             /\ (MaskOn(b) <=> MaskOn(s)) /\ ResetTo(b) = IF MaskOn(s) THEN 0 ELSE oam
  <2>1. /\ b \in States /\ b.line = s.line /\ b.dot = s.dot + d /\ b.lastDot = s.dot
        /\ b.odd = s.odd /\ b.mask = s.mask /\ b.cur = cur /\ b.oamAddr = oam /\ b.steady = steady
    <3>1. Between(b, s, s.dot + d, s.dot, cur, oam, steady)
      BY <1>0, <1>8, Halves, Zenon
    <3> QED BY <3>1 DEF Between
  <2> HIDE DEF b
  <2> QED BY <1>0, <2>1 DEF ResetTo, MaskOn
<1> HIDE DEF a, b
<1>9. CASE s.lastDot = 0
  <2>1. Round(s) = Later(s, s.dot, 1, s.cur, s.oamAddr, s.steady)
    BY <1>2, <1>9, PreRenderRounds
  <2>2. Round(a) = Later(a, s.dot + d, 1, s.cur, s.oamAddr, s.steady)
    BY <1>1, <1>2, <1>9, PreRenderRounds
  <2> QED BY <2>1, <2>2, JoinedAtOnce DEF a
<1>10. CASE s.lastDot \in 2..IncY
  <2>1. Round(s) = Later(s, s.dot, Lesser(AssignX, s.dot), s.cur, s.oamAddr, s.steady)
    BY <1>2, <1>10, PreRenderRounds
  <2>2. Round(a) = Later(a, s.dot + d, Lesser(AssignX, s.dot + d), s.cur, s.oamAddr, s.steady)
    BY <1>1, <1>2, <1>10, PreRenderRounds
  <2>3. CASE AssignX <= s.dot
    <3>1. Lesser(AssignX, s.dot) = AssignX /\ Lesser(AssignX, s.dot + d) = AssignX
      BY <1>4, <1>5, <2>3
    <3> QED BY <2>1, <2>2, <3>1, JoinedAtOnce DEF a
  <2>4. CASE ~(AssignX <= s.dot)
    <3>1. Round(s) = Later(s, s.dot, s.dot, s.cur, s.oamAddr, s.steady)
      BY <1>4, <1>6, <2>1, <2>4
    <3>2. /\ b \in States /\ b.line = PreRenderLine /\ b.dot = s.dot + d /\ b.lastDot = s.dot
          /\ b.cur = s.cur /\ b.oamAddr = s.oamAddr /\ b.steady = s.steady /\ b.lastDot # b.dot
      BY <1>0, <1>7, <1>8, <3>1
    <3>3. b.lastDot \in 2..IncY
      BY <1>0, <1>4, <1>10, <2>4, <3>2
    <3>4. Round(b) = Later(b, s.dot + d, Lesser(AssignX, s.dot + d), s.cur, s.oamAddr, s.steady)
      BY <3>2, <3>3, PreRenderRounds
    <3> QED BY <2>2, <3>1, <3>4, JoinedInTwo DEF a, b
  <2> QED BY <2>3, <2>4
<1>11. CASE s.lastDot = AssignX
  <2> DEFINE cur == IF MaskOn(s) THEN AtX(s.cur) ELSE s.cur
  <2>1. Round(s) = Later(s, s.dot, s.lastDot + 1, cur, ResetTo(s), s.steady)
    BY <1>2, <1>11, PreRenderRounds
  <2>2. Round(a) = Later(a, s.dot + d, s.lastDot + 1, cur, ResetTo(s), s.steady)
    BY <1>1, <1>2, <1>3, <1>11, PreRenderRounds
  <2> HIDE DEF cur
  <2> QED BY <2>1, <2>2, JoinedAtOnce DEF a
<1>12. CASE s.lastDot \in (AssignX + 1)..(AssignYBegin - 1)
  <2>1. Round(s) = Later(s, s.dot, Lesser(AssignYBegin, s.dot), s.cur, ResetTo(s), s.steady)
    BY <1>2, <1>12, PreRenderRounds
  <2>2. Round(a) = Later(a, s.dot + d, Lesser(AssignYBegin, s.dot + d), s.cur, ResetTo(s), s.steady)
    BY <1>1, <1>2, <1>3, <1>12, PreRenderRounds
  <2>3. CASE AssignYBegin <= s.dot
    <3>1. Lesser(AssignYBegin, s.dot) = AssignYBegin /\ Lesser(AssignYBegin, s.dot + d) = AssignYBegin
      BY <1>4, <1>5, <2>3
    <3> QED BY <2>1, <2>2, <3>1, JoinedAtOnce DEF a
  <2>4. CASE ~(AssignYBegin <= s.dot)
    <3>1. Round(s) = Later(s, s.dot, s.dot, s.cur, ResetTo(s), s.steady)
      BY <1>4, <1>6, <2>1, <2>4
    <3>2. /\ b \in States /\ b.line = PreRenderLine /\ b.dot = s.dot + d /\ b.lastDot = s.dot
          /\ b.cur = s.cur /\ b.steady = s.steady /\ b.lastDot # b.dot
          /\ ResetTo(b) = IF MaskOn(s) THEN 0 ELSE ResetTo(s)
      BY <1>0, <1>7, <1>8, <3>1
    <3>3. b.lastDot \in (AssignX + 1)..(AssignYBegin - 1)
      BY <1>0, <1>4, <1>12, <2>4, <3>2
    <3>4. ResetTo(b) = ResetTo(s)
      BY <3>2 DEF ResetTo
    <3>5. Round(b) = Later(b, s.dot + d, Lesser(AssignYBegin, s.dot + d), s.cur, ResetTo(s), s.steady)
      BY <3>2, <3>3, <3>4, PreRenderRounds
    <3> QED BY <2>2, <3>1, <3>5, JoinedInTwo DEF a, b
  <2> QED BY <2>3, <2>4
<1>13. CASE s.lastDot \in AssignYBegin..AssignYEnd
  <2> DEFINE to == AssignYEnd + 1
             cur == IF MaskOn(s) THEN AtY(s.cur) ELSE s.cur
             steady == IF MaskOn(s) THEN s.cur.x = tmp.x ELSE s.steady
  <2>0. to \in Nat /\ cur \in Address /\ steady \in BOOLEAN
    <3>1. (s.cur.x = tmp.x) \in BOOLEAN
      OBVIOUS
    <3>2. to \in Nat /\ cur \in Address
      BY <1>0, <1>4, <1>7
    <3>3. steady \in BOOLEAN
      BY <1>0, <3>1, Zenon
    <3> QED BY <3>2, <3>3
  <2>1. Round(s) = Later(s, s.dot, Lesser(to, s.dot), cur, ResetTo(s), steady)
    BY <1>2, <1>13, PreRenderRounds
  <2>2. Round(a) = Later(a, s.dot + d, Lesser(to, s.dot + d), cur, ResetTo(s), steady)
    BY <1>1, <1>2, <1>3, <1>13, PreRenderRounds
  <2>3. CASE to <= s.dot
    <3> HIDE DEF to, cur, steady
    <3>1. Lesser(to, s.dot) = to /\ Lesser(to, s.dot + d) = to
      BY <1>5, <2>0, <2>3
    <3> QED BY <2>1, <2>2, <3>1, JoinedAtOnce DEF a
  <2>4. CASE ~(to <= s.dot)
    <3>1. Round(s) = Later(s, s.dot, s.dot, cur, ResetTo(s), steady)
      <4> HIDE DEF to, cur, steady
      <4> QED BY <1>6, <2>0, <2>1, <2>4
    <3>2. /\ b \in States /\ b.line = PreRenderLine /\ b.dot = s.dot + d /\ b.lastDot = s.dot
          /\ b.cur = cur /\ b.steady = steady /\ b.lastDot # b.dot
          /\ (MaskOn(b) <=> MaskOn(s)) /\ ResetTo(b) = IF MaskOn(s) THEN 0 ELSE ResetTo(s)
      <4> HIDE DEF to, cur, steady
      <4> QED BY <1>0, <1>7, <1>8, <2>0, <3>1
    <3>3. b.lastDot \in AssignYBegin..AssignYEnd
      BY <1>0, <1>4, <1>13, <2>4, <3>2
    <3>4. ResetTo(b) = ResetTo(s)
      BY <3>2 DEF ResetTo
    <3>5. /\ (IF MaskOn(b) THEN AtY(b.cur) ELSE b.cur) = cur
          /\ (IF MaskOn(b) THEN b.cur.x = tmp.x ELSE b.steady) = steady
      <4>1. CASE MaskOn(s)
        BY <1>7, <3>2, <4>1
      <4>2. CASE ~MaskOn(s)
        BY <3>2, <4>2
      <4> QED BY <4>1, <4>2
    <3>6. Round(b) = Later(b, b.dot, Lesser(to, b.dot),
                           IF MaskOn(b) THEN AtY(b.cur) ELSE b.cur, ResetTo(b),
                           IF MaskOn(b) THEN b.cur.x = tmp.x ELSE b.steady)
      BY <3>2, <3>3, PreRenderRounds
    <3>7. Round(b) = Later(b, s.dot + d, Lesser(to, s.dot + d), cur, ResetTo(s), steady)
      <4> HIDE DEF to, cur, steady
      <4> QED BY <3>2, <3>4, <3>5, <3>6
    <3> HIDE DEF to, cur, steady
    <3> QED BY <2>2, <3>1, <3>7, JoinedInTwo DEF a, b
  <2> QED BY <2>3, <2>4
<1>14. CASE s.lastDot \in (AssignYEnd + 1)..(OddSkipDot - 1)
  <2> DEFINE oam == IF s.lastDot <= OamZeroEnd THEN ResetTo(s) ELSE s.oamAddr
  <2>0. oam \in 0..(OamSize - 1)
    BY <1>7
  <2>1. Round(s) = Later(s, s.dot, Lesser(OddSkipDot, s.dot), s.cur, oam, s.steady)
    BY <1>2, <1>14, PreRenderRounds
  <2>2. Round(a) = Later(a, s.dot + d, Lesser(OddSkipDot, s.dot + d), s.cur, oam, s.steady)
    BY <1>1, <1>2, <1>3, <1>14, PreRenderRounds
  <2>3. CASE OddSkipDot <= s.dot
    <3> HIDE DEF oam
    <3>1. Lesser(OddSkipDot, s.dot) = OddSkipDot /\ Lesser(OddSkipDot, s.dot + d) = OddSkipDot
      BY <1>4, <1>5, <2>3
    <3> QED BY <2>1, <2>2, <3>1, JoinedAtOnce DEF a
  <2>4. CASE ~(OddSkipDot <= s.dot)
    <3>1. Round(s) = Later(s, s.dot, s.dot, s.cur, oam, s.steady)
      <4> HIDE DEF oam
      <4> QED BY <1>4, <1>6, <2>1, <2>4
    <3>2. /\ b \in States /\ b.line = PreRenderLine /\ b.dot = s.dot + d /\ b.lastDot = s.dot
          /\ b.cur = s.cur /\ b.oamAddr = oam /\ b.steady = s.steady /\ b.lastDot # b.dot
          /\ ResetTo(b) = IF MaskOn(s) THEN 0 ELSE oam
      <4> HIDE DEF oam
      <4> QED BY <1>0, <1>8, <2>0, <3>1
    <3>3. b.lastDot \in (AssignYEnd + 1)..(OddSkipDot - 1)
      BY <1>0, <1>4, <1>14, <2>4, <3>2
    <3>4. (IF b.lastDot <= OamZeroEnd THEN ResetTo(b) ELSE b.oamAddr) = oam
      BY <1>0, <1>4, <3>2 DEF ResetTo
    <3>5. Round(b) = Later(b, b.dot, Lesser(OddSkipDot, b.dot), b.cur,
                           IF b.lastDot <= OamZeroEnd THEN ResetTo(b) ELSE b.oamAddr, b.steady)
      BY <3>2, <3>3, PreRenderRounds
    <3> HIDE DEF oam
    <3>6. Round(b) = Later(b, s.dot + d, Lesser(OddSkipDot, s.dot + d), s.cur, oam, s.steady)
      BY <3>2, <3>4, <3>5
    <3> QED BY <2>2, <3>1, <3>6, JoinedInTwo DEF a, b
  <2> QED BY <2>3, <2>4
<1>15. CASE s.lastDot = OddSkipDot /\ s.odd /\ MaskOn(s)
  <2>1. Round(s) = Later(s, s.dot + 1, s.dot + 1, s.cur, s.oamAddr, s.steady)
    BY <1>2, <1>15, PreRenderRounds
  <2>2. Round(a) = Later(a, s.dot + d + 1, s.dot + d + 1, s.cur, s.oamAddr, s.steady)
    BY <1>1, <1>2, <1>3, <1>15, PreRenderRounds
  <2>3. /\ b \in States /\ b.line = s.line /\ b.dot = s.dot + 1 + d /\ b.lastDot = s.dot + 1
        /\ b.cur = s.cur /\ b.oamAddr = s.oamAddr /\ b.steady = s.steady
    <3>1. Between(b, s, s.dot + 1 + d, s.dot + 1, s.cur, s.oamAddr, s.steady)
      BY <1>0, <1>7, <2>1, Halves, Zenon DEF b
    <3> QED BY <3>1 DEF Between
  <2>4. b.lastDot # b.dot /\ b.lastDot > OddSkipDot
    BY <1>0, <1>4, <1>15, <2>3
  <2>5. Round(b) = Later(b, b.dot, b.dot, b.cur, b.oamAddr, b.steady)
    <3>1. b.lastDot >= OddSkipDot /\ b.lastDot # OddSkipDot
      BY <1>0, <1>4, <2>3, <2>4
    <3> QED BY <2>3, <2>4, <3>1, PreRenderRounds
  <2>6. Round(b) = Later(b, s.dot + d + 1, s.dot + d + 1, s.cur, s.oamAddr, s.steady)
    BY <1>0, <2>3, <2>5
  <2> QED BY <2>1, <2>2, <2>6, JoinedInTwo DEF a, b
<1>16. CASE s.lastDot >= OddSkipDot /\ ~(s.lastDot = OddSkipDot /\ s.odd /\ MaskOn(s))
  <2>1. Round(s) = Later(s, s.dot, s.dot, s.cur, s.oamAddr, s.steady)
    BY <1>2, <1>16, PreRenderRounds
  <2>2. Round(a) = Later(a, s.dot + d, s.dot + d, s.cur, s.oamAddr, s.steady)
    BY <1>1, <1>2, <1>3, <1>16, PreRenderRounds
  <2>3. /\ b \in States /\ b.line = PreRenderLine /\ b.dot = s.dot + d /\ b.lastDot = s.dot
        /\ b.cur = s.cur /\ b.oamAddr = s.oamAddr /\ b.steady = s.steady /\ b.lastDot # b.dot
    BY <1>0, <1>7, <1>8, <2>1
  <2>4. Round(b) = Later(b, b.dot, b.dot, b.cur, b.oamAddr, b.steady)
    <3>1. b.lastDot >= OddSkipDot /\ b.lastDot # OddSkipDot
      BY <1>0, <1>4, <1>16, <2>3
    <3> QED BY <2>3, <3>1, PreRenderRounds
  <2>5. Round(b) = Later(b, s.dot + d, s.dot + d, s.cur, s.oamAddr, s.steady)
    BY <2>3, <2>4
  <2> QED BY <2>1, <2>2, <2>5, JoinedInTwo DEF a, b
<1>17. \/ s.lastDot = 0 \/ s.lastDot \in 2..IncY \/ s.lastDot = AssignX
       \/ s.lastDot \in (AssignX + 1)..(AssignYBegin - 1) \/ s.lastDot \in AssignYBegin..AssignYEnd
       \/ s.lastDot \in (AssignYEnd + 1)..(OddSkipDot - 1) \/ s.lastDot >= OddSkipDot
  BY <1>0, <1>4
<1> QED BY <1>9, <1>10, <1>11, <1>12, <1>13, <1>14, <1>15, <1>16, <1>17

\* The sprites of the next line do not depend on the dot.
WithSprites(s, over, first, overflow) ==
  [s EXCEPT !.sprites = over, !.first = first, !.overflow = overflow]

LEMMA SpritesAtOnce ==
  ASSUME NEW s \in States, NEW d \in Nat
  PROVE  \E over, first, overflow :
           /\ PreRenderSpriteLine(s) = WithSprites(s, over, first, overflow)
           /\ PreRenderSpriteLine(Plus(s, d)) = WithSprites(Plus(s, d), over, first, overflow)
<1> DEFINE a == Plus(s, d)
           A(t, g, e) == IF e.i > Len(game.oam) \/ Full(e.num) THEN e
                         ELSE IF ~InRange(t, e.i, t.line) THEN g[[e EXCEPT !.i = @ + 1]]
                         ELSE g[[i |-> e.i + 1, num |-> e.num + 1,
                                 over |-> IF Full(e.num + 1) THEN e.over
                                          ELSE [x \in Columns |-> IF e.over[x] = 0 /\ Dot(t, e.i, t.line, x)
                                                                    THEN e.i ELSE e.over[x]]]]
           F(t, g) == [e \in Exam |-> A(t, g, e)]
           examined(t) == CHOOSE g : g = F(t, g)
           from(t) == (t.oamAddr \div SpriteSize) + 1
           done(t) == examined(t)[[i |-> from(t), num |-> 0, over |-> NoSprites]]
<1>1. ASSUME NEW t
      PROVE  PreRenderSpriteLine(t) = [t EXCEPT !.sprites = done(t).over, !.first = from(t),
                                                !.overflow = @ \/ done(t).num > SpritesPerLine]
  BY Zenon DEF PreRenderSpriteLine, Full, Exam
<1>2. a.line = s.line /\ a.tall = s.tall /\ a.oamAddr = s.oamAddr /\ a.overflow = s.overflow
  BY PlusIs
<1>3. ASSUME NEW i, NEW y, NEW x
      PROVE  (InRange(a, i, y) <=> InRange(s, i, y)) /\ (Dot(a, i, y, x) <=> Dot(s, i, y, x))
  BY <1>2 DEF InRange, Dot, Height
<1> HIDE DEF a
<1>4. ASSUME NEW g, NEW e PROVE A(a, g, e) = A(s, g, e)
  <2> DEFINE C(t, x) == IF e.over[x] = 0 /\ Dot(t, e.i, t.line, x) THEN e.i ELSE e.over[x]
             with(t) == [x \in Columns |-> C(t, x)]
             B(t, r) == IF e.i > Len(game.oam) \/ Full(e.num) THEN e
                        ELSE IF ~InRange(t, e.i, t.line) THEN g[[e EXCEPT !.i = @ + 1]]
                        ELSE g[[i |-> e.i + 1, num |-> e.num + 1,
                                over |-> IF Full(e.num + 1) THEN e.over ELSE r]]
  <2>1. with(a) = with(s)
    <3>1. ASSUME NEW x PROVE C(a, x) = C(s, x)
      BY <1>2, <1>3
    <3> HIDE DEF C
    <3> QED BY <3>1
  <2>2. ASSUME NEW r PROVE B(a, r) = B(s, r)
    <3>1. InRange(a, e.i, a.line) <=> InRange(s, e.i, s.line)
      BY <1>2, <1>3
    <3> QED BY <3>1, Zenon
  <2>3. ASSUME NEW t PROVE A(t, g, e) = B(t, with(t))
    BY Zenon
  <2> HIDE DEF A, B, with
  <2> QED BY <2>1, <2>2, <2>3
<1>5. ASSUME NEW g PROVE F(a, g) = F(s, g)
  <2> HIDE DEF A
  <2> QED BY <1>4
<1>6. examined(a) = examined(s)
  <2> HIDE DEF F
  <2> QED BY <1>5, Zenon
<1>7. from(a) = from(s)
  BY <1>2
<1>8. done(a) = done(s)
  <2> HIDE DEF examined, from
  <2> QED BY <1>6, <1>7, Zenon
<1> HIDE DEF done, from
<1> DEFINE overflow == s.overflow \/ done(s).num > SpritesPerLine
<1>9. PreRenderSpriteLine(s) = WithSprites(s, done(s).over, from(s), overflow)
  BY <1>1, Zenon DEF WithSprites
<1>10. PreRenderSpriteLine(a) = WithSprites(a, done(s).over, from(s), overflow)
  <2>1. PreRenderSpriteLine(a) = WithSprites(a, done(a).over, from(a), a.overflow \/ done(a).num > SpritesPerLine)
    BY <1>1, Zenon DEF WithSprites
  <2> QED BY <1>2, <1>7, <1>8, <2>1, Zenon
<1> HIDE DEF overflow
<1> QED BY <1>9, <1>10, Zenon DEF a

LEMMA SpriteJoined ==
  ASSUME NEW s \in States, NEW d \in Nat \ {0}, s.lastDot < s.dot, s.line < PostRenderLine,
         s.lastDot = IncY
  PROVE  Joined(s, d)
<1> DEFINE a == Plus(s, d)
<1>1. a \in States /\ a.line = s.line /\ a.dot = s.dot + d /\ a.lastDot = s.lastDot
      /\ a.mask = s.mask /\ a.toggle = s.toggle
  BY PlusIs
<1>2. s.lastDot # s.dot /\ a.lastDot # a.dot
  BY <1>1, StateFields
<1>3. RenderingEnabled(a) <=> RenderingEnabled(s)
  BY <1>1 DEF MaskOn, RenderingEnabled, Toggling
<1>4. Round(s) = SpriteStage(s)
  BY <1>2, Rounds, VisibleStages
<1>5. Round(a) = SpriteStage(a)
  <2> HIDE DEF a
  <2> QED BY <1>1, <1>2, Rounds, VisibleStages
<1>6. PICK over, first, overflow :
        /\ PreRenderSpriteLine(s) = WithSprites(s, over, first, overflow)
        /\ PreRenderSpriteLine(a) = WithSprites(a, over, first, overflow)
  BY SpritesAtOnce
<1>7. SpriteStage(a) = Plus(SpriteStage(s), d)
  <2>1. CASE RenderingEnabled(s)
    <3> DEFINE p == PreRenderSpriteLine(s)
               q == PreRenderSpriteLine(a)
               u == [p EXCEPT !.cur = IRegIncY(@)]
               v == [q EXCEPT !.cur = IRegIncY(@)]
    <3>1. SpriteStage(s) = [u EXCEPT !.lastTile = 0, !.hit = None, !.lastDot = @ + 1]
      BY <2>1 DEF SpriteStage
    <3>2. SpriteStage(a) = [v EXCEPT !.lastTile = 0, !.hit = None, !.lastDot = @ + 1]
      BY <1>3, <2>1 DEF SpriteStage
    <3>3. u = [s EXCEPT !.sprites = over, !.first = first, !.overflow = overflow, !.cur = IRegIncY(s.cur)]
      BY <1>6 DEF WithSprites, States
    <3>4. v = [s EXCEPT !.sprites = over, !.first = first, !.overflow = overflow, !.cur = IRegIncY(s.cur),
                        !.dot = s.dot + d]
      BY <1>6 DEF WithSprites, States, Plus
    <3> HIDE DEF u, v
    <3> QED BY <3>1, <3>2, <3>3, <3>4 DEF States, Plus
  <2>2. CASE ~RenderingEnabled(s)
    <3>1. SpriteStage(s) = [s EXCEPT !.lastTile = 0, !.hit = None, !.lastDot = @ + 1]
      BY <2>2 DEF SpriteStage
    <3>2. SpriteStage(a) = [a EXCEPT !.lastTile = 0, !.hit = None, !.lastDot = @ + 1]
      BY <1>3, <2>2 DEF SpriteStage
    <3> QED BY <3>1, <3>2 DEF Plus, States
  <2> QED BY <2>1, <2>2
<1> QED BY <1>4, <1>5, <1>7 DEF Joined

\* The start of line 0, and of the line before.
LEMMA StartJoined ==
  ASSUME NEW s \in States, NEW d \in Nat \ {0}, s.lastDot < s.dot,
         s.line = PreRenderLine + 1 \/ (s.line = PreRenderLine /\ s.lastDot = 1)
  PROVE  Joined(s, d)
<1> DEFINE a == Plus(s, d)
<1>1. a \in States /\ a.line = s.line /\ a.dot = s.dot + d /\ a.lastDot = s.lastDot
  BY PlusIs
<1>2. s.lastDot # s.dot /\ a.lastDot # a.dot
  BY <1>1, StateFields
<1>3. CASE s.line = PreRenderLine + 1
  <2>1. Round(s) = [s EXCEPT !.line = 0, !.odd = ~@]
    BY <1>2, <1>3, Rounds
  <2>2. Round(a) = [a EXCEPT !.line = 0, !.odd = ~@]
    <3> HIDE DEF a
    <3> QED BY <1>1, <1>2, <1>3, Rounds
  <2>3. Round(a) = Plus(Round(s), d)
    BY <2>1, <2>2 DEF Plus, States
  <2> QED BY <2>3 DEF Joined
<1>4. CASE s.line = PreRenderLine /\ s.lastDot = 1
  <2>1. ASSUME NEW t, t.lastDot = 1
        PROVE  PreRenderStage(t) = [t EXCEPT !.spriteZero = FALSE, !.overflow = FALSE,
                                             !.sprites = NoSprites, !.lastDot = 2]
    <3>1. IncY \in Nat \ {0} /\ AssignX = IncY + 1 /\ AssignX < AssignYBegin
          /\ {AssignX, AssignYBegin, AssignYEnd, OamZeroEnd, OddSkipDot} \subseteq Nat
          /\ AssignYBegin <= AssignYEnd /\ AssignYEnd < OamZeroEnd /\ OamZeroEnd < OddSkipDot
      BY Sizes
    <3>2. /\ t.lastDot # 0 /\ t.lastDot \notin 2..IncY /\ t.lastDot # AssignX
          /\ t.lastDot \notin (AssignX + 1)..(AssignYBegin - 1) /\ t.lastDot \notin AssignYBegin..AssignYEnd
          /\ t.lastDot \notin (AssignYEnd + 1)..(OddSkipDot - 1) /\ t.lastDot # OddSkipDot
      BY <2>1, <3>1
    <3> QED BY <2>1, <3>2 DEF PreRenderStage
  <2>2. Round(s) = PreRenderStage(s)
    BY <1>2, <1>4, Rounds
  <2>3. Round(a) = PreRenderStage(a)
    <3> HIDE DEF a
    <3> QED BY <1>1, <1>2, <1>4, Rounds
  <2>4. Round(s) = [s EXCEPT !.spriteZero = FALSE, !.overflow = FALSE, !.sprites = NoSprites, !.lastDot = 2]
    BY <1>4, <2>1, <2>2
  <2>5. Round(a) = [a EXCEPT !.spriteZero = FALSE, !.overflow = FALSE, !.sprites = NoSprites, !.lastDot = 2]
    BY <1>1, <1>4, <2>1, <2>3
  <2>6. Round(a) = Plus(Round(s), d)
    BY <2>4, <2>5 DEF Plus, States
  <2> QED BY <2>6 DEF Joined
<1> QED BY <1>3, <1>4

\* At the end of a line a batch has gone on in the old line first.
LEMMA LineEndSplits ==
  ASSUME Given, NEW s, RenderedOK(s), NEW d \in Nat \ {0}, s.lastDot = s.dot, s.dot >= CyclesPerLine
  PROVE  CatchUp[Plus(s, d)] = CatchUp[Plus(Round(s), d)]
<1> DEFINE a == Plus(s, d)
           b == Round(a)
<1>0. s \in States /\ (s.line = PreRenderLine + 1 => s.lastDot = 0)
  BY DEF RenderedOK, Placed
<1>1. /\ a \in States /\ a.line = s.line /\ a.dot = s.dot + d /\ a.lastDot = s.lastDot
      /\ a.cur = s.cur /\ a.oamAddr = s.oamAddr /\ a.steady = s.steady
  BY <1>0, PlusIs
<1>2. s.dot \in Nat /\ d \in Nat /\ CyclesPerLine \in Nat /\ OamZeroEnd \in Nat /\ OddSkipDot \in Nat
      /\ AssignX \in Nat /\ AssignX < OamZeroEnd /\ OamZeroEnd < OddSkipDot /\ OddSkipDot + 1 < CyclesPerLine
      /\ AssignYBegin \in Nat /\ AssignYEnd \in Nat
  BY <1>0, StateFields, Sizes
<1>3. a.lastDot # a.dot /\ a.lastDot > AssignX /\ ~(a.lastDot <= OamZeroEnd) /\ a.lastDot >= OddSkipDot
      /\ a.lastDot # OddSkipDot /\ s.line # PreRenderLine + 1
  BY <1>0, <1>1, <1>2
<1> HIDE DEF a
<1>4. b = Later(a, a.dot, a.dot, a.cur, a.oamAddr, a.steady)
  <2>1. CASE s.line < PostRenderLine
    BY <1>1, <1>3, <2>1, LateRounds
  <2>2. CASE s.line = PreRenderLine
    BY <1>1, <1>3, <2>2, PreRenderRounds
  <2>3. CASE ~(s.line < PostRenderLine) /\ s.line # PreRenderLine
    BY <1>1, <1>3, <2>3, LateRounds
  <2> QED BY <2>1, <2>2, <2>3
<1>5. b = [s EXCEPT !.dot = s.dot + d, !.lastDot = s.dot + d]
  BY <1>0, <1>1, <1>4 DEF a, Later, Plus, States
<1>6. b \in States /\ b.lastDot = b.dot /\ b.dot = s.dot + d /\ b.dot >= CyclesPerLine
  <2>1. b \in States
    BY <1>1, RoundType
  <2>2. b.lastDot = b.dot /\ b.dot = s.dot + d
    BY <1>0, <1>5 DEF States
  <2> QED BY <1>2, <2>1, <2>2
<1> HIDE DEF b
<1>7. Round(b) = [b EXCEPT !.line = @ + 1, !.dot = @ - CyclesPerLine, !.lastDot = 0, !.toggle = 0,
                           !.shown = Blank]
  BY <1>6, Rounds
<1>8. Round(s) = [s EXCEPT !.line = @ + 1, !.dot = @ - CyclesPerLine, !.lastDot = 0, !.toggle = 0,
                           !.shown = Blank]
  BY <1>0, Rounds
<1>9. Round(b) = Plus(Round(s), d)
  <2>1. s.dot + d - CyclesPerLine = s.dot - CyclesPerLine + d
    BY <1>2
  <2>2. Round(b) = [s EXCEPT !.line = @ + 1, !.dot = s.dot + d - CyclesPerLine, !.lastDot = 0, !.toggle = 0,
                             !.shown = Blank]
    <3>1. b.line = s.line
      BY <1>0, <1>5 DEF States
    <3>2. Round(b) = [b EXCEPT !.line = s.line + 1, !.dot = s.dot + d - CyclesPerLine, !.lastDot = 0,
                               !.toggle = 0, !.shown = Blank]
      <4>1. Round(b) = [b EXCEPT !.line = b.line + 1, !.dot = b.dot - CyclesPerLine, !.lastDot = 0,
                                 !.toggle = 0, !.shown = Blank]
        BY <1>6, <1>7 DEF States
      <4>2. b.line + 1 = s.line + 1
        BY <3>1
      <4>3. b.dot = s.dot + d
        BY <1>6
      <4>4. b.dot - CyclesPerLine = s.dot + d - CyclesPerLine
        BY <1>2, <4>3
      <4> QED BY <1>6, <4>1, <4>2, <4>4 DEF States
    <3> QED BY <1>0, <1>5, <3>2 DEF States
  <2>3. Plus(Round(s), d) = [s EXCEPT !.line = @ + 1, !.dot = s.dot - CyclesPerLine + d, !.lastDot = 0,
                                      !.toggle = 0, !.shown = Blank]
    BY <1>0, <1>8 DEF Plus, States
  <2> QED BY <2>1, <2>2, <2>3, Zenon
<1>10. CatchUp[a] = CatchUp[b]
  <2>1. ~AtRest(a)
    BY <1>3 DEF AtRest
  <2> QED BY <1>1, <2>1, CatchUpIs DEF b
<1>11. CatchUp[b] = CatchUp[Round(b)]
  <2>1. ~AtRest(b)
    BY <1>2, <1>6 DEF AtRest
  <2> QED BY <1>6, <2>1, CatchUpIs
<1> QED BY <1>9, <1>10, <1>11, Zenon DEF a

LEMMA TilesAre ==
  ASSUME Given, NEW end \in Nat, NEW s \in States
  PROVE  RenderTiles(s, end) = IF s.lastTile >= end THEN s ELSE RenderTiles(RenderTile(s), end)
<1>1. PICK upTo : /\ IsLoop(upTo, States, {t \in States : t.lastTile >= end}, [t \in States |-> RenderTile(t)])
                  /\ \A t : RenderTiles(t, end) = upTo[t]
  BY TilesTurn
<1>2. upTo[s] = IF s.lastTile >= end THEN s ELSE upTo[RenderTile(s)]
  BY <1>1 DEF IsLoop
<1> QED BY <1>1, <1>2

\* Tiles can be drawn in two turns.
LEMMA TilesTwice ==
  ASSUME Given, NEW s \in States, NEW i \in Nat, NEW j \in Nat, i <= j
  PROVE  RenderTiles(RenderTiles(s, i), j) = RenderTiles(s, j)
<1> DEFINE P == {t \in States : RenderTiles(t, j) = RenderTiles(s, j)}
<1>1. s \in P /\ P \in SUBSET States
  OBVIOUS
<1>2. ASSUME NEW t \in P, t.lastTile < i PROVE RenderTile(t) \in P
  <2>1. t \in States /\ t.lastTile \in Nat /\ RenderTiles(t, j) = RenderTiles(s, j)
    BY StateFields
  <2>2. ~(t.lastTile >= j)
    BY <1>2, <2>1
  <2>3. RenderTiles(t, j) = RenderTiles(RenderTile(t), j)
    BY <2>1, <2>2, TilesAre
  <2>4. RenderTile(t) \in States
    BY <2>1, TileDrawn
  <2> QED BY <2>1, <2>3, <2>4
<1> HIDE DEF P
<1>3. RenderTiles(s, i) \in P
  BY <1>1, <1>2, TilesDrawn
<1> QED BY <1>3 DEF P

\* Where the beam is, and what it has told of sprite zero, makes no difference to a tile.
Beam(s, dot, lastDot, zero) == [s EXCEPT !.dot = dot, !.lastDot = lastDot, !.spriteZero = zero]

LEMMA BeamIs ==
  ASSUME NEW s \in States, NEW dot \in Nat, NEW lastDot \in Nat, NEW zero \in BOOLEAN
  PROVE  LET t == Beam(s, dot, lastDot, zero)
         IN  /\ t \in States /\ t.line = s.line /\ t.dot = dot /\ t.lastDot = lastDot
             /\ t.odd = s.odd /\ t.mask = s.mask /\ t.tall = s.tall /\ t.toggle = s.toggle
             /\ t.cur = s.cur /\ t.lastTile = s.lastTile /\ t.sprites = s.sprites
             /\ t.first = s.first /\ t.hit = s.hit /\ t.spriteZero = zero
             /\ t.overflow = s.overflow /\ t.oamAddr = s.oamAddr /\ t.shown = s.shown
             /\ t.steady = s.steady
<1>1. Beam(s, dot, lastDot, zero) \in States
  BY DEF Beam, States
<1> QED BY <1>1 DEF Beam, States

LEMMA TileBeam ==
  ASSUME Given, NEW s \in States, NEW dot \in Nat, NEW lastDot \in Nat, NEW zero \in BOOLEAN,
         zero = s.spriteZero \/ s.hit # None
  PROVE  RenderTile(Beam(s, dot, lastDot, zero)) = Beam(RenderTile(s), dot, lastDot, zero)
<1> DEFINE a == Beam(s, dot, lastDot, zero)
           t == RenderTile(s)
           b == RenderTile(a)
           c == Beam(t, dot, lastDot, zero)
<1>1. /\ a \in States /\ a.line = s.line /\ a.dot = dot /\ a.lastDot = lastDot
      /\ a.odd = s.odd /\ a.mask = s.mask /\ a.tall = s.tall /\ a.toggle = s.toggle
      /\ a.cur = s.cur /\ a.lastTile = s.lastTile /\ a.sprites = s.sprites
      /\ a.first = s.first /\ a.hit = s.hit /\ a.spriteZero = zero
      /\ a.overflow = s.overflow /\ a.oamAddr = s.oamAddr /\ a.shown = s.shown
      /\ a.steady = s.steady
  BY BeamIs
<1> HIDE DEF a
<1>2. ASSUME NEW x
      PROVE  /\ TileOpaque(a, x) <=> TileOpaque(s, x)
             /\ SpriteAt(a, x) = SpriteAt(s, x) /\ TileColour(a, x) = TileColour(s, x)
  <2>1. TileOpaque(a, x) <=> TileOpaque(s, x)
    BY <1>1 DEF TileOpaque, BgOn
  <2>2. SpriteAt(a, x) = SpriteAt(s, x)
    BY <1>1 DEF SpriteAt, SpOn
  <2> QED BY <2>1, <2>2 DEF TileColour
<1>3. Meets(a) = Meets(s)
  <2>1. TileColumns(a) = TileColumns(s)
    BY <1>1, Zenon DEF TileColumns
  <2> HIDE DEF a
  <2> QED BY <1>1, <1>2, <2>1 DEF Meets
<1>4. /\ t \in States /\ OnlyDrawn(t, s)
      /\ t.cur = IRegIncX(s.cur) /\ t.lastTile = s.lastTile + 1
      /\ t.hit = IF s.hit = None /\ ~s.spriteZero /\ Meets(s) # {} THEN Min(Meets(s)) ELSE s.hit
      /\ \A x \in Columns : t.shown[x] = IF x \div TileWidth = s.lastTile THEN TileColour(s, x) ELSE s.shown[x]
  BY TileDrawn
<1>5. /\ b \in States /\ OnlyDrawn(b, a)
      /\ b.cur = IRegIncX(a.cur) /\ b.lastTile = a.lastTile + 1
      /\ b.hit = IF a.hit = None /\ ~a.spriteZero /\ Meets(a) # {} THEN Min(Meets(a)) ELSE a.hit
      /\ \A x \in Columns : b.shown[x] = IF x \div TileWidth = a.lastTile THEN TileColour(a, x) ELSE a.shown[x]
  BY <1>1, TileDrawn
<1> HIDE DEF t, b
<1>6. /\ c \in States /\ c.line = t.line /\ c.dot = dot /\ c.lastDot = lastDot
      /\ c.odd = t.odd /\ c.mask = t.mask /\ c.tall = t.tall /\ c.toggle = t.toggle
      /\ c.cur = t.cur /\ c.lastTile = t.lastTile /\ c.sprites = t.sprites
      /\ c.first = t.first /\ c.hit = t.hit /\ c.spriteZero = zero
      /\ c.overflow = t.overflow /\ c.oamAddr = t.oamAddr /\ c.shown = t.shown
      /\ c.steady = t.steady
  BY <1>4, BeamIs
<1> HIDE DEF c
<1>7. b.hit = c.hit
  <2>1. s.spriteZero \in BOOLEAN
    BY StateFields
  <2> QED BY <1>1, <1>3, <1>4, <1>5, <1>6, <2>1
<1>8. b.shown = c.shown
  <2>1. \A x \in Columns : b.shown[x] = c.shown[x]
    BY <1>1, <1>2, <1>4, <1>5, <1>6
  <2>2. b.shown \in [Columns -> Int] /\ c.shown \in [Columns -> Int]
    BY <1>5, <1>6, StateFields
  <2> QED BY <2>1, <2>2
<1>9. /\ b.line = c.line /\ b.dot = c.dot /\ b.lastDot = c.lastDot
      /\ b.odd = c.odd /\ b.mask = c.mask /\ b.tall = c.tall /\ b.toggle = c.toggle
      /\ b.cur = c.cur /\ b.lastTile = c.lastTile /\ b.sprites = c.sprites
      /\ b.first = c.first /\ b.spriteZero = c.spriteZero
      /\ b.overflow = c.overflow /\ b.oamAddr = c.oamAddr /\ b.steady = c.steady
  BY <1>1, <1>4, <1>5, <1>6 DEF OnlyDrawn
<1>10. b = c
  BY <1>5, <1>6, <1>7, <1>8, <1>9, SameState
<1> QED BY <1>10 DEF a, b, c, t

\* What drawing does to the hit: the first one stays, and a new one is in a new tile.
LEMMA TileHit ==
  ASSUME Given, NEW s \in States
  PROVE  LET t == RenderTile(s)
         IN  /\ s.hit # None => t.hit = s.hit
             /\ s.hit = None /\ t.hit # None => t.hit \in Nat /\ t.hit >= s.lastTile * TileWidth
<1> DEFINE t == RenderTile(s)
<1>1. t.hit = IF s.hit = None /\ ~s.spriteZero /\ Meets(s) # {} THEN Min(Meets(s)) ELSE s.hit
  BY TileDrawn
<1>2. ASSUME Meets(s) # {} PROVE Min(Meets(s)) \in Nat /\ Min(Meets(s)) >= s.lastTile * TileWidth
  <2>1. s.lastTile * TileWidth \in Nat
    BY StateFields, Sizes
  <2>2. Meets(s) \in SUBSET Nat /\ \A x \in Meets(s) : x >= s.lastTile * TileWidth
    BY <2>1 DEF Meets, TileColumns
  <2>3. Min(Meets(s)) \in Meets(s)
    BY <1>2, <2>2, MinOf
  <2> QED BY <2>2, <2>3
<1> QED BY <1>1, <1>2

LEMMA TilesHit ==
  ASSUME Given, NEW s \in States, NEW end \in Nat
  PROVE  LET t == RenderTiles(s, end)
         IN  /\ s.hit # None => t.hit = s.hit
             /\ s.hit = None /\ t.hit # None => t.hit \in Nat /\ t.hit >= s.lastTile * TileWidth
<1> DEFINE k == s.lastTile * TileWidth
           Kept(u) == /\ s.hit # None => u.hit = s.hit
                      /\ s.hit = None /\ u.hit # None => u.hit \in Nat /\ u.hit >= k
           P == {u \in States : s.lastTile <= u.lastTile /\ Kept(u)}
<1>1. s.lastTile \in Nat /\ TileWidth \in Nat /\ k \in Nat
  BY StateFields, Sizes
<1>2. s \in P /\ P \in SUBSET States
  BY <1>1
<1>3. ASSUME NEW u \in P, u.lastTile < end PROVE RenderTile(u) \in P
  <2> DEFINE v == RenderTile(u)
  <2>1. u \in States /\ s.lastTile <= u.lastTile /\ Kept(u) /\ u.lastTile \in Nat
    BY StateFields
  <2>2. v \in States /\ v.lastTile = u.lastTile + 1
    BY <2>1, TileDrawn
  <2>3. u.hit # None => v.hit = u.hit
    BY <2>1, TileHit
  <2>4. u.hit = None /\ v.hit # None => v.hit \in Nat /\ v.hit >= u.lastTile * TileWidth
    BY <2>1, TileHit
  <2>5. k <= u.lastTile * TileWidth /\ u.lastTile * TileWidth \in Nat
    <3>1. PICK e \in Nat : u.lastTile = s.lastTile + e
      <4>1. u.lastTile - s.lastTile \in Nat /\ u.lastTile = s.lastTile + (u.lastTile - s.lastTile)
        BY <1>1, <2>1
      <4> QED BY <4>1
    <3>2. u.lastTile * TileWidth = k + e * TileWidth /\ e * TileWidth \in Nat
      BY <1>1, <3>1
    <3> HIDE DEF k
    <3> QED BY <1>1, <3>2
  <2> HIDE DEF v, k
  <2>6. Kept(v)
    <3>1. CASE u.hit = None
      BY <1>1, <2>1, <2>4, <2>5, <3>1
    <3>2. CASE u.hit # None
      BY <2>1, <2>3, <3>2
    <3> QED BY <3>1, <3>2
  <2> HIDE DEF Kept
  <2>7. s.lastTile <= v.lastTile
    BY <1>1, <2>1, <2>2
  <2>8. v \in P
    BY <2>2, <2>6, <2>7
  <2> QED BY <2>8 DEF v
<1> HIDE DEF P
<1>4. RenderTiles(s, end) \in P
  BY <1>2, <1>3, TilesDrawn
<1> QED BY <1>4 DEF P

LEMMA TilesBeam ==
  ASSUME Given, NEW s \in States, NEW dot \in Nat, NEW lastDot \in Nat, NEW zero \in BOOLEAN,
         zero = s.spriteZero \/ s.hit # None, NEW end \in Nat
  PROVE  RenderTiles(Beam(s, dot, lastDot, zero), end) = Beam(RenderTiles(s, end), dot, lastDot, zero)
<1> DEFINE B(t) == Beam(t, dot, lastDot, zero)
           P == {t \in States : /\ zero = t.spriteZero \/ t.hit # None
                                /\ RenderTiles(B(t), end) = RenderTiles(B(s), end)}
           r == RenderTiles(s, end)
<1>1. s \in P /\ P \in SUBSET States
  OBVIOUS
<1>2. ASSUME NEW t \in P, t.lastTile < end PROVE RenderTile(t) \in P
  <2> DEFINE u == RenderTile(t)
  <2>1. t \in States /\ t.lastTile \in Nat /\ (zero = t.spriteZero \/ t.hit # None)
        /\ RenderTiles(B(t), end) = RenderTiles(B(s), end)
    BY StateFields
  <2>2. u \in States /\ u.spriteZero = t.spriteZero /\ (t.hit # None => u.hit = t.hit)
    BY <2>1, TileDrawn, TileHit DEF OnlyDrawn
  <2>3. B(t) \in States /\ B(t).lastTile = t.lastTile
    BY <2>1, BeamIs
  <2>4. RenderTile(B(t)) = B(u)
    BY <2>1, TileBeam
  <2>5. RenderTiles(B(t), end) = RenderTiles(B(u), end)
    <3>1. ~(t.lastTile >= end)
      BY <1>2, <2>1
    <3> HIDE DEF u, B
    <3> QED BY <2>3, <2>4, <3>1, TilesAre
  <2> HIDE DEF u, B
  <2>6. u \in P
    BY <2>1, <2>2, <2>5
  <2> QED BY <2>6 DEF u
<1> HIDE DEF P
<1>3. r \in P /\ ~(r.lastTile < end)
  BY <1>1, <1>2, TilesDrawn
<1>4. r \in States /\ RenderTiles(B(r), end) = RenderTiles(B(s), end)
  BY <1>3 DEF P
<1> HIDE DEF r
<1>5. B(r) \in States /\ B(r).lastTile = r.lastTile /\ r.lastTile >= end
  <2>1. r.lastTile \in Nat
    BY <1>4, StateFields
  <2>2. B(r) \in States /\ B(r).lastTile = r.lastTile
    BY <1>4, BeamIs
  <2> QED BY <1>3, <2>1, <2>2
<1>6. RenderTiles(B(r), end) = B(r)
  <2> HIDE DEF B
  <2> QED BY <1>5, TilesAre
<1> QED BY <1>4, <1>6 DEF r

LEMMA BeamTwice ==
  ASSUME NEW s \in States, NEW dot, NEW lastDot, NEW zero, NEW dot2, NEW lastDot2, NEW zero2
  PROVE  Beam(Beam(s, dot, lastDot, zero), dot2, lastDot2, zero2) = Beam(s, dot2, lastDot2, zero2)
BY DEF Beam, States

LEMMA BeamHit ==
  ASSUME NEW s \in States, NEW dot, NEW lastDot, NEW zero
  PROVE  Beam(s, dot, lastDot, zero).hit = s.hit
BY DEF Beam, States

Beamed(t, s, dot, lastDot, zero) ==
  /\ t \in States /\ t.line = s.line /\ t.dot = dot /\ t.lastDot = lastDot
  /\ t.mask = s.mask /\ t.toggle = s.toggle /\ t.spriteZero = zero

LEMMA BeamedIs ==
  ASSUME NEW s \in States, NEW dot \in Nat, NEW lastDot \in Nat, NEW zero \in BOOLEAN
  PROVE  Beamed(Beam(s, dot, lastDot, zero), s, dot, lastDot, zero)
<1>1. Beam(s, dot, lastDot, zero) \in States
  BY BeamIs
<1>2. /\ Beam(s, dot, lastDot, zero).line = s.line /\ Beam(s, dot, lastDot, zero).dot = dot
      /\ Beam(s, dot, lastDot, zero).lastDot = lastDot /\ Beam(s, dot, lastDot, zero).mask = s.mask
      /\ Beam(s, dot, lastDot, zero).toggle = s.toggle /\ Beam(s, dot, lastDot, zero).spriteZero = zero
  BY DEF Beam, States
<1> QED BY <1>1, <1>2 DEF Beamed

LEMMA PlusBeam ==
  ASSUME NEW s \in States, NEW d \in Nat
  PROVE  Plus(s, d) = Beam(s, s.dot + d, s.lastDot, s.spriteZero)
BY DEF Plus, Beam, States

LEMMA BeamPlus ==
  ASSUME NEW s \in States, NEW d \in Nat, NEW dot \in Nat, NEW lastDot, NEW zero
  PROVE  Plus(Beam(s, dot, lastDot, zero), d) = Beam(s, dot + d, lastDot, zero)
BY DEF Plus, Beam, States

LEMMA NoRenderIs ==
  ASSUME NEW s \in States, NEW end
  PROVE  LET t == NoRender(s, end)
         IN  /\ t \in States /\ OnlyDrawn(t, s) /\ t.cur = s.cur /\ t.lastTile = s.lastTile /\ t.hit = s.hit
             /\ \A x \in Columns : t.shown[x] = IF x \in s.lastDot..(end - 1) THEN Backdrop ELSE s.shown[x]
<1> DEFINE C(x) == IF x \in s.lastDot..(end - 1) THEN Backdrop ELSE s.shown[x]
           blank == [x \in Columns |-> C(x)]
           t == NoRender(s, end)
<1>1. t = [s EXCEPT !.shown = blank]
  BY DEF NoRender
<1>2. blank \in [Columns -> Int]
  <2>1. \A x \in Columns : C(x) \in Int
    BY StateFields DEF Backdrop
  <2> HIDE DEF C
  <2> QED BY <2>1
<1>3. \A x \in Columns : blank[x] = C(x)
  OBVIOUS
<1> HIDE DEF blank, t, C
<1>4. t \in States
  BY <1>1, <1>2 DEF States
<1>5. OnlyDrawn(t, s) /\ t.cur = s.cur /\ t.lastTile = s.lastTile /\ t.hit = s.hit /\ t.shown = blank
  BY <1>1 DEF OnlyDrawn, States
<1> QED BY <1>3, <1>4, <1>5 DEF t, C

Blanked(shown, from, end) == [x \in Columns |-> IF x \in from..(end - 1) THEN Backdrop ELSE shown[x]]

LEMMA NoRenderBlanks ==
  ASSUME NEW s \in States, NEW end, NEW t, DOMAIN t = DOMAIN s
  PROVE  NoRender(t, end) = [t EXCEPT !.shown = Blanked(t.shown, t.lastDot, end)]
<1>1. "shown" \in DOMAIN t
  BY DEF States
<1> QED BY <1>1 DEF NoRender, Blanked

LEMMA NoRenderBeam ==
  ASSUME NEW s \in States, NEW end, NEW dot, NEW lastDot, NEW zero
  PROVE  NoRender(Beam(s, dot, lastDot, zero), end)
           = Beam([s EXCEPT !.shown = Blanked(s.shown, lastDot, end)], dot, lastDot, zero)
<1> DEFINE t == Beam(s, dot, lastDot, zero)
           b == Blanked(s.shown, lastDot, end)
<1>1. DOMAIN t = DOMAIN s /\ t.shown = s.shown /\ t.lastDot = lastDot
  BY DEF Beam, States
<1>2. NoRender(t, end) = [t EXCEPT !.shown = b]
  <2> HIDE DEF t
  <2>1. NoRender(t, end) = [t EXCEPT !.shown = Blanked(t.shown, t.lastDot, end)]
    BY <1>1, NoRenderBlanks
  <2>2. Blanked(t.shown, t.lastDot, end) = b
    BY <1>1
  <2> QED BY <2>1, <2>2
<1> HIDE DEF b
<1>3. [t EXCEPT !.shown = b] = Beam([s EXCEPT !.shown = b], dot, lastDot, zero)
  BY DEF Beam, States
<1> QED BY <1>2, <1>3 DEF b

LEMMA BlankedTwice ==
  ASSUME NEW shown, NEW from \in Nat, NEW i \in Nat, NEW j \in Nat, from <= i, i <= j
  PROVE  Blanked(Blanked(shown, from, i), i, j) = Blanked(shown, from, j)
<1> DEFINE b == Blanked(shown, from, i)
<1>1. \A x \in Columns : b[x] = IF x \in from..(i - 1) THEN Backdrop ELSE shown[x]
  BY DEF Blanked
<1> HIDE DEF b
<1>2. ASSUME NEW x \in Columns
      PROVE  (IF x \in i..(j - 1) THEN Backdrop ELSE b[x]) = IF x \in from..(j - 1) THEN Backdrop ELSE shown[x]
  <2>1. x \in Nat
    BY Column
  <2> QED BY <1>1, <2>1
<1>3. [x \in Columns |-> IF x \in i..(j - 1) THEN Backdrop ELSE b[x]]
        = [x \in Columns |-> IF x \in from..(j - 1) THEN Backdrop ELSE shown[x]]
  BY <1>2
<1> QED BY <1>3 DEF Blanked, b

\* What a step draws up to the dot `end', and whether the beam then passes the hit.
DrawnTo(s, end) == IF RenderingEnabled(s) THEN RenderTiles(s, AheadOf(end)) ELSE NoRender(s, end)
Passes(d, from, end) == d.hit # None /\ d.hit >= from /\ d.hit < end

LEMMA DrawnToIs ==
  ASSUME Given, NEW s \in States, NEW end \in Nat, end <= IncY
  PROVE  DrawnTo(s, end) \in States /\ OnlyDrawn(DrawnTo(s, end), s)
<1>1. AheadOf(end) \in Nat
  BY AheadIs
<1>2. CASE RenderingEnabled(s)
  BY <1>1, <1>2, TilesType DEF DrawnTo
<1>3. CASE ~RenderingEnabled(s)
  BY <1>3, NoRenderIs DEF DrawnTo
<1> QED BY <1>2, <1>3

LEMMA TilePixelsBeam ==
  ASSUME Given, NEW s \in States
  PROVE  LET end == TileStageEnd(s)
             d == DrawnTo(s, end)
         IN  TilePixels(s) = Beam(d, s.dot, end, s.spriteZero \/ Passes(d, s.lastDot, end))
<1> DEFINE end == TileStageEnd(s)
           d == DrawnTo(s, end)
<1>1. TilePixels(s) = [d EXCEPT !.spriteZero = @ \/ (d.hit # None /\ d.hit >= s.lastDot /\ d.hit < end),
                                !.lastDot = end]
  BY Zenon DEF TilePixels, AheadOf, DrawnTo
<1>2. end \in Nat /\ end <= IncY
  BY TileStageEndIs
<1> HIDE DEF end
<1>3. d \in States /\ OnlyDrawn(d, s)
  BY <1>2, DrawnToIs
<1>4. d.spriteZero = s.spriteZero /\ d.dot = s.dot
  BY <1>3 DEF OnlyDrawn
<1> HIDE DEF d
<1> DEFINE p == Passes(d, s.lastDot, end)
<1>5. TilePixels(s) = [d EXCEPT !.spriteZero = d.spriteZero \/ p, !.lastDot = end]
  BY <1>1, <1>3 DEF States, Passes
<1> HIDE DEF p
<1>6. TilePixels(s) = Beam(d, d.dot, end, d.spriteZero \/ p)
  BY <1>3, <1>5 DEF Beam, States
<1> QED BY <1>4, <1>6 DEF p, d, end

LEMMA DivGrows ==
  ASSUME NEW i \in Nat, NEW j \in Nat, i <= j, NEW m \in Nat \ {0}
  PROVE  i \div m <= j \div m
<1> DEFINE p == i \div m
           q == j \div m
<1>1. p \in Nat /\ i % m \in Nat /\ i = p * m + (i % m) /\ q \in Nat /\ j % m \in 0..(m - 1) /\ j = q * m + (j % m)
  <2>1. p \in Nat /\ i % m \in Nat /\ i = p * m + (i % m)
    BY DivMod
  <2>2. q \in Nat /\ j % m \in 0..(m - 1) /\ j = q * m + (j % m)
    BY DivMod
  <2> QED BY <2>1, <2>2
<1> SUFFICES ASSUME q < p PROVE FALSE
  BY <1>1
<1> HIDE DEF p, q
<1>2. PICK e \in Nat : p = q + 1 + e
  <2>1. p - q - 1 \in Nat /\ p = q + 1 + (p - q - 1)
    BY <1>1
  <2> QED BY <2>1
<1>3. p * m = q * m + m + e * m /\ e * m \in Nat /\ q * m \in Nat
  BY <1>1, <1>2
<1> QED BY <1>1, <1>3

LEMMA AheadGrows ==
  ASSUME NEW i \in Nat, NEW j \in Nat, i <= j
  PROVE  AheadOf(i) <= AheadOf(j)
<1> DEFINE p == (i + TileWidth - 1) \div TileWidth
           q == (j + TileWidth - 1) \div TileWidth
<1>1. TileWidth \in Nat \ {0} /\ LineTiles \in Nat
  BY Sizes
<1>2. i + TileWidth - 1 \in Nat /\ j + TileWidth - 1 \in Nat /\ i + TileWidth - 1 <= j + TileWidth - 1
  BY <1>1
<1>3. p <= q /\ p \in Nat /\ q \in Nat
  <2>1. p <= q
    BY <1>1, <1>2, DivGrows
  <2>2. p \in Nat /\ q \in Nat
    BY <1>1, <1>2, DivMod, Zenon
  <2> QED BY <2>1, <2>2
<1>4. AheadOf(i) = Lesser(p + 2, LineTiles) /\ AheadOf(j) = Lesser(q + 2, LineTiles)
  BY DEF AheadOf
<1> HIDE DEF p, q
<1> QED BY <1>1, <1>3, <1>4 DEF Lesser

\* Either the dot is not what ends the stage, or the part had to stop there.
LEMMA EndsAre ==
  ASSUME NEW s \in States, NEW d \in Nat \ {0}, s.lastDot < s.dot, s.lastDot < IncY
  PROVE  LET e == TileStageEnd(s)
             f == TileStageEnd(Plus(s, d))
         IN  /\ e \in Nat /\ e <= IncY /\ s.lastDot < e /\ f \in Nat /\ f <= IncY
             /\ RenderingEnabled(Plus(s, d)) <=> RenderingEnabled(s)
             /\ f = e \/ (e < f /\ e = s.dot /\ e < IncY
                          /\ \A t \in States : t.lastDot = e /\ t.dot = s.dot + d /\ t.toggle = s.toggle
                                                 /\ t.mask = s.mask =>
                               /\ TileStageEnd(t) = f
                               /\ RenderingEnabled(t) <=> RenderingEnabled(s))
<1> DEFINE e == TileStageEnd(s)
           a == Plus(s, d)
           f == TileStageEnd(a)
<1>1. s.dot \in Nat /\ s.lastDot \in Nat /\ s.toggle \in Nat /\ IncY \in Nat
  BY StateFields, Sizes
<1>2. a \in States /\ a.dot = s.dot + d /\ a.lastDot = s.lastDot /\ a.toggle = s.toggle /\ a.mask = s.mask
  BY PlusIs
<1> HIDE DEF a
<1>3. RenderingEnabled(a) <=> RenderingEnabled(s)
  BY <1>2 DEF RenderingEnabled, Toggling, MaskOn
<1>4. e \in Nat /\ e <= IncY /\ s.lastDot < e /\ f \in Nat /\ f <= IncY
  BY <1>2, TileStageEndIs
<1>5. CASE Toggling(s)
  <2>1. Toggling(a)
    BY <1>2, <1>5 DEF Toggling
  <2>2. s.toggle # 0 /\ s.lastDot < s.toggle + 3
    BY <1>5 DEF Toggling, ToggleDelay
  <2>3. e = Lesser(Lesser(IncY, s.dot), s.toggle + 3) /\ f = Lesser(Lesser(IncY, s.dot + d), s.toggle + 3)
    BY <1>2, <1>5, <2>1 DEF TileStageEnd, ToggleDelay
  <2>4. f = e \/ (e < f /\ e = s.dot /\ e < IncY /\ e < s.toggle + 3)
    BY <1>1, <2>2, <2>3 DEF Lesser
  <2>5. ASSUME NEW t \in States, t.lastDot = e, t.dot = s.dot + d, t.toggle = s.toggle, t.mask = s.mask,
               e < s.toggle + 3
        PROVE  TileStageEnd(t) = f /\ (RenderingEnabled(t) <=> RenderingEnabled(s))
    <3>1. Toggling(t)
      BY <2>2, <2>5 DEF Toggling, ToggleDelay
    <3>2. TileStageEnd(t) = Lesser(Lesser(IncY, s.dot + d), s.toggle + 3)
      BY <2>5, <3>1 DEF TileStageEnd, ToggleDelay
    <3> QED BY <1>5, <2>3, <2>5, <3>1, <3>2 DEF RenderingEnabled, MaskOn
  <2> HIDE DEF e, f
  <2> QED BY <1>3, <1>4, <2>4, <2>5 DEF e, f, a
<1>6. CASE ~Toggling(s)
  <2>1. ~Toggling(a)
    BY <1>2, <1>6 DEF Toggling
  <2>2. ~(s.toggle # 0 /\ s.lastDot < s.toggle + 3)
    BY <1>6 DEF Toggling, ToggleDelay
  <2>3. e = Lesser(IncY, s.dot) /\ f = Lesser(IncY, s.dot + d)
    BY <1>2, <1>6, <2>1 DEF TileStageEnd
  <2>4. f = e \/ (e < f /\ e = s.dot /\ e < IncY)
    BY <1>1, <2>3 DEF Lesser
  <2>5. ASSUME NEW t \in States, t.lastDot = e, t.dot = s.dot + d, t.toggle = s.toggle, t.mask = s.mask
        PROVE  TileStageEnd(t) = f /\ (RenderingEnabled(t) <=> RenderingEnabled(s))
    <3>1. ~(s.toggle # 0 /\ e < s.toggle + 3)
      <4> HIDE DEF e
      <4> QED BY <1>1, <1>4, <2>2
    <3>2. ~Toggling(t)
      BY <2>5, <3>1 DEF Toggling, ToggleDelay
    <3>3. TileStageEnd(t) = Lesser(IncY, s.dot + d)
      BY <2>5, <3>2 DEF TileStageEnd
    <3> QED BY <1>6, <2>3, <2>5, <3>2, <3>3 DEF RenderingEnabled, MaskOn
  <2> HIDE DEF e, f
  <2> QED BY <1>3, <1>4, <2>4, <2>5 DEF e, f, a
<1> QED BY <1>5, <1>6

LEMMA TilesJoined ==
  ASSUME Given, NEW s \in States, NEW d \in Nat \ {0}, s.lastDot < s.dot, s.line < PostRenderLine,
         s.lastDot < IncY
  PROVE  Joined(s, d)
<1> DEFINE a == Plus(s, d)
           e == TileStageEnd(s)
           f == TileStageEnd(a)
           D == DrawnTo(s, e)
           E == DrawnTo(s, f)
           z == s.spriteZero \/ Passes(D, s.lastDot, e)
<1>0. d \in Nat /\ s.dot \in Nat /\ s.lastDot \in Nat /\ s.dot + d \in Nat /\ s.spriteZero \in BOOLEAN
      /\ IncY \in Nat /\ s.lastTile \in Nat /\ s.hit \in {None} \cup Nat
  BY StateFields, Sizes
<1>1. /\ a \in States /\ a.line = s.line /\ a.dot = s.dot + d /\ a.lastDot = s.lastDot
      /\ a.mask = s.mask /\ a.toggle = s.toggle /\ a.spriteZero = s.spriteZero /\ a.hit = s.hit
      /\ a.shown = s.shown
  BY PlusIs
<1>2. /\ e \in Nat /\ e <= IncY /\ s.lastDot < e /\ f \in Nat /\ f <= IncY
      /\ RenderingEnabled(a) <=> RenderingEnabled(s)
  BY EndsAre
<1>3. f = e \/ (e < f /\ e = s.dot /\ e < IncY
                /\ \A t \in States : t.lastDot = e /\ t.dot = s.dot + d /\ t.toggle = s.toggle
                                       /\ t.mask = s.mask =>
                     /\ TileStageEnd(t) = f
                     /\ RenderingEnabled(t) <=> RenderingEnabled(s))
  BY EndsAre
<1>4. s.lastDot # s.dot /\ a.lastDot # a.dot
  BY <1>0, <1>1
<1>5. Round(s) = TilePixels(s)
  BY <1>4, Rounds, VisibleStages
<1>6. a = Beam(s, s.dot + d, s.lastDot, s.spriteZero)
  BY <1>0, PlusBeam
<1> HIDE DEF a
<1>7. Round(a) = TilePixels(a)
  BY <1>1, <1>4, Rounds, VisibleStages
<1> HIDE DEF e, f
<1>8. D \in States /\ OnlyDrawn(D, s) /\ E \in States /\ OnlyDrawn(E, s)
  BY <1>2, DrawnToIs
<1>9. z \in BOOLEAN
  BY <1>0 DEF Passes
<1>10. Round(s) = Beam(D, s.dot, e, z)
  BY <1>5, TilePixelsBeam DEF e
\* The whole batch draws what the part would draw with as much time.
<1>11. DrawnTo(a, f) = Beam(E, s.dot + d, s.lastDot, s.spriteZero)
  <2>1. CASE RenderingEnabled(s)
    <3>1. AheadOf(f) \in Nat
      BY <1>2, AheadIs
    <3>2. DrawnTo(a, f) = RenderTiles(a, AheadOf(f)) /\ E = RenderTiles(s, AheadOf(f))
      BY <1>2, <2>1 DEF DrawnTo
    <3> HIDE DEF E
    <3>3. RenderTiles(Beam(s, s.dot + d, s.lastDot, s.spriteZero), AheadOf(f))
            = Beam(RenderTiles(s, AheadOf(f)), s.dot + d, s.lastDot, s.spriteZero)
      BY <1>0, <3>1, TilesBeam
    <3> QED BY <1>6, <3>2, <3>3
  <2>2. CASE ~RenderingEnabled(s)
    <3>1. DrawnTo(a, f) = NoRender(a, f) /\ E = NoRender(s, f)
      BY <1>2, <2>2 DEF DrawnTo
    <3>2. NoRender(Beam(s, s.dot + d, s.lastDot, s.spriteZero), f)
            = Beam([s EXCEPT !.shown = Blanked(s.shown, s.lastDot, f)], s.dot + d, s.lastDot, s.spriteZero)
      BY NoRenderBeam
    <3>3. E = [s EXCEPT !.shown = Blanked(s.shown, s.lastDot, f)]
      BY <3>1, NoRenderBlanks
    <3> HIDE DEF E
    <3> QED BY <1>6, <3>1, <3>2, <3>3
  <2> QED BY <2>1, <2>2
<1>12. Round(a) = Beam(E, s.dot + d, f, s.spriteZero \/ Passes(E, s.lastDot, f))
  <2> DEFINE c == Beam(E, s.dot + d, s.lastDot, s.spriteZero)
  <2>1. TilePixels(a) = Beam(c, s.dot + d, f, s.spriteZero \/ Passes(c, s.lastDot, f))
    <3> HIDE DEF E
    <3>1. TilePixels(a) = Beam(DrawnTo(a, f), a.dot, f, a.spriteZero \/ Passes(DrawnTo(a, f), a.lastDot, f))
      BY <1>1, TilePixelsBeam DEF f
    <3> HIDE DEF c
    <3> QED BY <1>1, <1>11, <3>1 DEF c
  <2> HIDE DEF E
  <2>2. c.hit = E.hit
    BY <1>8, BeamHit
  <2>3. Passes(c, s.lastDot, f) <=> Passes(E, s.lastDot, f)
    BY <2>2 DEF Passes
  <2> DEFINE y == s.spriteZero \/ Passes(E, s.lastDot, f)
  <2>4. TilePixels(a) = Beam(c, s.dot + d, f, y)
    <3> HIDE DEF c
    <3> QED BY <2>1, <2>3
  <2> HIDE DEF y
  <2>5. Beam(c, s.dot + d, f, y) = Beam(E, s.dot + d, f, y)
    BY <1>8, BeamTwice
  <2> QED BY <1>7, <2>4, <2>5 DEF y
<1>13. Plus(Round(s), d) = Beam(D, s.dot + d, e, z)
  <2> HIDE DEF D, z
  <2>1. Plus(Beam(D, s.dot, e, z), d) = Beam(D, s.dot + d, e, z)
    BY <1>0, <1>8, BeamPlus
  <2> QED BY <1>10, <2>1
<1>14. CASE f = e
  <2>1. E = D
    BY <1>14
  <2>2. Round(a) = Plus(Round(s), d)
    <3> HIDE DEF D, E
    <3> QED BY <1>12, <1>13, <1>14, <2>1 DEF z
  <2> QED BY <2>2 DEF Joined, a
<1>15. CASE f # e
  <2> DEFINE b == Plus(Round(s), d)
  <2>1. e < f /\ e = s.dot /\ e < IncY
    BY <1>3, <1>15
  <2>2. b = Beam(D, s.dot + d, e, z)
    BY <1>13
  <2> HIDE DEF b
  <2>3. /\ b \in States /\ b.line = s.line /\ b.dot = s.dot + d /\ b.lastDot = e
        /\ b.mask = s.mask /\ b.toggle = s.toggle /\ b.spriteZero = z
    <3> HIDE DEF D, z
    <3>1. /\ D.line = s.line /\ D.mask = s.mask /\ D.toggle = s.toggle
      BY <1>8 DEF OnlyDrawn
    <3>2. Beamed(Beam(D, s.dot + d, e, z), D, s.dot + d, e, z)
      BY <1>0, <1>2, <1>8, <1>9, BeamedIs, Zenon
    <3> QED BY <2>2, <3>1, <3>2 DEF Beamed
  <2>4. TileStageEnd(b) = f /\ (RenderingEnabled(b) <=> RenderingEnabled(s))
    BY <1>3, <1>15, <2>3
  <2>5. Round(b) = TilePixels(b)
    <3>1. b.lastDot # b.dot /\ b.lastDot < IncY
      BY <1>0, <2>1, <2>3
    <3> QED BY <2>3, <3>1, Rounds, VisibleStages
\* A hit that the part has noted stays, and a later one is where the beam has not been.
  <2>6. /\ DrawnTo(b, f) = Beam(E, s.dot + d, e, z)
        /\ D.hit # None => E.hit = D.hit
        /\ D.hit = None /\ E.hit # None => E.hit \in Nat /\ E.hit >= e
    <3>1. CASE RenderingEnabled(s)
      <4> DEFINE i == AheadOf(e)
                 j == AheadOf(f)
      <4>1. i \in Nat /\ j \in Nat /\ i <= j /\ e <= i * TileWidth
        BY <1>2, <2>1, AheadIs, AheadGrows
      <4>2. DrawnTo(b, f) = RenderTiles(b, j) /\ D = RenderTiles(s, i) /\ E = RenderTiles(s, j)
        BY <2>4, <3>1 DEF DrawnTo
      <4> HIDE DEF i, j, D, E
      <4>3. RenderTiles(D, j) = E
        BY <4>1, <4>2, TilesTwice
      <4>4. z = D.spriteZero \/ D.hit # None
        <5>1. D.spriteZero = s.spriteZero
          BY <1>8 DEF OnlyDrawn
        <5>2. CASE Passes(D, s.lastDot, e)
          BY <5>2 DEF Passes
        <5>3. CASE ~Passes(D, s.lastDot, e)
          BY <1>0, <5>1, <5>3 DEF z
        <5> QED BY <5>2, <5>3
      <4>5. RenderTiles(Beam(D, s.dot + d, e, z), j) = Beam(RenderTiles(D, j), s.dot + d, e, z)
        <5> HIDE DEF z
        <5> QED BY <1>0, <1>2, <1>8, <1>9, <4>1, <4>4, TilesBeam
      <4>6. DrawnTo(b, f) = Beam(E, s.dot + d, e, z)
        BY <2>2, <4>2, <4>3, <4>5
      <4>7. /\ D.hit # None => E.hit = D.hit
            /\ D.hit = None /\ E.hit # None => E.hit \in Nat /\ E.hit >= D.lastTile * TileWidth
        BY <1>8, <4>1, <4>3, TilesHit
      <4>8. e <= D.lastTile * TileWidth /\ D.lastTile * TileWidth \in Nat
        <5>1. D.lastTile \in Nat /\ i <= D.lastTile /\ TileWidth \in Nat
          BY <1>8, <4>1, <4>2, TilesType, StateFields, Sizes
        <5>2. i * TileWidth <= D.lastTile * TileWidth
          <6>1. PICK n \in Nat : D.lastTile = i + n
            <7>1. D.lastTile - i \in Nat /\ D.lastTile = i + (D.lastTile - i)
              BY <4>1, <5>1
            <7> QED BY <7>1
          <6>2. D.lastTile * TileWidth = i * TileWidth + n * TileWidth /\ n * TileWidth \in Nat
            BY <4>1, <5>1, <6>1
          <6> QED BY <4>1, <5>1, <6>2
        <5>3. i * TileWidth \in Nat /\ D.lastTile * TileWidth \in Nat
          BY <4>1, <5>1
        <5> QED BY <1>2, <4>1, <5>2, <5>3
      <4>9. D.hit = None /\ E.hit # None => E.hit \in Nat /\ E.hit >= e
        BY <1>2, <4>7, <4>8
      <4> QED BY <4>6, <4>7, <4>9
    <3>2. CASE ~RenderingEnabled(s)
      <4>1. DrawnTo(b, f) = NoRender(b, f) /\ D = NoRender(s, e) /\ E = NoRender(s, f)
        BY <2>4, <3>2 DEF DrawnTo
      <4> HIDE DEF D, E
      <4>2. D.hit = s.hit /\ E.hit = s.hit
        BY <4>1, NoRenderIs
      <4>3. D = [s EXCEPT !.shown = Blanked(s.shown, s.lastDot, e)]
            /\ E = [s EXCEPT !.shown = Blanked(s.shown, s.lastDot, f)]
        BY <4>1, NoRenderBlanks
      <4>4. NoRender(Beam(D, s.dot + d, e, z), f)
              = Beam([D EXCEPT !.shown = Blanked(D.shown, e, f)], s.dot + d, e, z)
        <5> HIDE DEF z
        <5> QED BY <1>8, NoRenderBeam
      <4>5. [D EXCEPT !.shown = Blanked(D.shown, e, f)] = E
        <5>1. D.shown = Blanked(s.shown, s.lastDot, e)
          BY <4>3 DEF States
        <5>2. Blanked(D.shown, e, f) = Blanked(s.shown, s.lastDot, f)
          <6>1. s.lastDot <= e /\ e <= f
            BY <1>0, <1>2, <2>1
          <6> QED BY <1>0, <1>2, <5>1, <6>1, BlankedTwice
        <5> QED BY <4>3, <5>2 DEF States
      <4>6. DrawnTo(b, f) = Beam(E, s.dot + d, e, z)
        BY <2>2, <4>1, <4>4, <4>5
      <4> QED BY <4>2, <4>6
    <3> QED BY <3>1, <3>2
  <2> HIDE DEF D, E
  <2>7. z \/ Passes(E, e, f) <=> s.spriteZero \/ Passes(E, s.lastDot, f)
    <3>1. D.hit \in {None} \cup Nat /\ E.hit \in {None} \cup Nat
      BY <1>8, StateFields
    <3>2. CASE D.hit = None
      BY <1>0, <1>2, <2>1, <2>6, <3>1, <3>2 DEF z, Passes
    <3>3. CASE D.hit # None
      BY <1>0, <1>2, <2>1, <2>6, <3>1, <3>3 DEF z, Passes
    <3> QED BY <3>2, <3>3
  <2>8. Round(b) = Beam(E, s.dot + d, f, z \/ Passes(E, e, f))
    <3> DEFINE c == Beam(E, s.dot + d, e, z)
               y == z \/ Passes(E, e, f)
    <3> HIDE DEF z
    <3>1. TilePixels(b) = Beam(c, s.dot + d, f, z \/ Passes(c, e, f))
      <4> HIDE DEF c
      <4>1. TilePixels(b) = Beam(DrawnTo(b, f), b.dot, f, b.spriteZero \/ Passes(DrawnTo(b, f), b.lastDot, f))
        BY <2>3, <2>4, TilePixelsBeam
      <4> QED BY <2>3, <2>6, <4>1 DEF c
    <3>2. c.hit = E.hit
      BY <1>8, BeamHit, Zenon
    <3>3. Passes(c, e, f) <=> Passes(E, e, f)
      BY <3>2 DEF Passes
    <3>4. TilePixels(b) = Beam(c, s.dot + d, f, y)
      <4> HIDE DEF c
      <4> QED BY <3>1, <3>3
    <3> HIDE DEF y
    <3>5. Beam(c, s.dot + d, f, y) = Beam(E, s.dot + d, f, y)
      BY <1>8, BeamTwice
    <3> QED BY <2>5, <3>4, <3>5 DEF y
  <2>9. Round(a) = Round(b)
    <3> DEFINE p == z \/ Passes(E, e, f)
               q == s.spriteZero \/ Passes(E, s.lastDot, f)
    <3>1. Round(b) = Beam(E, s.dot + d, f, p) /\ Round(a) = Beam(E, s.dot + d, f, q) /\ p = q
      BY <1>12, <2>7, <2>8, Zenon
    <3> HIDE DEF p, q
    <3> QED BY <3>1
  <2> QED BY <2>9 DEF Joined, a, b
<1> QED BY <1>14, <1>15

LEMMA RoundJoined ==
  ASSUME Given, NEW s, RenderedOK(s), NEW d \in Nat \ {0}, s.lastDot < s.dot
  PROVE  Joined(s, d)
<1>1. s \in States
  BY DEF RenderedOK, Placed
<1>2. s.lastDot \in Nat /\ s.line \in Nat /\ IncY \in Nat /\ AssignX = IncY + 1
      /\ {PostRenderLine, PreRenderLine} \subseteq Nat
  BY <1>1, StateFields, Sizes
<1>3. CASE s.line < PostRenderLine
  <2>1. CASE s.lastDot < IncY
    BY <1>1, <1>3, <2>1, TilesJoined
  <2>2. CASE s.lastDot = IncY
    BY <1>1, <1>3, <2>2, SpriteJoined
  <2>3. CASE s.lastDot > IncY
    <3>1. s.lastDot >= AssignX
      BY <1>2, <2>3
    <3> QED BY <1>1, <1>3, <3>1, LateJoined
  <2> QED BY <1>2, <2>1, <2>2, <2>3
<1>4. CASE s.line = PreRenderLine
  <2>1. CASE s.lastDot = 1
    BY <1>1, <1>4, <2>1, StartJoined
  <2>2. CASE s.lastDot # 1
    BY <1>1, <1>4, <2>2, PreRenderJoined
  <2> QED BY <2>1, <2>2
<1>5. CASE s.line = PreRenderLine + 1
  BY <1>1, <1>5, StartJoined
<1>6. CASE ~(s.line < PostRenderLine) /\ s.line # PreRenderLine /\ s.line # PreRenderLine + 1
  BY <1>1, <1>6, LateJoined
<1> QED BY <1>3, <1>4, <1>5, <1>6

LEMMA RoundSplits ==
  ASSUME Given, NEW s, RenderedOK(s), ~AtRest(s), NEW d \in Nat \ {0}
  PROVE  CatchUp[Plus(s, d)] = CatchUp[Plus(Round(s), d)]
<1>1. s \in States /\ s.lastDot <= s.dot /\ s.dot \in Nat /\ s.lastDot \in Nat /\ CyclesPerLine \in Nat
  BY StateFields, Sizes DEF RenderedOK, Placed
<1>2. CASE s.lastDot = s.dot
  <2>1. s.dot >= CyclesPerLine
    BY <1>1, <1>2 DEF AtRest
  <2> QED BY <1>2, <2>1, LineEndSplits
<1>3. CASE s.lastDot # s.dot
  <2>1. Joined(s, d)
    BY <1>1, <1>3, RoundJoined
  <2>2. RenderedOK(Round(s))
    BY <1>3, RoundKeeps
  <2>3. Round(s).lastDot <= Round(s).dot
    BY <2>2 DEF RenderedOK, Placed
  <2> QED BY <1>1, <2>1, <2>3, JoinedSplits
<1> QED BY <1>2, <1>3

\* Catching up in between, or not at all.
LEMMA CatchUpSplits ==
  ASSUME Given, NEW d \in Nat \ {0}, NEW s, RenderedOK(s)
  PROVE  CatchUp[Plus(s, d)] = CatchUp[Plus(CatchUp[s], d)]
<1> DEFINE P == {t \in States : RenderedOK(t)}
           Q == {t \in P : CatchUp[Plus(t, d)] = CatchUp[Plus(CatchUp[t], d)]}
           M == [t \in P |-> Weight(t)]
           N == [t \in P |-> Left(t)]
<1>1. ASSUME NEW t, RenderedOK(t)
      PROVE  t \in P /\ t.dot \in Nat /\ t.lastDot \in Nat /\ t.lastDot <= t.dot
  BY <1>1, StateFields DEF RenderedOK, Placed
<1>2. M \in [P -> Nat] /\ N \in [P -> Nat]
  <2>1. ASSUME NEW t, RenderedOK(t) PROVE Weight(t) \in Nat /\ Left(t) \in Nat
    BY <1>1, <2>1 DEF Weight, Left
  <2> QED BY <2>1
<1>3. ASSUME NEW t \in P,
             \A u \in P : M[u] < M[t] \/ (M[u] = M[t] /\ N[u] < N[t]) => u \in Q
      PROVE  t \in Q
  <2>1. t \in States /\ RenderedOK(t)
    OBVIOUS
  <2>2. CASE AtRest(t)
    <3>1. CatchUp[t] = t
      BY <2>1, <2>2, CatchUpIs
    <3> QED BY <3>1
  <2>3. CASE ~AtRest(t)
    <3> DEFINE u == Round(t)
    <3>1. RenderedOK(u) /\ (Weight(u) < Weight(t) \/ (Weight(u) = Weight(t) /\ Left(u) < Left(t)))
      BY <2>1, <2>3, RoundKeeps DEF AtRest
    <3>2. CatchUp[t] = CatchUp[u]
      BY <2>1, <2>3, CatchUpIs
    <3>3. CatchUp[Plus(t, d)] = CatchUp[Plus(u, d)]
      BY <2>1, <2>3, RoundSplits
    <3> HIDE DEF u
    <3>4. u \in P
      BY <1>1, <3>1
    <3>5. M[u] = Weight(u) /\ M[t] = Weight(t) /\ N[u] = Left(u) /\ N[t] = Left(t)
      BY <3>4
    <3> HIDE DEF M, N, Q
    <3>6. u \in Q
      BY <1>3, <3>1, <3>4, <3>5
    <3>7. CatchUp[Plus(u, d)] = CatchUp[Plus(CatchUp[u], d)]
      BY <3>6 DEF Q
    <3>8. CatchUp[Plus(t, d)] = CatchUp[Plus(CatchUp[t], d)]
      BY <3>2, <3>3, <3>7, Zenon
    <3> QED BY <3>8 DEF Q
  <2> QED BY <2>2, <2>3
<1>4. s \in P
  BY <1>1
<1> HIDE DEF P, Q, M, N
<1>5. \A t \in P : t \in Q
  BY <1>2, <1>3, InductionAlong
<1> QED BY <1>4, <1>5 DEF Q

\* One more cycle.
LEMMA OneMore ==
  ASSUME Given, NEW s, RenderedOK(s), NEW k \in Nat
  PROVE  k > 0 => TicksExecute(s, k + 1) = TicksExecute(TicksExecute(s, k), 1)
<1> SUFFICES ASSUME k > 0 PROVE TicksExecute(s, k + 1) = TicksExecute(TicksExecute(s, k), 1)
  OBVIOUS
<1>1. s \in States
  BY DEF RenderedOK, Placed
<1>2. 3 * k \in Nat /\ 3 * (k + 1) = 3 * k + 3 /\ 3 * 1 = 3 /\ 3 \in Nat \ {0} /\ 3 \in Nat
  OBVIOUS
<1> DEFINE t == Plus(s, 3 * k)
<1>3. RenderedOK(t)
  BY <1>2, RenderedPlus
<1>4. Plus(t, 3) = Plus(s, 3 * (k + 1))
  BY <1>1, <1>2, PlusTwice
<1> HIDE DEF t
<1>5. CatchUp[Plus(t, 3)] = CatchUp[Plus(CatchUp[t], 3)]
  BY <1>2, <1>3, CatchUpSplits
<1>6. TicksExecute(s, k) = CatchUp[t]
  BY TicksAre DEF t
<1>7. TicksExecute(s, k + 1) = CatchUp[Plus(t, 3)]
  BY <1>4, TicksAre
<1>8. TicksExecute(CatchUp[t], 1) = CatchUp[Plus(CatchUp[t], 3)]
  BY <1>2, TicksAre
<1> QED BY <1>5, <1>6, <1>7, <1>8

\* A function that counts up from 0 is what its turns say.
LEMMA SinglyIs ==
  ASSUME Given, RenderedOK(ppu), NEW n \in Nat \ {0}
  PROVE  Singly(n) = TicksExecute(ppu, n)
<1> DEFINE B(g, k) == IF k = 0 THEN ppu ELSE TicksExecute(g[k - 1], 1)
           F(g) == [k \in 0..n |-> B(g, k)]
           single == CHOOSE g : g = F(g)
           T(k) == IF k = 0 THEN ppu ELSE TicksExecute(ppu, k)
           h == [k \in 0..n |-> T(k)]
<1>1. ASSUME NEW k \in 0..n, k # 0 PROVE TicksExecute(T(k - 1), 1) = T(k)
  <2>1. CASE k = 1
    <3>1. T(k - 1) = ppu /\ T(k) = TicksExecute(ppu, 1)
      BY <2>1
    <3> QED BY <3>1
  <2>2. CASE k # 1
    <3>1. k - 1 \in Nat /\ k - 1 > 0 /\ k - 1 + 1 = k
      BY <1>1, <2>2
    <3>2. TicksExecute(ppu, k - 1 + 1) = TicksExecute(TicksExecute(ppu, k - 1), 1)
      BY <3>1, OneMore
    <3> QED BY <1>1, <3>1, <3>2
  <2> QED BY <2>1, <2>2
<1>2. h = F(h)
  <2>1. ASSUME NEW k \in 0..n PROVE T(k) = B(h, k)
    <3>1. CASE k = 0
      BY <3>1
    <3>2. CASE k # 0
      <4>1. k - 1 \in 0..n
        BY <3>2
      <4> HIDE DEF T
      <4>2. h[k - 1] = T(k - 1)
        BY <4>1
      <4>3. T(k) = TicksExecute(h[k - 1], 1)
        BY <1>1, <3>2, <4>2
      <4> QED BY <3>2, <4>3
    <3> QED BY <3>1, <3>2
  <2> HIDE DEF T, B
  <2> QED BY <2>1
<1>3. single = F(single)
  <2> HIDE DEF F, h
  <2> QED BY <1>2, Zenon
<1>4. Singly(n) = single[n]
  BY Zenon DEF Singly
<1> HIDE DEF single, T
<1>5. \A k \in 0..n : single[k] = IF k = 0 THEN ppu ELSE TicksExecute(single[k - 1], 1)
  <2> HIDE DEF B
  <2>1. \A k \in 0..n : single[k] = B(single, k)
    BY <1>3
  <2> QED BY <2>1 DEF B
<1> DEFINE Bad == {k \in 0..n : single[k] # T(k)}
<1>6. Bad = {}
  <2> SUFFICES ASSUME Bad # {} PROVE FALSE
    OBVIOUS
  <2>1. Bad \in SUBSET Nat
    OBVIOUS
  <2>2. PICK m \in Bad : \A k \in Bad : m <= k
    <3> HIDE DEF Bad
    <3> QED BY <2>1, Least
  <2>3. m \in 0..n /\ single[m] # T(m)
    OBVIOUS
  <2>4. m # 0
    BY <1>5, <2>3 DEF T
  <2>5. m - 1 \in 0..n /\ ~(m <= m - 1)
    BY <2>3, <2>4
  <2>6. single[m - 1] = T(m - 1)
    BY <2>2, <2>5
  <2>7. single[m] = TicksExecute(T(m - 1), 1)
    BY <1>5, <2>3, <2>4, <2>6
  <2> QED BY <1>1, <2>3, <2>4, <2>7
<1>7. single[n] = T(n)
  BY <1>6
<1> QED BY <1>4, <1>7 DEF T

\* RenderingIsExact, of render.c: PpuTicksExecute on a batch of cycles, its loops catching up in
\* as few stages as the dots allow, leaves the PPU as it is when it runs after every one of them:
\* shown pixels, sprites, hit, address, flags and place in the picture.
THEOREM BatchesTheorem == RenderSpec => []RenderingIsExact
<1>1. RenderInv => RenderingIsExact
  <2> SUFFICES ASSUME RenderInv, NEW n \in RenderBatches PROVE TicksExecute(ppu, n) = Singly(n)
    BY DEF RenderingIsExact
  <2>1. Given /\ RenderedOK(ppu)
    BY DEF RenderInv, Given
  <2>2. n \in Nat \ {0}
    BY RenderConstants
  <2> QED BY <2>1, <2>2, SinglyIs
<1> QED BY <1>1, RenderInvariant, PTL
=============================================================================
