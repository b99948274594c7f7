---------------------------- MODULE Session_proofs ----------------------------
(***************************************************************************)
(* Proofs about the program from main to its end, for any number of        *)
(* signals at any moment, both meanings of signal and both protocols of    *)
(* the keyboard; and about the pads that it reads in its loop, for any     *)
(* order of keys, reads and the timer.                                     *)
(***************************************************************************)
EXTENDS Session, FiniteSetTheorems, SequenceTheorems, WellFoundedInduction, TLAPS

(***************************************************************************)
(* While no handler runs, the next call of the program says what it holds, *)
(* what the terminal is like and which handlers are installed.             *)
(***************************************************************************)
First(n) == {Main[i] : i \in 1..n}

Loading == {"rom", "mapper", "cpu", "apu"}
Taking == {"create", "reset", "sigint", "sigterm", "mem"}
SettingUp == {"push", "origint", "origterm", "alarm", "timer"}
Undoing == {"stop", "dflalarm", "pop", "backint", "backterm"}
Leaving == {"dflint", "dflterm", "close"}
Places == Loading \cup Taking \cup {"ask", "loop", "free"} \cup SettingUp \cup Undoing \cup Leaving

IntAt(p) ==
  IF p \in Loading \cup {"create", "reset", "sigint", "dflterm", "close", "free"} THEN "default"
  ELSE IF p \in {"origterm", "alarm", "timer", "stop", "dflalarm", "pop", "backint"}
          \/ (p = "loop" /\ kitty) THEN "input"
  ELSE "video"

TermAt(p) ==
  IF p \in Loading \cup {"create", "reset", "sigint", "sigterm", "close", "free"} THEN "default"
  ELSE IF p \in {"alarm", "timer", "stop", "dflalarm", "pop", "backint", "backterm"}
          \/ (p = "loop" /\ kitty) THEN "input"
  ELSE "video"

\* The places with the keyboard flags on the stack, with the canvas and with its screen.
Flagged(p) ==
  p \in {"origint", "origterm", "alarm", "timer", "stop", "dflalarm", "pop"} \/ (p = "loop" /\ kitty)
Drawn(p) == p \notin Loading \cup {"create", "free"}
Shown(p) == Drawn(p) /\ p # "reset"

Frames == [sig : Quits, by : {"video", "input"}, step : 1..3]

SessionTypeOK ==
  /\ sysv \in BOOLEAN /\ kitty \in BOOLEAN
  /\ place \in Places
  /\ raw \in BOOLEAN /\ flags \in 0..1 /\ vt \in {"null", "open", "stale"} /\ closes \in Nat
  /\ handler \in [Quits \cup {"ALRM"} -> {"default", "video", "input", "timer"}]
  /\ orig \in [Quits -> {"default", "video", "input", "timer"}]
  /\ frames \in Seq(Frames)
  /\ ended \in {"no", "returned", "exit", "killed"}
  /\ place \in SettingUp \cup Undoing => kitty

\* What main holds; on the way out, what it has still to release.
OwnedOK ==
  /\ \A i \in 1..4 : place = Main[i] => owned = First(i - 1)
  /\ place \in Taking => owned = First(4)
  /\ place \in {"ask", "loop"} \cup SettingUp \cup Undoing \cup Leaving => owned = First(5)
  /\ place = "free" => \E n \in 0..5 : owned = First(n) /\ rest = Below(n + 1)
  /\ ended = "returned" => owned = {} /\ vt = "null"

Undisturbed == ended = "no" /\ frames = <<>>

\* Before any signal.
CalmOK ==
  Undisturbed =>
    /\ handler["INT"] = IntAt(place) /\ handler["TERM"] = TermAt(place)
    /\ vt = (IF Drawn(place) THEN "open" ELSE "null")
    /\ (raw <=> Shown(place))
    /\ flags = (IF Flagged(place) THEN 1 ELSE 0)
    /\ closes = 0 \/ (place = "free" /\ closes = 1)
    /\ excused = {}

\* The input handler hands its signal on to that of the video back end.
OrigOK ==
  \A s \in Quits :
    /\ handler[s] \in {"default", "video", "input"}
    /\ handler[s] = "input" => orig[s] = "video"

(***************************************************************************)
(* While handlers run: a signal is handled once by each back end, first by *)
(* the input's, and a handler is not entered twice.  A canvas that is      *)
(* closed but not yet NULL is one that a video handler is about to forget. *)
(***************************************************************************)
ByVideo(i) == frames[i].by = "video"
Closing(i) == ByVideo(i) /\ frames[i].step >= 2

StackOK ==
  ended = "no" =>
    /\ \A i, j \in DOMAIN frames :
         i < j /\ frames[i].sig = frames[j].sig => ~ByVideo(i) /\ ByVideo(j)
    /\ \A i \in DOMAIN frames :
         /\ sysv => handler[frames[i].sig] = "default"
         /\ ~ByVideo(i) => orig[frames[i].sig] = "video" /\ frames[i].step < 3
         /\ ByVideo(i) /\ i # Len(frames) => "nested" \in excused

ClosedOK ==
  /\ closes <= 2 /\ (closes = 2 => "nested" \in excused)
  /\ ended = "no" =>
       /\ vt = "open" => closes = 0 /\ \A i \in DOMAIN frames : ~Closing(i)
       /\ vt = "stale" => \E i \in DOMAIN frames : Closing(i)
       /\ vt = "stale" /\ closes = 2 =>
            \A s \in Quits : \E i \in DOMAIN frames : Closing(i) /\ frames[i].sig = s

RestoredOK ==
  /\ ended = "no" /\ frames # <<>> => (raw <=> vt = "open")
  /\ ended = "no" /\ frames # <<>> /\ excused = {} =>
       LET f == frames[Len(frames)]
       IN  /\ f.by = "video" => flags = 0 /\ (f.step >= 2 => ~raw)
           /\ f.by = "input" => raw /\ (f.step = 2 => flags = 0)
  /\ TerminalRestored

SessInv ==
  SessionTypeOK /\ OwnedOK /\ CalmOK /\ OrigOK /\ StackOK /\ ClosedOK /\ RestoredOK

-----------------------------------------------------------------------------
(* The parts in the order in which they are acquired and released. *)

Parts == {"rom", "mapper", "cpu", "apu", "ppu"}

LEMMA MainParts ==
  /\ Main \in Seq(Parts) /\ Len(Main) = 5
  /\ Main[1] = "rom" /\ Main[2] = "mapper" /\ Main[3] = "cpu" /\ Main[4] = "apu" /\ Main[5] = "ppu"
<1>1. Len(Main) = 5
  BY DEF Main
<1>2. Main[1] = "rom" /\ Main[2] = "mapper" /\ Main[3] = "cpu" /\ Main[4] = "apu" /\ Main[5] = "ppu"
  BY DEF Main
<1>3. Main \in Seq(Parts)
  BY DEF Main, Parts
<1> QED
  BY <1>1, <1>2, <1>3

\* The first n parts are one more than the first n - 1.
LEMMA FirstParts ==
  /\ First(0) = {}
  /\ First(1) = First(0) \cup {"rom"}
  /\ First(2) = First(1) \cup {"mapper"}
  /\ First(3) = First(2) \cup {"cpu"}
  /\ First(4) = First(3) \cup {"apu"}
  /\ First(5) = First(4) \cup {"ppu"}
  /\ \A n \in 1..5 : First(n) = First(n - 1) \cup {Main[n]} /\ Main[n] \notin First(n - 1)
<1>1. \A n \in 1..5 : First(n) = First(n - 1) \cup {Main[n]}
  <2>1. \A n \in 1..5 : 1..n = 1..(n - 1) \cup {n}
    OBVIOUS
  <2>2. \A n \in 1..5 : {Main[i] : i \in 1..(n - 1) \cup {n}} = {Main[i] : i \in 1..(n - 1)} \cup {Main[n]}
    BY Zenon
  <2> QED
    BY <2>1, <2>2, Zenon DEF First
<1>2. First(0) = {}
  <2>1. 1..0 = {}
    OBVIOUS
  <2> QED
    BY <2>1, Zenon DEF First
<1>3. /\ First(1) = First(0) \cup {Main[1]} /\ First(2) = First(1) \cup {Main[2]}
      /\ First(3) = First(2) \cup {Main[3]} /\ First(4) = First(3) \cup {Main[4]}
      /\ First(5) = First(4) \cup {Main[5]}
  BY <1>1
<1>4. \A n \in 1..5 : Main[n] \notin First(n - 1)
  <2>1. \A n \in 1..5 : \A i \in 1..(n - 1) : Main[i] # Main[n]
    BY MainParts
  <2> QED
    BY <2>1, Zenon DEF First
<1> QED
  BY <1>1, <1>2, <1>3, <1>4, MainParts

LEMMA FirstCount == \A n \in 0..5 : IsFiniteSet(First(n)) /\ Cardinality(First(n)) = n
<1>1. /\ IsFiniteSet(First(0)) /\ Cardinality(First(0)) = 0
  BY FirstParts, FS_EmptySet
<1>2. ASSUME NEW n \in 1..5, IsFiniteSet(First(n - 1)), Cardinality(First(n - 1)) = n - 1
      PROVE  IsFiniteSet(First(n)) /\ Cardinality(First(n)) = n
  <2>1. First(n) = First(n - 1) \cup {Main[n]} /\ Main[n] \notin First(n - 1)
    BY FirstParts
  <2>2. /\ IsFiniteSet(First(n - 1) \cup {Main[n]})
        /\ Cardinality(First(n - 1) \cup {Main[n]}) = Cardinality(First(n - 1)) + 1
    BY <1>2, <2>1, FS_AddElement
  <2> QED
    BY <1>2, <2>1, <2>2
<1> DEFINE P(n) == IsFiniteSet(First(n)) /\ Cardinality(First(n)) = n
<1>3. P(0) /\ \A n \in 1..5 : P(n - 1) => P(n)
  BY <1>1, <1>2
<1> HIDE DEF P
<1>4. P(0) /\ (P(0) => P(1)) /\ (P(1) => P(2)) /\ (P(2) => P(3)) /\ (P(3) => P(4)) /\ (P(4) => P(5))
  BY <1>3
<1>5. \A n \in 0..5 : P(n)
  BY <1>4
<1> QED
  BY <1>5 DEF P

\* The parts acquired first are those of a beginning of Main.
LEMMA FirstIsPrefix == \A n \in 0..5 : First(n) = ToSet(SubSeq(Main, 1, n))
<1>1. SUFFICES ASSUME NEW n \in 0..5
               PROVE  First(n) = ToSet(SubSeq(Main, 1, n))
  OBVIOUS
<1> DEFINE s == SubSeq(Main, 1, n)
<1>2. \A i \in 1..n : Main[i] \in Parts
  BY MainParts DEF Parts
<1>3. s \in Seq(Parts) /\ Len(s) = n /\ \A i \in 1..n : s[i] = Main[i]
  <2>1. s \in Seq(Parts) /\ Len(s) = (IF 1 <= n THEN n - 1 + 1 ELSE 0)
        /\ \A i \in 1..(n - 1 + 1) : s[i] = Main[1 + i - 1]
    BY <1>2, SubSeqProperties
  <2> QED
    BY <2>1
<1>4. DOMAIN s = 1..n
  BY <1>3
<1> HIDE DEF s
<1>5. First(n) = ToSet(s)
  BY <1>3, <1>4, Zenon DEF First, ToSet
<1> QED
  BY <1>5 DEF s

\* What is released next, and what then.
LEMMA BelowSteps ==
  /\ Below(1) = <<>>
  /\ \A n \in 1..5 : Below(n + 1) # <<>> /\ Head(Below(n + 1)) = Main[n] /\ Tail(Below(n + 1)) = Below(n)
<1>1. \A n \in 0..5 : Below(n + 1) = [k \in 1..n |-> Main[n - k + 1]]
  <2>1. SUFFICES ASSUME NEW n \in 0..5
                 PROVE  Below(n + 1) = [k \in 1..n |-> Main[n - k + 1]]
    OBVIOUS
  <2> DEFINE s == SubSeq(Main, 1, n)
  <2>2. \A i \in 1..n : Main[i] \in Parts
    BY MainParts DEF Parts
  <2>3. s \in Seq(Parts) /\ Len(s) = n /\ \A i \in 1..n : s[i] = Main[i]
    <3>1. s \in Seq(Parts) /\ Len(s) = (IF 1 <= n THEN n - 1 + 1 ELSE 0)
          /\ \A i \in 1..(n - 1 + 1) : s[i] = Main[1 + i - 1]
      BY <2>2, SubSeqProperties
    <3> QED
      BY <3>1
  <2> HIDE DEF s
  <2>4. Reverse(s) = [k \in 1..n |-> s[n - k + 1]]
    BY <2>3 DEF Reverse
  <2>5. \A k \in 1..n : n - k + 1 \in 1..n
    OBVIOUS
  <2>6. Reverse(s) = [k \in 1..n |-> Main[n - k + 1]]
    BY <2>3, <2>4, <2>5
  <2>7. Below(n + 1) = Reverse(s)
    <3>1. n + 1 - 1 = n
      OBVIOUS
    <3> QED
      BY <3>1 DEF Below, s
  <2> QED
    BY <2>6, <2>7
<1>2. Below(1) = <<>>
  <2>1. 0 \in 0..5 /\ 0 + 1 = 1
    OBVIOUS
  <2>2. Below(0 + 1) = [k \in 1..0 |-> Main[0 - k + 1]]
    BY <1>1, <2>1, Zenon
  <2> QED
    BY <2>1, <2>2
<1>3. ASSUME NEW n \in 1..5
      PROVE  Below(n + 1) # <<>> /\ Head(Below(n + 1)) = Main[n] /\ Tail(Below(n + 1)) = Below(n)
  <2> DEFINE b == Below(n + 1)
  <2>1. b = [k \in 1..n |-> Main[n - k + 1]]
    <3>1. n \in 0..5
      OBVIOUS
    <3> QED
      BY <1>1, <3>1, Zenon
  <2>2. Below(n) = [k \in 1..(n - 1) |-> Main[n - 1 - k + 1]]
    <3>1. n - 1 \in 0..5 /\ n - 1 + 1 = n
      OBVIOUS
    <3>2. Below((n - 1) + 1) = [k \in 1..(n - 1) |-> Main[(n - 1) - k + 1]]
      BY <1>1, <3>1, Zenon
    <3> QED
      BY <3>1, <3>2
  <2>3. \A k \in 1..n : n - k + 1 \in 1..5 /\ Main[n - k + 1] \in Parts
    <3>1. \A k \in 1..n : n - k + 1 \in 1..5
      OBVIOUS
    <3>2. \A i \in 1..5 : i = 1 \/ i = 2 \/ i = 3 \/ i = 4 \/ i = 5
      OBVIOUS
    <3>3. \A i \in 1..5 : Main[i] \in Parts
      BY <3>2, MainParts DEF Parts
    <3> QED
      BY <3>1, <3>3
  <2>4. b \in Seq(Parts) /\ Len(b) = n
    <3>1. b \in [1..n -> Parts]
      BY <2>1, <2>3
    <3> HIDE DEF b
    <3> QED
      BY <3>1
  <2>5. b # <<>> /\ Head(b) = b[1] /\ b[1] = Main[n]
    <3>1. b[1] = Main[n]
      BY <2>1
    <3> HIDE DEF b
    <3> QED
      BY <3>1, <2>4
  <2>6. Tail(b) = [k \in 1..(n - 1) |-> b[k + 1]]
    <3> HIDE DEF b
    <3>1. Tail(b) \in Seq(Parts) /\ Len(Tail(b)) = n - 1 /\ \A k \in 1..Len(Tail(b)) : Tail(b)[k] = b[k + 1]
      BY <2>4, <2>5, HeadTailProperties
    <3> DEFINE t == Tail(b)
    <3> HIDE DEF t
    <3>2. t \in Seq(Parts) /\ Len(t) = n - 1 /\ \A k \in 1..(n - 1) : t[k] = b[k + 1]
      BY <3>1, Zenon DEF t
    <3>3. t = [k \in 1..(n - 1) |-> b[k + 1]]
      BY <3>2
    <3> QED
      BY <3>3 DEF t
  <2>7. \A k \in 1..(n - 1) : b[k + 1] = Main[n - 1 - k + 1]
    BY <2>1
  <2> HIDE DEF b
  <2>8. Tail(b) = Below(n)
    BY <2>2, <2>6, <2>7
  <2> QED
    BY <2>5, <2>8 DEF b
<1> QED
  BY <1>2, <1>3

-----------------------------------------------------------------------------
(* The invariant holds at the start, and where the session does not move. *)

LEMMA SessInitInv == SessionInit => SessInv
<1> SUFFICES ASSUME SessionInit PROVE SessInv
  OBVIOUS
<1> USE DEF SessionInit, ControllerInit, InputInit
<1>1. SessionTypeOK
  <2>1. frames \in Seq(Frames)
    BY EmptySeq
  <2>2. place \in Places /\ place \notin SettingUp \cup Undoing
    BY DEF Places, Loading, SettingUp, Undoing
  <2>4. /\ flags \in 0..1 /\ vt \in {"null", "open", "stale"} /\ closes \in Nat
        /\ ended \in {"no", "returned", "exit", "killed"}
    OBVIOUS
  <2>5. kitty \in BOOLEAN /\ sysv \in BOOLEAN /\ raw \in BOOLEAN
    BY Zenon
  <2>3. /\ handler \in [Quits \cup {"ALRM"} -> {"default", "video", "input", "timer"}]
        /\ orig \in [Quits -> {"default", "video", "input", "timer"}]
    OBVIOUS
  <2> QED
    BY <2>1, <2>2, <2>3, <2>4, <2>5, Zenon DEF SessionTypeOK
<1>2. OwnedOK
  <2>1. place = Main[1] /\ place # Main[2] /\ place # Main[3] /\ place # Main[4]
    BY MainParts
  <2>2. \A i \in 1..4 : i = 1 \/ i = 2 \/ i = 3 \/ i = 4
    OBVIOUS
  <2> QED
    BY <2>1, <2>2, FirstParts DEF OwnedOK, Taking, SettingUp, Undoing, Leaving
<1>3. CalmOK
  BY DEF CalmOK, IntAt, TermAt, Drawn, Shown, Flagged, Loading, Quits
<1>4. OrigOK
  BY DEF OrigOK, Quits
<1>5. StackOK /\ ClosedOK /\ RestoredOK
  BY DEF StackOK, ClosedOK, RestoredOK, TerminalRestored
<1> QED
  BY <1>1, <1>2, <1>3, <1>4, <1>5 DEF SessInv

LEMMA SameSession ==
  ASSUME SessInv, UNCHANGED sessionVars, kitty' = kitty
  PROVE  SessInv'
<1> USE DEF sessionVars, progVars, termVars, sigVars
<1>1. SessionTypeOK' /\ OwnedOK' /\ OrigOK'
  BY DEF SessInv, SessionTypeOK, OwnedOK, OrigOK
<1>2. CalmOK'
  BY DEF SessInv, CalmOK, Undisturbed, IntAt, TermAt, Drawn, Shown, Flagged
<1>3. StackOK' /\ ClosedOK' /\ RestoredOK'
  BY DEF SessInv, StackOK, ClosedOK, RestoredOK, TerminalRestored, ByVideo, Closing
<1> QED
  BY <1>1, <1>2, <1>3 DEF SessInv

\* A step of the pads does not touch the protocol of the keyboard.
LEMMA PadKeepsKitty == PadStep => kitty' = kitty
<1>1. Terminal => kitty' = kitty
  BY DEF Terminal, CtrlC, UnboundKey, KeyDown, KeyUp, KeyTyped, Queued
<1>2. ReadKeys \/ ReadKeysLegacy => kitty' = kitty
  BY DEF ReadKeys, ReadKeysLegacy, ScanKitty, ReadLegacy
<1> QED
  BY <1>1, <1>2 DEF PadStep, ControllerRegWrite, ReadLive, ReadShift, PollEmpty, PollReady, inputVars

LEMMA LoopInv ==
  ASSUME SessInv, LoopStep
  PROVE  SessInv'
BY PadKeepsKitty, SameSession DEF LoopStep

-----------------------------------------------------------------------------
(* The main program.  No handler runs, before or after. *)

LEMMA CalmInv ==
  ASSUME SessInv, ended = "no", ended' = "no", frames' = <<>>,
         SessionTypeOK', OwnedOK', CalmOK', OrigOK'
  PROVE  SessInv'
<1>1. closes' = 0 \/ closes' = 1
  BY DEF CalmOK, Undisturbed
<1>2. vt' \in {"open", "null"} /\ (vt' = "open" => closes' = 0)
  BY DEF CalmOK, Undisturbed, Drawn
<1>3. StackOK'
  BY DEF StackOK
<1>4. ClosedOK'
  BY <1>1, <1>2 DEF ClosedOK
<1>5. RestoredOK'
  BY DEF RestoredOK, TerminalRestored
<1> QED
  BY <1>3, <1>4, <1>5 DEF SessInv

\* A part is acquired and owned, or fails to be acquired and those before it are
\* released in reverse; flags and handlers stay.
LEMMA AcquireInv ==
  ASSUME SessInv, NEW i \in 1..4, Acquire(i, IF i = 4 THEN "create" ELSE Main[i + 1])
  PROVE  SessInv'
<1> DEFINE next == IF i = 4 THEN "create" ELSE Main[i + 1]
<1>1. /\ ended = "no" /\ frames = <<>> /\ place = Main[i] /\ kitty' = kitty /\ sysv' = sysv
      /\ raw' = raw /\ flags' = flags /\ vt' = vt /\ closes' = closes
      /\ handler' = handler /\ frames' = frames /\ ended' = ended /\ excused' = excused /\ orig' = orig
  BY DEF Acquire, Step, InMain, vars, inputVars, termVars, sigVars
<1>2. \/ place' = next /\ owned' = owned \cup {Main[i]}
      \/ place' = "free" /\ owned' = owned /\ rest' = Below(i)
  BY DEF Acquire, Step, Unwind
<1> HIDE DEF next
<1>3. /\ place \in Loading /\ (i = 4 => next = "create") /\ (i < 4 => next = Main[i + 1])
      /\ next \in Loading \cup {"create"}
  BY <1>1, MainParts DEF next, Loading
<1>4. SessionTypeOK'
  BY <1>1, <1>2, <1>3 DEF SessInv, SessionTypeOK, Places, Taking, SettingUp, Undoing, Loading
<1>5. owned = First(i - 1)
  BY <1>1 DEF SessInv, OwnedOK
<1>6. OwnedOK'
  <2>1. CASE place' = "free" /\ owned' = owned /\ rest' = Below(i)
    <3>1. \E n \in 0..5 : owned' = First(n) /\ rest' = Below(n + 1)
      <4>1. i - 1 \in 0..5 /\ (i - 1) + 1 = i
        OBVIOUS
      <4> QED
        BY <2>1, <1>5, <4>1
    <3>2. \A j \in 1..4 : place' # Main[j]
      BY <2>1, MainParts
    <3> QED
      BY <1>1, <2>1, <3>1, <3>2 DEF OwnedOK, Taking, SettingUp, Undoing, Leaving
  <2>2. CASE place' = next /\ owned' = owned \cup {Main[i]}
    <3>1. i \in 1..5 /\ owned' = First(i)
      BY <2>2, <1>5, FirstParts
    <3>2. \A j \in 1..4 : next = Main[j] => j = i + 1
      BY <1>3, MainParts
    <3>3. next = "create" => i = 4
      BY <1>3, MainParts
    <3>4. \A j \in 1..4 : place' = Main[j] => owned' = First(j - 1)
      BY <2>2, <3>1, <3>2
    <3> QED
      BY <1>1, <1>3, <2>2, <3>1, <3>3, <3>4
         DEF OwnedOK, Loading, Taking, SettingUp, Undoing, Leaving
  <2> QED
    BY <1>2, <2>1, <2>2
<1>7. CalmOK'
  BY <1>1, <1>2, <1>3
     DEF SessInv, CalmOK, Undisturbed, IntAt, TermAt, Drawn, Shown, Flagged, Loading
<1>8. OrigOK'
  BY <1>1 DEF SessInv, OrigOK
<1> QED
  BY <1>1, <1>4, <1>6, <1>7, <1>8, CalmInv

\* Where the parts are neither acquired nor released.
LEMMA OwnedStays ==
  ASSUME SessInv, owned' = owned, ended' = "no",
         \/ place \in Taking /\ place' \in Taking
         \/ /\ place \in {"ask", "loop"} \cup SettingUp \cup Undoing \cup Leaving
            /\ place' \in {"ask", "loop"} \cup SettingUp \cup Undoing \cup Leaving
  PROVE  OwnedOK'
<1>1. \A j \in 1..4 : place' # Main[j]
  <2>1. \A j \in 1..4 : j = 1 \/ j = 2 \/ j = 3 \/ j = 4
    OBVIOUS
  <2> QED
    BY <2>1, MainParts DEF Taking, SettingUp, Undoing, Leaving
<1> QED
  BY <1>1 DEF SessInv, OwnedOK, Taking, SettingUp, Undoing, Leaving

\* The handlers, the keyboard and the canvas, step by step.
LEMMA InstallInv ==
  ASSUME SessInv, InstallVideo \/ InstallInput \/ Uninstall
  PROVE  SessInv'
<1>1. /\ ended = "no" /\ frames = <<>> /\ kitty' = kitty /\ sysv' = sysv
      /\ raw' = raw /\ flags' = flags /\ vt' = vt /\ closes' = closes
      /\ frames' = frames /\ ended' = ended /\ excused' = excused /\ owned' = owned
  BY DEF InstallVideo, InstallInput, Uninstall, Signal, Step, InMain, vars, inputVars, termVars
<1>2. /\ handler["INT"] = IntAt(place) /\ handler["TERM"] = TermAt(place)
      /\ (handler["INT"] = "input" => orig["INT"] = "video")
      /\ (handler["TERM"] = "input" => orig["TERM"] = "video")
  BY <1>1 DEF SessInv, CalmOK, Undisturbed, OrigOK, Quits
<1>3. /\ handler \in [{"INT", "TERM", "ALRM"} -> {"default", "video", "input", "timer"}]
      /\ orig \in [{"INT", "TERM"} -> {"default", "video", "input", "timer"}]
  <2>1. Quits \cup {"ALRM"} = {"INT", "TERM", "ALRM"} /\ Quits = {"INT", "TERM"}
    BY DEF Quits
  <2> QED
    BY <2>1 DEF SessInv, SessionTypeOK
<1>4. \/ place = "sigint" /\ place' = "sigterm" /\ handler' = [handler EXCEPT !["INT"] = "video"] /\ orig' = orig
      \/ place = "sigterm" /\ place' = "mem" /\ handler' = [handler EXCEPT !["TERM"] = "video"] /\ orig' = orig
      \/ /\ place = "origint" /\ place' = "origterm" /\ handler' = [handler EXCEPT !["INT"] = "input"]
         /\ orig' = [orig EXCEPT !["INT"] = handler["INT"]]
      \/ /\ place = "origterm" /\ place' = "alarm" /\ handler' = [handler EXCEPT !["TERM"] = "input"]
         /\ orig' = [orig EXCEPT !["TERM"] = handler["TERM"]]
      \/ place = "alarm" /\ place' = "timer" /\ handler' = [handler EXCEPT !["ALRM"] = "timer"] /\ orig' = orig
      \/ place = "dflalarm" /\ place' = "pop" /\ handler' = [handler EXCEPT !["ALRM"] = "default"] /\ orig' = orig
      \/ place = "backint" /\ place' = "backterm" /\ handler' = [handler EXCEPT !["INT"] = orig["INT"]] /\ orig' = orig
      \/ place = "backterm" /\ place' = "dflint" /\ handler' = [handler EXCEPT !["TERM"] = orig["TERM"]] /\ orig' = orig
      \/ place = "dflint" /\ place' = "dflterm" /\ handler' = [handler EXCEPT !["INT"] = "default"] /\ orig' = orig
      \/ place = "dflterm" /\ place' = "close" /\ handler' = [handler EXCEPT !["TERM"] = "default"] /\ orig' = orig
  BY DEF InstallVideo, InstallInput, Uninstall, Signal, Step, InMain
<1>5. OwnedOK'
  BY <1>1, <1>4, OwnedStays DEF Taking, SettingUp, Undoing, Leaving
<1>6. SessionTypeOK'
  <2>1. /\ handler' \in [{"INT", "TERM", "ALRM"} -> {"default", "video", "input", "timer"}]
        /\ orig' \in [{"INT", "TERM"} -> {"default", "video", "input", "timer"}]
    BY <1>3, <1>4
  <2>2. Quits \cup {"ALRM"} = {"INT", "TERM", "ALRM"} /\ Quits = {"INT", "TERM"}
    BY DEF Quits
  <2>3. place' \in Places /\ (place' \in SettingUp \cup Undoing => kitty')
    BY <1>1, <1>4 DEF SessInv, SessionTypeOK, Places, Taking, SettingUp, Undoing, Leaving
  <2> QED
    BY <1>1, <2>1, <2>2, <2>3 DEF SessInv, SessionTypeOK
<1>7. handler'["INT"] = IntAt(place') /\ handler'["TERM"] = TermAt(place')
  BY <1>1, <1>2, <1>3, <1>4 DEF IntAt, TermAt, Loading
<1>8. CalmOK'
  <2>1. handler'["INT"] = IntAt(place)' /\ handler'["TERM"] = TermAt(place)'
    BY <1>1, <1>7 DEF IntAt, TermAt
  <2>2. /\ vt' = (IF Drawn(place)' THEN "open" ELSE "null") /\ (raw' <=> Shown(place)')
        /\ flags' = (IF Flagged(place)' THEN 1 ELSE 0)
        /\ closes' = 0 /\ excused' = {}
    BY <1>1, <1>4 DEF SessInv, CalmOK, Undisturbed, Drawn, Shown, Flagged, Loading
  <2> QED
    BY <2>1, <2>2 DEF CalmOK
<1>9. OrigOK'
  <2>1. \A s \in {"INT", "TERM"} : /\ handler'[s] \in {"default", "video", "input"}
                                   /\ handler'[s] = "input" => orig'[s] = "video"
    BY <1>2, <1>3, <1>4 DEF IntAt, TermAt, Loading
  <2> QED
    BY <2>1 DEF OrigOK, Quits
<1> QED
  BY <1>1, <1>5, <1>6, <1>8, <1>9, CalmInv

\* AskKitty, PushFlags, StartTimer, LeaveLoop, StopTimer and PopFlags.
LEMMA KeyboardInv ==
  ASSUME SessInv, AskKitty \/ PushFlags \/ StartTimer \/ LeaveLoop \/ StopTimer \/ PopFlags
  PROVE  SessInv'
<1>1. /\ ended = "no" /\ frames = <<>> /\ kitty' = kitty /\ sysv' = sysv
      /\ raw' = raw /\ vt' = vt /\ closes' = closes /\ handler' = handler /\ orig' = orig
      /\ frames' = frames /\ ended' = ended /\ excused' = excused /\ owned' = owned
  BY DEF AskKitty, PushFlags, StartTimer, LeaveLoop, StopTimer, PopFlags, Forget,
         Step, InMain, vars, inputVars, termVars, sigVars
<1>2. \/ place = "ask" /\ place' = (IF kitty THEN "push" ELSE "loop") /\ flags' = flags
      \/ place = "push" /\ place' = "origint" /\ flags' = flags + 1
      \/ place = "timer" /\ place' = "loop" /\ flags' = flags
      \/ place = "loop" /\ place' = (IF kitty THEN "stop" ELSE "dflint") /\ flags' = flags
      \/ place = "stop" /\ place' = "dflalarm" /\ flags' = flags
      \/ place = "pop" /\ place' = "backint" /\ flags' = flags - 1
  BY DEF AskKitty, PushFlags, StartTimer, LeaveLoop, StopTimer, PopFlags, Step, InMain, termVars
<1>3. flags = (IF Flagged(place) THEN 1 ELSE 0) /\ (place \in SettingUp \cup Undoing => kitty)
  BY <1>1 DEF SessInv, CalmOK, Undisturbed, SessionTypeOK
<1>4. flags' = (IF Flagged(place') THEN 1 ELSE 0)
  BY <1>2, <1>3 DEF Flagged, SettingUp
<1>5. OwnedOK'
  BY <1>1, <1>2, OwnedStays DEF SettingUp, Undoing, Leaving
<1>6. SessionTypeOK'
  <2>1. place' \in Places /\ (place' \in SettingUp \cup Undoing => kitty')
    BY <1>1, <1>2, <1>3 DEF Places, SettingUp, Undoing, Leaving
  <2>2. flags' \in 0..1
    BY <1>4
  <2> QED
    BY <1>1, <2>1, <2>2 DEF SessInv, SessionTypeOK
<1>7. CalmOK'
  <2>1. /\ vt' = (IF Drawn(place)' THEN "open" ELSE "null") /\ (raw' <=> Shown(place)')
        /\ closes' = 0 /\ excused' = {}
    BY <1>1, <1>2 DEF SessInv, CalmOK, Undisturbed, Drawn, Shown, Loading
  <2>2. flags' = (IF Flagged(place)' THEN 1 ELSE 0)
    BY <1>1, <1>4 DEF Flagged
  <2>3. handler'["INT"] = IntAt(place)' /\ handler'["TERM"] = TermAt(place)'
    BY <1>1, <1>2, <1>3 DEF SessInv, CalmOK, Undisturbed, IntAt, TermAt, Loading, SettingUp
  <2> QED
    BY <2>1, <2>2, <2>3 DEF CalmOK
<1>8. OrigOK'
  BY <1>1 DEF SessInv, OrigOK
<1> QED
  BY <1>1, <1>5, <1>6, <1>7, <1>8, CalmInv

\* CreateCanvas, ResetCanvas and VideoFree.
LEMMA CanvasInv ==
  ASSUME SessInv, CreateCanvas \/ ResetCanvas \/ VideoFree
  PROVE  SessInv'
<1>1. /\ ended = "no" /\ frames = <<>> /\ kitty' = kitty /\ sysv' = sysv
      /\ flags' = flags /\ handler' = handler /\ orig' = orig
      /\ frames' = frames /\ ended' = ended /\ excused' = excused /\ owned' = owned
  BY DEF CreateCanvas, ResetCanvas, VideoFree, Unwind, Step, InMain, vars, inputVars, termVars, sigVars
<1>2. vt = (IF Drawn(place) THEN "open" ELSE "null") /\ (raw <=> Shown(place)) /\ closes \in Nat
      /\ (closes = 0 \/ (place = "free" /\ closes = 1))
  BY <1>1 DEF SessInv, CalmOK, Undisturbed, SessionTypeOK
<1>3. \/ place = "create" /\ place' = "reset" /\ vt' = "open" /\ raw' = raw /\ closes' = closes
      \/ place = "create" /\ place' = "free" /\ rest' = Below(5) /\ vt' = vt /\ raw' = raw /\ closes' = closes
      \/ place = "reset" /\ place' = "sigint" /\ raw' = TRUE /\ vt' = vt /\ closes' = closes
      \/ /\ place \in {"reset", "close"} /\ place' = "free" /\ rest' = Below(IF place = "close" THEN 6 ELSE 5)
         /\ vt' = "null" /\ raw' = FALSE /\ closes' = closes + 1
  <2>1. place = "close" => vt = "open"
    BY <1>2 DEF Drawn, Loading
  <2> QED
    BY <2>1 DEF CreateCanvas, ResetCanvas, VideoFree, Unwind, Step, InMain, termVars
<1>4. OwnedOK'
  <2>1. CASE place' # "free"
    BY <1>1, <1>3, <2>1, OwnedStays DEF Taking
  <2>2. CASE place' = "free"
    <3>1. \/ owned = First(4) /\ rest' = Below(4 + 1)
          \/ owned = First(5) /\ rest' = Below(5 + 1)
      BY <1>3, <2>2 DEF SessInv, OwnedOK, Taking, Leaving
    <3>2. \A j \in 1..4 : place' # Main[j]
      BY <2>2, MainParts
    <3> QED
      BY <1>1, <2>2, <3>1, <3>2 DEF OwnedOK, Taking, SettingUp, Undoing, Leaving
  <2> QED
    BY <2>1, <2>2
<1>5. SessionTypeOK'
  <2>1. raw' \in BOOLEAN
    BY <1>3, Zenon DEF SessInv, SessionTypeOK
  <2>2. /\ place' \in Places /\ place' \notin SettingUp \cup Undoing
        /\ vt' \in {"null", "open", "stale"} /\ closes' \in Nat
    BY <1>2, <1>3 DEF SessInv, SessionTypeOK, Places, Taking, SettingUp, Undoing
  <2> QED
    BY <1>1, <2>1, <2>2 DEF SessInv, SessionTypeOK
<1>6. CalmOK'
  <2>1. /\ vt' = (IF Drawn(place)' THEN "open" ELSE "null") /\ (raw' <=> Shown(place)')
        /\ (closes' = 0 \/ (place' = "free" /\ closes' = 1))
    BY <1>2, <1>3 DEF Drawn, Shown, Loading
  <2>2. /\ flags' = (IF Flagged(place)' THEN 1 ELSE 0) /\ excused' = {}
        /\ handler'["INT"] = IntAt(place)' /\ handler'["TERM"] = TermAt(place)'
    BY <1>1, <1>3 DEF SessInv, CalmOK, Undisturbed, Flagged, IntAt, TermAt, Loading
  <2> QED
    BY <2>1, <2>2 DEF CalmOK
<1>7. OrigOK'
  BY <1>1 DEF SessInv, OrigOK
<1> QED
  BY <1>1, <1>4, <1>5, <1>6, <1>7, CalmInv

\* Where the program ends.
LEMMA EndInv ==
  ASSUME SessInv, ended' # "no", closes' = closes, excused \subseteq excused',
         SessionTypeOK', OwnedOK', OrigOK', TerminalRestored'
  PROVE  SessInv'
<1>1. CalmOK' /\ StackOK' /\ RestoredOK'
  BY DEF CalmOK, Undisturbed, StackOK, RestoredOK
<1>2. ClosedOK'
  BY DEF SessInv, ClosedOK
<1> QED
  BY <1>1, <1>2 DEF SessInv

LEMMA MemoryInv ==
  ASSUME SessInv, PpuMMapInit
  PROVE  SessInv'
<1>1. /\ ended = "no" /\ frames = <<>> /\ kitty' = kitty /\ sysv' = sysv /\ place = "mem"
      /\ raw' = raw /\ flags' = flags /\ vt' = vt /\ closes' = closes /\ handler' = handler /\ orig' = orig
      /\ frames' = frames
  BY DEF PpuMMapInit, Step, InMain, vars, inputVars, progVars, termVars, sigVars
<1>2. OrigOK'
  BY <1>1 DEF SessInv, OrigOK
<1>3. CASE place' = "ask" /\ owned' = owned \cup {"ppu"} /\ ended' = ended /\ excused' = excused
  <2>1. OwnedOK'
    <3>1. owned' = First(5)
      BY <1>1, <1>3, FirstParts DEF SessInv, OwnedOK, Taking
    <3>2. \A j \in 1..4 : place' # Main[j]
      BY <1>3, MainParts
    <3> QED
      BY <1>1, <1>3, <3>1, <3>2 DEF OwnedOK, Taking, SettingUp, Undoing, Leaving
  <2>2. SessionTypeOK'
    BY <1>1, <1>3 DEF SessInv, SessionTypeOK, Places, SettingUp, Undoing
  <2>3. CalmOK'
    BY <1>1, <1>3
       DEF SessInv, CalmOK, Undisturbed, IntAt, TermAt, Drawn, Shown, Flagged, Loading
  <2> QED
    BY <1>1, <1>2, <1>3, <2>1, <2>2, <2>3, CalmInv
<1>4. CASE place' = "mem" /\ owned' = owned /\ ended' = "exit" /\ excused' = excused \cup {"memory"}
  <2>1. OwnedOK'
    <3>1. \A j \in 1..4 : place' # Main[j]
      BY <1>4, MainParts
    <3> QED
      BY <1>1, <1>4, <3>1 DEF SessInv, OwnedOK, Taking, SettingUp, Undoing, Leaving
  <2>2. SessionTypeOK'
    BY <1>1, <1>4 DEF SessInv, SessionTypeOK
  <2>3. TerminalRestored'
    BY <1>4 DEF TerminalRestored
  <2> QED
    BY <1>1, <1>2, <1>4, <2>1, <2>2, <2>3, EndInv
<1> QED
  BY <1>3, <1>4 DEF PpuMMapInit, Step, InMain, progVars, sigVars

\* The last acquired is released first; main returns when nothing is left.
LEMMA ReleaseInv ==
  ASSUME SessInv, Release
  PROVE  SessInv'
<1>1. /\ ended = "no" /\ frames = <<>> /\ kitty' = kitty /\ sysv' = sysv /\ place = "free" /\ place' = "free"
      /\ raw' = raw /\ flags' = flags /\ vt' = vt /\ closes' = closes /\ handler' = handler /\ orig' = orig
      /\ frames' = frames /\ excused' = excused
  BY DEF Release, Step, InMain, vars, inputVars, termVars
<1>2. OrigOK'
  BY <1>1 DEF SessInv, OrigOK
<1>3. \A j \in 1..4 : place' # Main[j]
  BY <1>1, MainParts
<1>4. PICK n \in 0..5 : owned = First(n) /\ rest = Below(n + 1)
  BY <1>1 DEF SessInv, OwnedOK
<1>5. vt = "null" /\ ~raw /\ flags = 0
  BY <1>1 DEF SessInv, CalmOK, Undisturbed, Drawn, Shown, Flagged
<1>6. CASE rest # <<>>
  <2>1. rest' = Tail(rest) /\ owned' = owned \ {Head(rest)} /\ ended' = ended
    BY <1>6 DEF Release
  <2>2. n # 0
    <3>1. n = 0 => n + 1 = 1
      OBVIOUS
    <3> QED
      BY <1>4, <1>6, <3>1, BelowSteps
  <2>3. n \in 1..5
    BY <2>2
  <2>4. rest' = Below(n) /\ owned' = First(n - 1)
    <3>1. Head(rest) = Main[n] /\ rest' = Below(n)
      BY <1>4, <2>1, <2>3, BelowSteps
    <3>2. First(n) = First(n - 1) \cup {Main[n]} /\ Main[n] \notin First(n - 1)
      BY <2>3, FirstParts
    <3> QED
      BY <1>4, <2>1, <3>1, <3>2
  <2>5. \E m \in 0..5 : owned' = First(m) /\ rest' = Below(m + 1)
    <3>1. n - 1 \in 0..5 /\ (n - 1) + 1 = n
      BY <2>3
    <3> QED
      BY <2>4, <3>1
  <2>6. OwnedOK'
    BY <1>1, <1>3, <2>1, <2>5 DEF OwnedOK, Taking, SettingUp, Undoing, Leaving
  <2>7. SessionTypeOK'
    BY <1>1, <2>1 DEF SessInv, SessionTypeOK
  <2>8. CalmOK'
    BY <1>1, <2>1
       DEF SessInv, CalmOK, Undisturbed, IntAt, TermAt, Drawn, Shown, Flagged, Loading
  <2> QED
    BY <1>1, <1>2, <2>1, <2>6, <2>7, <2>8, CalmInv
<1>7. CASE rest = <<>>
  <2>1. ended' = "returned" /\ rest' = rest /\ owned' = owned
    BY <1>7 DEF Release
  <2>2. n = 0
    <3>1. n \in 1..5 => Below(n + 1) # <<>>
      BY BelowSteps
    <3> QED
      BY <1>4, <1>7, <3>1
  <2>3. owned' = {}
    BY <1>4, <2>1, <2>2, FirstParts
  <2>4. OwnedOK'
    BY <1>1, <1>3, <1>4, <1>5, <2>1, <2>3 DEF OwnedOK, Taking, SettingUp, Undoing, Leaving
  <2>5. SessionTypeOK'
    BY <1>1, <2>1 DEF SessInv, SessionTypeOK
  <2>6. TerminalRestored'
    BY <1>1, <1>5 DEF TerminalRestored
  <2> QED
    BY <1>1, <1>2, <2>1, <2>4, <2>5, <2>6, EndInv
<1> QED
  BY <1>6, <1>7

LEMMA MainInv ==
  ASSUME SessInv, MainStep \/ LeaveLoop
  PROVE  SessInv'
BY AcquireInv, InstallInv, KeyboardInv, CanvasInv, MemoryInv, ReleaseInv DEF MainStep

-----------------------------------------------------------------------------
\* The handlers below the innermost.
LEMMA OuterIs ==
  ASSUME frames \in Seq(Frames), frames # <<>>
  PROVE  /\ Len(frames) \in Nat \ {0} /\ Outer \in Seq(Frames) /\ Len(Outer) = Len(frames) - 1
         /\ \A i \in 1..(Len(frames) - 1) : Outer[i] = frames[i]
<1> DEFINE m == Len(frames) - 1
<1>1. m \in Nat /\ Len(frames) = m + 1 /\ \A i \in 1..m : frames[i] \in Frames
  OBVIOUS
<1>2. Outer = SubSeq(frames, 1, m)
  BY DEF Outer
<1> HIDE DEF m
<1>3. /\ SubSeq(frames, 1, m) \in Seq(Frames) /\ Len(SubSeq(frames, 1, m)) = (IF 1 <= m THEN m - 1 + 1 ELSE 0)
      /\ \A i \in 1..(m - 1 + 1) : SubSeq(frames, 1, m)[i] = frames[1 + i - 1]
  BY <1>1, SubSeqProperties
<1> QED
  BY <1>1, <1>2, <1>3

(***************************************************************************)
(* Signals.  A handler is entered on top of those that run, or in place of *)
(* that of the input back end that has passed its signal on.               *)
(***************************************************************************)
Enters(sig, by, running) ==
  /\ running = frames \/ (frames # <<>> /\ ~ByVideo(Len(frames)) /\ running = Outer)
  /\ frames' = Append(running, [sig |-> sig, by |-> by, step |-> 1])
  /\ ended = "no" /\ ended' = "no"
  /\ handler' \in [Quits \cup {"ALRM"} -> {"default", "video", "input", "timer"}]
  /\ sysv => handler'[sig] = "default"
  /\ \A s \in Quits \ {sig} : handler'[s] = handler[s]
  /\ \A i \in DOMAIN running : running[i].sig = sig => running[i].by = "input" /\ by = "video"
  /\ by = "input" => orig[sig] = "video"
  /\ OrigOK' /\ kitty' = kitty /\ UNCHANGED <<sysv, place, rest, owned, orig, termVars>>
  /\ excused \subseteq excused'
  /\ (\E i \in DOMAIN running : running[i].by = "video") => "nested" \in excused'
  /\ raw <=> vt = "open"
  /\ excused' = {} => (by = "video" => flags = 0) /\ (by = "input" => raw)

LEMMA EnterInv ==
  ASSUME SessInv, NEW sig \in Quits, NEW by \in {"video", "input"}, NEW running,
         Enters(sig, by, running)
  PROVE  SessInv'
<1>0. Enters(sig, by, running)
  OBVIOUS
<1> USE <1>0 DEF Enters
<1> DEFINE new == [sig |-> sig, by |-> by, step |-> 1]  n == Len(running)
<1>1. running \in Seq(Frames) /\ n \in Nat /\ (\A i \in 1..n : i \in DOMAIN frames /\ running[i] = frames[i])
  <2>1. frames \in Seq(Frames)
    BY DEF SessInv, SessionTypeOK
  <2>2. CASE running = frames
    BY <2>1, <2>2
  <2>3. CASE frames # <<>> /\ running = Outer
    <3>1. Len(frames) \in Nat \ {0} /\ \A i \in 1..(Len(frames) - 1) : frames[i] \in Frames
      BY <2>1, <2>3
    <3>2. /\ Outer \in Seq(Frames) /\ Len(Outer) = Len(frames) - 1
          /\ \A i \in 1..(Len(frames) - 1) : Outer[i] = frames[i]
      BY <2>1, <2>3, OuterIs
    <3> QED
      BY <2>1, <2>3, <3>1, <3>2
  <2> QED
    BY <2>2, <2>3
<1>2. new \in Frames
  BY DEF Frames
<1>3. /\ frames' \in Seq(Frames) /\ Len(frames') = n + 1 /\ frames'[n + 1] = new
      /\ \A i \in 1..n : frames'[i] = frames[i]
  <2> HIDE DEF new
  <2>1. /\ Append(running, new) \in Seq(Frames) /\ Len(Append(running, new)) = n + 1
        /\ Append(running, new)[n + 1] = new /\ \A i \in 1..n : Append(running, new)[i] = running[i]
    BY <1>1, <1>2, AppendProperties
  <2> QED
    BY <1>1, <2>1 DEF new
<1>4. DOMAIN frames' = 1..(n + 1) /\ frames' # <<>>
  BY <1>1, <1>3
<1>5. new.sig = sig /\ new.by = by /\ new.step = 1
  OBVIOUS
<1>6. DOMAIN running = 1..n
  BY <1>1
<1> HIDE DEF new, n
<1>7. SessionTypeOK'
  BY <1>3 DEF SessInv, SessionTypeOK, termVars
<1>8. OwnedOK'
  BY DEF SessInv, OwnedOK, termVars
<1>9. CalmOK'
  BY <1>4 DEF CalmOK, Undisturbed
<1>10. StackOK'
  <2>1. ASSUME NEW i \in DOMAIN frames', NEW j \in DOMAIN frames', i < j, frames'[i].sig = frames'[j].sig
        PROVE  frames'[i].by # "video" /\ frames'[j].by = "video"
    <3>1. i \in 1..n /\ frames'[i] = frames[i] /\ frames[i] = running[i] /\ i \in DOMAIN frames
      BY <1>1, <1>3, <1>4, <2>1
    <3>2. CASE j \in 1..n
      <4>1. frames'[j] = frames[j] /\ j \in DOMAIN frames
        BY <1>1, <1>3, <3>2
      <4> QED
        BY <2>1, <3>1, <4>1 DEF SessInv, StackOK, ByVideo
    <3>3. CASE j = n + 1
      BY <1>3, <1>5, <1>6, <2>1, <3>1, <3>3
    <3> QED
      BY <1>1, <1>4, <3>2, <3>3
  <2>2. ASSUME NEW i \in DOMAIN frames'
        PROVE  /\ sysv' => handler'[frames'[i].sig] = "default"
               /\ frames'[i].by # "video" => orig'[frames'[i].sig] = "video" /\ frames'[i].step < 3
               /\ frames'[i].by = "video" /\ i # Len(frames') => "nested" \in excused'
    <3>1. CASE i \in 1..n
      <4>1. frames'[i] = frames[i] /\ i \in DOMAIN frames /\ running[i] = frames[i] /\ frames[i].sig \in Quits
        <5>1. frames'[i] = frames[i] /\ i \in DOMAIN frames /\ running[i] = frames[i]
          BY <1>1, <1>3, <3>1
        <5>2. frames[i] \in Frames
          BY <5>1 DEF SessInv, SessionTypeOK
        <5> QED
          BY <5>1, <5>2 DEF Frames
      <4>2. sysv => handler'[frames[i].sig] = "default"
        BY <4>1 DEF SessInv, StackOK
      <4>3. frames[i].by = "video" => "nested" \in excused'
        BY <1>6, <3>1, <4>1
      <4> QED
        BY <4>1, <4>2, <4>3 DEF SessInv, StackOK, ByVideo
    <3>2. CASE i = n + 1
      BY <1>3, <1>5, <3>2
    <3> QED
      BY <1>1, <1>4, <3>1, <3>2
  <2> QED
    BY <2>1, <2>2, Zenon DEF StackOK, ByVideo
<1>11. ClosedOK'
  <2>1. \A i \in DOMAIN frames : Closing(i) =>
          i \in DOMAIN frames' /\ frames'[i].by = "video" /\ frames'[i].step >= 2 /\ frames'[i].sig = frames[i].sig
    <3>1. ASSUME NEW i \in DOMAIN frames, Closing(i)
          PROVE  i \in 1..n
      <4>1. frames \in Seq(Frames)
        BY DEF SessInv, SessionTypeOK
      <4>2. CASE running = frames
        BY <4>1, <4>2 DEF n
      <4>3. CASE frames # <<>> /\ ~ByVideo(Len(frames)) /\ running = Outer
        <5>1. i # Len(frames)
          BY <3>1, <4>3 DEF Closing
        <5>2. Len(frames) \in Nat \ {0} /\ \A k \in 1..(Len(frames) - 1) : frames[k] \in Frames
          BY <4>1, <4>3
        <5>3. n = Len(frames) - 1
          BY <4>1, <4>3, OuterIs DEF n
        <5> QED
          BY <4>1, <5>1, <5>2, <5>3
      <4> QED
        BY <4>2, <4>3
    <3> QED
      BY <1>1, <1>3, <1>4, <3>1 DEF Closing, ByVideo
  <2>2. /\ closes <= 2 /\ (closes = 2 => "nested" \in excused)
        /\ vt = "open" => closes = 0
        /\ vt = "stale" => \E i \in DOMAIN frames : Closing(i)
        /\ vt = "stale" /\ closes = 2 =>
             \A s \in Quits : \E i \in DOMAIN frames : Closing(i) /\ frames[i].sig = s
    BY DEF SessInv, ClosedOK
  <2>3. vt' = vt /\ closes' = closes
    BY DEF termVars
  <2>4. vt = "stale" => \E i \in DOMAIN frames' : frames'[i].by = "video" /\ frames'[i].step >= 2
    BY <2>1, <2>2
  <2>5. vt = "stale" /\ closes = 2 =>
          \A s \in Quits : \E i \in DOMAIN frames' :
            frames'[i].by = "video" /\ frames'[i].step >= 2 /\ frames'[i].sig = s
    BY <2>1, <2>2
  <2>6. vt = "open" => \A i \in DOMAIN frames' : ~(frames'[i].by = "video" /\ frames'[i].step >= 2)
    <3>1. \A i \in 1..n : frames'[i].by = "video" /\ frames'[i].step >= 2 => Closing(i)
      BY <1>3 DEF Closing, ByVideo
    <3>2. vt = "open" => \A i \in DOMAIN frames : ~Closing(i)
      BY DEF SessInv, ClosedOK
    <3>3. ~(frames'[n + 1].step >= 2)
      BY <1>3, <1>5
    <3> QED
      BY <1>1, <1>4, <3>1, <3>2, <3>3
  <2> QED
    BY <2>2, <2>3, <2>4, <2>5, <2>6 DEF ClosedOK, Closing, ByVideo
<1>12. RestoredOK'
  <2>1. frames'[Len(frames')] = new
    BY <1>3
  <2> QED
    BY <2>1, <1>5 DEF RestoredOK, TerminalRestored, termVars
<1> QED
  BY <1>7, <1>8, <1>9, <1>10, <1>11, <1>12 DEF SessInv

\* What a signal that is delivered leaves of the handlers.
LEMMA TakenHandler ==
  ASSUME SessInv, NEW sig \in Quits, NEW h \in {"default", "video", "input"},
         handler' = [handler EXCEPT ![sig] = h], orig' = orig,
         h = "input" => orig[sig] = "video"
  PROVE  /\ handler' \in [Quits \cup {"ALRM"} -> {"default", "video", "input", "timer"}]
         /\ handler'[sig] = h /\ \A s \in Quits \ {sig} : handler'[s] = handler[s]
         /\ OrigOK'
<1>1. /\ handler \in [Quits \cup {"ALRM"} -> {"default", "video", "input", "timer"}]
      /\ sig \in Quits \cup {"ALRM"}
  BY DEF SessInv, SessionTypeOK
<1>2. \A s \in Quits : s \in Quits \cup {"ALRM"}
  OBVIOUS
<1>3. handler' \in [Quits \cup {"ALRM"} -> {"default", "video", "input", "timer"}]
  BY <1>1
<1>4. handler'[sig] = h
  BY <1>1
<1>5. \A s \in Quits \ {sig} : handler'[s] = handler[s]
  BY <1>1, <1>2
<1>6. OrigOK'
  BY <1>4, <1>5 DEF SessInv, OrigOK
<1> QED
  BY <1>3, <1>4, <1>5, <1>6

\* The first signal: the handler that its place in the program has installed.
LEMMA FirstSignalInv ==
  ASSUME SessInv, NEW sig \in Quits, Undisturbed, Take(sig, frames, handler),
         kitty' = kitty, UNCHANGED <<sysv, progVars, termVars>>,
         excused' = excused \cup (IF place \in Windows[sig] THEN {"window"} ELSE {})
  PROVE  SessInv'
<1>1. /\ ended = "no" /\ frames = <<>> /\ frames \in Seq(Frames)
      /\ UNCHANGED <<place, rest, owned, orig, raw, flags, vt, closes, sysv>>
  BY EmptySeq DEF Undisturbed, progVars, termVars
<1>2. /\ vt = (IF Drawn(place) THEN "open" ELSE "null") /\ (raw <=> Shown(place))
      /\ flags = (IF Flagged(place) THEN 1 ELSE 0) /\ excused = {}
      /\ handler["INT"] = IntAt(place) /\ handler["TERM"] = TermAt(place)
  BY <1>1 DEF SessInv, CalmOK
<1>3. /\ handler[sig] \in {"default", "video", "input"}
      /\ handler[sig] = "input" => orig[sig] = "video"
  BY DEF SessInv, OrigOK
<1>4. Windows["INT"] = {"sigint", "origint", "dflterm", "close"}
      /\ Windows["TERM"] = {"sigint", "sigterm", "origint", "origterm", "close"}
  BY DEF Windows
<1>5. /\ place \in Places /\ (place \in SettingUp \cup Undoing => kitty)
  BY DEF SessInv, SessionTypeOK
<1>6. CASE handler[sig] = "default"
  <2>1. ended' = "killed" /\ frames' = frames /\ handler' = handler
    BY <1>6 DEF Take
  <2>2. place \notin Windows[sig] => ~raw /\ flags = 0
    <3>1. CASE sig = "INT"
      BY <1>2, <1>4, <1>5, <1>6, <3>1
         DEF IntAt, Shown, Drawn, Flagged, Places, Loading, Taking, SettingUp, Undoing, Leaving
    <3>2. CASE sig = "TERM"
      BY <1>2, <1>4, <1>5, <1>6, <3>2
         DEF TermAt, Shown, Drawn, Flagged, Places, Loading, Taking, SettingUp, Undoing, Leaving
    <3> QED
      BY <3>1, <3>2 DEF Quits
  <2>3. TerminalRestored'
    BY <1>1, <2>2 DEF TerminalRestored
  <2>4. SessionTypeOK' /\ OrigOK'
    BY <1>1, <2>1 DEF SessInv, SessionTypeOK, OrigOK
  <2>5. OwnedOK'
    BY <1>1, <2>1 DEF SessInv, OwnedOK
  <2> QED
    BY <1>1, <2>1, <2>3, <2>4, <2>5, EndInv
<1>7. CASE handler[sig] # "default"
  <2>1. /\ frames' = Append(frames, [sig |-> sig, by |-> handler[sig], step |-> 1])
        /\ ended' = "no"
        /\ handler' = IF sysv THEN [handler EXCEPT ![sig] = "default"] ELSE handler
    BY <1>1, <1>7 DEF Take
  <2>2. /\ handler' \in [Quits \cup {"ALRM"} -> {"default", "video", "input", "timer"}]
        /\ (sysv => handler'[sig] = "default") /\ \A s \in Quits \ {sig} : handler'[s] = handler[s]
        /\ OrigOK'
    <3>1. CASE sysv
      BY <1>1, <2>1, <3>1, TakenHandler
    <3>2. CASE ~sysv
      BY <1>1, <2>1, <3>2 DEF SessInv, SessionTypeOK, OrigOK
    <3> QED
      BY <3>1, <3>2
  <2>3. Drawn(place) /\ Shown(place)
    <3>1. CASE sig = "INT"
      BY <1>2, <1>7, <3>1 DEF IntAt, Shown, Drawn
    <3>2. CASE sig = "TERM"
      BY <1>2, <1>7, <3>2 DEF TermAt, Shown, Drawn
    <3> QED
      BY <3>1, <3>2 DEF Quits
  <2>4. place \notin Windows[sig] /\ handler[sig] = "video" => flags = 0
    <3>1. CASE sig = "INT"
      BY <1>2, <1>4, <3>1 DEF IntAt, Flagged
    <3>2. CASE sig = "TERM"
      BY <1>2, <1>4, <3>2 DEF TermAt, Flagged
    <3> QED
      BY <3>1, <3>2 DEF Quits
  <2>5. handler[sig] \in {"video", "input"} /\ raw /\ vt = "open"
    BY <1>2, <1>3, <1>7, <2>3
  <2>6. excused' = {} => (handler[sig] = "video" => flags = 0) /\ (handler[sig] = "input" => raw)
    BY <2>4, <2>5
  <2>7. \A i \in DOMAIN frames : FALSE
    BY <1>1
  <2> QED
    <3>1. Enters(sig, handler[sig], frames)
      BY <1>1, <1>3, <2>1, <2>2, <2>5, <2>6, <2>7 DEF Enters, termVars
    <3> QED
      BY <2>5, <3>1, EnterInv
<1> QED
  BY <1>6, <1>7

LEMMA RaiseIntInv ==
  ASSUME SessInv, RaiseInt
  PROVE  SessInv'
<1>1. /\ Undisturbed /\ Take("INT", frames, handler) /\ kitty' = kitty /\ excused' = excused
      /\ UNCHANGED <<sysv, progVars, termVars>> /\ place = "loop"
  BY DEF RaiseInt, Undisturbed, InMain, Forget
<1>2. "INT" \in Quits /\ place \notin Windows["INT"]
  BY <1>1 DEF Quits, Windows
<1>3. excused' = excused \cup (IF place \in Windows["INT"] THEN {"window"} ELSE {})
  BY <1>1, <1>2
<1> QED
  BY <1>1, <1>2, <1>3, FirstSignalInv

\* A signal from outside, among the calls of the program or within a handler.
LEMMA KillInv ==
  ASSUME SessInv, NEW sig \in Quits, Kill(sig)
  PROVE  SessInv'
<1>1. /\ ended = "no" /\ kitty' = kitty
      /\ UNCHANGED <<sysv, place, rest, owned, orig, raw, flags, vt, closes>>
      /\ excused' = excused \cup
           (IF frames # <<>> THEN {"nested"} ELSE IF place \in Windows[sig] THEN {"window"} ELSE {})
  BY DEF Kill, Forget, progVars, termVars
<1>2. frames \in Seq(Frames)
  BY DEF SessInv, SessionTypeOK
<1>3. CASE frames = <<>>
  <2>1. sig \notin Blocked
    BY <1>3 DEF Blocked
  <2>2. Take(sig, frames, handler)
    BY <2>1 DEF Kill
  <2> QED
    <3>1. /\ excused' = excused \cup (IF place \in Windows[sig] THEN {"window"} ELSE {})
          /\ Undisturbed
      BY <1>1, <1>3 DEF Undisturbed
    <3>2. UNCHANGED <<sysv, progVars, termVars>>
      BY DEF Kill
    <3> QED
      BY <1>1, <2>2, <3>1, <3>2, FirstSignalInv
<1>4. CASE frames # <<>> /\ sig \in Blocked
  <2>1. UNCHANGED <<handler, frames, ended>> /\ "nested" \in excused' /\ excused \subseteq excused'
    BY <1>1, <1>4 DEF Kill
  <2>2. SessionTypeOK' /\ OwnedOK' /\ OrigOK'
    BY <1>1, <2>1 DEF SessInv, SessionTypeOK, OwnedOK, OrigOK
  <2>3. CalmOK'
    BY <1>4, <2>1 DEF CalmOK, Undisturbed
  <2>4. StackOK' /\ ClosedOK'
    BY <1>1, <2>1 DEF SessInv, StackOK, ClosedOK, ByVideo, Closing
  <2>5. RestoredOK'
    BY <1>1, <1>4, <2>1 DEF SessInv, RestoredOK, TerminalRestored
  <2> QED
    BY <2>2, <2>3, <2>4, <2>5 DEF SessInv
<1>5. CASE frames # <<>> /\ sig \notin Blocked
  <2>1. Take(sig, frames, handler) /\ "nested" \in excused' /\ excused \subseteq excused'
    BY <1>1, <1>5 DEF Kill
  <2>2. CASE handler[sig] = "default"
    <3>1. ended' = "killed" /\ frames' = frames /\ handler' = handler
      BY <2>1, <2>2 DEF Take
    <3>2. SessionTypeOK' /\ OwnedOK' /\ OrigOK'
      BY <1>1, <3>1 DEF SessInv, SessionTypeOK, OwnedOK, OrigOK
    <3>3. TerminalRestored'
      BY <2>1 DEF TerminalRestored
    <3> QED
      BY <1>1, <2>1, <3>1, <3>2, <3>3, EndInv
  <2>3. CASE handler[sig] # "default"
    <3>1. /\ frames' = Append(frames, [sig |-> sig, by |-> handler[sig], step |-> 1])
          /\ ended' = "no"
          /\ handler' = IF sysv THEN [handler EXCEPT ![sig] = "default"] ELSE handler
      BY <1>1, <2>1, <2>3 DEF Take
    <3>2. /\ handler' \in [Quits \cup {"ALRM"} -> {"default", "video", "input", "timer"}]
          /\ (sysv => handler'[sig] = "default") /\ \A s \in Quits \ {sig} : handler'[s] = handler[s]
          /\ OrigOK'
      <4>1. CASE sysv
        BY <1>1, <3>1, <4>1, TakenHandler
      <4>2. CASE ~sysv
        BY <1>1, <3>1, <4>2 DEF SessInv, SessionTypeOK, OrigOK
      <4> QED
        BY <4>1, <4>2
    <3>3. \A i \in DOMAIN frames : frames[i].sig # sig
      BY <1>1, <1>5, <2>3 DEF SessInv, StackOK, Blocked
    <3>4. handler[sig] \in {"video", "input"} /\ (handler[sig] = "input" => orig[sig] = "video")
      BY <2>3 DEF SessInv, OrigOK
    <3>5. raw <=> vt = "open"
      BY <1>1, <1>5 DEF SessInv, RestoredOK
    <3>6. excused' # {}
      BY <2>1
    <3> QED
      <4>1. /\ sysv' = sysv /\ place' = place /\ rest' = rest /\ owned' = owned /\ orig' = orig
            /\ raw' = raw /\ flags' = flags /\ vt' = vt /\ closes' = closes
        BY <1>1
      <4>2. \A i \in DOMAIN frames : frames[i].sig = sig => frames[i].by = "input" /\ handler[sig] = "video"
        BY <3>3
      <4>3. excused' = {} => (handler[sig] = "video" => flags = 0) /\ (handler[sig] = "input" => raw)
        BY <3>6
      <4>4. /\ frames' = Append(frames, [sig |-> sig, by |-> handler[sig], step |-> 1])
            /\ ended = "no" /\ ended' = "no" /\ kitty' = kitty /\ excused \subseteq excused'
            /\ (\E i \in DOMAIN frames : frames[i].by = "video") => "nested" \in excused'
        BY <1>1, <2>1, <3>1
      <4>5. Enters(sig, handler[sig], frames)
        BY <3>2, <3>4, <3>5, <4>1, <4>2, <4>3, <4>4 DEF Enters, termVars
      <4> QED
        BY <3>4, <4>5, EnterInv
  <2> QED
    BY <2>2, <2>3
<1> QED
  BY <1>3, <1>4, <1>5

\* A handler goes on to its next step.
LEMMA ProceedStack ==
  ASSUME SessInv, ended = "no", ended' = "no", frames # <<>>, frames' = Proceed,
         Innermost.step = 1 \/ (Innermost.by = "video" /\ Innermost.step = 2),
         UNCHANGED <<sysv, handler, orig, excused>>
  PROVE  /\ frames' \in Seq(Frames) /\ frames' # <<>> /\ Len(frames') = Len(frames)
         /\ frames'[Len(frames)] = [Innermost EXCEPT !.step = @ + 1]
         /\ \A i \in DOMAIN frames : i # Len(frames) => frames'[i] = frames[i]
         /\ StackOK'
<1> DEFINE n == Len(frames)
<1>1. frames \in Seq(Frames) /\ n \in DOMAIN frames /\ n \in Nat \ {0} /\ DOMAIN frames = 1..n
  BY DEF SessInv, SessionTypeOK
<1>2. frames[n] \in Frames /\ Innermost = frames[n]
  BY <1>1 DEF Innermost
<1>3. [frames[n] EXCEPT !.step = @ + 1] \in Frames
  <2>1. frames[n].step + 1 \in 1..3
    BY <1>2 DEF Frames
  <2> QED
    BY <1>2, <2>1, Zenon DEF Frames
<1>4. frames' = [frames EXCEPT ![n] = [frames[n] EXCEPT !.step = @ + 1]]
  BY <1>1 DEF Proceed
<1>5. frames' \in Seq(Frames) /\ Len(frames') = n
  BY <1>1, <1>3, <1>4, ExceptSeq
<1>6. frames'[n] = [frames[n] EXCEPT !.step = @ + 1]
  BY <1>1, <1>4
<1>7. \A i \in DOMAIN frames : i # n => frames'[i] = frames[i]
  BY <1>1, <1>4
<1>8. /\ frames'[n].sig = frames[n].sig /\ frames'[n].by = frames[n].by /\ frames'[n].step = frames[n].step + 1
  BY <1>2, <1>6 DEF Frames
<1>9. DOMAIN frames' = DOMAIN frames /\ frames' # <<>>
  BY <1>1, <1>5
<1>10. \A i \in DOMAIN frames : frames'[i].sig = frames[i].sig /\ frames'[i].by = frames[i].by
  BY <1>7, <1>8
<1>11. \A i \in DOMAIN frames : frames[i].by # "video" => frames'[i].step < 3
  <2>1. \A i \in DOMAIN frames : frames[i].by # "video" => frames[i].step < 3
    BY DEF SessInv, StackOK, ByVideo
  <2>2. frames[n].by # "video" => frames'[n].step = 2
    BY <1>2, <1>8
  <2> QED
    BY <1>7, <2>1, <2>2
<1>12. StackOK'
  BY <1>5, <1>9, <1>10, <1>11 DEF SessInv, StackOK, ByVideo
<1> QED
  BY <1>1, <1>2, <1>5, <1>6, <1>7, <1>9, <1>12

\* The handler of the video back end closes the canvas and forgets it.
LEMMA VideoHandlerInv ==
  ASSUME SessInv, handle_signal
  PROVE  SessInv'
<1> DEFINE n == Len(frames)
<1>1. /\ ended = "no" /\ frames # <<>> /\ kitty' = kitty /\ frames[n].by = "video" /\ frames[n] = Innermost
      /\ UNCHANGED <<sysv, place, rest, owned, orig, flags, excused>>
  BY DEF handle_signal, InHandler, InHandlerUnchanged, Innermost, vars, inputVars, progVars, termVars
<1>2. frames \in Seq(Frames) /\ n \in DOMAIN frames /\ n \in Nat \ {0} /\ DOMAIN frames = 1..n
  BY <1>1 DEF SessInv, SessionTypeOK
<1>3. frames[n] \in Frames
  BY <1>2
<1>4. CASE frames[n].step = 3
  <2>1. Raise([handler EXCEPT ![Innermost.sig] = "default"]) /\ UNCHANGED <<raw, vt, closes>>
    BY <1>1, <1>4 DEF handle_signal, InHandler, termVars
  <2> DEFINE sig == Innermost.sig
             set == [handler EXCEPT ![sig] = "default"]
             running == IF sysv THEN frames ELSE Outer
  <2>2. sig \in Quits
    BY <1>1, <1>3 DEF Frames
  <2>3. set[sig] = "default" /\ set \in [Quits \cup {"ALRM"} -> {"default", "video", "input", "timer"}]
    BY <2>2 DEF SessInv, SessionTypeOK
  <2>4. running \in Seq(Frames)
    BY <1>1, <1>2, OuterIs
  <2>5. Take(sig, running, set)
    BY <2>1, Zenon DEF Raise
  <2> HIDE DEF sig, set, running
  <2>6. ended' = "killed" /\ frames' = running /\ handler' = set
    BY <2>3, <2>5 DEF Take
  <2>7. SessionTypeOK'
    BY <1>1, <2>1, <2>3, <2>4, <2>6 DEF SessInv, SessionTypeOK
  <2>8. OwnedOK'
    BY <1>1, <2>1, <2>6 DEF SessInv, OwnedOK
  <2>9. OrigOK'
    <3>1. handler' = [handler EXCEPT ![sig] = "default"]
      BY <2>6 DEF set
    <3> QED
      BY <1>1, <2>2, <3>1, TakenHandler
  <2>10. TerminalRestored'
    BY <1>1, <1>4, <2>1 DEF SessInv, RestoredOK, TerminalRestored
  <2> QED
    BY <1>1, <2>1, <2>6, <2>7, <2>8, <2>9, <2>10, EndInv
<1>5. CASE frames[n].step = 1 \/ frames[n].step = 2
  <2>1. /\ frames' = Proceed /\ handler' = handler /\ ended' = "no"
        /\ frames[n].step = 1 =>
             IF vt # "null"
               THEN raw' = FALSE /\ vt' = "stale" /\ closes' = closes + 1
               ELSE UNCHANGED <<raw, vt, closes>>
        /\ frames[n].step = 2 => vt' = "null" /\ UNCHANGED <<raw, closes>>
    BY <1>1, <1>5 DEF handle_signal, InHandler
  <2>2. /\ frames' \in Seq(Frames) /\ frames' # <<>> /\ Len(frames') = n
        /\ frames'[n] = [frames[n] EXCEPT !.step = @ + 1]
        /\ \A i \in DOMAIN frames : i # n => frames'[i] = frames[i]
        /\ StackOK'
    BY <1>1, <1>5, <2>1, ProceedStack
  <2>3. /\ frames'[n].sig = frames[n].sig /\ frames'[n].by = "video" /\ frames'[n].step = frames[n].step + 1
        /\ DOMAIN frames' = DOMAIN frames
    BY <1>1, <1>2, <1>3, <2>2 DEF Frames
  <2>4. (raw <=> vt = "open") /\ vt \in {"null", "open", "stale"} /\ closes \in Nat
    BY <1>1 DEF SessInv, RestoredOK, SessionTypeOK
  <2>5. SessionTypeOK'
    <3>1. raw' \in BOOLEAN
      BY <1>5, <2>1, Zenon DEF SessInv, SessionTypeOK
    <3>2. vt' \in {"null", "open", "stale"} /\ closes' \in Nat
      BY <1>5, <2>1, <2>4
    <3> QED
      BY <1>1, <2>1, <2>2, <3>1, <3>2 DEF SessInv, SessionTypeOK
  <2>6. OwnedOK' /\ OrigOK'
    BY <1>1, <2>1 DEF SessInv, OwnedOK, OrigOK
  <2>7. CalmOK'
    BY <2>2 DEF CalmOK, Undisturbed
  <2>8. ClosedOK'
    <3>1. \A i \in DOMAIN frames : Closing(i) =>
            frames'[i].by = "video" /\ frames'[i].step >= 2 /\ frames'[i].sig = frames[i].sig
      BY <1>3, <2>2, <2>3 DEF Closing, ByVideo, Frames
    <3>2. /\ closes <= 2 /\ (closes = 2 => "nested" \in excused)
          /\ vt = "open" => closes = 0
          /\ vt = "stale" => \E i \in DOMAIN frames : Closing(i)
          /\ vt = "stale" /\ closes = 2 =>
               \A s \in Quits : \E i \in DOMAIN frames : Closing(i) /\ frames[i].sig = s
      BY <1>1 DEF SessInv, ClosedOK
    <3>3. CASE vt' # "stale" /\ closes' = closes
      <4>1. vt' # "open"
        BY <1>5, <2>1, <2>4, <3>3
      <4> QED
        BY <1>1, <2>1, <3>2, <3>3, <4>1 DEF ClosedOK
    <3>4. CASE frames[n].step = 1 /\ vt = "open" /\ vt' = "stale" /\ closes' = closes + 1
      <4>1. closes' = 1
        BY <3>2, <3>4
      <4>2. frames'[n].by = "video" /\ frames'[n].step >= 2 /\ n \in DOMAIN frames'
        BY <1>2, <2>3, <3>4
      <4> QED
        BY <3>4, <4>1, <4>2 DEF ClosedOK, Closing, ByVideo
    <3>5. CASE frames[n].step = 1 /\ vt = "stale" /\ vt' = "stale" /\ closes' = closes + 1
      <4>1. \A i \in DOMAIN frames : Closing(i) => i < n /\ frames[i].sig # frames[n].sig /\ "nested" \in excused
        <5>1. ASSUME NEW i \in DOMAIN frames, Closing(i)
              PROVE  i # n /\ i < n
          BY <1>2, <3>5, <5>1 DEF Closing
        <5> QED
          BY <1>1, <1>2, <5>1 DEF SessInv, StackOK, Closing, ByVideo
      <4>2. PICK i \in DOMAIN frames : Closing(i)
        BY <3>2, <3>5
      <4>3. "nested" \in excused'
        BY <1>1, <4>1, <4>2
      <4>4. frames[n].sig \in Quits /\ frames[i].sig \in Quits /\ frames[i].sig # frames[n].sig
        <5>1. frames[i] \in Frames
          BY <1>2
        <5> QED
          BY <1>3, <4>1, <4>2, <5>1 DEF Frames
      <4>5. closes # 2
        BY <3>2, <3>5, <4>1, <4>4
      <4>6. \A s \in Quits : s = frames[n].sig \/ s = frames[i].sig
        BY <4>4 DEF Quits
      <4>7. /\ i \in DOMAIN frames' /\ frames'[i].by = "video" /\ frames'[i].step >= 2
            /\ frames'[i].sig = frames[i].sig
            /\ n \in DOMAIN frames' /\ frames'[n].by = "video" /\ frames'[n].step >= 2
            /\ frames'[n].sig = frames[n].sig
        BY <1>2, <2>3, <3>1, <3>5, <4>2
      <4>8. closes' <= 2
        BY <2>4, <3>2, <3>5, <4>5
      <4> QED
        BY <3>5, <4>3, <4>6, <4>7, <4>8 DEF ClosedOK, Closing, ByVideo
    <3> QED
      BY <1>5, <2>1, <2>4, <3>3, <3>4, <3>5
  <2>9. RestoredOK'
    <3>1. raw' <=> vt' = "open"
      <4>1. frames[n].step = 2 => vt # "open"
        BY <1>1, <1>2 DEF SessInv, ClosedOK, Closing, ByVideo
      <4> QED
        BY <1>5, <2>1, <2>4, <4>1
    <3> QED
      BY <1>1, <1>5, <2>1, <2>2, <2>3, <3>1 DEF SessInv, RestoredOK, TerminalRestored
  <2> QED
    BY <2>2, <2>5, <2>6, <2>7, <2>8, <2>9 DEF SessInv
<1> QED
  BY <1>3, <1>4, <1>5 DEF Frames

\* The handler of the input back end pops the flags and passes the signal on.
LEMMA InputHandlerInv ==
  ASSUME SessInv, InputSignalHandler
  PROVE  SessInv'
<1> DEFINE n == Len(frames)
<1>1. /\ ended = "no" /\ frames # <<>> /\ kitty' = kitty /\ frames[n].by = "input" /\ frames[n] = Innermost
      /\ raw' = raw /\ vt' = vt /\ closes' = closes
      /\ UNCHANGED <<sysv, place, rest, owned, orig, excused>>
  BY DEF InputSignalHandler, InHandler, InHandlerUnchanged, Innermost, vars, inputVars, progVars, termVars
<1>2. frames \in Seq(Frames) /\ n \in DOMAIN frames /\ n \in Nat \ {0} /\ DOMAIN frames = 1..n
  BY <1>1 DEF SessInv, SessionTypeOK
<1>3. frames[n] \in Frames
  BY <1>2
<1>4. CASE frames[n].step = 1
  <2>1. /\ frames' = Proceed /\ handler' = handler /\ ended' = "no"
        /\ flags' = IF raw /\ flags > 0 THEN flags - 1 ELSE flags
    BY <1>1, <1>4 DEF InputSignalHandler, InHandler
  <2>2. /\ frames' \in Seq(Frames) /\ frames' # <<>> /\ Len(frames') = n
        /\ frames'[n] = [frames[n] EXCEPT !.step = @ + 1]
        /\ \A i \in DOMAIN frames : i # n => frames'[i] = frames[i]
        /\ StackOK'
    BY <1>1, <1>4, <2>1, ProceedStack
  <2>3. /\ frames'[n].sig = frames[n].sig /\ frames'[n].by = "input" /\ frames'[n].step = 2
        /\ DOMAIN frames' = DOMAIN frames
    BY <1>1, <1>2, <1>3, <1>4, <2>2 DEF Frames
  <2>4. flags' \in 0..1 /\ (raw => flags' = 0)
    BY <2>1 DEF SessInv, SessionTypeOK
  <2>5. SessionTypeOK'
    BY <1>1, <2>1, <2>2, <2>4 DEF SessInv, SessionTypeOK
  <2>6. OwnedOK' /\ OrigOK'
    BY <1>1, <2>1 DEF SessInv, OwnedOK, OrigOK
  <2>7. CalmOK'
    BY <2>2 DEF CalmOK, Undisturbed
  <2>8. ClosedOK'
    <3>1. \A i \in DOMAIN frames : /\ frames'[i].by = frames[i].by /\ frames'[i].sig = frames[i].sig
                                   /\ frames[i].by = "video" => frames'[i].step = frames[i].step
      BY <1>1, <2>2, <2>3
    <3> QED
      BY <1>1, <2>1, <2>3, <3>1 DEF SessInv, ClosedOK, Closing, ByVideo
  <2>9. RestoredOK'
    BY <1>1, <2>1, <2>2, <2>3, <2>4 DEF SessInv, RestoredOK, TerminalRestored
  <2> QED
    BY <2>2, <2>5, <2>6, <2>7, <2>8, <2>9 DEF SessInv
<1>5. CASE frames[n].step = 2
  <2> DEFINE sig == Innermost.sig
             set == [handler EXCEPT ![sig] = PassOn(sig)]
             running == IF sysv THEN frames ELSE Outer
  <2>1. Raise(set) /\ flags' = flags
    BY <1>1, <1>5 DEF InputSignalHandler, InHandler, termVars
  <2>2. sig \in Quits /\ PassOn(sig) = "video"
    <3>1. orig[frames[n].sig] = "video"
      BY <1>1, <1>2 DEF SessInv, StackOK, ByVideo
    <3> QED
      BY <1>1, <1>3, <3>1 DEF PassOn, Frames
  <2>3. set[sig] = "video" /\ set \in [Quits \cup {"ALRM"} -> {"default", "video", "input", "timer"}]
    BY <2>2 DEF SessInv, SessionTypeOK
  <2>4. Take(sig, running, set)
    BY <2>1, Zenon DEF Raise
  <2>5. /\ frames' = Append(running, [sig |-> sig, by |-> "video", step |-> 1]) /\ ended' = "no"
        /\ handler' = IF sysv THEN [set EXCEPT ![sig] = "default"] ELSE set
    <3> HIDE DEF sig, set, running
    <3> QED
      BY <1>1, <2>3, <2>4 DEF Take
  <2>6. /\ handler' \in [Quits \cup {"ALRM"} -> {"default", "video", "input", "timer"}]
        /\ sysv => handler'[sig] = "default"
        /\ \A s \in Quits \ {sig} : handler'[s] = handler[s]
        /\ OrigOK'
    <3>1. CASE sysv
      <4>1. handler' = [handler EXCEPT ![sig] = "default"]
        BY <2>2, <2>5, <3>1 DEF SessInv, SessionTypeOK
      <4> HIDE DEF sig, set, running
      <4> QED
        BY <1>1, <2>2, <4>1, TakenHandler
    <3>2. CASE ~sysv
      <4>1. handler' = [handler EXCEPT ![sig] = "video"]
        BY <2>2, <2>5, <3>2
      <4> HIDE DEF sig, set, running
      <4> QED
        BY <1>1, <2>2, <3>2, <4>1, TakenHandler
    <3> QED
      BY <3>1, <3>2
  <2>7. \A i \in DOMAIN running : i \in DOMAIN frames /\ running[i] = frames[i]
    BY <1>1, <1>2, OuterIs
  <2>8. \A i \in DOMAIN running : running[i].sig = sig => running[i].by = "input"
    <3>1. \A i \in DOMAIN frames : frames[i].sig = sig => i = n
      <4>1. \A i \in DOMAIN frames : i < n => frames[i].sig # frames[n].sig
        BY <1>1, <1>2 DEF SessInv, StackOK, ByVideo
      <4> QED
        BY <1>1, <1>2, <4>1
    <3> QED
      BY <1>1, <2>7, <3>1
  <2>9. (\E i \in DOMAIN running : running[i].by = "video") => "nested" \in excused'
    <3>1. \A i \in DOMAIN frames : frames[i].by = "video" => "nested" \in excused
      BY <1>1, <1>2 DEF SessInv, StackOK, ByVideo
    <3> QED
      BY <1>1, <2>7, <3>1
  <2>10. (raw <=> vt = "open") /\ (excused' = {} => flags = 0)
    BY <1>1, <1>5 DEF SessInv, RestoredOK
  <2>11. running = frames \/ (frames # <<>> /\ ~ByVideo(Len(frames)) /\ running = Outer)
    BY <1>1 DEF ByVideo
  <2> HIDE DEF sig, set, running
  <2>12. Enters(sig, "video", running)
    BY <1>1, <2>1, <2>5, <2>6, <2>8, <2>9, <2>10, <2>11 DEF Enters, termVars
  <2> QED
    BY <2>2, <2>12, EnterInv
<1>6. frames[n].step < 3
  BY <1>1, <1>2 DEF SessInv, StackOK, ByVideo
<1> QED
  BY <1>3, <1>4, <1>5, <1>6 DEF Frames

-----------------------------------------------------------------------------
(* SIGALRM, in the loop, and where its handler is gone. *)

LEMMA AlarmInv ==
  ASSUME SessInv, HandledAlarm \/ UnhandledAlarm
  PROVE  SessInv'
<1>1. CASE HandledAlarm
  <2>1. /\ ended = "no" /\ frames = <<>> /\ kitty' = kitty
        /\ UNCHANGED <<sysv, place, rest, owned, orig, raw, flags, vt, closes, frames, ended, excused>>
        /\ handler' = IF sysv THEN [handler EXCEPT !["ALRM"] = "default"] ELSE handler
    BY <1>1 DEF HandledAlarm, TimerHandler, InMain, inputVars, progVars, termVars
  <2>2. handler' \in [Quits \cup {"ALRM"} -> {"default", "video", "input", "timer"}]
        /\ \A s \in Quits : handler'[s] = handler[s]
    BY <2>1 DEF SessInv, SessionTypeOK, Quits
  <2>3. SessionTypeOK' /\ OwnedOK' /\ OrigOK'
    BY <2>1, <2>2 DEF SessInv, SessionTypeOK, OwnedOK, OrigOK
  <2>4. CalmOK'
    BY <2>1, <2>2 DEF SessInv, CalmOK, Undisturbed, IntAt, TermAt, Drawn, Shown, Flagged, Quits
  <2> QED
    BY <2>1, <2>3, <2>4, CalmInv
<1>2. CASE UnhandledAlarm
  <2>1. /\ ended' = "killed" /\ "alarm" \in excused' /\ excused \subseteq excused' /\ kitty' = kitty
        /\ UNCHANGED <<sysv, place, rest, owned, orig, raw, flags, vt, closes, handler, frames>>
    BY <1>2 DEF UnhandledAlarm, Forget, progVars, termVars
  <2>2. SessionTypeOK' /\ OwnedOK' /\ OrigOK'
    BY <2>1 DEF SessInv, SessionTypeOK, OwnedOK, OrigOK
  <2>3. TerminalRestored'
    BY <2>1 DEF TerminalRestored
  <2> QED
    BY <2>1, <2>2, <2>3, EndInv
<1> QED
  BY <1>1, <1>2

LEMMA SessStepInv == SessInv /\ [SessionNext]_allVars => SessInv'
<1> SUFFICES ASSUME SessInv, [SessionNext]_allVars
             PROVE  SessInv'
  OBVIOUS
<1>1. CASE UNCHANGED allVars
  <2>1. UNCHANGED sessionVars /\ kitty' = kitty
    BY <1>1 DEF allVars, vars, inputVars
  <2> QED
    BY <2>1, SameSession
<1>2. CASE HandlerStep
  BY <1>2, RaiseIntInv, VideoHandlerInv, InputHandlerInv DEF HandlerStep
<1>3. CASE \E s \in Quits : Kill(s)
  BY <1>3, KillInv
<1> QED
  BY <1>1, <1>2, <1>3, MainInv, LoopInv, AlarmInv DEF SessionNext

-----------------------------------------------------------------------------
\* The inductive invariant of the session, for any number of signals.
THEOREM SessionInvariant == SessionSpec => []SessInv
BY SessInitInv, SessStepInv, PTL DEF SessionSpec

\* What is held is what was acquired first, and nothing of it after main has returned;
\* the canvas is closed once, or twice if a signal interrupts a handler (main.c 74-113).
THEOREM ReleasedTheorem == SessionSpec => []ReleasedOnce
<1>1. SessInv => ReleasedOnce
  <2> SUFFICES ASSUME SessInv PROVE ReleasedOnce
    OBVIOUS
  <2>1. \E n \in 0..5 : owned = First(n)
    <3>1. CASE place \in Loading
      <4>1. PICK i \in 1..4 : place = Main[i]
        <5>1. 1 \in 1..4 /\ 2 \in 1..4 /\ 3 \in 1..4 /\ 4 \in 1..4
          OBVIOUS
        <5> QED
          BY <3>1, <5>1, MainParts DEF Loading
      <4>2. owned = First(i - 1) /\ i - 1 \in 0..5
        BY <4>1 DEF SessInv, OwnedOK
      <4> QED
        BY <4>2
    <3>2. CASE place \in Taking
      <4>1. owned = First(4)
        BY <3>2 DEF SessInv, OwnedOK
      <4> QED
        BY <4>1
    <3>3. CASE place \in {"ask", "loop"} \cup SettingUp \cup Undoing \cup Leaving
      <4>1. owned = First(5)
        BY <3>3 DEF SessInv, OwnedOK
      <4> QED
        BY <4>1
    <3>4. CASE place = "free"
      BY <3>4 DEF SessInv, OwnedOK
    <3> QED
      BY <3>1, <3>2, <3>3, <3>4 DEF SessInv, SessionTypeOK, Places
  <2>2. owned = ToSet(SubSeq(Main, 1, Cardinality(owned)))
    BY <2>1, FirstCount, FirstIsPrefix
  <2>3. ended = "returned" => owned = {} /\ vt = "null"
    BY DEF SessInv, OwnedOK
  <2>4. closes <= (IF "nested" \in excused THEN 2 ELSE 1)
    BY DEF SessInv, ClosedOK, SessionTypeOK
  <2> QED
    BY <2>2, <2>3, <2>4 DEF ReleasedOnce
<1> QED
  BY <1>1, SessionInvariant, PTL

\* However the program ends, the terminal is as it was, but for what excused names
\* (video/vt_backend.c 82-145, input/vt_backend.c 213-270).
THEOREM TerminalTheorem == SessionSpec => []TerminalRestored
<1>1. SessInv => TerminalRestored
  BY DEF SessInv, RestoredOK
<1> QED
  BY <1>1, SessionInvariant, PTL

-----------------------------------------------------------------------------
(***************************************************************************)
(* The pads while the loop runs.  After says whether a button is pressed   *)
(* once the events T of a queue are applied: the last event of the button  *)
(* decides, and without one it is as it was.                               *)
(***************************************************************************)
Moves(e, p, b) == e.key \in Keys /\ Binding[e.key] = [port |-> p, button |-> b]

After(was, q, T, p, b) ==
  \/ was /\ \A i \in T : ~Moves(q[i], p, b)
  \/ \E i \in T : Moves(q[i], p, b) /\ q[i].down /\ \A j \in T : Moves(q[j], p, b) => j <= i

PadTypeOK ==
  /\ kitty \in BOOLEAN
  /\ queue \in Seq(Events)
  /\ state \in [Ports -> SUBSET Buttons]
  /\ ttl \in [Ports -> [Buttons -> Nat]]
  /\ shift \in [Ports -> [val : SUBSET Buttons, cnt : Nat]]
  /\ nth \in [Ports -> Nat]
  /\ truth \in [Ports -> (SUBSET Buttons) \cup {Unknown}]
  /\ ~kitty => \A i \in DOMAIN queue : queue[i].key \in Keys
  /\ step = "read" => kitty

\* The state of the pads and the queued events together are what is held down.
QueueOK ==
  kitty /\ ~lost =>
    \A p \in Ports, b \in Buttons :
      ([port |-> p, button |-> b] \in held)
        <=> After(b \in state[p], queue, DOMAIN queue, p, b)

LegacyOK == ~kitty => \A p \in Ports, b \in Buttons : b \in state[p] <=> ttl[p][b] > 0

\* What is shifted out is what was held when the pad was latched.
LatchOK ==
  /\ nth = [p \in Ports |-> shift[p].cnt]
  /\ \A p \in Ports : truth[p] # Unknown => shift[p].val = ClearDpadConflicts(truth[p])

PadInv == PadTypeOK /\ QueueOK /\ LegacyOK /\ LatchOK

-----------------------------------------------------------------------------
(* Numbers: a set of them has a least element, one with a bound a greatest,  *)
(* and what holds of 0 and is handed on from n to n + 1 holds of all.        *)

LEMMA Least == \A T \in SUBSET Nat : T # {} => \E m \in T : \A k \in T : m <= k
<1> SUFFICES ASSUME NEW T \in SUBSET Nat, T # {} PROVE \E m \in T : \A k \in T : m <= k
  OBVIOUS
<1> DEFINE R == {ss \in Nat \X Nat : ss[1] < ss[2]}
<1>1. IsWellFoundedOn(R, Nat)
  BY NatLessThanWellFounded DEF OpToRel
<1>2. \A j, k \in Nat : j < k => <<j, k>> \in R
  OBVIOUS
<1> HIDE DEF R
<1>3. PICK m \in T : \A y \in T : ~(<<y, m>> \in R)
  BY <1>1, WFMin, Zenon
<1>4. ASSUME NEW k \in T PROVE m <= k
  <2>1. m \in Nat /\ k \in Nat
    OBVIOUS
  <2>2. ~(k < m)
    BY <1>2, <1>3, <2>1, Zenon
  <2> QED BY <2>1, <2>2
<1> QED BY <1>4

LEMMA Induct ==
  ASSUME NEW S, 0 \in S, \A n \in Nat : n \in S => n + 1 \in S
  PROVE  \A n \in Nat : n \in S
<1> DEFINE T == {n \in Nat : n \notin S}
<1> SUFFICES ASSUME T # {} PROVE FALSE
  OBVIOUS
<1>1. PICK m \in T : \A k \in T : m <= k
  BY Least
<1>2. m # 0
  OBVIOUS
<1>3. m - 1 \in Nat /\ m = (m - 1) + 1 /\ ~(m <= m - 1)
  BY <1>2
<1>4. m - 1 \in S
  BY <1>1, <1>3
<1> QED BY <1>3, <1>4

LEMMA Greatest ==
  ASSUME NEW n \in Nat, NEW T \in SUBSET (1..n), T # {}
  PROVE  Max(T) \in T /\ \A i \in T : i <= Max(T)
<1> DEFINE U == {n - i : i \in T}
<1>1. U \in SUBSET Nat /\ U # {}
  <2>1. \A i \in T : n - i \in Nat
    OBVIOUS
  <2> QED BY <2>1
<1>2. PICK u \in U : \A k \in U : u <= k
  BY <1>1, Least
<1>3. PICK m \in T : u = n - m
  OBVIOUS
<1>4. \A i \in T : m >= i
  <2> SUFFICES ASSUME NEW i \in T PROVE m >= i
    OBVIOUS
  <2>1. n - m <= n - i
    BY <1>2, <1>3
  <2> QED BY <2>1
<1>5. \E x \in T : \A y \in T : x >= y
  BY <1>4
<1>6. Max(T) \in T /\ \A y \in T : Max(T) >= y
  BY <1>5, Zenon DEF Max
<1> QED
  <2> DEFINE x == Max(T)
  <2>1. x \in T /\ \A y \in T : x >= y
    BY <1>6
  <2> HIDE DEF x
  <2>2. x \in T /\ \A y \in T : y <= x
    BY <2>1
  <2> QED BY <2>2 DEF x

LEMMA UpTo ==
  \A n \in Nat :
    /\ Max(1..(n + 1)) = n + 1 /\ 1..(n + 1) # {} /\ (1..(n + 1)) \ {n + 1} = 1..n
    /\ \A l \in Nat : n + 1 <= l => 1..(n + 1) \in SUBSET (1..l)
<1> SUFFICES ASSUME NEW n \in Nat
             PROVE  /\ Max(1..(n + 1)) = n + 1 /\ 1..(n + 1) # {} /\ (1..(n + 1)) \ {n + 1} = 1..n
                    /\ \A l \in Nat : n + 1 <= l => 1..(n + 1) \in SUBSET (1..l)
  OBVIOUS
<1> DEFINE T == 1..(n + 1)
           x == Max(T)
<1>1. T \in SUBSET (1..(n + 1)) /\ n + 1 \in T /\ n + 1 \in Nat
  OBVIOUS
<1>2. x \in T /\ \A i \in T : i <= x
  <2> HIDE DEF T
  <2> QED BY <1>1, Greatest
<1> HIDE DEF x
<1>3. x \in 1..(n + 1) /\ n + 1 <= x
  BY <1>2
<1>4. x = n + 1
  BY <1>3
<1>5. /\ 1..(n + 1) # {} /\ (1..(n + 1)) \ {n + 1} = 1..n
      /\ \A l \in Nat : n + 1 <= l => 1..(n + 1) \in SUBSET (1..l)
  OBVIOUS
<1> QED BY <1>4, <1>5, Zenon DEF x

\* Two folds that take the same steps.
LEMMA SameFolds ==
  ASSUME NEW n \in Nat, NEW f, NEW g, f[{}] = g[{}],
         \A k \in Nat : k + 1 <= n /\ f[1..k] = g[1..k] => f[1..(k + 1)] = g[1..(k + 1)]
  PROVE  f[1..n] = g[1..n]
<1> DEFINE S == {k \in Nat : k <= n => f[1..k] = g[1..k]}
<1>1. 0 \in S
  <2>1. 1..0 = {}
    OBVIOUS
  <2> QED BY <2>1
<1>2. \A k \in Nat : k \in S => k + 1 \in S
  <2>1. \A k \in Nat : k + 1 \in Nat /\ (k + 1 <= n => k <= n)
    OBVIOUS
  <2> QED BY <2>1, Zenon
<1>3. n \in S
  <2> HIDE DEF S
  <2> QED BY <1>1, <1>2, Induct
<1>4. n <= n
  OBVIOUS
<1> QED BY <1>3, <1>4, Zenon

-----------------------------------------------------------------------------
(* The last of some events is applied after the others, and a queue may be   *)
(* taken in two parts.                                                       *)

LEMMA AfterLast ==
  ASSUME NEW n \in Nat, NEW T \in SUBSET (1..n), NEW m \in T, \A i \in T : i <= m,
         NEW q, NEW p, NEW b, NEW was
  PROVE  /\ Moves(q[m], p, b) => (After(was, q, T, p, b) <=> q[m].down)
         /\ ~Moves(q[m], p, b) => (After(was, q, T, p, b) <=> After(was, q, T \ {m}, p, b))
<1> DEFINE M(i) == Moves(q[i], p, b)
<1>1. ASSUME M(m) PROVE After(was, q, T, p, b) <=> q[m].down
  <2>1. ASSUME NEW i \in T, \A j \in T : M(j) => j <= i PROVE i = m
    <3>1. m <= i /\ i <= m
      BY <1>1, <2>1
    <3> QED BY <3>1
  <2> HIDE DEF M
  <2>2. (was /\ \A i \in T : ~M(i)) \/ (\E i \in T : M(i) /\ q[i].down /\ \A j \in T : M(j) => j <= i)
          <=> q[m].down
    BY <1>1, <2>1, Zenon
  <2> QED BY <2>2 DEF After, M
<1>2. ASSUME ~M(m) PROVE After(was, q, T, p, b) <=> After(was, q, T \ {m}, p, b)
  BY <1>2, Zenon DEF After
<1> QED BY <1>1, <1>2 DEF M

LEMMA AfterParts ==
  ASSUME NEW n \in Nat, NEW k \in 0..n, NEW q, NEW p, NEW b, NEW was
  PROVE  After(was, q, 1..n, p, b)
           <=> After(After(was, q, 1..k, p, b), q, (k + 1)..n, p, b)
<1> DEFINE M(i) == Moves(q[i], p, b)
           D(i) == q[i].down
           L == 1..k
           R == (k + 1)..n
           A == 1..n
<1>1. /\ \A i \in A : i \in L \/ i \in R
      /\ \A i \in L : i \in A
      /\ \A i \in R : i \in A
      /\ \A i \in L, j \in R : i <= j /\ ~(j <= i)
  OBVIOUS
<1> HIDE DEF M, D, L, R, A
<1> DEFINE Left == (was /\ \A i \in L : ~M(i)) \/ \E i \in L : M(i) /\ D(i) /\ \A j \in L : M(j) => j <= i
           Both == (was /\ \A i \in A : ~M(i)) \/ \E i \in A : M(i) /\ D(i) /\ \A j \in A : M(j) => j <= i
           Right == \E i \in R : M(i) /\ D(i) /\ \A j \in R : M(j) => j <= i
<1>2. CASE \A i \in R : ~M(i)
  <2>1. Both <=> Left
    BY <1>1, <1>2, Zenon
  <2> QED BY <1>2, <2>1, Zenon DEF After, M, D, L, R, A
<1>3. CASE \E i \in R : M(i)
  <2>1. Both <=> Right
    BY <1>1, <1>3, Zenon
  <2> QED BY <1>3, <2>1, Zenon DEF After, M, D, L, R, A
<1> QED BY <1>2, <1>3

-----------------------------------------------------------------------------
(***************************************************************************)
(* The folds: all events of a read, one after the other.  A closed form    *)
(* for every set of events solves the recursion of the fold, which then is *)
(* that form, by induction on the number of events.                        *)
(***************************************************************************)
Scanned(s, q, T) ==
  [p \in Ports |-> {b \in Buttons : After(b \in s[p], q, T, p, b)}]

LEMMA ScannedNone ==
  ASSUME NEW s \in [Ports -> SUBSET Buttons], NEW q
  PROVE  Scanned(s, q, {}) = s
<1>1. \A p \in Ports : {b \in Buttons : After(b \in s[p], q, {}, p, b)} = s[p]
  BY DEF After
<1>2. Scanned(s, q, {}) = [p \in Ports |-> s[p]]
  BY <1>1, Zenon DEF Scanned
<1> QED BY <1>2

LEMMA ScannedOne ==
  ASSUME NEW s \in [Ports -> SUBSET Buttons], NEW q \in Seq(Events),
         NEW T \in SUBSET DOMAIN q, NEW m \in T, \A i \in T : i <= m
  PROVE  Scanned(s, q, T) = ProcessSeq(Scanned(s, q, T \ {m}), q[m])
<1> DEFINE e == q[m]
           old == Scanned(s, q, T \ {m})
           new == Scanned(s, q, T)
<1>1. T \in SUBSET (1..Len(q)) /\ Len(q) \in Nat /\ e \in Events
  OBVIOUS
<1>2. \A p \in Ports, b \in Buttons :
        /\ Moves(e, p, b) => (b \in new[p] <=> e.down)
        /\ ~Moves(e, p, b) => (b \in new[p] <=> b \in old[p])
  <2> SUFFICES ASSUME NEW p \in Ports, NEW b \in Buttons
               PROVE  /\ Moves(e, p, b) => (b \in new[p] <=> e.down)
                      /\ ~Moves(e, p, b) => (b \in new[p] <=> b \in old[p])
    OBVIOUS
  <2>1. /\ Moves(q[m], p, b) => (After(b \in s[p], q, T, p, b) <=> q[m].down)
        /\ ~Moves(q[m], p, b) => (After(b \in s[p], q, T, p, b) <=> After(b \in s[p], q, T \ {m}, p, b))
    BY <1>1, AfterLast
  <2>2. /\ b \in new[p] <=> After(b \in s[p], q, T, p, b)
        /\ b \in old[p] <=> After(b \in s[p], q, T \ {m}, p, b)
    BY DEF Scanned
  <2> HIDE DEF old, new
  <2> QED BY <2>1, <2>2, Zenon
<1>3. /\ old \in [Ports -> SUBSET Buttons] /\ new \in [Ports -> SUBSET Buttons]
  BY DEF Scanned
<1> HIDE DEF old, new, e
<1> SUFFICES new = ProcessSeq(old, e)
  BY Zenon DEF old, new, e
<1>4. CASE e.key \notin Keys
  <2>1. \A p \in Ports, b \in Buttons : b \in new[p] <=> b \in old[p]
    BY <1>2, <1>4, Zenon DEF Moves
  <2>2. new = old
    <3>1. \A p \in Ports : new[p] \subseteq Buttons /\ old[p] \subseteq Buttons
      BY <1>3
    <3>2. \A p \in Ports : new[p] = old[p]
      BY <2>1, <3>1
    <3> QED BY <1>3, <3>2
  <2> QED BY <1>4, <2>2 DEF ProcessSeq
<1>5. CASE e.key \in Keys
  <2> DEFINE k == Binding[e.key]
             at == IF e.down THEN old[k.port] \cup {k.button} ELSE old[k.port] \ {k.button}
  <2>1. k \in [port : Ports, button : Buttons] /\ e.down \in BOOLEAN
    BY <1>1, <1>5, InputConstants DEF Events
  <2>2. ProcessSeq(old, e) = [old EXCEPT ![k.port] = at]
    BY <1>5 DEF ProcessSeq
  <2>3. \A p \in Ports, b \in Buttons : Moves(e, p, b) <=> k.port = p /\ k.button = b
    <3> HIDE DEF k
    <3>1. k = [port |-> k.port, button |-> k.button]
      BY <2>1
    <3>2. \A p, b : k = [port |-> p, button |-> b] <=> k.port = p /\ k.button = b
      BY <3>1
    <3> QED BY <1>5, <3>2, Zenon DEF Moves, k
  <2> HIDE DEF k
  <2>4. \A p \in Ports : p # k.port => new[p] = old[p]
    BY <1>2, <1>3, <2>3
  <2>5. new[k.port] = at
    <3>1. k.port \in Ports /\ k.button \in Buttons
      BY <2>1
    <3>2. /\ k.button \in new[k.port] <=> e.down
          /\ \A b \in Buttons \ {k.button} : b \in new[k.port] <=> b \in old[k.port]
      BY <1>2, <2>3, <3>1, Zenon
    <3>3. new[k.port] \subseteq Buttons /\ old[k.port] \subseteq Buttons
      BY <1>3, <3>1
    <3> QED BY <2>1, <3>1, <3>2, <3>3
  <2> HIDE DEF at
  <2>6. new = [old EXCEPT ![k.port] = at]
    BY <1>3, <2>1, <2>4, <2>5
  <2> QED BY <2>2, <2>6
<1> QED BY <1>4, <1>5

LEMMA FoldIsScanned ==
  ASSUME NEW s \in [Ports -> SUBSET Buttons], NEW q \in Seq(Events)
  PROVE  FoldLeft(ProcessSeq, s, q) = Scanned(s, q, DOMAIN q)
<1> DEFINE iter[T \in SUBSET DOMAIN q] ==
             IF T = {} THEN s ELSE LET x == Max(T) IN ProcessSeq(iter[T \ {x}], q[x])
           g == [T \in SUBSET DOMAIN q |-> Scanned(s, q, T)]
<1>0. Len(q) \in Nat /\ DOMAIN q = 1..Len(q)
  OBVIOUS
<1>1. FoldLeft(ProcessSeq, s, q) = iter[DOMAIN q]
  BY Zenon DEF FoldLeft, MapThenFoldSet
<1>2. g = [T \in SUBSET DOMAIN q |->
             IF T = {} THEN s ELSE LET x == Max(T) IN ProcessSeq(g[T \ {x}], q[x])]
  <2> SUFFICES ASSUME NEW T \in SUBSET DOMAIN q
               PROVE  Scanned(s, q, T)
                        = IF T = {} THEN s ELSE ProcessSeq(g[T \ {Max(T)}], q[Max(T)])
    BY Zenon DEF g
  <2>1. CASE T = {}
    BY <2>1, ScannedNone
  <2>2. CASE T # {}
    <3>1. Max(T) \in T /\ \A i \in T : i <= Max(T)
      BY <1>0, <2>2, Greatest
    <3>2. g[T \ {Max(T)}] = Scanned(s, q, T \ {Max(T)})
      OBVIOUS
    <3>3. Scanned(s, q, T) = ProcessSeq(Scanned(s, q, T \ {Max(T)}), q[Max(T)])
      BY <3>1, ScannedOne
    <3> HIDE DEF g
    <3> QED BY <2>2, <3>2, <3>3, Zenon
  <2> QED BY <2>1, <2>2
<1>3. iter = [T \in SUBSET DOMAIN q |->
                IF T = {} THEN s ELSE LET x == Max(T) IN ProcessSeq(iter[T \ {x}], q[x])]
  <2> HIDE DEF g
  <2> QED BY <1>2, Zenon
<1> HIDE DEF iter
<1>4. iter[{}] = g[{}]
  <2>1. {} \in SUBSET DOMAIN q
    OBVIOUS
  <2>2. iter[{}] = s
    BY <1>3, <2>1, Zenon
  <2>3. g[{}] = s
    <3> HIDE DEF g
    <3> QED BY <1>2, <2>1, Zenon
  <2> QED BY <2>2, <2>3
<1>5. ASSUME NEW k \in Nat, k + 1 <= Len(q), iter[1..k] = g[1..k]
      PROVE  iter[1..(k + 1)] = g[1..(k + 1)]
  <2> DEFINE T == 1..(k + 1)
  <2>1. T \in SUBSET DOMAIN q /\ T # {} /\ T \ {k + 1} = 1..k /\ Max(T) = k + 1
    <3>1. /\ Max(T) = k + 1 /\ T # {} /\ T \ {k + 1} = 1..k
          /\ \A l \in Nat : k + 1 <= l => T \in SUBSET (1..l)
      BY UpTo, Zenon
    <3> HIDE DEF T
    <3> QED BY <1>0, <1>5, <3>1, Zenon
  <2> HIDE DEF T, g
  <2>2. iter[T] = ProcessSeq(iter[1..k], q[k + 1])
    BY <1>3, <2>1, Zenon
  <2>3. g[T] = ProcessSeq(g[1..k], q[k + 1])
    BY <1>2, <2>1, Zenon
  <2> QED BY <1>5, <2>2, <2>3, Zenon DEF T
<1>6. iter[1..Len(q)] = g[1..Len(q)]
  <2> HIDE DEF g
  <2> QED BY <1>0, <1>4, <1>5, SameFolds, Zenon
<1>7. g[DOMAIN q] = Scanned(s, q, DOMAIN q)
  OBVIOUS
<1> HIDE DEF g
<1> QED BY <1>0, <1>1, <1>6, <1>7, Zenon

-----------------------------------------------------------------------------
(* The same for the legacy protocol, where every event is a press. *)

Pads == [st : [Ports -> SUBSET Buttons], tt : [Ports -> [Buttons -> Nat]]]

Typed(s, q, T) ==
  [st |-> [p \in Ports |-> {b \in Buttons : b \in s.st[p] \/ \E i \in T : Moves(q[i], p, b)}],
   tt |-> [p \in Ports |-> [b \in Buttons |->
             IF \E i \in T : Moves(q[i], p, b) THEN KeyTtl ELSE s.tt[p][b]]]]

LEMMA PadsEqual ==
  ASSUME NEW s \in Pads, NEW t \in Pads,
         \A p \in Ports, b \in Buttons : (b \in s.st[p] <=> b \in t.st[p]) /\ s.tt[p][b] = t.tt[p][b]
  PROVE  s = t
<1>1. /\ s.st \in [Ports -> SUBSET Buttons] /\ t.st \in [Ports -> SUBSET Buttons]
      /\ s.tt \in [Ports -> [Buttons -> Nat]] /\ t.tt \in [Ports -> [Buttons -> Nat]]
      /\ s = [st |-> s.st, tt |-> s.tt] /\ t = [st |-> t.st, tt |-> t.tt]
  BY DEF Pads
<1>2. s.st = t.st
  <2>1. \A p \in Ports : s.st[p] \subseteq Buttons /\ t.st[p] \subseteq Buttons
    BY <1>1
  <2>2. \A p \in Ports : s.st[p] = t.st[p]
    BY <2>1
  <2> QED BY <1>1, <2>2
<1>3. s.tt = t.tt
  <2>1. \A p \in Ports : s.tt[p] \in [Buttons -> Nat] /\ t.tt[p] \in [Buttons -> Nat]
    BY <1>1
  <2>2. \A p \in Ports : s.tt[p] = t.tt[p]
    BY <2>1
  <2> QED BY <1>1, <2>2
<1> QED BY <1>1, <1>2, <1>3, Zenon

LEMMA PressedIs ==
  ASSUME NEW s \in Pads, NEW k \in Keys
  PROVE  /\ Pressed(s, k) \in Pads
         /\ \A p \in Ports, b \in Buttons :
              IF Binding[k] = [port |-> p, button |-> b]
                THEN b \in Pressed(s, k).st[p] /\ Pressed(s, k).tt[p][b] = KeyTtl
                ELSE (b \in Pressed(s, k).st[p] <=> b \in s.st[p])
                     /\ Pressed(s, k).tt[p][b] = s.tt[p][b]
<1> DEFINE c == Binding[k]
           st == [s.st EXCEPT ![c.port] = @ \cup {c.button}]
           tt == [s.tt EXCEPT ![c.port][c.button] = KeyTtl]
<1>1. Pressed(s, k) = [st |-> st, tt |-> tt]
  BY Zenon DEF Pressed
<1>2. s.st \in [Ports -> SUBSET Buttons] /\ s.tt \in [Ports -> [Buttons -> Nat]]
  BY DEF Pads
<1>3. c \in [port : Ports, button : Buttons] /\ KeyTtl \in Nat
  BY InputConstants
<1> HIDE DEF c
<1>4. c.port \in Ports /\ c.button \in Buttons /\ c = [port |-> c.port, button |-> c.button]
  BY <1>3
<1>5. \A p, b : c = [port |-> p, button |-> b] <=> c.port = p /\ c.button = b
  BY <1>4
<1>6. /\ st \in [Ports -> SUBSET Buttons]
      /\ \A p \in Ports, b \in Buttons :
           IF c.port = p /\ c.button = b THEN b \in st[p] ELSE b \in st[p] <=> b \in s.st[p]
  BY <1>2, <1>4
<1>7. /\ tt \in [Ports -> [Buttons -> Nat]]
      /\ \A p \in Ports, b \in Buttons :
           IF c.port = p /\ c.button = b THEN tt[p][b] = KeyTtl ELSE tt[p][b] = s.tt[p][b]
  BY <1>2, <1>3, <1>4
<1> HIDE DEF st, tt
<1>8. Pressed(s, k) \in Pads /\ Pressed(s, k).st = st /\ Pressed(s, k).tt = tt
  BY <1>1, <1>6, <1>7 DEF Pads
<1> DEFINE u == Pressed(s, k)
<1>9. u \in Pads /\ u.st = st /\ u.tt = tt
  BY <1>8
<1> HIDE DEF u
<1>10. \A p \in Ports, b \in Buttons :
        IF c = [port |-> p, button |-> b]
          THEN b \in u.st[p] /\ u.tt[p][b] = KeyTtl
          ELSE (b \in u.st[p] <=> b \in s.st[p]) /\ u.tt[p][b] = s.tt[p][b]
  <2> SUFFICES ASSUME NEW p \in Ports, NEW b \in Buttons
               PROVE  IF c = [port |-> p, button |-> b]
                        THEN b \in u.st[p] /\ u.tt[p][b] = KeyTtl
                        ELSE (b \in u.st[p] <=> b \in s.st[p]) /\ u.tt[p][b] = s.tt[p][b]
    OBVIOUS
  <2>1. CASE c = [port |-> p, button |-> b]
    <3>1. c.port = p /\ c.button = b
      BY <1>5, <2>1, Zenon
    <3> QED BY <1>6, <1>7, <1>9, <2>1, <3>1, Zenon
  <2>2. CASE c # [port |-> p, button |-> b]
    <3>1. ~(c.port = p /\ c.button = b)
      BY <1>5, <2>2, Zenon
    <3> QED BY <1>6, <1>7, <1>9, <2>2, <3>1, Zenon
  <2> QED BY <2>1, <2>2
<1> QED BY <1>9, <1>10, Zenon DEF c, u

LEMMA TypedIs ==
  ASSUME NEW s \in Pads, NEW q, NEW T
  PROVE  /\ Typed(s, q, T) \in Pads
         /\ \A p \in Ports, b \in Buttons :
              /\ b \in Typed(s, q, T).st[p] <=> b \in s.st[p] \/ \E i \in T : Moves(q[i], p, b)
              /\ Typed(s, q, T).tt[p][b] = IF \E i \in T : Moves(q[i], p, b) THEN KeyTtl ELSE s.tt[p][b]
<1> DEFINE M(p, b) == \E i \in T : Moves(q[i], p, b)
           st == [p \in Ports |-> {b \in Buttons : b \in s.st[p] \/ M(p, b)}]
           tt == [p \in Ports |-> [b \in Buttons |-> IF M(p, b) THEN KeyTtl ELSE s.tt[p][b]]]
<1>1. Typed(s, q, T) = [st |-> st, tt |-> tt]
  BY Zenon DEF Typed
<1>2. s.tt \in [Ports -> [Buttons -> Nat]] /\ KeyTtl \in Nat
  BY InputConstants DEF Pads
<1> HIDE DEF M
<1>3. st \in [Ports -> SUBSET Buttons] /\ tt \in [Ports -> [Buttons -> Nat]]
  BY <1>2
<1>4. \A p \in Ports, b \in Buttons :
        /\ b \in st[p] <=> b \in s.st[p] \/ M(p, b)
        /\ tt[p][b] = IF M(p, b) THEN KeyTtl ELSE s.tt[p][b]
  OBVIOUS
<1> HIDE DEF st, tt
<1>5. Typed(s, q, T) \in Pads /\ Typed(s, q, T).st = st /\ Typed(s, q, T).tt = tt
  BY <1>1, <1>3 DEF Pads
<1> QED BY <1>4, <1>5, Zenon DEF M

LEMMA TypedNone ==
  ASSUME NEW s \in Pads, NEW q
  PROVE  Typed(s, q, {}) = s
<1> SUFFICES ASSUME NEW T, \A i \in T : FALSE PROVE Typed(s, q, T) = s
  OBVIOUS
<1> DEFINE t == Typed(s, q, T)
<1>1. t \in Pads /\ \A p \in Ports, b \in Buttons :
        /\ b \in t.st[p] <=> b \in s.st[p] \/ \E i \in T : Moves(q[i], p, b)
        /\ t.tt[p][b] = IF \E i \in T : Moves(q[i], p, b) THEN KeyTtl ELSE s.tt[p][b]
  BY TypedIs, SMT
<1>2. \A p, b : ~(\E i \in T : Moves(q[i], p, b))
  OBVIOUS
<1> HIDE DEF t
<1>3. \A p \in Ports, b \in Buttons : (b \in t.st[p] <=> b \in s.st[p]) /\ t.tt[p][b] = s.tt[p][b]
  BY <1>1, <1>2, Zenon
<1>4. t = s
  BY <1>1, <1>3, PadsEqual, Zenon
<1> QED BY <1>4 DEF t

LEMMA TypedOne ==
  ASSUME NEW s \in Pads, NEW q, NEW T, NEW m \in T, q[m].key \in Keys
  PROVE  Typed(s, q, T) = Pressed(Typed(s, q, T \ {m}), q[m].key)
<1> DEFINE old == Typed(s, q, T \ {m})
           new == Typed(s, q, T)
           aft == Pressed(old, q[m].key)
           M(i, p, b) == Moves(q[i], p, b)
<1>1. old \in Pads /\ new \in Pads
  BY TypedIs, Zenon
<1>2. aft \in Pads /\ \A p \in Ports, b \in Buttons :
        IF Binding[q[m].key] = [port |-> p, button |-> b]
          THEN b \in aft.st[p] /\ aft.tt[p][b] = KeyTtl
          ELSE (b \in aft.st[p] <=> b \in old.st[p]) /\ aft.tt[p][b] = old.tt[p][b]
  <2> HIDE DEF old
  <2> QED BY <1>1, PressedIs, Zenon
<1>3. \A p \in Ports, b \in Buttons :
        /\ b \in new.st[p] <=> b \in s.st[p] \/ \E i \in T : M(i, p, b)
        /\ new.tt[p][b] = IF \E i \in T : M(i, p, b) THEN KeyTtl ELSE s.tt[p][b]
        /\ b \in old.st[p] <=> b \in s.st[p] \/ \E i \in T \ {m} : M(i, p, b)
        /\ old.tt[p][b] = IF \E i \in T \ {m} : M(i, p, b) THEN KeyTtl ELSE s.tt[p][b]
  BY TypedIs, Zenon
<1>4. \A p \in Ports, b \in Buttons : M(m, p, b) <=> Binding[q[m].key] = [port |-> p, button |-> b]
  BY InputConstants DEF Moves
<1> HIDE DEF old, new, aft, M
<1>5. \A p \in Ports, b \in Buttons : (b \in new.st[p] <=> b \in aft.st[p]) /\ new.tt[p][b] = aft.tt[p][b]
  <2> SUFFICES ASSUME NEW p \in Ports, NEW b \in Buttons
               PROVE  (b \in new.st[p] <=> b \in aft.st[p]) /\ new.tt[p][b] = aft.tt[p][b]
    OBVIOUS
  <2>1. CASE M(m, p, b)
    <3>1. \E i \in T : M(i, p, b)
      BY <2>1
    <3>2. b \in new.st[p] /\ new.tt[p][b] = KeyTtl
      BY <1>3, <3>1, Zenon
    <3>3. b \in aft.st[p] /\ aft.tt[p][b] = KeyTtl
      BY <1>2, <1>4, <2>1, Zenon
    <3> QED BY <3>2, <3>3
  <2>2. CASE ~M(m, p, b)
    <3>1. (\E i \in T : M(i, p, b)) <=> (\E i \in T \ {m} : M(i, p, b))
      BY <2>2
    <3>2. (b \in new.st[p] <=> b \in old.st[p]) /\ new.tt[p][b] = old.tt[p][b]
      BY <1>3, <3>1, Zenon
    <3>3. (b \in aft.st[p] <=> b \in old.st[p]) /\ aft.tt[p][b] = old.tt[p][b]
      BY <1>2, <1>4, <2>2, Zenon
    <3> QED BY <3>2, <3>3, Zenon
  <2> QED BY <2>1, <2>2
<1>6. new = aft
  BY <1>1, <1>2, <1>5, PadsEqual, Zenon
<1> QED BY <1>6 DEF old, new, aft

LEMMA FoldIsTyped ==
  ASSUME NEW s \in Pads, NEW q \in Seq(Events), \A i \in DOMAIN q : q[i].key \in Keys
  PROVE  LET press(r, e) == Pressed(r, e.key)
         IN  FoldLeft(press, s, q) = Typed(s, q, DOMAIN q)
<1> DEFINE press(r, e) == Pressed(r, e.key)
           iter[T \in SUBSET DOMAIN q] ==
             IF T = {} THEN s ELSE LET x == Max(T) IN press(iter[T \ {x}], q[x])
           g == [T \in SUBSET DOMAIN q |-> Typed(s, q, T)]
<1>0. Len(q) \in Nat /\ DOMAIN q = 1..Len(q)
  OBVIOUS
<1>1. FoldLeft(press, s, q) = iter[DOMAIN q]
  BY Zenon DEF FoldLeft, MapThenFoldSet
<1>2. g = [T \in SUBSET DOMAIN q |->
             IF T = {} THEN s ELSE LET x == Max(T) IN press(g[T \ {x}], q[x])]
  <2> SUFFICES ASSUME NEW T \in SUBSET DOMAIN q
               PROVE  Typed(s, q, T)
                        = IF T = {} THEN s ELSE press(g[T \ {Max(T)}], q[Max(T)])
    BY Zenon DEF g
  <2>1. CASE T = {}
    BY <2>1, TypedNone
  <2>2. CASE T # {}
    <3>1. Max(T) \in T /\ \A i \in T : i <= Max(T)
      BY <1>0, <2>2, Greatest
    <3>2. g[T \ {Max(T)}] = Typed(s, q, T \ {Max(T)})
      OBVIOUS
    <3>3. Typed(s, q, T) = press(Typed(s, q, T \ {Max(T)}), q[Max(T)])
      <4> DEFINE x == Max(T)
      <4>1. x \in T /\ q[x].key \in Keys
        BY <3>1
      <4> HIDE DEF x
      <4>2. Typed(s, q, T) = Pressed(Typed(s, q, T \ {x}), q[x].key)
        BY <4>1, TypedOne
      <4> QED BY <4>2, Zenon DEF x
    <3> HIDE DEF g
    <3> QED BY <2>2, <3>2, <3>3, Zenon
  <2> QED BY <2>1, <2>2
<1>3. iter = [T \in SUBSET DOMAIN q |->
                IF T = {} THEN s ELSE LET x == Max(T) IN press(iter[T \ {x}], q[x])]
  <2> HIDE DEF g
  <2> QED BY <1>2, Zenon
<1> HIDE DEF iter, press
<1>4. iter[{}] = g[{}]
  <2>1. {} \in SUBSET DOMAIN q
    OBVIOUS
  <2>2. iter[{}] = s
    BY <1>3, <2>1, Zenon
  <2>3. g[{}] = s
    <3> HIDE DEF g
    <3> QED BY <1>2, <2>1, Zenon
  <2> QED BY <2>2, <2>3
<1>5. ASSUME NEW k \in Nat, k + 1 <= Len(q), iter[1..k] = g[1..k]
      PROVE  iter[1..(k + 1)] = g[1..(k + 1)]
  <2> DEFINE T == 1..(k + 1)
  <2>1. T \in SUBSET DOMAIN q /\ T # {} /\ T \ {k + 1} = 1..k /\ Max(T) = k + 1
    <3>1. /\ Max(T) = k + 1 /\ T # {} /\ T \ {k + 1} = 1..k
          /\ \A l \in Nat : k + 1 <= l => T \in SUBSET (1..l)
      BY UpTo, Zenon
    <3> HIDE DEF T
    <3> QED BY <1>0, <1>5, <3>1, Zenon
  <2> HIDE DEF T, g
  <2>2. iter[T] = press(iter[1..k], q[k + 1])
    BY <1>3, <2>1, Zenon
  <2>3. g[T] = press(g[1..k], q[k + 1])
    BY <1>2, <2>1, Zenon
  <2> QED BY <1>5, <2>2, <2>3, Zenon DEF T
<1>6. iter[1..Len(q)] = g[1..Len(q)]
  <2> HIDE DEF g
  <2> QED BY <1>0, <1>4, <1>5, SameFolds, Zenon
<1>7. g[DOMAIN q] = Typed(s, q, DOMAIN q)
  OBVIOUS
<1> HIDE DEF g
<1>8. FoldLeft(press, s, q) = Typed(s, q, DOMAIN q)
  BY <1>0, <1>1, <1>6, <1>7, Zenon
<1> QED BY <1>8, Zenon DEF press

-----------------------------------------------------------------------------
(* The queue: one event more at its end, and some taken from its beginning.  *)

LEMMA AppendIs ==
  ASSUME NEW q \in Seq(Events), NEW e \in Events, NEW p, NEW b, NEW was
  PROVE  LET r == Append(q, e)
         IN  /\ Moves(e, p, b) => (After(was, r, DOMAIN r, p, b) <=> e.down)
             /\ ~Moves(e, p, b) =>
                  (After(was, r, DOMAIN r, p, b) <=> After(was, q, DOMAIN q, p, b))
<1> DEFINE r == Append(q, e)
           n == Len(q)
           T == 1..(n + 1)
<1>1. n \in Nat /\ DOMAIN q = 1..n /\ DOMAIN r = T /\ r[n + 1] = e /\ \A i \in 1..n : r[i] = q[i]
  OBVIOUS
<1> HIDE DEF r, n
<1>2. n + 1 \in Nat /\ T \in SUBSET (1..(n + 1)) /\ n + 1 \in T /\ T \ {n + 1} = 1..n /\ \A i \in T : i <= n + 1
  BY <1>1
<1> HIDE DEF T
<1>3. /\ Moves(r[n + 1], p, b) => (After(was, r, T, p, b) <=> r[n + 1].down)
      /\ ~Moves(r[n + 1], p, b) => (After(was, r, T, p, b) <=> After(was, r, T \ {n + 1}, p, b))
  BY <1>2, AfterLast
<1>4. After(was, r, 1..n, p, b) <=> After(was, q, 1..n, p, b)
  <2> DEFINE N == 1..n
  <2>1. \A i \in N : r[i] = q[i]
    BY <1>1
  <2> HIDE DEF N
  <2>2. After(was, r, N, p, b) <=> After(was, q, N, p, b)
    BY <2>1, Zenon DEF After
  <2> QED BY <2>2 DEF N
<1>5. /\ Moves(e, p, b) => (After(was, r, DOMAIN r, p, b) <=> e.down)
      /\ ~Moves(e, p, b) => (After(was, r, DOMAIN r, p, b) <=> After(was, q, DOMAIN q, p, b))
  BY <1>1, <1>2, <1>3, <1>4, Zenon
<1> QED BY <1>5, Zenon DEF r

LEMMA TakenIs ==
  ASSUME NEW q \in Seq(Events), NEW k \in 0..Len(q), NEW p, NEW b, NEW was
  PROVE  LET ev == SubSeq(q, 1, k)
             r == SubSeq(q, k + 1, Len(q))
         IN  After(After(was, ev, DOMAIN ev, p, b), r, DOMAIN r, p, b)
               <=> After(was, q, DOMAIN q, p, b)
<1> DEFINE ev == SubSeq(q, 1, k)
           r == SubSeq(q, k + 1, Len(q))
           n == Len(q)
<1>1. /\ n \in Nat /\ k \in 0..n /\ DOMAIN q = 1..n
      /\ DOMAIN ev = 1..k /\ \A i \in 1..k : ev[i] = q[i]
      /\ DOMAIN r = 1..(n - k) /\ \A i \in 1..(n - k) : r[i] = q[k + i]
  OBVIOUS
<1> HIDE DEF ev, r, n
<1> DEFINE mid == After(was, q, 1..k, p, b)
           M(i) == Moves(q[i], p, b)
           D(i) == q[i].down
<1>2. After(was, ev, DOMAIN ev, p, b) <=> mid
  <2> DEFINE K == 1..k
  <2>1. \A i \in K : ev[i] = q[i]
    BY <1>1
  <2> HIDE DEF K
  <2>2. After(was, ev, K, p, b) <=> After(was, q, K, p, b)
    BY <2>1, Zenon DEF After
  <2> QED BY <1>1, <2>2, Zenon DEF K
<1>3. After(mid, r, DOMAIN r, p, b) <=> After(mid, q, (k + 1)..n, p, b)
  <2> DEFINE A == 1..(n - k)
             B == (k + 1)..n
  <2>1. /\ \A i \in A : k + i \in B
        /\ \A j \in B : \E i \in A : k + i = j
        /\ \A i, j \in A : (i <= j) <=> (k + i <= k + j)
    <3>1. \A i \in A : k + i \in B
      BY <1>1
    <3>2. \A j \in B : j - k \in A /\ k + (j - k) = j
      BY <1>1
    <3>3. \A i, j \in A : (i <= j) <=> (k + i <= k + j)
      BY <1>1
    <3> HIDE DEF A, B
    <3> QED BY <3>1, <3>2, <3>3, Zenon
  <2>2. \A i \in A : (Moves(r[i], p, b) <=> M(k + i)) /\ (r[i].down <=> D(k + i))
    BY <1>1, Zenon
  <2> HIDE DEF M, D, A, B, mid
  <2>3. (\A i \in A : ~Moves(r[i], p, b)) <=> (\A j \in B : ~M(j))
    BY <2>1, <2>2, Zenon
  <2>4. (\E i \in A : Moves(r[i], p, b) /\ r[i].down /\ \A j \in A : Moves(r[j], p, b) => j <= i)
          <=> (\E i \in B : M(i) /\ D(i) /\ \A j \in B : M(j) => j <= i)
    <3>1. ASSUME NEW i \in A, Moves(r[i], p, b), r[i].down, \A j \in A : Moves(r[j], p, b) => j <= i
          PROVE  \E l \in B : M(l) /\ D(l) /\ \A j \in B : M(j) => j <= l
      <4>1. k + i \in B /\ M(k + i) /\ D(k + i)
        BY <2>1, <2>2, <3>1, Zenon
      <4>2. ASSUME NEW j \in B, M(j) PROVE j <= k + i
        <5>1. PICK c \in A : k + c = j
          BY <2>1, Zenon
        <5>2. Moves(r[c], p, b)
          BY <2>2, <4>2, <5>1, Zenon
        <5>3. c <= i
          BY <3>1, <5>2, Zenon
        <5> QED BY <2>1, <5>1, <5>3, Zenon
      <4> QED BY <4>1, <4>2, Zenon
    <3>2. ASSUME NEW l \in B, M(l), D(l), \A j \in B : M(j) => j <= l
          PROVE  \E i \in A : Moves(r[i], p, b) /\ r[i].down /\ \A j \in A : Moves(r[j], p, b) => j <= i
      <4>1. PICK i \in A : k + i = l
        BY <2>1, Zenon
      <4>2. Moves(r[i], p, b) /\ r[i].down
        BY <2>2, <3>2, <4>1, Zenon
      <4>3. ASSUME NEW j \in A, Moves(r[j], p, b) PROVE j <= i
        <5>1. k + j \in B /\ M(k + j)
          BY <2>1, <2>2, <4>3, Zenon
        <5>2. k + j <= k + i
          BY <3>2, <4>1, <5>1, Zenon
        <5> QED BY <2>1, <5>2, Zenon
      <4> QED BY <4>2, <4>3, Zenon
    <3> QED BY <3>1, <3>2, Zenon
  <2>5. After(mid, r, A, p, b) <=> After(mid, q, B, p, b)
    BY <2>3, <2>4, Zenon DEF After, M, D
  <2> QED BY <1>1, <2>5, Zenon DEF A, B
<1>4. After(mid, q, (k + 1)..n, p, b) <=> After(was, q, DOMAIN q, p, b)
  <2>1. After(was, q, 1..n, p, b) <=> After(mid, q, (k + 1)..n, p, b)
    BY <1>1, AfterParts
  <2> HIDE DEF mid
  <2> QED BY <1>1, <2>1, Zenon
<1> HIDE DEF mid
<1>5. After(After(was, ev, DOMAIN ev, p, b), r, DOMAIN r, p, b) <=> After(mid, r, DOMAIN r, p, b)
  <2> DEFINE x == After(was, ev, DOMAIN ev, p, b)
  <2> HIDE DEF x
  <2> QED BY <1>2, Zenon DEF After, x
<1>6. After(After(was, ev, DOMAIN ev, p, b), r, DOMAIN r, p, b) <=> After(was, q, DOMAIN q, p, b)
  BY <1>3, <1>4, <1>5, Zenon
<1> QED BY <1>6, Zenon DEF ev, r, n

-----------------------------------------------------------------------------
(* The steps of the terminal. *)

\* Nothing of the pads and the input moves but what no part of the invariant mentions.
LEMMA PadSame ==
  ASSUME PadInv, UNCHANGED <<kitty, held, queue, state, ttl, lost, step, shift, nth, truth>>
  PROVE  PadInv'
BY Zenon DEF PadInv, PadTypeOK, QueueOK, LegacyOK, LatchOK

LEMMA TerminalPad ==
  ASSUME PadInv, Terminal, UNCHANGED padVars
  PROVE  PadInv'
<1>1. UNCHANGED <<kitty, state, ttl, lost, step, shift, nth, truth>>
  BY DEF Terminal, CtrlC, UnboundKey, KeyDown, KeyUp, KeyTyped, Queued, padVars
<1>2. PICK e \in Events :
        /\ queue' = Append(queue, e)
        /\ ~kitty => e.key \in Keys
        /\ kitty /\ ~lost => \A p \in Ports, b \in Buttons :
             LET c == [port |-> p, button |-> b]
             IN  /\ Moves(e, p, b) => (c \in held' <=> e.down)
                 /\ ~Moves(e, p, b) => (c \in held' <=> c \in held)
  <2>1. CASE CtrlC
    <3> DEFINE e == [key |-> Quit, down |-> TRUE]
    <3>1. e \in Events /\ queue' = Append(queue, e) /\ kitty /\ held' = held
      BY <2>1 DEF CtrlC, Queued, Events
    <3>2. \A p, b : ~Moves(e, p, b)
      BY InputConstants DEF Moves
    <3> HIDE DEF e
    <3> QED BY <3>1, <3>2, Zenon
  <2>1a. CASE \E d \in UnboundMoves : UnboundKey(d)
    <3> PICK d \in UnboundMoves : UnboundKey(d)
      BY <2>1a
    <3> DEFINE e == [key |-> Unbound, down |-> d]
    <3>1. e \in Events /\ queue' = Append(queue, e) /\ kitty /\ held' = held
      BY InputConstants DEF UnboundKey, Queued, Events
    <3>2. \A p, b : ~Moves(e, p, b)
      BY InputConstants DEF Moves
    <3> HIDE DEF e
    <3> QED BY <3>1, <3>2, Zenon
  <2>2. CASE \E k \in Keys : KeyDown(k)
    <3> PICK k \in Keys : KeyDown(k)
      BY <2>2
    <3> DEFINE e == [key |-> k, down |-> TRUE]
    <3>1. e \in Events /\ queue' = Append(queue, e) /\ kitty /\ (~lost => held' = held \cup {Binding[k]}) /\ e.down
      BY DEF KeyDown, Queued, Events
    <3>2. \A p, b : Moves(e, p, b) <=> Binding[k] = [port |-> p, button |-> b]
      BY InputConstants DEF Moves
    <3> HIDE DEF e
    <3> QED BY <3>1, <3>2
  <2>3. CASE \E k \in Keys : KeyUp(k)
    <3> PICK k \in Keys : KeyUp(k)
      BY <2>3
    <3> DEFINE e == [key |-> k, down |-> FALSE]
    <3>1. e \in Events /\ queue' = Append(queue, e) /\ kitty /\ (~lost => held' = held \ {Binding[k]}) /\ ~e.down
      BY DEF KeyUp, Queued, Events
    <3>2. \A p, b : Moves(e, p, b) <=> Binding[k] = [port |-> p, button |-> b]
      BY InputConstants DEF Moves
    <3> HIDE DEF e
    <3> QED BY <3>1, <3>2
  <2>4. CASE \E k \in Keys : KeyTyped(k)
    <3> PICK k \in Keys : KeyTyped(k)
      BY <2>4
    <3> DEFINE e == [key |-> k, down |-> TRUE]
    <3>1. e \in Events /\ queue' = Append(queue, e) /\ ~kitty /\ e.key \in Keys
      BY InputConstants DEF KeyTyped, Queued, Events
    <3> HIDE DEF e
    <3> QED BY <3>1, Zenon
  <2> QED BY <2>1, <2>1a, <2>2, <2>3, <2>4 DEF Terminal
<1>3. queue \in Seq(Events)
  BY DEF PadInv, PadTypeOK
<1>4. queue' \in Seq(Events) /\ (~kitty => \A i \in DOMAIN queue' : queue'[i].key \in Keys)
  <2>1. queue' \in Seq(Events) /\ \A i \in DOMAIN queue' : queue'[i] = e \/ (i \in DOMAIN queue /\ queue'[i] = queue[i])
    BY <1>2, <1>3
  <2>2. ~kitty => \A i \in DOMAIN queue : queue[i].key \in Keys
    BY DEF PadInv, PadTypeOK
  <2> QED BY <1>2, <2>1, <2>2, Zenon
<1>5. PadTypeOK'
  BY <1>1, <1>4, Zenon DEF PadInv, PadTypeOK
<1>6. QueueOK'
  <2> SUFFICES ASSUME kitty, ~lost, NEW p \in Ports, NEW b \in Buttons
               PROVE  ([port |-> p, button |-> b] \in held')
                        <=> After(b \in state[p], queue', DOMAIN queue', p, b)
    BY <1>1, Zenon DEF QueueOK
  <2> DEFINE c == [port |-> p, button |-> b]
             was == b \in state[p]
  <2>1. (c \in held) <=> After(was, queue, DOMAIN queue, p, b)
    BY Zenon DEF PadInv, QueueOK
  <2>2. /\ Moves(e, p, b) => (After(was, queue', DOMAIN queue', p, b) <=> e.down)
        /\ ~Moves(e, p, b) =>
             (After(was, queue', DOMAIN queue', p, b) <=> After(was, queue, DOMAIN queue, p, b))
    BY <1>2, <1>3, AppendIs
  <2>3. /\ Moves(e, p, b) => (c \in held' <=> e.down)
        /\ ~Moves(e, p, b) => (c \in held' <=> c \in held)
    BY <1>2, Zenon
  <2> HIDE DEF c, was
  <2>4. (c \in held') <=> After(was, queue', DOMAIN queue', p, b)
    BY <2>1, <2>2, <2>3, Zenon
  <2> QED BY <2>4, Zenon DEF c, was
<1>7. LegacyOK' /\ LatchOK'
  BY <1>1, Zenon DEF PadInv, LegacyOK, LatchOK
<1> QED BY <1>5, <1>6, <1>7 DEF PadInv

-----------------------------------------------------------------------------
(* The reads. *)

\* What a read leaves of the queue; Fit is a number of events that are there.
LEMMA LeavesIs ==
  ASSUME queue \in Seq(Events), NEW n \in Nat \ {0}, NEW cut \in BOOLEAN, Leaves(n, cut)
  PROVE  /\ Fit(n) \in 0..Len(queue) /\ Whole(n) \in Seq(Events)
         /\ \A i \in DOMAIN Whole(n) : i \in DOMAIN queue /\ Whole(n)[i] = queue[i]
         /\ queue' \in Seq(Events)
         /\ \A i \in DOMAIN queue' : \E j \in DOMAIN queue : queue'[i] = queue[j]
         /\ ~cut => queue' = SubSeq(queue, Fit(n) + 1, Len(queue))
         /\ cut => n + 1 \in DOMAIN queue
<1>1. Fit(n) \in 0..Len(queue) /\ Len(queue) \in Nat
  BY DEF Fit
<1> DEFINE k == Fit(n)
           l == k + (IF cut THEN 2 ELSE 1)
<1>2. queue' = SubSeq(queue, l, Len(queue)) /\ (cut => Len(queue) > n)
  BY Zenon DEF Leaves
<1>3. l \in Nat \ {0}
  BY <1>1
<1>4. ~cut => l = k + 1
  OBVIOUS
<1> HIDE DEF k, l
<1>5. /\ queue' \in Seq(Events)
      /\ \A i \in DOMAIN queue' : l + i - 1 \in DOMAIN queue /\ queue'[i] = queue[l + i - 1]
  BY <1>1, <1>2, <1>3
<1>6. Whole(n) = SubSeq(queue, 1, k) /\ k \in 0..Len(queue)
  BY <1>1, Zenon DEF Whole, k
<1>7. Whole(n) \in Seq(Events) /\ \A i \in DOMAIN Whole(n) : i \in DOMAIN queue /\ Whole(n)[i] = queue[i]
  BY <1>6
<1>8. cut => n + 1 \in DOMAIN queue
  BY <1>1, <1>2
<1> QED BY <1>1, <1>2, <1>4, <1>5, <1>7, <1>8, Zenon DEF k

\* What ScanKitty makes of events are events.
LEMMA TakenIsEvents ==
  ASSUME NEW ev \in Seq(Events), NEW short
  PROVE  [i \in DOMAIN ev |-> TakenAs(ev, i, short)] \in Seq(Events)
<1>1. ASSUME NEW i \in DOMAIN ev PROVE TakenAs(ev, i, short) \in Events
  <2>1. ev[i] \in Events
    OBVIOUS
  <2>2. CASE i \notin Joined(ev)
    BY <2>1, <2>2 DEF TakenAs
  <2>3. CASE i \in Joined(ev)
    <3> DEFINE key == IF i \in short THEN Merged[ev[i].key] ELSE Unbound
               down == ev[i].down /\ \A j \in Before(ev, i) : ev[j].down
    <3>1. ev[i].key \in Keys \cup {Quit}
      BY <2>1, <2>3 DEF Joined, Events
    <3>2. key \in Keys \cup {Quit, Unbound}
      BY <3>1, InputConstants
    <3>3. down \in BOOLEAN
      OBVIOUS
    <3>4. TakenAs(ev, i, short) = [key |-> key, down |-> down]
      BY <2>3, Zenon DEF TakenAs
    <3> HIDE DEF key, down
    <3> QED BY <3>2, <3>3, <3>4 DEF Events
  <2> QED BY <2>2, <2>3
<1>2. Len(ev) \in Nat /\ DOMAIN ev = 1..Len(ev)
  OBVIOUS
<1> QED BY <1>1, <1>2

\* A read that loses nothing: what is left is to be applied to what it has applied.
LEMMA ScanPad ==
  ASSUME PadTypeOK, QueueOK, kitty, ScanKitty
  PROVE  /\ state' \in [Ports -> SUBSET Buttons] /\ queue' \in Seq(Events) /\ QueueOK'
         /\ UNCHANGED <<kitty, ttl>> /\ (~lost' => held' = held)
<1> DEFINE Taken(m, c) == [i \in DOMAIN Whole(m) |-> TakenAs(Whole(m), i, c)]
<1>1. PICK n \in BufKeys, cut \in BOOLEAN :
        \E c \in SUBSET Joined(Whole(n)) :
          /\ Leaves(n, cut)
          /\ state' = FoldLeft(ProcessSeq, state, Taken(n, c))
          /\ lost' = (lost \/ cut \/ Taken(n, c) # Whole(n))
          /\ held' = IF lost' THEN {} ELSE held
          /\ UNCHANGED <<kitty, ttl>>
  BY Zenon DEF ScanKitty
<1>1b. PICK short \in SUBSET Joined(Whole(n)) :
          /\ Leaves(n, cut)
          /\ state' = FoldLeft(ProcessSeq, state, Taken(n, short))
          /\ lost' = (lost \/ cut \/ Taken(n, short) # Whole(n))
          /\ held' = IF lost' THEN {} ELSE held
          /\ UNCHANGED <<kitty, ttl>>
  BY <1>1, Zenon
<1>2. queue \in Seq(Events) /\ state \in [Ports -> SUBSET Buttons] /\ n \in Nat \ {0}
  BY InputConstants DEF PadTypeOK
<1> DEFINE k == Fit(n)
           ev == Whole(n)
           taken == [i \in DOMAIN ev |-> TakenAs(ev, i, short)]
<1>1a. /\ Leaves(n, cut)
       /\ state' = FoldLeft(ProcessSeq, state, taken)
       /\ lost' = (lost \/ cut \/ taken # ev)
       /\ held' = IF lost' THEN {} ELSE held
       /\ UNCHANGED <<kitty, ttl>>
  BY <1>1b, Zenon
<1>3. /\ k \in 0..Len(queue) /\ ev \in Seq(Events) /\ queue' \in Seq(Events)
      /\ ~cut => queue' = SubSeq(queue, k + 1, Len(queue))
  BY <1>1a, <1>2, LeavesIs
<1>4. ev = SubSeq(queue, 1, k)
  BY Zenon DEF Whole
<1>4a. taken \in Seq(Events)
  <2> HIDE DEF ev
  <2> QED BY <1>3, TakenIsEvents, Zenon
<1>4b. ~lost' => ~lost /\ ~cut /\ taken = ev /\ held' = held
  BY <1>1a, Zenon
<1>4c. kitty' = kitty /\ ttl' = ttl
  BY <1>1a
<1>5. state' = Scanned(state, taken, DOMAIN taken)
  <2> HIDE DEF taken
  <2> QED BY <1>1a, <1>2, <1>4a, FoldIsScanned, Zenon
<1> HIDE DEF k, ev, taken
<1>6. /\ state' \in [Ports -> SUBSET Buttons]
      /\ \A p \in Ports, b \in Buttons :
           b \in state'[p] <=> After(b \in state[p], taken, DOMAIN taken, p, b)
  BY <1>5 DEF Scanned
<1>7. QueueOK'
  <2> SUFFICES ASSUME ~lost', NEW p \in Ports, NEW b \in Buttons
               PROVE  ([port |-> p, button |-> b] \in held)
                        <=> After(b \in state'[p], queue', DOMAIN queue', p, b)
    BY <1>4b, Zenon DEF QueueOK
  <2> DEFINE c == [port |-> p, button |-> b]
             was == b \in state[p]
  <2>1. (c \in held) <=> After(was, queue, DOMAIN queue, p, b)
    BY <1>4b, Zenon DEF QueueOK
  <2>2. After(After(was, ev, DOMAIN ev, p, b), queue', DOMAIN queue', p, b)
          <=> After(was, queue, DOMAIN queue, p, b)
    <3>1. After(After(was, SubSeq(queue, 1, k), DOMAIN SubSeq(queue, 1, k), p, b),
                SubSeq(queue, k + 1, Len(queue)), DOMAIN SubSeq(queue, k + 1, Len(queue)), p, b)
            <=> After(was, queue, DOMAIN queue, p, b)
      <4> HIDE DEF was
      <4> QED BY <1>2, <1>3, TakenIs, Zenon
    <3>2. queue' = SubSeq(queue, k + 1, Len(queue))
      BY <1>3, <1>4b
    <3> HIDE DEF was
    <3> QED BY <1>4, <3>1, <3>2, Zenon
  <2>3. After(b \in state'[p], queue', DOMAIN queue', p, b)
          <=> After(After(was, ev, DOMAIN ev, p, b), queue', DOMAIN queue', p, b)
    <3> DEFINE x == After(was, ev, DOMAIN ev, p, b)
               y == b \in state'[p]
               r == queue'
    <3>1. y <=> x
      BY <1>4b, <1>6, Zenon
    <3> HIDE DEF x, y, r
    <3>2. After(y, r, DOMAIN r, p, b) <=> After(x, r, DOMAIN r, p, b)
      BY <3>1, Zenon DEF After
    <3> QED BY <3>2, Zenon DEF x, y, r
  <2> HIDE DEF c, was
  <2>4. (c \in held) <=> After(b \in state'[p], queue', DOMAIN queue', p, b)
    BY <2>1, <2>2, <2>3, Zenon
  <2> QED BY <2>4, Zenon DEF c
<1> QED BY <1>3, <1>4b, <1>4c, <1>6, <1>7

\* In legacy mode a button is pressed as long as its time to live has not run out.
Matched(s) == s \in Pads /\ \A p \in Ports, b \in Buttons : b \in s.st[p] <=> s.tt[p][b] > 0

LEMMA TickedMatched ==
  ASSUME PadTypeOK, LegacyOK, ~kitty, NEW p
  PROVE  Matched(Ticked(p))
<1> DEFINE st == [state EXCEPT ![p] = {b \in @ : ttl[p][b] # 1}]
           tt == [ttl EXCEPT ![p] = [b \in Buttons |-> IF @[b] > 0 THEN @[b] - 1 ELSE 0]]
<1>1. Ticked(p) = [st |-> st, tt |-> tt]
  BY Zenon DEF Ticked
<1>2. state \in [Ports -> SUBSET Buttons] /\ ttl \in [Ports -> [Buttons -> Nat]]
  BY DEF PadTypeOK
<1>3. \A b \in Buttons : p \in Ports =>
        /\ (b \in st[p] <=> b \in state[p] /\ ttl[p][b] # 1)
        /\ tt[p][b] = (IF ttl[p][b] > 0 THEN ttl[p][b] - 1 ELSE 0)
  <2> SUFFICES ASSUME NEW b \in Buttons, p \in Ports
               PROVE  /\ b \in st[p] <=> b \in state[p] /\ ttl[p][b] # 1
                      /\ tt[p][b] = (IF ttl[p][b] > 0 THEN ttl[p][b] - 1 ELSE 0)
    OBVIOUS
  <2>1. st[p] = {c \in state[p] : ttl[p][c] # 1}
    BY <1>2
  <2>2. tt[p] = [c \in Buttons |-> IF ttl[p][c] > 0 THEN ttl[p][c] - 1 ELSE 0]
    BY <1>2, Zenon
  <2> HIDE DEF st, tt
  <2> QED BY <2>1, <2>2, Zenon
<1>4. \A q \in Ports : q # p => st[q] = state[q] /\ tt[q] = ttl[q]
  BY <1>2
<1>5. st \in [Ports -> SUBSET Buttons] /\ tt \in [Ports -> [Buttons -> Nat]]
  <2> DEFINE row == [b \in Buttons |-> IF ttl[p][b] > 0 THEN ttl[p][b] - 1 ELSE 0]
  <2>1. p \in Ports => row \in [Buttons -> Nat]
    <3>1. p \in Ports => ttl[p] \in [Buttons -> Nat]
      BY <1>2
    <3>2. p \in Ports => \A b \in Buttons : ttl[p][b] \in Nat
      BY <3>1
    <3> QED BY <3>2
  <2>2. tt = [ttl EXCEPT ![p] = row]
    BY Zenon
  <2>3. st \in [Ports -> SUBSET Buttons]
    BY <1>2
  <2> HIDE DEF row, st, tt
  <2>4. tt \in [Ports -> [Buttons -> Nat]]
    BY <1>2, <2>1, <2>2
  <2> QED BY <2>3, <2>4
<1> HIDE DEF st, tt
<1>6. \A q \in Ports, b \in Buttons : b \in st[q] <=> tt[q][b] > 0
  <2> SUFFICES ASSUME NEW q \in Ports, NEW b \in Buttons
               PROVE  b \in st[q] <=> tt[q][b] > 0
    OBVIOUS
  <2>1. (b \in state[q] <=> ttl[q][b] > 0) /\ ttl[q][b] \in Nat
    BY <1>2 DEF LegacyOK
  <2>2. CASE q = p
    BY <1>3, <2>1, <2>2
  <2>3. CASE q # p
    BY <1>4, <2>1, <2>3
  <2> QED BY <2>2, <2>3
<1> DEFINE t == Ticked(p)
<1>7. t \in Pads /\ t.st = st /\ t.tt = tt
  BY <1>1, <1>5 DEF Pads
<1> HIDE DEF t
<1>8. Matched(t)
  BY <1>6, <1>7 DEF Matched
<1> QED BY <1>8 DEF t

LEMMA TypedMatched ==
  ASSUME NEW s, Matched(s), NEW q, NEW T
  PROVE  Matched(Typed(s, q, T))
<1> DEFINE t == Typed(s, q, T)
<1>1. s \in Pads
  BY DEF Matched
<1>2. t \in Pads /\ \A p \in Ports, b \in Buttons :
        /\ b \in t.st[p] <=> b \in s.st[p] \/ \E i \in T : Moves(q[i], p, b)
        /\ t.tt[p][b] = IF \E i \in T : Moves(q[i], p, b) THEN KeyTtl ELSE s.tt[p][b]
  BY <1>1, TypedIs, Zenon
<1> HIDE DEF t
<1>3. \A p \in Ports, b \in Buttons : b \in t.st[p] <=> t.tt[p][b] > 0
  <2> SUFFICES ASSUME NEW p \in Ports, NEW b \in Buttons
               PROVE  b \in t.st[p] <=> t.tt[p][b] > 0
    OBVIOUS
  <2>1. KeyTtl > 0
    BY InputConstants
  <2>2. b \in s.st[p] <=> s.tt[p][b] > 0
    BY Zenon DEF Matched
  <2> QED BY <1>2, <2>1, <2>2, Zenon
<1>4. Matched(t)
  BY <1>2, <1>3, Zenon DEF Matched
<1> QED BY <1>4 DEF t

LEMMA PressedMatched ==
  ASSUME NEW s, Matched(s), NEW k \in Keys
  PROVE  Matched(Pressed(s, k))
<1> DEFINE t == Pressed(s, k)
<1>1. s \in Pads
  BY DEF Matched
<1>2. t \in Pads /\ \A p \in Ports, b \in Buttons :
        IF Binding[k] = [port |-> p, button |-> b]
          THEN b \in t.st[p] /\ t.tt[p][b] = KeyTtl
          ELSE (b \in t.st[p] <=> b \in s.st[p]) /\ t.tt[p][b] = s.tt[p][b]
  BY <1>1, PressedIs, Zenon
<1> HIDE DEF t
<1>3. \A p \in Ports, b \in Buttons : b \in t.st[p] <=> t.tt[p][b] > 0
  <2> SUFFICES ASSUME NEW p \in Ports, NEW b \in Buttons
               PROVE  b \in t.st[p] <=> t.tt[p][b] > 0
    OBVIOUS
  <2>1. KeyTtl > 0
    BY InputConstants
  <2>2. b \in s.st[p] <=> s.tt[p][b] > 0
    BY Zenon DEF Matched
  <2> QED BY <1>2, <2>1, <2>2, Zenon
<1>4. Matched(t)
  BY <1>2, <1>3, Zenon DEF Matched
<1> QED BY <1>4 DEF t

LEMMA LegacyPad ==
  ASSUME PadTypeOK, LegacyOK, ~kitty, NEW p, ReadLegacy(p)
  PROVE  /\ state' \in [Ports -> SUBSET Buttons] /\ ttl' \in [Ports -> [Buttons -> Nat]]
         /\ queue' \in Seq(Events) /\ \A i \in DOMAIN queue' : queue'[i].key \in Keys
         /\ LegacyOK' /\ UNCHANGED <<kitty, held>>
<1> DEFINE press(s, e) == Pressed(s, e.key)
<1>1. PICK n \in BufKeys, cut \in BOOLEAN :
        /\ Leaves(n, cut)
        /\ LET all == FoldLeft(press, Ticked(p), Whole(n))
               k == IF cut THEN Stray[queue[n + 1].key] ELSE Quit
               s == IF k = Quit THEN all ELSE Pressed(all, k)
           IN  state' = s.st /\ ttl' = s.tt
        /\ UNCHANGED <<kitty, held>>
  BY Zenon DEF ReadLegacy
<1> DEFINE ev == Whole(n)
           all == FoldLeft(press, Ticked(p), ev)
<1>2. /\ queue \in Seq(Events) /\ n \in Nat \ {0}
      /\ \A i \in DOMAIN queue : queue[i].key \in Keys
  BY InputConstants DEF PadTypeOK
<1>3. /\ ev \in Seq(Events) /\ queue' \in Seq(Events)
      /\ \A i \in DOMAIN ev : i \in DOMAIN queue /\ ev[i] = queue[i]
      /\ \A i \in DOMAIN queue' : \E j \in DOMAIN queue : queue'[i] = queue[j]
      /\ cut => n + 1 \in DOMAIN queue
  BY <1>1, <1>2, LeavesIs
<1>4. \A i \in DOMAIN queue' : queue'[i].key \in Keys
  BY <1>2, <1>3, Zenon
<1>5. Matched(Ticked(p)) /\ Ticked(p) \in Pads
  <2>1. Matched(Ticked(p))
    BY TickedMatched, Zenon
  <2> QED BY <2>1, Zenon DEF Matched
<1>6. \A i \in DOMAIN ev : ev[i].key \in Keys
  BY <1>2, <1>3, Zenon
<1> HIDE DEF ev
<1>7. all = Typed(Ticked(p), ev, DOMAIN ev)
  BY <1>3, <1>5, <1>6, FoldIsTyped, Zenon
<1> HIDE DEF all
<1>8. Matched(all)
  BY <1>5, <1>7, TypedMatched, Zenon
<1> DEFINE k == IF cut THEN Stray[queue[n + 1].key] ELSE Quit
           s == IF k = Quit THEN all ELSE Pressed(all, k)
<1>9. k \in Keys \cup {Quit}
  <2>1. CASE cut
    <3>1. queue[n + 1].key \in Keys
      BY <1>2, <1>3, <2>1, Zenon
    <3>2. Stray \in [Keys -> Keys \cup {Quit}]
      BY InputConstants
    <3>3. Stray[queue[n + 1].key] \in Keys \cup {Quit}
      BY <3>1, <3>2
    <3> QED BY <2>1, <3>3
  <2>2. CASE ~cut
    BY <2>2
  <2> QED BY <2>1, <2>2
<1> HIDE DEF k
<1>10. Matched(s)
  <2>1. CASE k = Quit
    BY <1>8, <2>1
  <2>2. CASE k # Quit
    <3>1. Matched(Pressed(all, k))
      BY <1>8, <1>9, <2>2, PressedMatched, Zenon
    <3> QED BY <2>2, <3>1
  <2> QED BY <2>1, <2>2
<1>11. state' = s.st /\ ttl' = s.tt
  BY <1>1, Zenon DEF k, all, ev
<1> HIDE DEF s
<1>12. /\ state' \in [Ports -> SUBSET Buttons] /\ ttl' \in [Ports -> [Buttons -> Nat]]
       /\ \A q \in Ports, b \in Buttons : b \in state'[q] <=> ttl'[q][b] > 0
  BY <1>10, <1>11 DEF Matched, Pads
<1>13. LegacyOK'
  BY <1>12, Zenon DEF LegacyOK
<1> QED BY <1>1, <1>3, <1>4, <1>12, <1>13

-----------------------------------------------------------------------------
(* The latch, and the steps of the CPU. *)

\* InputRead returns, with the pads as the read has left them.
LEMMA AnswerPad ==
  ASSUME PadInv, Answer, kitty' = kitty, ~lost' => held' = held, QueueOK', LegacyOK',
         queue' \in Seq(Events), ~kitty => \A i \in DOMAIN queue' : queue'[i].key \in Keys,
         state' \in [Ports -> SUBSET Buttons], ttl' \in [Ports -> [Buttons -> Nat]]
  PROVE  PadInv'
<1> DEFINE p == Head(ask)
           known == kitty /\ ~lost' /\ queue' = <<>>
           val == ClearDpadConflicts(state'[p])
           seen == IF known THEN HeldOn(p) ELSE Unknown
<1>1. /\ shift \in [Ports -> [val : SUBSET Buttons, cnt : Nat]] /\ nth \in [Ports -> Nat]
      /\ truth \in [Ports -> (SUBSET Buttons) \cup {Unknown}]
      /\ nth = [q \in Ports |-> shift[q].cnt]
      /\ \A q \in Ports : truth[q] # Unknown => shift[q].val = ClearDpadConflicts(truth[q])
      /\ kitty \in BOOLEAN
  BY DEF PadInv, PadTypeOK, LatchOK
<1>2. \/ UNCHANGED <<shift, nth, truth>>
      \/ /\ shift' = [shift EXCEPT ![p] = [val |-> val, cnt |-> 0]]
         /\ nth' = [nth EXCEPT ![p] = 0]
         /\ truth' = [truth EXCEPT ![p] = seen]
  BY Zenon DEF Answer
<1>3. p \in Ports => val \in SUBSET Buttons
  BY DEF ClearDpadConflicts
<1>4. seen \in (SUBSET Buttons) \cup {Unknown}
  BY DEF HeldOn
<1>5. p \in Ports /\ known => state'[p] = HeldOn(p)
  <2> SUFFICES ASSUME p \in Ports, known PROVE state'[p] = HeldOn(p)
    OBVIOUS
  <2>1. \A i \in DOMAIN queue' : FALSE
    OBVIOUS
  <2>2. \A b \in Buttons : [port |-> p, button |-> b] \in held <=> b \in state'[p]
    <3> HIDE DEF p
    <3>1. kitty' /\ ~lost' /\ held' = held
      OBVIOUS
    <3> QED BY <2>1, <3>1, Zenon DEF QueueOK, After
  <2>3. state'[p] \subseteq Buttons
    OBVIOUS
  <2> HIDE DEF p
  <2> QED BY <2>2, <2>3 DEF HeldOn
<1>6. p \in Ports /\ seen # Unknown => val = ClearDpadConflicts(seen)
  BY <1>5, Zenon
<1> HIDE DEF p, known, val, seen
<1>7. /\ shift' \in [Ports -> [val : SUBSET Buttons, cnt : Nat]] /\ nth' \in [Ports -> Nat]
      /\ truth' \in [Ports -> (SUBSET Buttons) \cup {Unknown}]
      /\ nth' = [q \in Ports |-> shift'[q].cnt]
  <2>1. CASE UNCHANGED <<shift, nth, truth>>
    BY <1>1, <2>1, Zenon
  <2>2. CASE ~UNCHANGED <<shift, nth, truth>>
    <3>1. /\ shift' = [shift EXCEPT ![p] = [val |-> val, cnt |-> 0]]
          /\ nth' = [nth EXCEPT ![p] = 0]
          /\ truth' = [truth EXCEPT ![p] = seen]
      BY <1>2, <2>2, Zenon
    <3>2. shift' \in [Ports -> [val : SUBSET Buttons, cnt : Nat]] /\ nth' \in [Ports -> Nat]
      BY <1>1, <1>3, <3>1
    <3>3. truth' \in [Ports -> (SUBSET Buttons) \cup {Unknown}]
      BY <1>1, <1>4, <3>1
    <3>4. nth' = [q \in Ports |-> shift'[q].cnt]
      BY <1>1, <3>1
    <3> QED BY <3>2, <3>3, <3>4
  <2> QED BY <2>1, <2>2
<1>8. \A q \in Ports : truth'[q] # Unknown => shift'[q].val = ClearDpadConflicts(truth'[q])
  <2>1. CASE UNCHANGED <<shift, nth, truth>>
    BY <1>1, <2>1, Zenon
  <2>2. CASE ~UNCHANGED <<shift, nth, truth>>
    <3> SUFFICES ASSUME NEW q \in Ports, truth'[q] # Unknown
                 PROVE  shift'[q].val = ClearDpadConflicts(truth'[q])
      OBVIOUS
    <3>1. q # p => shift'[q] = shift[q] /\ truth'[q] = truth[q]
      BY <1>1, <1>2, <2>2
    <3>2. q = p => shift'[q].val = val /\ truth'[q] = seen
      BY <1>1, <1>2, <2>2
    <3> QED BY <1>1, <1>6, <3>1, <3>2, Zenon
  <2> QED BY <2>1, <2>2
<1>9. PadTypeOK'
  <2>1. step' # "read"
    BY DEF Answer
  <2> QED BY <1>1, <1>7, <2>1, Zenon DEF PadTypeOK
<1>10. LatchOK'
  BY <1>7, <1>8, Zenon DEF LatchOK
<1> QED BY <1>9, <1>10 DEF PadInv

LEMMA CpuPad ==
  ASSUME PadInv,
         (\E s \in BOOLEAN : ControllerRegWrite(s)) \/ (\E p \in Ports : ReadLive(p)) \/ PollReady
  PROVE  PadInv'
<1>1. UNCHANGED <<kitty, held, queue, state, ttl, lost, shift, nth>>
  BY DEF ControllerRegWrite, ReadLive, PollReady, inputVars
<1>2. \/ truth' = truth
      \/ truth' = [p \in Ports |-> Unknown]
  BY DEF ControllerRegWrite, ReadLive, PollReady
<1>3. /\ truth' \in [Ports -> (SUBSET Buttons) \cup {Unknown}]
      /\ \A p \in Ports : truth'[p] # Unknown => shift[p].val = ClearDpadConflicts(truth'[p])
  <2>1. /\ truth \in [Ports -> (SUBSET Buttons) \cup {Unknown}]
        /\ \A p \in Ports : truth[p] # Unknown => shift[p].val = ClearDpadConflicts(truth[p])
    BY DEF PadInv, PadTypeOK, LatchOK
  <2>2. CASE truth' = truth
    BY <2>1, <2>2, Zenon
  <2>3. CASE truth' = [p \in Ports |-> Unknown]
    BY <2>3
  <2> QED BY <1>2, <2>2, <2>3
<1>4. step' = "read" => kitty
  BY DEF ControllerRegWrite, ReadLive, PollReady, PadInv, PadTypeOK
<1> QED BY <1>1, <1>3, <1>4, Zenon DEF PadInv, PadTypeOK, QueueOK, LegacyOK, LatchOK

LEMMA ShiftPad ==
  ASSUME PadInv, NEW p \in Ports, ReadShift(p)
  PROVE  PadInv'
<1> DEFINE next(c) == IF c < NumButtons THEN c + 1 ELSE c
<1>1. /\ UNCHANGED <<kitty, held, queue, state, ttl, lost, step, truth>>
      /\ shift' = [shift EXCEPT ![p].cnt = next(@)]
      /\ nth' = [nth EXCEPT ![p] = next(@)]
  BY Zenon DEF ReadShift, inputVars
<1>2. /\ shift \in [Ports -> [val : SUBSET Buttons, cnt : Nat]] /\ nth \in [Ports -> Nat]
      /\ nth = [q \in Ports |-> shift[q].cnt]
      /\ \A q \in Ports : truth[q] # Unknown => shift[q].val = ClearDpadConflicts(truth[q])
  BY DEF PadInv, PadTypeOK, LatchOK
<1>3. \A c \in Nat : next(c) \in Nat
  OBVIOUS
<1> HIDE DEF next
<1>4. shift' = [shift EXCEPT ![p] = [val |-> shift[p].val, cnt |-> next(shift[p].cnt)]]
  <2>1. shift[p] \in [val : SUBSET Buttons, cnt : Nat]
    BY <1>2
  <2> DEFINE x == shift[p]
             r == [x EXCEPT !.cnt = next(@)]
  <2>2. shift' = [shift EXCEPT ![p] = r]
    BY <1>1, Zenon
  <2>3. r = [val |-> x.val, cnt |-> next(x.cnt)]
    <3> HIDE DEF x
    <3> QED BY <2>1 DEF x
  <2> HIDE DEF r
  <2> QED BY <2>2, <2>3, Zenon
<1>5. shift[p].val \in SUBSET Buttons /\ next(shift[p].cnt) \in Nat /\ nth[p] = shift[p].cnt
  BY <1>2, <1>3
<1>6. /\ shift' \in [Ports -> [val : SUBSET Buttons, cnt : Nat]] /\ nth' \in [Ports -> Nat]
      /\ \A q \in Ports : shift'[q].val = shift[q].val
  BY <1>1, <1>2, <1>4, <1>5
<1>7. nth' = [q \in Ports |-> shift'[q].cnt]
  BY <1>1, <1>2, <1>4, <1>5
<1>8. \A q \in Ports : truth[q] # Unknown => shift'[q].val = ClearDpadConflicts(truth[q])
  BY <1>2, <1>6, Zenon
<1> QED BY <1>1, <1>6, <1>7, <1>8, Zenon DEF PadInv, PadTypeOK, QueueOK, LegacyOK, LatchOK

LEMMA ReadPad ==
  ASSUME PadInv, PollEmpty \/ ReadKeys \/ ReadKeysLegacy
  PROVE  PadInv'
<1>1. CASE PollEmpty
  <2>1. Answer /\ UNCHANGED inputVars
    BY <1>1 DEF PollEmpty
  <2>2. UNCHANGED <<kitty, held, queue, state, ttl, lost>>
    BY <2>1 DEF inputVars
  <2>3. QueueOK' /\ LegacyOK'
    BY <2>2, Zenon DEF PadInv, QueueOK, LegacyOK
  <2>4. /\ queue' \in Seq(Events) /\ (~kitty => \A i \in DOMAIN queue' : queue'[i].key \in Keys)
        /\ state' \in [Ports -> SUBSET Buttons] /\ ttl' \in [Ports -> [Buttons -> Nat]]
    BY <2>2, Zenon DEF PadInv, PadTypeOK
  <2> QED BY <2>1, <2>2, <2>3, <2>4, AnswerPad
<1>2. CASE ReadKeys
  <2>1. Answer /\ ScanKitty /\ PadTypeOK /\ QueueOK
    BY <1>2 DEF ReadKeys, PadInv
  <2>2. kitty
    BY <1>2 DEF ReadKeys, PadInv, PadTypeOK
  <2>3. /\ state' \in [Ports -> SUBSET Buttons] /\ queue' \in Seq(Events) /\ QueueOK'
        /\ UNCHANGED <<kitty, ttl>> /\ (~lost' => held' = held)
    BY <2>1, <2>2, ScanPad
  <2>4. LegacyOK' /\ ttl' \in [Ports -> [Buttons -> Nat]]
    BY <2>1, <2>2, <2>3, Zenon DEF LegacyOK, PadTypeOK
  <2> QED BY <2>1, <2>2, <2>3, <2>4, AnswerPad
<1>3. CASE ReadKeysLegacy
  <2>1. Answer /\ ReadLegacy(Head(ask)) /\ ~kitty /\ PadTypeOK /\ LegacyOK
    BY <1>3 DEF ReadKeysLegacy, PadInv
  <2>2. /\ state' \in [Ports -> SUBSET Buttons] /\ ttl' \in [Ports -> [Buttons -> Nat]]
        /\ queue' \in Seq(Events) /\ \A i \in DOMAIN queue' : queue'[i].key \in Keys
        /\ LegacyOK' /\ UNCHANGED <<kitty, held>>
    BY <2>1, LegacyPad
  <2>3. QueueOK'
    BY <2>1, <2>2 DEF QueueOK
  <2> QED BY <2>1, <2>2, <2>3, AnswerPad
<1> QED BY <1>1, <1>2, <1>3

-----------------------------------------------------------------------------
(* The pads in the session. *)

LEMMA PadInit == SessionInit => PadInv
<1> SUFFICES ASSUME SessionInit PROVE PadInv
  OBVIOUS
<1>1. /\ kitty \in BOOLEAN /\ held = {} /\ queue = <<>> /\ step = "cpu"
      /\ state = [p \in Ports |-> {}]
      /\ ttl = [p \in Ports |-> [b \in Buttons |-> 0]]
      /\ shift = [p \in Ports |-> [val |-> {}, cnt |-> 0]]
      /\ nth = [p \in Ports |-> 0] /\ truth = [p \in Ports |-> {}]
  BY DEF SessionInit, ControllerInit, InputInit
<1>2. queue \in Seq(Events) /\ \A i \in DOMAIN queue : FALSE
  BY <1>1
<1>3. PadTypeOK
  BY <1>1, <1>2 DEF PadTypeOK
<1>4. QueueOK
  <2>1. \A p \in Ports, b \in Buttons :
          ~After(b \in state[p], queue, DOMAIN queue, p, b) /\ [port |-> p, button |-> b] \notin held
    BY <1>1, <1>2 DEF After
  <2> QED BY <2>1, Zenon DEF QueueOK
<1>5. LegacyOK
  BY <1>1 DEF LegacyOK
<1>6. LatchOK
  BY <1>1 DEF LatchOK, ClearDpadConflicts
<1> QED BY <1>3, <1>4, <1>5, <1>6 DEF PadInv

LEMMA ForgetPad ==
  ASSUME PadInv, Forget
  PROVE  PadInv'
<1>1. /\ kitty' \in BOOLEAN /\ held' = {} /\ queue' = <<>> /\ step' = "cpu"
      /\ state' = [p \in Ports |-> {}]
      /\ ttl' = [p \in Ports |-> [b \in Buttons |-> 0]]
      /\ shift' = [p \in Ports |-> [val |-> {}, cnt |-> 0]]
      /\ nth' = [p \in Ports |-> 0] /\ truth' = [p \in Ports |-> {}]
  BY DEF Forget, PadInv, PadTypeOK
<1>2. queue' \in Seq(Events) /\ \A i \in DOMAIN queue' : FALSE
  BY <1>1
<1>3. PadTypeOK'
  BY <1>1, <1>2 DEF PadTypeOK
<1>4. QueueOK'
  <2>1. \A p \in Ports, b \in Buttons :
          ~After(b \in state'[p], queue', DOMAIN queue', p, b) /\ [port |-> p, button |-> b] \notin held'
    BY <1>1, <1>2 DEF After
  <2> QED BY <2>1, Zenon DEF QueueOK
<1>5. LegacyOK'
  BY <1>1 DEF LegacyOK
<1>6. LatchOK'
  BY <1>1 DEF LatchOK, ClearDpadConflicts
<1> QED BY <1>3, <1>4, <1>5, <1>6 DEF PadInv

\* The timer handler drops what it reads, and says so.
LEMMA AlarmPad ==
  ASSUME PadInv, HandledAlarm
  PROVE  PadInv'
<1>1. UNCHANGED <<kitty, state, ttl, step, shift, nth, truth>>
  BY DEF HandledAlarm, TimerHandler, inputVars, padVars
<1>2. CASE TimerHandler
  <2>1. PICK n \in AlarmKeys, cut \in BOOLEAN : Leaves(n, cut)
    BY <1>2 DEF TimerHandler
  <2>2. kitty /\ lost' /\ queue \in Seq(Events) /\ n \in Nat \ {0}
    BY <1>2, InputConstants DEF TimerHandler, PadInv, PadTypeOK
  <2>3. queue' \in Seq(Events)
    BY <2>1, <2>2, LeavesIs
  <2>4. PadTypeOK'
    BY <1>1, <2>2, <2>3, Zenon DEF PadInv, PadTypeOK
  <2>5. QueueOK' /\ LegacyOK' /\ LatchOK'
    BY <1>1, <2>2, Zenon DEF PadInv, QueueOK, LegacyOK, LatchOK
  <2> QED BY <2>4, <2>5 DEF PadInv
<1>3. CASE UNCHANGED inputVars
  BY <1>1, <1>3, PadSame DEF inputVars
<1> QED BY <1>2, <1>3 DEF HandledAlarm

LEMMA PadStepInv == PadInv /\ [SessionNext]_allVars => PadInv'
<1> SUFFICES ASSUME PadInv, [SessionNext]_allVars
             PROVE  PadInv'
  OBVIOUS
<1>1. UNCHANGED vars => PadInv'
  BY PadSame DEF vars, inputVars, padVars
<1>2. CASE UNCHANGED allVars
  BY <1>1, <1>2 DEF allVars
<1>3. CASE MainStep
  <2>1. UNCHANGED vars
    BY <1>3 DEF MainStep, Acquire, CreateCanvas, ResetCanvas, InstallVideo, PpuMMapInit, AskKitty,
      PushFlags, InstallInput, StartTimer, StopTimer, PopFlags, Uninstall, VideoFree, Release,
      Signal, Step
  <2> QED BY <1>1, <2>1
<1>4. CASE LeaveLoop \/ UnhandledAlarm \/ RaiseInt \/ \E s \in Quits : Kill(s)
  BY <1>4, ForgetPad DEF LeaveLoop, UnhandledAlarm, RaiseInt, Kill
<1>5. CASE LoopStep
  <2>1. PadStep
    BY <1>5 DEF LoopStep
  <2> QED BY <2>1, CpuPad, ShiftPad, ReadPad, TerminalPad DEF PadStep
<1>6. CASE HandledAlarm
  BY <1>6, AlarmPad
<1>7. CASE handle_signal \/ InputSignalHandler
  BY <1>1, <1>7 DEF handle_signal, InputSignalHandler, InHandlerUnchanged
<1> QED
  BY <1>2, <1>3, <1>4, <1>5, <1>6, <1>7 DEF SessionNext, HandlerStep

\* The inductive invariant of the pads: what is held is the state with the queue applied,
\* and what a pad shifts out is what was held when it was latched.
THEOREM PadInvariant == SessionSpec => []PadInv
BY PadInit, PadStepInv, PTL DEF SessionSpec

\* What a program reads are the buttons that were held when it let the strobe go, one by
\* one in the order of the bits and ones after the last, however the keys, the reads and
\* the timer follow each other (controller.c 58-107, input/vt_backend.c 46-208).
THEOREM ReportTheorem == SessionSpec => []ReportIsHeld
<1>1. PadInv => ReportIsHeld
  <2> SUFFICES ASSUME PadInv PROVE ReportIsHeld
    OBVIOUS
  <2>1. ASSUME NEW p \in Ports PROVE state[p] \subseteq Buttons
    BY DEF PadInv, PadTypeOK
  <2>2. ASSUME ~kitty, NEW p \in Ports
        PROVE  state[p] = {b \in Buttons : ttl[p][b] > 0}
    <3>1. \A b \in Buttons : b \in state[p] <=> ttl[p][b] > 0
      BY <2>2, Zenon DEF PadInv, LegacyOK
    <3> QED BY <2>1, <3>1
  <2>3. ASSUME kitty, ~lost, queue = <<>>, NEW p \in Ports
        PROVE  state[p] = HeldOn(p)
    <3>1. \A i \in DOMAIN queue : FALSE
      BY <2>3
    <3>2. \A b \in Buttons : [port |-> p, button |-> b] \in held <=> b \in state[p]
      BY <2>3, <3>1, Zenon DEF PadInv, QueueOK, After
    <3> QED BY <2>1, <3>2 DEF HeldOn
  <2>4. ASSUME NEW p \in Ports, truth[p] # Unknown
        PROVE  Bit(p) = (nth[p] = NumButtons \/ Order[nth[p] + 1] \in ClearDpadConflicts(truth[p]))
    <3>1. nth[p] = shift[p].cnt /\ shift[p].val = ClearDpadConflicts(truth[p])
      BY <2>4 DEF PadInv, LatchOK
    <3> DEFINE n == nth[p]
               next == Order[n + 1]
    <3>2. Bit(p) = IF n = NumButtons THEN TRUE ELSE next \in shift[p].val
      BY <3>1, Zenon DEF Bit
    <3> HIDE DEF n, next
    <3>3. Bit(p) = (n = NumButtons \/ next \in ClearDpadConflicts(truth[p]))
      <4> DEFINE x == Bit(p)
                 a == n = NumButtons
                 u == next \in ClearDpadConflicts(truth[p])
      <4>1. a \in BOOLEAN /\ u \in BOOLEAN /\ x = IF a THEN TRUE ELSE u
        <5>1. a \in BOOLEAN /\ u \in BOOLEAN
          OBVIOUS
        <5>2. x = IF a THEN TRUE ELSE u
          BY <3>1, <3>2, Zenon
        <5> QED BY <5>1, <5>2
      <4> HIDE DEF x, a, u
      <4>2. x = (a \/ u)
        BY <4>1
      <4> QED BY <4>2, Zenon DEF x, a, u
    <3> QED BY <3>3 DEF n, next
  <2> QED BY <2>2, <2>3, <2>4 DEF ReportIsHeld
<1> QED
  BY <1>1, PadInvariant, PTL
=============================================================================
