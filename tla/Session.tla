------------------------------- MODULE Session -------------------------------
(***************************************************************************)
(* The program from main to its end in a terminal: main.c acquires the     *)
(* parts of the console one after the other and releases them in reverse;  *)
(* VideoInit of video/vt_backend.c takes the terminal, InputInit of        *)
(* input/vt_backend.c changes its keyboard, and both leave handlers of     *)
(* SIGINT and SIGTERM behind that undo this and pass the signal on.  While *)
(* CpuMainLoop runs, the steps are those of Controller; Ctrl-C is a key    *)
(* that raises SIGINT.                                                     *)
(*                                                                         *)
(* A signal may come between any two calls.  signal is that of BSD, which  *)
(* blocks a signal while it is handled, or that of System V, which resets  *)
(* its handler first (sysv; glibc's under --std=c11).  Once a handler of   *)
(* SIGINT or SIGTERM has begun or the loop has ended, the pads matter no   *)
(* more, and the model forgets them.                                       *)
(***************************************************************************)
EXTENDS Controller

CONSTANT MaxSignals   \* bound: SIGINT and SIGTERM from outside

ASSUME SessionConstants == MaxSignals \in Nat

VARIABLES
  sysv,      \* which signal function the program is linked with
  place,     \* the next call of main, VideoInit, InputInit, InputFree or VideoFree
  rest,      \* in the unwinding of main: what is still to be released
  owned,     \* what main has acquired
  raw,       \* the terminal is in raw mode and shows the alternate screen
  flags,     \* keyboard flags on the stack of the alternate screen
  vt,        \* video->vt: "null", "open", or "stale" when closed but not yet NULL
  handler,   \* what signal has installed
  orig,      \* origInt and origTerm
  armed,     \* the interval timer runs
  frames,    \* the handlers that run, the innermost last: [sig, by, step]
  ended,     \* "no", "returned" from main, "exit" or "killed"
  signals,   \* history: signals from outside so far
  closes,    \* history: calls of vtr_close
  excused    \* history: what came at a moment the program is not prepared for

progVars == <<place, rest, owned, orig, armed>>
termVars == <<raw, flags, vt, closes>>
sigVars == <<handler, frames, ended>>
sessionVars == <<sysv, progVars, termVars, sigVars, signals, excused>>
allVars == <<vars, sessionVars>>

Quits == {"INT", "TERM"}
Main == <<"rom", "mapper", "cpu", "apu", "ppu">>   \* in the order they are acquired

SessionInit ==
  /\ ControllerInit
  /\ sysv \in BOOLEAN
  /\ place = "rom" /\ rest = <<>> /\ owned = {}
  /\ raw = FALSE /\ flags = 0 /\ vt = "null" /\ closes = 0
  /\ handler = [s \in Quits \cup {"ALRM"} |-> "default"]
  /\ orig = [s \in Quits |-> "default"] /\ armed = FALSE
  /\ frames = <<>> /\ ended = "no"
  /\ signals = 0 /\ excused = {}

Forget ==
  /\ state' = [p \in Ports |-> {}] /\ ttl' = [p \in Ports |-> [b \in Buttons |-> 0]]
  /\ held' = {} /\ queue' = <<>> /\ lost' = FALSE
  /\ shift' = [p \in Ports |-> [val |-> {}, cnt |-> 0]] /\ strobe' = FALSE
  /\ step' = "cpu" /\ ask' = <<>> /\ latching' = FALSE
  /\ nth' = [p \in Ports |-> 0] /\ truth' = [p \in Ports |-> {}]
  /\ UNCHANGED <<kitty, alive>>

-----------------------------------------------------------------------------
(* The main program, call by call. *)

InMain(p) == ended = "no" /\ frames = <<>> /\ place = p

Step(from, to) == InMain(from) /\ place' = to /\ UNCHANGED <<vars, sysv, signals>>

\* Faulty: the label after the right one.
BelowTooFew(i) == Reverse(SubSeq(Main, 1, i - 2))

\* goto fail: everything acquired before part i is released, the last one first.
Below(i) == Reverse(SubSeq(Main, 1, i - 1))

Unwind(i) == rest' = Below(i) /\ UNCHANGED owned

\* LoadRomFile, MapperInit, CpuInit (which cannot fail) and ApuInit.
Acquire(i, next) ==
  LET part == Main[i]
  IN \/ Step(part, next) /\ owned' = owned \cup {part}
        /\ UNCHANGED <<rest, orig, armed, termVars, sigVars, excused>>
     \/ part # "cpu" /\ Step(part, "free") /\ Unwind(i)
        /\ UNCHANGED <<orig, armed, termVars, sigVars, excused>>

\* VideoInit within PpuInit; a canvas whose reset fails is closed again.
CreateCanvas ==
  \/ Step("create", "reset") /\ vt' = "open"
     /\ UNCHANGED <<rest, owned, orig, armed, raw, flags, closes, sigVars, excused>>
  \/ Step("create", "free") /\ Unwind(5)
     /\ UNCHANGED <<orig, armed, termVars, sigVars, excused>>
ResetCanvas ==
  \/ Step("reset", "sigint") /\ raw' = TRUE
     /\ UNCHANGED <<rest, owned, orig, armed, flags, vt, closes, sigVars, excused>>
  \/ Step("reset", "free") /\ Unwind(5)
     /\ raw' = FALSE /\ vt' = "null" /\ closes' = closes + 1
     /\ UNCHANGED <<orig, armed, flags, sigVars, excused>>

\* signal(s, h).
Signal(from, to, s, h) ==
  /\ Step(from, to)
  /\ handler' = [handler EXCEPT ![s] = h]
  /\ UNCHANGED <<rest, owned, armed, termVars, frames, ended, excused>>
InstallVideo ==
  /\ Signal("sigint", "sigterm", "INT", "video") \/ Signal("sigterm", "mem", "TERM", "video")
  /\ UNCHANGED orig

\* PpuMMapInit allocates; without memory the program exits as it is.
PpuMMapInit ==
  \/ Step("mem", "ask") /\ owned' = owned \cup {"ppu"}
     /\ UNCHANGED <<rest, orig, armed, termVars, sigVars, excused>>
  \/ Step("mem", "mem") /\ ended' = "exit" /\ excused' = excused \cup {"memory"}
     /\ UNCHANGED <<progVars, termVars, handler, frames>>

\* InputInit: with the Kitty protocol the keyboard flags, then the handlers.
AskKitty ==
  /\ Step("ask", IF kitty THEN "push" ELSE "loop")
  /\ UNCHANGED <<rest, owned, orig, armed, termVars, sigVars, excused>>
PushFlags ==
  /\ Step("push", "origint") /\ flags' = flags + 1
  /\ UNCHANGED <<rest, owned, orig, armed, raw, vt, closes, sigVars, excused>>
InstallInput ==
  \/ /\ Signal("origint", "origterm", "INT", "input")
     /\ orig' = [orig EXCEPT !["INT"] = handler["INT"]]
  \/ /\ Signal("origterm", "alarm", "TERM", "input")
     /\ orig' = [orig EXCEPT !["TERM"] = handler["TERM"]]
  \/ Signal("alarm", "timer", "ALRM", "timer") /\ UNCHANGED orig
StartTimer ==
  /\ Step("timer", "loop") /\ armed' = TRUE
  /\ UNCHANGED <<rest, owned, orig, termVars, sigVars, excused>>

\* CpuMainLoop returns at an invalid opcode.
LeaveLoop ==
  /\ InMain("loop") /\ alive /\ place' = IF kitty THEN "stop" ELSE "dflint"
  /\ Forget
  /\ UNCHANGED <<sysv, signals, rest, owned, orig, armed, termVars, sigVars, excused>>

\* InputFree.
StopTimer ==
  /\ Step("stop", "dflalarm") /\ armed' = FALSE
  /\ UNCHANGED <<rest, owned, orig, termVars, sigVars, excused>>
PopFlags ==
  /\ Step("pop", "backint") /\ flags' = flags - 1
  /\ UNCHANGED <<rest, owned, orig, armed, raw, vt, closes, sigVars, excused>>
Uninstall ==
  /\ \/ Signal("dflalarm", "pop", "ALRM", "default")
     \/ Signal("backint", "backterm", "INT", orig["INT"])
     \/ Signal("backterm", "dflint", "TERM", orig["TERM"])
     \/ Signal("dflint", "dflterm", "INT", "default")      \* VideoFree
     \/ Signal("dflterm", "close", "TERM", "default")
  /\ UNCHANGED orig
VideoFree ==
  /\ Step("close", "free") /\ Unwind(6)
  /\ IF vt = "open"
       THEN raw' = FALSE /\ vt' = "null" /\ closes' = closes + 1
       ELSE UNCHANGED <<raw, vt, closes>>
  /\ UNCHANGED <<orig, armed, flags, sigVars, excused>>

\* PpuFree, ApuFree, CpuFree, MapperFree, UnloadRomFile, and the return.
Release ==
  /\ Step("free", "free")
  /\ IF rest # <<>>
       THEN rest' = Tail(rest) /\ owned' = owned \ {Head(rest)} /\ UNCHANGED ended
       ELSE ended' = "returned" /\ UNCHANGED <<rest, owned>>
  /\ UNCHANGED <<orig, armed, termVars, handler, frames, excused>>

MainStep ==
  \/ \E i \in 1..4 : Acquire(i, IF i = 4 THEN "create" ELSE Main[i + 1])
  \/ CreateCanvas \/ ResetCanvas \/ InstallVideo \/ PpuMMapInit
  \/ AskKitty \/ PushFlags \/ InstallInput \/ StartTimer
  \/ StopTimer \/ PopFlags \/ Uninstall \/ VideoFree \/ Release

-----------------------------------------------------------------------------
(* Signals. *)

Blocked == IF sysv THEN {} ELSE {frames[i].sig : i \in DOMAIN frames}

\* A signal is delivered on top of the handlers that run.
Take(sig, running, set) ==
  IF set[sig] = "default"
    THEN ended' = "killed" /\ frames' = running /\ handler' = set
    ELSE /\ frames' = Append(running, [sig |-> sig, by |-> set[sig], step |-> 1])
         /\ handler' = IF sysv THEN [set EXCEPT ![sig] = "default"] ELSE set
         /\ UNCHANGED ended

\* The moments the program is not prepared for: between what it changes in the
\* terminal and the handler that would undo it (signal returns the older handler, which
\* is stored only after it), and the same on the way out.
Windows ==
  [INT  |-> {"sigint", "origint", "dflterm", "close"},
   TERM |-> {"sigint", "sigterm", "origint", "origterm", "close"}]

\* A signal from outside.
Kill(sig) ==
  /\ ended = "no" /\ signals < MaxSignals
  /\ signals' = signals + 1
  /\ excused' = excused \cup
       (IF frames # <<>> THEN {"nested"} ELSE IF place \in Windows[sig] THEN {"window"} ELSE {})
  /\ IF sig \in Blocked
       THEN UNCHANGED <<handler, frames, ended>>   \* it merges with the one that is raised again
       ELSE Take(sig, frames, handler)
  /\ Forget
  /\ UNCHANGED <<sysv, progVars, termVars>>

Innermost == frames[Len(frames)]
Outer == SubSeq(frames, 1, Len(frames) - 1)
Proceed == [frames EXCEPT ![Len(frames)].step = @ + 1]

\* raise, from the handler itself; a blocked signal waits for its return.
Raise(set) == Take(Innermost.sig, IF sysv THEN frames ELSE Outer, set)

InHandler(by, n) == ended = "no" /\ frames # <<>> /\ Innermost.by = by /\ Innermost.step = n
InHandlerUnchanged == UNCHANGED <<vars, sysv, progVars, signals, excused>>

\* handle_signal of the video backend.
handle_signal ==
  /\ \/ /\ InHandler("video", 1)
        /\ IF vt # "null"
             THEN raw' = FALSE /\ vt' = "stale" /\ closes' = closes + 1
             ELSE UNCHANGED <<raw, vt, closes>>
        /\ frames' = Proceed /\ UNCHANGED <<flags, handler, ended>>
     \/ /\ InHandler("video", 2)
        /\ vt' = "null"
        /\ frames' = Proceed /\ UNCHANGED <<raw, flags, closes, handler, ended>>
     \/ /\ InHandler("video", 3)
        /\ Raise([handler EXCEPT ![Innermost.sig] = "default"])
        /\ UNCHANGED termVars
  /\ InHandlerUnchanged

\* Faulty: the signal is raised again with the handler it had before main.
PassOnDefault(sig) == "default"

\* signal(signo, origInt or origTerm).
PassOn(sig) == orig[sig]

\* InputSignalHandler: the flags are popped from the screen that is shown.
InputSignalHandler ==
  /\ \/ /\ InHandler("input", 1)
        /\ flags' = IF raw /\ flags > 0 THEN flags - 1 ELSE flags
        /\ frames' = Proceed /\ UNCHANGED <<raw, vt, closes, handler, ended>>
     \/ /\ InHandler("input", 2)
        /\ Raise([handler EXCEPT ![Innermost.sig] = PassOn(Innermost.sig)])
        /\ UNCHANGED termVars
  /\ InHandlerUnchanged

\* SIGALRM with its handler: TimerHandler, one step, in the loop.
HandledAlarm ==
  /\ InMain("loop") /\ alive /\ armed /\ handler["ALRM"] = "timer"
  /\ TimerHandler \/ (queue = <<>> /\ UNCHANGED inputVars)
  /\ handler' = IF sysv THEN [handler EXCEPT !["ALRM"] = "default"] ELSE handler
  /\ UNCHANGED <<padVars, sysv, progVars, termVars, frames, ended, signals, excused>>

\* The second SIGALRM finds no handler where signal is that of System V.
UnhandledAlarm ==
  /\ ended = "no" /\ armed /\ handler["ALRM"] = "default"
  /\ ended' = "killed" /\ excused' = excused \cup {"alarm"}
  /\ Forget
  /\ UNCHANGED <<sysv, progVars, termVars, handler, frames, signals>>

\* CpuMainLoop goes on.
LoopStep == InMain("loop") /\ PadStep /\ UNCHANGED sessionVars
LoopRead == InMain("loop") /\ ReadKeys /\ UNCHANGED sessionVars

\* raise(SIGINT), for a Ctrl-C that InputRead or TimerHandler has found.
RaiseInt ==
  /\ InMain("loop") /\ ~alive
  /\ Take("INT", frames, handler)
  /\ Forget
  /\ UNCHANGED <<sysv, progVars, termVars, signals, excused>>

HandlerStep == RaiseInt \/ handle_signal \/ InputSignalHandler

SessionNext ==
  \/ MainStep \/ LeaveLoop
  \/ LoopStep \/ HandledAlarm \/ UnhandledAlarm
  \/ HandlerStep
  \/ \E s \in Quits : Kill(s)

\* The program runs: its calls and handlers end, and in the loop it reads the keys or
\* the interval timer goes off.
Runs ==
  \/ frames # <<>> /\ (handle_signal \/ InputSignalHandler)
  \/ frames = <<>> /\ place = "loop" /\ (LoopRead \/ HandledAlarm \/ RaiseInt)
  \/ frames = <<>> /\ place # "loop" /\ MainStep
  \/ UnhandledAlarm

SessionSpec == SessionInit /\ [][SessionNext]_allVars /\ WF_allVars(Runs)

-----------------------------------------------------------------------------
\* However the program ends, the terminal is as it was: in its own mode, on its own
\* screen, without keyboard flags.  Excepted are signals at the moments Windows names
\* and in the middle of a handler, memory running out, and a second SIGALRM where
\* signal is that of System V (video/vt_backend.c 82-145, input/vt_backend.c 213-270).
TerminalRestored == ended # "no" /\ excused = {} => ~raw /\ flags = 0

\* Whichever part fails, what the program holds is what it acquired first; it returns
\* with nothing; and the canvas, which the handler, PpuInit and VideoFree may close, is
\* closed once, unless a signal interrupts the handler itself (main.c 74-113).
ReleasedOnce ==
  /\ owned = ToSet(SubSeq(Main, 1, Cardinality(owned)))
  /\ ended = "returned" => owned = {} /\ vt = "null"
  /\ closes <= (IF "nested" \in excused THEN 2 ELSE 1)

\* Ctrl-C, as a key of the Kitty protocol, ends the program whether it reads its input
\* or not, once it is the next key to be read.  Behind other keys it may be lost: to a
\* read that cuts it, or to ScanKitty behind the sequence of an unbound key in the same
\* read (input/vt_backend.c 64-70, 108-114 and 137-152).
QuitIsHonoured ==
  (place = "loop" /\ kitty /\ queue # <<>> /\ Head(queue).key = Quit) ~> ended # "no"
=============================================================================
