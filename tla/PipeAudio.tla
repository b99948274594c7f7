------------------------------ MODULE PipeAudio ------------------------------
(***************************************************************************)
(* audio/pipe_backend.c: samples are collected into batches and written    *)
(* to the pipe of a player process, which plays them at its own speed and  *)
(* may die.  A write waits while the pipe is full; that paces the          *)
(* emulator.  The values of the samples, the fade-in among them, are left  *)
(* out; the player and what it has read ahead are part of the pipe.        *)
(***************************************************************************)
EXTENDS Integers

CONSTANTS
  SampleBatch,   \* SAMPLE_BATCH_SIZE
  PipeBatches    \* batches that the pipe and the player hold

ASSUME PipeConstants == {SampleBatch, PipeBatches} \subseteq Nat \ {0}

VARIABLES
  pipeCall,   \* "idle", or "write": AudioPushSample is in its write
  batchPos,   \* audio->batchPos
  piped,      \* batches written and not yet played
  player      \* the process that plays them runs

pipeVars == <<pipeCall, batchPos, piped, player>>

PipeInit ==
  /\ pipeCall = "idle" /\ batchPos = 0 /\ piped = 0
  /\ player = TRUE

PipePushSample ==
  /\ pipeCall = "idle"
  /\ batchPos' = batchPos + 1
  /\ pipeCall' = IF batchPos + 1 = SampleBatch THEN "write" ELSE "idle"
  /\ UNCHANGED <<piped, player>>

Written(n) ==
  /\ piped' = n
  /\ pipeCall' = "idle" /\ batchPos' = 0
  /\ UNCHANGED player

\* Faulty: a write that fails is tried again.
PipeWriteRetried ==
  /\ pipeCall = "write"
  /\ \/ player /\ piped < PipeBatches /\ Written(piped + 1)
     \/ ~player /\ UNCHANGED pipeVars

\* The write: all of the batch when there is room for it; nothing when the player has
\* gone, as SIGPIPE is ignored.
PipeWrite ==
  /\ pipeCall = "write"
  /\ \/ player /\ piped < PipeBatches /\ Written(piped + 1)
     \/ ~player /\ Written(piped)

\* SIGALRM ends a write that waits, and the batch is lost.
WriteInterrupted ==
  /\ pipeCall = "write" /\ player /\ piped = PipeBatches
  /\ Written(piped)

PlayerPlays ==
  /\ player /\ piped > 0
  /\ piped' = piped - 1
  /\ UNCHANGED <<pipeCall, batchPos, player>>

PlayerDies ==
  /\ player
  /\ player' = FALSE /\ piped' = 0
  /\ UNCHANGED <<pipeCall, batchPos>>

PipeSpec ==
  PipeInit /\ [][\/ PipePushSample \/ PipeWrite \/ WriteInterrupted
                 \/ PlayerPlays \/ PlayerDies]_pipeVars
=============================================================================
