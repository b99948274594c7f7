------------------------------ MODULE CoreAudio ------------------------------
(***************************************************************************)
(* audio/coreaudio_backend.c: the emulator thread fills two buffers in     *)
(* turn and enqueues each when it is full; the audio queue plays them in   *)
(* order on a thread of its own and calls back when it is done with one.   *)
(* A semaphore counts the buffers the emulator may fill.                   *)
(***************************************************************************)
EXTENDS Integers, Sequences

CONSTANTS
  BufSamples,     \* AQ_BUF_SAMPLES
  MaxFailures     \* bound: calls of AudioQueueEnqueueBuffer that fail

ASSUME AudioConstants == BufSamples \in Nat \ {0} /\ MaxFailures \in Nat

VARIABLES
  call,       \* where AudioPushSample is
  tokens,     \* audio->sem
  writeIdx,   \* audio->writeIdx
  writePos,   \* audio->writePos
  queued,     \* the buffers the audio queue has, the one it plays first
  failures    \* history: enqueues that failed

audioVars == <<call, tokens, writeIdx, writePos, queued, failures>>

NumBufs == 2

AudioInit ==
  /\ call = "idle"
  /\ tokens = NumBufs
  /\ writeIdx = 0 /\ writePos = 0
  /\ queued = <<>>
  /\ failures = 0

\* AudioPushSample is called; the first sample of a buffer has to wait for it.
AudioPushSample ==
  /\ call = "idle"
  /\ call' = IF writePos = 0 THEN "wait" ELSE "store"
  /\ UNCHANGED <<tokens, writeIdx, writePos, queued, failures>>

\* Faulty: the buffer is taken without its token.
SemaphoreWaitSkipped ==
  /\ call = "wait"
  /\ tokens' = IF tokens > 0 THEN tokens - 1 ELSE 0
  /\ call' = "store"
  /\ UNCHANGED <<writeIdx, writePos, queued, failures>>

SemaphoreWait ==
  /\ call = "wait" /\ tokens > 0
  /\ tokens' = tokens - 1
  /\ call' = "store"
  /\ UNCHANGED <<writeIdx, writePos, queued, failures>>

\* A sample goes into the buffer; a full buffer is enqueued, which may fail, and the
\* other one is next.
StoreSample ==
  /\ call = "store"
  /\ call' = "idle"
  /\ IF writePos + 1 < BufSamples
       THEN writePos' = writePos + 1 /\ UNCHANGED <<writeIdx, queued, failures>>
       ELSE /\ writePos' = 0 /\ writeIdx' = 1 - writeIdx
            /\ \/ queued' = Append(queued, writeIdx) /\ UNCHANGED failures
               \/ /\ failures < MaxFailures
                  /\ failures' = failures + 1
                  /\ UNCHANGED queued
  /\ UNCHANGED tokens

\* AQOutputCallback: the queue is done with its first buffer.
AQOutputCallback ==
  /\ queued # <<>>
  /\ queued' = Tail(queued)
  /\ tokens' = tokens + 1
  /\ UNCHANGED <<call, writeIdx, writePos, failures>>

AudioNext ==
  \/ AudioPushSample
  \/ SemaphoreWait
  \/ StoreSample
  \/ AQOutputCallback

AudioSpec == AudioInit /\ [][AudioNext]_audioVars

-----------------------------------------------------------------------------
AudioTypeOK ==
  /\ call \in {"idle", "wait", "store"}
  /\ tokens \in 0..NumBufs
  /\ writeIdx \in {0, 1} /\ writePos \in 0..(BufSamples - 1)
  /\ queued \in Seq({0, 1}) /\ Len(queued) <= NumBufs
  /\ failures \in 0..MaxFailures

\* The emulator never writes into a buffer that the audio thread may be playing
\* (coreaudio_backend.c 30-61).
BufferIsFree ==
  call = "store" => \A i \in DOMAIN queued : queued[i] # writeIdx
=============================================================================
