-------------------------------- MODULE Sound --------------------------------
(***************************************************************************)
(* The way of a sample: ApuTicksExecute of ApuTone calls AudioPushSample   *)
(* of the back end from within its loop, and goes on when that returns.    *)
(* So the emulator is paced by the audio thread of CoreAudio, or by the    *)
(* player behind the pipe of PipeAudio.  The RateLimiter of the other      *)
(* systems is checked on its own, for samples that come at any time; and   *)
(* so are the channels under writes and clocks, for an output that takes   *)
(* every sample at once: how the others pace them does not depend on what  *)
(* is played.                                                              *)
(***************************************************************************)
EXTENDS ApuTone, CoreAudio, PipeAudio, RateLimiter

VARIABLE backend   \* AUDIO_BACKEND: "coreaudio", "pipe", "limited", or "direct"

outputs == <<audioVars, pipeVars>>
soundVars == <<toneVars, outputs, rateVars, backend>>

SoundInit ==
  /\ ToneInit /\ AudioInit /\ PipeInit /\ RateInit
  /\ backend \in {"coreaudio", "pipe", "limited", "direct"}
  /\ backend # "direct" => tone = PowerUp

SampleDue(n) == tone.clock + SampleRate * n >= ClockRate

PushSample ==
  \/ backend = "coreaudio" /\ AudioPushSample /\ UNCHANGED pipeVars
  \/ backend = "pipe" /\ PipePushSample /\ UNCHANGED audioVars
  \/ backend = "direct" /\ UNCHANGED outputs

Idle == backend # "limited" /\ call = "idle" /\ pipeCall = "idle"

\* An iteration of the loop of ApuTicksExecute, up to the push.
SoundStep(n) ==
  /\ Idle
  /\ ToneStep(n)
  /\ backend # "direct" => events' = events
  /\ IF SampleDue(n) THEN PushSample ELSE UNCHANGED outputs

\* What the emulator does between two calls of ApuTicksExecute.
Emulate ==
  /\ Idle
  /\ \/ \E n \in ToneBatches : ToneTicks(n)
     \/ backend = "direct" /\ ToneWrite
  /\ UNCHANGED outputs

\* The rest of AudioPushSample, and the other side of it.
Push ==
  /\ \/ (SemaphoreWait \/ StoreSample) /\ UNCHANGED pipeVars
     \/ (PipeWrite \/ WriteInterrupted) /\ UNCHANGED audioVars
  /\ UNCHANGED toneVars

Play ==
  /\ \/ AQOutputCallback /\ UNCHANGED pipeVars
     \/ backend = "pipe" /\ PlayerPlays /\ UNCHANGED audioVars
  /\ UNCHANGED toneVars

Die == backend = "pipe" /\ PlayerDies /\ UNCHANGED <<toneVars, audioVars>>

Limit == backend = "limited" /\ AudioRateLimiterTick /\ UNCHANGED <<toneVars, outputs>>

SoundNext ==
  /\ \/ \E n \in StepLengths : SoundStep(n)
     \/ Emulate
     \/ Push
     \/ Play
     \/ Die
  /\ UNCHANGED <<rateVars, backend>>

LimiterNext == Limit /\ UNCHANGED backend

\* Both sides run: a call that can go on does, and the device, or the player while it
\* lives, plays what it has been given.  No signal is needed to end a write.
PushEnds == ((SemaphoreWait \/ StoreSample) /\ UNCHANGED pipeVars) \/ (PipeWrite /\ UNCHANGED audioVars)
SoundSpec ==
  /\ SoundInit /\ [][SoundNext \/ LimiterNext]_soundVars
  /\ WF_soundVars(PushEnds /\ UNCHANGED <<toneVars, rateVars, backend>>)
  /\ WF_soundVars(Play /\ UNCHANGED <<rateVars, backend>>)

-----------------------------------------------------------------------------
\* AudioPushSample returns: the emulator waits for the audio thread, never for a
\* token that nobody will signal, and for the player, never for one that is gone
\* (coreaudio_backend.c 30-61, pipe_backend.c 62 and 117-135).  This takes fewer failed
\* enqueues than there are buffers: each loses its token.
PushReturns == call # "idle" \/ pipeCall # "idle" ~> call = "idle" /\ pipeCall = "idle"
=============================================================================
