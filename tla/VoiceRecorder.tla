--------------------------- MODULE VoiceRecorder ---------------------------
(***************************************************************************)
(* Recording one utterance in the browser: the hook useVoiceRecorder and   *)
(* the button that sends what was recorded (VoiceFormFillButton).  Opening *)
(* the microphone takes two awaits, the permission and the headset's       *)
(* settling; a press, an unmount or a timer may fall into either.          *)
(***************************************************************************)
EXTENDS Naturals, Sequences

CONSTANTS NoStream,    \* no number
          MaxPresses   \* bound: recordings ever started

VARIABLES
    mounted,
    latch,      \* startingRef
    starting,   \* the startRecording calls under way: their stage
    live,       \* the media streams whose tracks are not stopped
    ref,        \* streamRef
    recorder,   \* the MediaRecorder: "inactive", "recording" or "flushing"
    status,     \* what the page shows
    filling     \* the fill mutation is pending

vars == <<mounted, latch, starting, live, ref, recorder, status, filling>>

\* Streams are numbered by the call that asked for them.
Call == DOMAIN starting
Underway(c) == starting[c] # "over"
At(c, stage) == starting' = [starting EXCEPT ![c] = stage]

Init ==
    /\ mounted = TRUE /\ latch = FALSE /\ starting = <<>>
    /\ live = {} /\ ref = NoStream
    /\ recorder = "inactive" /\ status = "idle" /\ filling = FALSE

Busy == latch \/ recorder = "recording"

\* Speak, or the headset's button: shown, and bound, while nothing is going on.
Press ==
    /\ mounted /\ status = "idle" /\ ~filling
    /\ Len(starting) < MaxPresses
    /\ ~Busy
    /\ latch' = TRUE
    /\ starting' = Append(starting, "asking")
    /\ UNCHANGED <<mounted, live, ref, recorder, status, filling>>

Denied(c) ==
    /\ starting[c] = "asking"
    /\ At(c, "over") /\ latch' = FALSE
    /\ UNCHANGED <<mounted, live, ref, recorder, status, filling>>

\* The microphone opens; after an unmount its tracks are stopped on the spot.
Granted(c) ==
    /\ starting[c] = "asking"
    /\ IF mounted
       THEN At(c, "settling") /\ live' = live \cup {c} /\ ref' = c /\ latch' = latch
       ELSE At(c, "over") /\ latch' = FALSE /\ UNCHANGED <<live, ref>>
    /\ UNCHANGED <<mounted, recorder, status, filling>>

Released == live' = live \ {ref} /\ ref' = NoStream

Settled(c) ==
    /\ starting[c] = "settling"
    /\ At(c, "over") /\ latch' = FALSE
    /\ IF mounted
       THEN recorder' = "recording" /\ status' = "recording" /\ UNCHANGED <<live, ref>>
       ELSE Released /\ UNCHANGED <<recorder, status>>
    /\ UNCHANGED <<mounted, filling>>

\* The Stop button, the silence gate or the longest duration.
Stop ==
    /\ mounted /\ recorder = "recording"
    /\ recorder' = "flushing" /\ status' = "processing"
    /\ UNCHANGED <<mounted, latch, starting, live, ref, filling>>

\* onstop: the stream is released, the audio read and sent.
Flushed ==
    /\ recorder = "flushing"
    /\ recorder' = "inactive"
    /\ Released
    /\ IF mounted THEN status' = "idle" /\ filling' = TRUE ELSE UNCHANGED <<status, filling>>
    /\ UNCHANGED <<mounted, latch, starting>>

\* The fill is answered: clearAudio, also on the way to a new recording.
Filled ==
    /\ filling /\ filling' = FALSE
    /\ status' \in {"idle", status}
    /\ UNCHANGED <<mounted, latch, starting, live, ref, recorder>>

Unmount ==
    /\ mounted /\ mounted' = FALSE
    /\ recorder' = IF recorder = "recording" THEN "inactive" ELSE recorder
    /\ Released
    /\ UNCHANGED <<latch, starting, status, filling>>

Next ==
    \/ Press \/ Stop \/ Flushed \/ Filled \/ Unmount
    \/ \E c \in Call : Denied(c) \/ Granted(c) \/ Settled(c)

Spec == Init /\ [][Next]_vars

(***************************************************************************)
(* Every open microphone is the one the hook will close, and none is left  *)
(* open once nothing records: presses in a row, an unmount during either   *)
(* await or during the flush (useVoiceRecorder.ts:134-213, 228-246).       *)
(***************************************************************************)
MicIsReleased ==
    /\ live \subseteq {ref}
    /\ (\A c \in Call : ~Underway(c)) /\ recorder = "inactive" => live = {}
-----------------------------------------------------------------------------
(* The inductive invariant of this property.                               *)

TypeOK ==
  /\ mounted \in BOOLEAN /\ latch \in BOOLEAN /\ filling \in BOOLEAN
  /\ starting \in Seq({"asking", "settling", "over"})
  /\ recorder \in {"inactive", "recording", "flushing"}
  /\ status \in {"idle", "recording", "processing"}

\* The latch lets one call at a time open the microphone.
OneCall ==
  /\ \A c \in Call : Underway(c) => latch
  /\ \A c, d \in Call : Underway(c) /\ Underway(d) => c = d

\* On a page that is there, one thing goes on at a time.
OneThing ==
  mounted =>
    /\ recorder = "recording" => status = "recording" /\ ~filling
    /\ recorder = "flushing" => status = "processing" /\ ~filling
    /\ \A c \in Call : Underway(c) => recorder = "inactive" /\ status = "idle" /\ ~filling

\* An open microphone is needed, and the hook knows it.
OpenIsNeeded ==
  /\ live \subseteq {ref}
  /\ live # {} => mounted /\ (recorder # "inactive" \/ \E c \in Call : starting[c] = "settling")

IInv == TypeOK /\ OneCall /\ OneThing /\ OpenIsNeeded
=============================================================================
