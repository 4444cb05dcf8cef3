---------------------------- MODULE SpeakerShare ----------------------------
(***************************************************************************)
(* The loudspeaker: "speaker stream" processes for stored clips, speech    *)
(* and go2rtc (speaker.c) and the talkback sinks in the event loop of the  *)
(* RTSP server (Speaker.cpp, PCMFileSink.cpp) share one named semaphore,   *)
(* one amplifier switch and one FIFO that the vendor's rmm reads.          *)
(***************************************************************************)
EXTENDS Naturals

CONSTANTS
    Clips,         \* speaker processes
    Sinks,         \* talkback sessions of the RTSP server
    MaxPackets,    \* bound: packets of the talkback clients
    MaxRestarts,   \* bound: restarts of the FIFO's reader
    MaxFaults      \* bound: failed opens of the amplifier's device

\* The constants of an instance.
SpeakerAssumption == {MaxPackets, MaxRestarts, MaxFaults} \subseteq Nat

VARIABLES
    sem,       \* the semaphore, created with 1
    amp,       \* the amplifier is on
    reader,    \* rmm has the FIFO open
    clip,      \* process -> its step
    active,    \* sinks with fIsActive
    timer,     \* sinks with a release task
    loop,      \* the step of the event loop and its sink
    packets, restarts, faults

vars == <<sem, amp, reader, clip, active, timer, loop, packets, restarts, faults>>

Idle == [step |-> "idle", sink |-> CHOOSE s \in Sinks : TRUE]

Init ==
    /\ sem = 1 /\ amp = FALSE /\ reader \in BOOLEAN
    /\ clip = [c \in Clips |-> "new"]
    /\ active = {} /\ timer = {} /\ loop = Idle
    /\ packets = 0 /\ restarts = 0 /\ faults = 0

TypeOK ==
    /\ sem \in 0..1 /\ amp \in BOOLEAN /\ reader \in BOOLEAN
    /\ clip \in [Clips -> {"new", "open", "amp", "play", "quiet", "post", "ended"}]
    /\ active \subseteq Sinks /\ timer \subseteq Sinks
    /\ loop.step \in {"idle", "amp", "write", "quiet", "post"} /\ loop.sink \in Sinks

-----------------------------------------------------------------------------
(* stream_pcm *)
Step(c, from, to) == clip[c] = from /\ clip' = [clip EXCEPT ![c] = to]
rtsp  == <<active, timer, loop, packets>>
Fault == faults < MaxFaults /\ faults' = faults + 1

(* Mutant: a busy speaker leaves through the unlock label. *)
ClipTakeUnlocks(c) ==
    /\ \/ sem = 1 /\ Step(c, "new", "open") /\ sem' = 0
       \/ sem = 0 /\ Step(c, "new", "post") /\ UNCHANGED sem
    /\ UNCHANGED <<amp, reader, restarts, faults, rtsp>>

ClipTake(c) ==
    /\ \/ sem = 1 /\ Step(c, "new", "open") /\ sem' = 0
       \/ sem = 0 /\ Step(c, "new", "ended") /\ UNCHANGED sem       \* "Speaker is busy"
    /\ UNCHANGED <<amp, reader, restarts, faults, rtsp>>

(* Mutant: an open that a signal ends leaves without the unlock label. *)
ClipOpenLeaves(c) ==
    /\ \/ reader /\ Step(c, "open", "amp")
       \/ Step(c, "open", "ended")
    /\ UNCHANGED <<sem, amp, reader, restarts, faults, rtsp>>

(* The open waits for a reader, or until a signal ends it. *)
ClipOpen(c) ==
    /\ \/ reader /\ Step(c, "open", "amp")
       \/ Step(c, "open", "post")
    /\ UNCHANGED <<sem, amp, reader, restarts, faults, rtsp>>

ClipAmp(c) ==
    /\ \/ Step(c, "amp", "play") /\ amp' = TRUE /\ UNCHANGED faults
       \/ Step(c, "amp", "post") /\ Fault /\ UNCHANGED amp
    /\ UNCHANGED <<sem, reader, restarts, rtsp>>

(* The input ends, or a signal. *)
ClipEnd(c) ==
    /\ Step(c, "play", "quiet")
    /\ UNCHANGED <<sem, amp, reader, restarts, faults, rtsp>>

(* A write without a reader: SIGPIPE is not among the handled signals. *)
ClipBroken(c) ==
    /\ ~reader
    /\ Step(c, "play", "ended")
    /\ UNCHANGED <<sem, amp, reader, restarts, faults, rtsp>>

ClipQuiet(c) ==
    /\ Step(c, "quiet", "post")
    /\ \/ amp' = FALSE /\ UNCHANGED faults
       \/ Fault /\ UNCHANGED amp
    /\ UNCHANGED <<sem, reader, restarts, rtsp>>

ClipPost(c) ==
    /\ Step(c, "post", "ended")
    /\ sem' = sem + 1
    /\ UNCHANGED <<amp, reader, restarts, faults, rtsp>>

-----------------------------------------------------------------------------
(* The event loop runs one handler at a time. *)
rest == <<reader, clip, restarts>>
At(s, step)   == loop = [step |-> step, sink |-> s]
Goto(s, step) == loop' = IF step = "idle" THEN Idle ELSE [step |-> step, sink |-> s]

(* Mutant: the result of switchSpeaker is not looked at. *)
PacketMixed(s) ==
    /\ loop = Idle /\ packets < MaxPackets
    /\ packets' = packets + 1
    /\ \/ s \in active /\ Goto(s, "write") /\ UNCHANGED sem
       \/ s \notin active /\ sem = 1 /\ sem' = 0 /\ Goto(s, "amp")
       \/ s \notin active /\ sem = 0 /\ Goto(s, "write") /\ UNCHANGED sem
    /\ UNCHANGED <<amp, active, timer, faults, rest>>

(* addData: a packet arrives.  switchSpeaker(SPEAKER_ON) takes the semaphore *)
(* first when this sink is not active; a failed lock drops the packet.       *)
Packet(s) ==
    /\ loop = Idle /\ packets < MaxPackets
    /\ packets' = packets + 1
    /\ \/ s \in active /\ Goto(s, "write") /\ UNCHANGED sem
       \/ s \notin active /\ sem = 1 /\ sem' = 0 /\ Goto(s, "amp")
       \/ s \notin active /\ sem = 0 /\ UNCHANGED <<sem, loop>>
    /\ UNCHANGED <<amp, active, timer, faults, rest>>

SinkAmp(s) ==
    /\ At(s, "amp")
    /\ \/ amp' = TRUE /\ active' = active \cup {s} /\ Goto(s, "write") /\ UNCHANGED <<sem, faults>>
       \/ Fault /\ sem' = sem + 1 /\ Goto(s, "idle") /\ UNCHANGED <<amp, active>>
    /\ UNCHANGED <<timer, packets, rest>>

(* The release task was set again before the write; a FIFO without a reader *)
(* cannot be opened, or fails with EPIPE.                                   *)
SinkWrite(s) ==
    /\ At(s, "write")
    /\ timer' = timer \cup {s}
    /\ Goto(s, IF reader THEN "idle" ELSE "quiet")
    /\ UNCHANGED <<sem, amp, active, packets, faults, rest>>

(* Mutant: the amplifier is switched off whether the sink was active or not. *)
SwitchOffAlways(s) ==
    /\ loop = Idle
    /\ timer' = timer \ {s}
    /\ Goto(s, IF s \in active THEN "quiet" ELSE "idle")
    /\ amp' = FALSE
    /\ UNCHANGED <<sem, active, packets, faults, rest>>

(* switchSpeaker(SPEAKER_OFF) of a release task, a TEARDOWN, a repeated SETUP *)
(* or the shutdown of the server: nothing to do for a sink that is not active *)
SwitchOff(s) ==
    /\ loop = Idle
    /\ timer' = timer \ {s}
    /\ Goto(s, IF s \in active THEN "quiet" ELSE "idle")
    /\ UNCHANGED <<sem, amp, active, packets, faults, rest>>

SinkQuiet(s) ==
    /\ At(s, "quiet")
    /\ timer' = timer \ {s}
    /\ active' = active \ {s}
    /\ \/ amp' = FALSE /\ UNCHANGED faults
       \/ Fault /\ UNCHANGED amp
    /\ Goto(s, "post")
    /\ UNCHANGED <<sem, packets, rest>>

SinkPost(s) ==
    /\ At(s, "post")
    /\ sem' = sem + 1
    /\ Goto(s, "idle")
    /\ UNCHANGED <<amp, active, timer, packets, faults, rest>>

-----------------------------------------------------------------------------
ReaderOpens ==
    /\ ~reader
    /\ reader' = TRUE
    /\ UNCHANGED <<sem, amp, clip, rtsp, restarts, faults>>

ReaderDies ==
    /\ reader /\ restarts < MaxRestarts
    /\ reader' = FALSE
    /\ restarts' = restarts + 1
    /\ UNCHANGED <<sem, amp, clip, rtsp, faults>>

Clip(c) == ClipTake(c) \/ ClipOpen(c) \/ ClipAmp(c) \/ ClipEnd(c) \/ ClipBroken(c) \/ ClipQuiet(c) \/ ClipPost(c)
Handler(s) == SinkAmp(s) \/ SinkWrite(s) \/ SinkQuiet(s) \/ SinkPost(s)

Next ==
    \/ \E c \in Clips : Clip(c)
    \/ \E s \in Sinks : Packet(s) \/ SwitchOff(s) \/ Handler(s)
    \/ ReaderOpens \/ ReaderDies

(* A process and the event loop keep running, a clip's input ends and an idle *)
(* sink's release task runs: no more packets come than MaxPackets.            *)
Spec ==
    /\ Init /\ [][Next]_vars
    /\ \A c \in Clips : WF_vars(Clip(c))
    /\ \A s \in Sinks : WF_vars(Handler(s)) /\ SF_vars(s \in timer /\ SwitchOff(s))
    /\ WF_vars(ReaderOpens)

-----------------------------------------------------------------------------
(* "HTTP playback and RTSP/ONVIF talkback do not write the speaker            *)
(* simultaneously" (docs/REFERENCE.md): while one of them may write to the    *)
(* FIFO nobody else is between its lock and its unlock.                       *)
OneWriter ==
    LET writers == {c \in Clips : clip[c] = "play"} \cup active \cup {s \in Sinks : At(s, "write")}
    IN  \A x, y \in writers : x = y

(* Nobody switches the amplifier off under another user.                      *)
Audible ==
    (\E c \in Clips : clip[c] = "play") \/ (\E s \in Sinks : At(s, "write")) => amp

(* "Normal cleanup posts it; SIGKILL cannot" (docs/LIVENESS_AUDIT.md): every  *)
(* owner that is not killed gives the speaker back.                           *)
Freed == sem = 0 ~> sem = 1
=============================================================================
