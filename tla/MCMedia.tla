------------------------------ MODULE MCMedia ------------------------------
(* The RTSP server with its watchdog (Supervisor), and the memory and       *)
(* devices that the vendor's processes share with ours: the ring of encoded *)
(* frames (FrameRing), the loudspeaker (SpeakerShare) and the night-vision  *)
(* settings (NightVision).  part says which one moves.                      *)
EXTENDS Integers

CONSTANTS
    Cells, MaxBatch, QueueMax, StartMin, Modulus, Gop, First, Last,   \* the ring of frames
    Clips, Sinks, MaxPackets, MaxReopens, MaxAmpFaults,               \* the loudspeaker
    Writers, Readers, PageSets, AliveSets, MaxRestarts, MaxKills,     \* night vision
    Pages, MaxVersion, MaxOoms, MaxStarters                           \* the RTSP server

VARIABLES
    part,
    ring, torn, written, start, end, pc, guess, prev, batch, codec, queue, started, last, playing, heard,
    sem, amp, fifo, clip, active, timer, loop, packets, reopens, faults,
    gen, mode, threshold, applied, state, rmm, writer, reader, sets, restarts, kills, given, inForce,
    on, version, server, watchdog, port, starters, lock, step, snap, again, ooms

\* Frame numbers that wrap and a ring that wraps within a group of pictures.
Frames == INSTANCE FrameRing

\* Clips and talkback sessions, with restarts of rmm and without.
Shared == INSTANCE SpeakerShare WITH
    reader <- fifo, restarts <- reopens, MaxRestarts <- MaxReopens, MaxFaults <- MaxAmpFaults
Kept == INSTANCE SpeakerShare WITH
    reader <- fifo, restarts <- reopens, MaxRestarts <- 0, MaxFaults <- MaxAmpFaults

\* Writers against the camera loop: with status pages and kills, and with more settings.
Page  == INSTANCE NightVision WITH MaxSets <- PageSets
Alive == INSTANCE NightVision WITH Readers <- {}, MaxSets <- AliveSets, MaxKills <- 0

\* Settings pages.
Rtsp == INSTANCE Supervisor WITH pc <- step, faults <- ooms, Switch <- {TRUE}, MaxFaults <- MaxOoms

ASSUME FramesAssumption  == Frames!FrameRingAssumption
ASSUME SpeakerAssumption == Shared!SpeakerAssumption
ASSUME NightAssumption   == Page!NightAssumption /\ Alive!NightAssumption
ASSUME RtspAssumption    == Rtsp!SupervisorAssumption

frames  == <<ring, torn, written, start, end, pc, guess, prev, batch, codec, queue, started, last, playing, heard>>
speaker == <<sem, amp, fifo, clip, active, timer, loop, packets, reopens, faults>>
night   == <<gen, mode, threshold, applied, state, rmm, writer, reader, sets, restarts, kills, given, inForce>>
rtsp    == <<on, version, server, watchdog, port, starters, lock, step, snap, again, ooms>>
vars    == <<part, frames, speaker, night, rtsp>>

\* A part that rests is in one of its initial states.
Init ==
    /\ part \in {"frames", "shared", "kept", "page", "alive", "rtsp"}
    /\ Frames!Init
    /\ Shared!Init /\ (part \notin {"shared", "kept"} => fifo)
    /\ IF part = "page" THEN Page!Init ELSE Alive!Init
    /\ Rtsp!Init

Next ==
    /\ UNCHANGED part
    /\ \/ part = "frames" /\ Frames!Next /\ UNCHANGED <<speaker, night, rtsp>>
       \/ /\ \/ part = "shared" /\ Shared!Next
             \/ part = "kept" /\ Kept!Next
          /\ UNCHANGED <<frames, night, rtsp>>
       \/ /\ \/ part = "page" /\ Page!Next
             \/ part = "alive" /\ Alive!Next
          /\ UNCHANGED <<frames, speaker, rtsp>>
       \/ part = "rtsp" /\ Rtsp!Next /\ UNCHANGED <<frames, speaker, night>>

\* The fairness of each module, where a liveness property is checked.
Spec ==
    /\ Init /\ [][Next]_vars
    /\ \A c \in Clips : WF_speaker(part = "kept" /\ Kept!Clip(c))
    /\ \A s \in Sinks :
           /\ WF_speaker(part = "kept" /\ Kept!Handler(s))
           /\ SF_speaker(part = "kept" /\ s \in timer /\ Kept!SwitchOff(s))
    /\ WF_speaker(part = "kept" /\ Kept!ReaderOpens)
    /\ WF_night(part = "alive" /\ Alive!CameraLoop)
    /\ \A w \in Writers : WF_night(part = "alive" /\ Alive!Writing(w))
    /\ WF_night(part = "alive" /\ \E w \in Writers : Alive!Preload(w))
    /\ \A p \in Pages \cup {"job"} : WF_rtsp(part = "rtsp" /\ Rtsp!Step(p))
    /\ WF_rtsp(part = "rtsp" /\ Rtsp!Wake) /\ WF_rtsp(part = "rtsp" /\ Rtsp!Check)

-----------------------------------------------------------------------------
(* What is checked, each where its module states and explains it.          *)

\* Type correctness of the ring and of the loudspeaker.
TypeOK == Frames!TypeOK /\ Shared!TypeOK

(* A frame that the encoder is writing is not copied; the capture thread   *)
(* queues frames in the encoder's order, each once; and a client gets key  *)
(* frames and frames whose predecessor it got.                             *)
StreamSound == Frames!NoTornFrame /\ Frames!InOrder /\ Frames!Decodable

(* Nobody writes to the loudspeaker while another one may, or switches the *)
(* amplifier off under another user.                                       *)
SpeakerExclusive == Shared!OneWriter /\ Shared!Audible

Taken == part = "kept" /\ sem = 0
Given == part = "kept" => sem = 1

\* Every owner that is not killed gives the loudspeaker back.
Freed == Taken ~> Given

(* The pair the camera uses was published as a pair, under its generation; *)
(* when the page says applied, the camera used what it shows.              *)
PairsWhole == Alive!PairsWhole /\ (part = "page" => Page!AppliedIsTrue)

InUse == part = "alive" => gen % 2 = 0 /\ rmm.active = given[gen]

\* What is published last, the camera comes to use.
SettingsTakeEffect == []<>InUse

Configured == part = "rtsp" /\ on
Streaming  == part = "rtsp" => server # 0 \/ ~on

(* Whatever is saved, a watchdog is there again; a server that is          *)
(* configured and was stopped, killed or lost to a busy lock comes back.   *)
StreamsReturn == ([]<>watchdog) /\ (Configured ~> Streaming)
===============================================================================
