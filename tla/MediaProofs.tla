---------------------------- MODULE MediaProofs ----------------------------
(***************************************************************************)
(* Proofs about what the camera's processes share: the loudspeaker has one *)
(* user at a time and none is switched off by another, the camera uses and *)
(* reports only pairs of night-vision settings that were published, and    *)
(* the RTSP server takes whole frames in order from the encoder's ring and *)
(* sends only what can be decoded.  All hold for any number of processes,  *)
(* any size of ring and queue, and every bound.                            *)
(***************************************************************************)
EXTENDS MCMedia, Sequences, TLAPS

-----------------------------------------------------------------------------
(* The loudspeaker.  A clip's process holds the semaphore between its lock *)
(* and its unlock; a sink while it is active or the event loop is in its   *)
(* handler.                                                                *)
ClipSteps == {"new", "open", "amp", "play", "quiet", "post", "ended"}
Holds(c)  == clip[c] \in {"open", "amp", "play", "quiet", "post"}
Busy      == loop.step # "idle"
Uses(s)   == s \in active \/ (Busy /\ loop.sink = s)

SpeakerTypes ==
  /\ sem \in {0, 1} /\ reopens \in Nat /\ clip \in [Clips -> ClipSteps] /\ active \subseteq Sinks
  /\ loop = Shared!Idle \/ loop \in [step : {"amp", "write", "quiet", "post"}, sink : Sinks]

(* A semaphore that is free has no holder, there is never more than one,   *)
(* and who plays has the amplifier on.  A holder that dies of SIGPIPE      *)
(* leaves the semaphore taken, so the first has no converse.               *)
SpeakerInv ==
  /\ SpeakerTypes
  /\ sem = 1 => (\A c \in Clips : ~Holds(c)) /\ (\A s \in Sinks : ~Uses(s))
  /\ \A c, d \in Clips : Holds(c) /\ Holds(d) => c = d
  /\ \A s, t \in Sinks : Uses(s) /\ Uses(t) => s = t
  /\ \A c \in Clips, s \in Sinks : ~(Holds(c) /\ Uses(s))
  /\ loop.step \in {"write", "quiet"} => loop.sink \in active
  /\ loop.step \in {"amp", "post"} => loop.sink \notin active
  /\ (\E c \in Clips : clip[c] = "play") => amp = TRUE
  /\ active # {} => amp = TRUE

LEMMA IdleStep == Shared!Idle.step = "idle"
BY DEF Shared!Idle

LEMMA SpeakerInit == Shared!Init => SpeakerInv
<1> SUFFICES ASSUME Shared!Init PROVE SpeakerInv
    OBVIOUS
<1>1. /\ sem = 1 /\ active = {} /\ loop = Shared!Idle /\ reopens = 0
      /\ clip = [c \in Clips |-> "new"]
  BY DEF Shared!Init
<1>2. ~Busy /\ loop.step = "idle"
  BY <1>1, IdleStep DEF Busy
<1>3. \A c \in Clips : clip[c] = "new"
  BY <1>1
<1>4. SpeakerTypes
  BY <1>1 DEF SpeakerTypes, ClipSteps
<1> QED
  BY <1>1, <1>2, <1>3, <1>4 DEF SpeakerInv, Holds, Uses

(* A process that moves to a step in which it holds the semaphore held it  *)
(* before, or found it free and took it; one that gives it back held it.   *)
LEMMA ClipMoves ==
  ASSUME SpeakerInv, NEW c \in Clips, NEW to \in ClipSteps,
         clip' = [clip EXCEPT ![c] = to], UNCHANGED <<active, loop>>, reopens' \in Nat,
         sem' \in {0, 1},
         to \in {"open", "amp", "play", "quiet", "post"} => Holds(c) \/ sem = 1,
         to \in {"open", "amp", "play", "quiet", "post"} => sem' = 0,
         sem' = 1 => sem = 1 \/ Holds(c),
         to = "play" => amp' = TRUE,
         amp' # amp => Holds(c) /\ (to # "play" => amp' = FALSE)
  PROVE  SpeakerInv'
<1>1. /\ clip \in [Clips -> ClipSteps] /\ SpeakerTypes
  BY DEF SpeakerInv, SpeakerTypes
<1>2. clip'[c] = to /\ \A d \in Clips : d # c => clip'[d] = clip[d]
  BY <1>1
<1>3. SpeakerTypes'
  BY <1>1 DEF SpeakerTypes, Shared!Idle
<1>4. \A d \in Clips : d # c => (Holds(d)' <=> Holds(d))
  BY <1>2 DEF Holds
<1>5. \A s \in Sinks : Uses(s)' <=> Uses(s)
  BY DEF Uses, Busy
<1>6. Holds(c)' <=> to \in {"open", "amp", "play", "quiet", "post"}
  BY <1>2 DEF Holds
<1>7. sem' = 1 => (\A d \in Clips : ~Holds(d)') /\ (\A s \in Sinks : ~Uses(s)')
  BY <1>4, <1>5, <1>6 DEF SpeakerInv
<1>8. \A d, e \in Clips : Holds(d)' /\ Holds(e)' => d = e
  BY <1>4, <1>6 DEF SpeakerInv
<1>9. \A d \in Clips, s \in Sinks : ~(Holds(d)' /\ Uses(s)')
  BY <1>4, <1>5, <1>6 DEF SpeakerInv
<1>10. (\E d \in Clips : clip'[d] = "play") => amp' = TRUE
  <2> SUFFICES ASSUME NEW d \in Clips, clip'[d] = "play" PROVE amp' = TRUE
      OBVIOUS
  <2>1. CASE d = c
    BY <1>2, <2>1
  <2>2. CASE d # c
    <3>1. clip[d] = "play" /\ Holds(d) /\ amp = TRUE
      BY <1>2, <2>2 DEF Holds, SpeakerInv
    <3>2. ~Holds(c)
      BY <2>2, <3>1 DEF SpeakerInv
    <3> QED
      BY <3>1, <3>2
  <2> QED
    BY <2>1, <2>2
<1>11. active' # {} => amp' = TRUE
  <2> SUFFICES ASSUME active # {} PROVE amp' = TRUE
      OBVIOUS
  <2>1. PICK s \in Sinks : s \in active
    BY <1>1 DEF SpeakerTypes
  <2>2. ~Holds(c) /\ amp = TRUE
    BY <2>1 DEF SpeakerInv, Uses
  <2> QED
    BY <2>2
<1> QED
  BY <1>3, <1>5, <1>7, <1>8, <1>9, <1>10, <1>11 DEF SpeakerInv

LEMMA ClipStep == SpeakerInv /\ (\E c \in Clips : Shared!Clip(c)) => SpeakerInv'
<1> SUFFICES ASSUME SpeakerInv, NEW c \in Clips, Shared!Clip(c) PROVE SpeakerInv'
    OBVIOUS
<1>1. sem \in {0, 1} /\ reopens \in Nat /\ (Holds(c) => sem = 0)
  BY DEF SpeakerInv, SpeakerTypes
<1>2. /\ UNCHANGED <<active, loop>> /\ reopens' = reopens
  BY DEF Shared!Clip, Shared!ClipTake, Shared!ClipOpen, Shared!ClipAmp, Shared!ClipEnd,
         Shared!ClipBroken, Shared!ClipQuiet, Shared!ClipPost, Shared!rtsp
<1>3. CASE Shared!ClipTake(c)
  <2>1. CASE sem = 1 /\ clip' = [clip EXCEPT ![c] = "open"] /\ sem' = 0 /\ amp' = amp
    BY <1>1, <1>2, <2>1, ClipMoves DEF ClipSteps
  <2>2. CASE sem = 0 /\ clip' = [clip EXCEPT ![c] = "ended"] /\ sem' = sem /\ amp' = amp
    BY <1>1, <1>2, <2>2, ClipMoves DEF ClipSteps
  <2> QED
    BY <1>3, <2>1, <2>2 DEF Shared!ClipTake, Shared!Step
<1>4. CASE Shared!ClipOpen(c) \/ Shared!ClipEnd(c) \/ Shared!ClipBroken(c)
  <2>1. /\ Holds(c) /\ UNCHANGED <<sem, amp>>
        /\ \E to \in {"amp", "post", "quiet", "ended"} : clip' = [clip EXCEPT ![c] = to]
    BY <1>4 DEF Shared!ClipOpen, Shared!ClipEnd, Shared!ClipBroken, Shared!Step, Holds
  <2>2. PICK to \in {"amp", "post", "quiet", "ended"} : clip' = [clip EXCEPT ![c] = to]
    BY <2>1
  <2>3. to \in ClipSteps /\ to # "play"
    BY DEF ClipSteps
  <2> QED
    BY <1>1, <1>2, <2>1, <2>2, <2>3, ClipMoves
<1>5. CASE Shared!ClipAmp(c)
  <2>1. Holds(c) /\ sem' = sem
    BY <1>5 DEF Shared!ClipAmp, Shared!Step, Holds
  <2>2. CASE clip' = [clip EXCEPT ![c] = "play"] /\ amp' = TRUE
    BY <1>1, <1>2, <2>1, <2>2, ClipMoves DEF ClipSteps
  <2>3. CASE clip' = [clip EXCEPT ![c] = "post"] /\ amp' = amp
    BY <1>1, <1>2, <2>1, <2>3, ClipMoves DEF ClipSteps
  <2> QED
    BY <1>5, <2>2, <2>3 DEF Shared!ClipAmp, Shared!Step
<1>6. CASE Shared!ClipQuiet(c)
  <2>1. Holds(c) /\ sem' = sem /\ clip' = [clip EXCEPT ![c] = "post"] /\ (amp' = FALSE \/ amp' = amp)
    BY <1>6 DEF Shared!ClipQuiet, Shared!Step, Holds
  <2> QED
    BY <1>1, <1>2, <2>1, ClipMoves DEF ClipSteps
<1>7. CASE Shared!ClipPost(c)
  <2>1. Holds(c) /\ sem' = sem + 1 /\ clip' = [clip EXCEPT ![c] = "ended"] /\ amp' = amp
    BY <1>7 DEF Shared!ClipPost, Shared!Step, Holds
  <2>2. sem' = 1
    BY <1>1, <2>1
  <2> QED
    BY <1>1, <1>2, <2>1, <2>2, ClipMoves DEF ClipSteps
<1> QED
  BY <1>3, <1>4, <1>5, <1>6, <1>7 DEF Shared!Clip

(* The same for the handlers of the event loop, which runs one of them at  *)
(* a time.                                                                 *)
LoopStep(s, to) == IF to = "idle" THEN Shared!Idle ELSE [step |-> to, sink |-> s]

LEMMA SinkMoves ==
  ASSUME SpeakerInv, NEW s \in Sinks, UNCHANGED <<clip, reopens>>, sem' \in {0, 1},
         loop = Shared!Idle \/ loop.sink = s,
         NEW to \in {"idle", "amp", "write", "quiet", "post"}, loop' = LoopStep(s, to),
         active' = active \/ active' = active \cup {s} \/ active' = active \ {s},
         to # "idle" \/ s \in active' => (sem = 1 \/ Uses(s)) /\ sem' = 0,
         sem' = 1 => sem = 1 \/ Uses(s),
         to \in {"write", "quiet"} => s \in active',
         to \in {"amp", "post"} => s \notin active',
         s \in active' => amp' = TRUE,
         amp' # amp => sem = 1 \/ Uses(s)
  PROVE  SpeakerInv'
<1>1. SpeakerTypes /\ active \subseteq Sinks
  BY DEF SpeakerInv, SpeakerTypes
<1>2. active' \subseteq Sinks /\ \A t \in Sinks : t # s => (t \in active' <=> t \in active)
  BY <1>1
<1>3. /\ to = "idle" => loop' = Shared!Idle /\ loop'.step = "idle"
      /\ to # "idle" => loop'.step = to /\ loop'.sink = s
                          /\ loop' \in [step : {"amp", "write", "quiet", "post"}, sink : Sinks]
  BY IdleStep DEF LoopStep
<1>4. SpeakerTypes'
  <2>1. Shared!Idle' = Shared!Idle
    BY DEF Shared!Idle
  <2> QED
    BY <1>1, <1>2, <1>3, <2>1 DEF SpeakerTypes
<1>5. \A c \in Clips : Holds(c)' <=> Holds(c)
  BY DEF Holds
<1>6. \A t \in Sinks : t # s => (Uses(t)' <=> t \in active) /\ (Uses(t)' => Uses(t))
  BY <1>2, <1>3 DEF Uses, Busy
<1>7. Uses(s)' <=> (to # "idle" \/ s \in active')
  BY <1>3 DEF Uses, Busy
<1>8. sem = 1 \/ Uses(s) => (\A c \in Clips : ~Holds(c)) /\ (\A t \in Sinks : t # s => ~Uses(t))
  BY DEF SpeakerInv
<1>9. sem' = 1 => (\A c \in Clips : ~Holds(c)') /\ (\A t \in Sinks : ~Uses(t)')
  BY <1>5, <1>6, <1>7, <1>8 DEF SpeakerInv
<1>10. \A t, u \in Sinks : Uses(t)' /\ Uses(u)' => t = u
  BY <1>6, <1>7, <1>8 DEF SpeakerInv
<1>11. \A c \in Clips, t \in Sinks : ~(Holds(c)' /\ Uses(t)')
  BY <1>5, <1>6, <1>7, <1>8 DEF SpeakerInv
<1>12. /\ loop'.step \in {"write", "quiet"} => loop'.sink \in active'
       /\ loop'.step \in {"amp", "post"} => loop'.sink \notin active'
  BY <1>3
<1>13. (\E c \in Clips : clip'[c] = "play") => amp' = TRUE
  <2> SUFFICES ASSUME NEW c \in Clips, clip[c] = "play" PROVE amp' = TRUE
      OBVIOUS
  <2>1. Holds(c) /\ amp = TRUE
    BY DEF Holds, SpeakerInv
  <2> QED
    BY <1>8, <2>1
<1>14. active' # {} => amp' = TRUE
  <2> SUFFICES ASSUME NEW t \in active' PROVE amp' = TRUE
      OBVIOUS
  <2>1. CASE t # s
    <3>1. t \in active /\ t \in Sinks
      BY <1>2, <2>1
    <3>2. amp = TRUE /\ Uses(t)
      BY <3>1 DEF SpeakerInv, Uses
    <3> QED
      BY <1>8, <2>1, <3>1, <3>2
  <2> QED
    BY <2>1
<1>15. \A c, d \in Clips : Holds(c)' /\ Holds(d)' => c = d
  BY <1>5 DEF SpeakerInv
<1> QED
  BY <1>4, <1>9, <1>10, <1>11, <1>12, <1>13, <1>14, <1>15 DEF SpeakerInv

LEMMA SinkStep ==
  SpeakerInv /\ (\E s \in Sinks : Shared!Packet(s) \/ Shared!SwitchOff(s) \/ Shared!Handler(s))
  => SpeakerInv'
<1> SUFFICES ASSUME SpeakerInv, NEW s \in Sinks,
                    Shared!Packet(s) \/ Shared!SwitchOff(s) \/ Shared!Handler(s)
             PROVE  SpeakerInv'
    OBVIOUS
<1>1. sem \in {0, 1} /\ (Uses(s) => sem = 0) /\ (s \in active => Uses(s) /\ amp = TRUE)
  BY DEF SpeakerInv, SpeakerTypes, Uses
<1>2. UNCHANGED <<clip, reopens>>
  BY DEF Shared!Packet, Shared!SwitchOff, Shared!Handler, Shared!SinkAmp, Shared!SinkWrite,
         Shared!SinkQuiet, Shared!SinkPost, Shared!rest
<1>3. \A to \in {"amp", "write", "quiet", "post"} :
         Shared!At(s, to) => loop.sink = s /\ loop.step = to /\ Uses(s)
  BY DEF Shared!At, Uses, Busy
<1>4. \A to : Shared!Goto(s, to) => loop' = LoopStep(s, to)
  BY DEF Shared!Goto, LoopStep
<1>5. CASE Shared!Packet(s)
  <2>1. loop = Shared!Idle /\ UNCHANGED <<amp, active>>
    BY <1>5 DEF Shared!Packet
  <2>2. CASE s \in active /\ Shared!Goto(s, "write") /\ UNCHANGED sem
    BY <1>1, <1>2, <1>4, <2>1, <2>2, SinkMoves
  <2>3. CASE s \notin active /\ sem = 1 /\ sem' = 0 /\ Shared!Goto(s, "amp")
    BY <1>1, <1>2, <1>4, <2>1, <2>3, SinkMoves
  <2>4. CASE s \notin active /\ sem = 0 /\ UNCHANGED <<sem, loop>>
    <3>1. loop' = LoopStep(s, "idle")
      BY <2>1, <2>4 DEF LoopStep
    <3> QED
      BY <1>1, <1>2, <2>1, <2>4, <3>1, SinkMoves
  <2> QED
    BY <1>5, <2>2, <2>3, <2>4 DEF Shared!Packet
<1>6. CASE Shared!SwitchOff(s)
  <2>1. loop = Shared!Idle /\ UNCHANGED <<sem, amp, active>>
    BY <1>6 DEF Shared!SwitchOff
  <2>2. CASE s \in active
    <3>1. loop' = LoopStep(s, "quiet")
      BY <1>4, <1>6, <2>2 DEF Shared!SwitchOff
    <3> QED
      BY <1>1, <1>2, <2>1, <2>2, <3>1, SinkMoves
  <2>3. CASE s \notin active
    <3>1. loop' = LoopStep(s, "idle")
      BY <1>4, <1>6, <2>3 DEF Shared!SwitchOff
    <3> QED
      BY <1>1, <1>2, <2>1, <2>3, <3>1, SinkMoves
  <2> QED
    BY <2>2, <2>3
<1>7. CASE Shared!SinkAmp(s)
  <2>1. Uses(s) /\ loop.sink = s /\ s \notin active
    BY <1>3, <1>7 DEF Shared!SinkAmp, SpeakerInv
  <2>2. CASE amp' = TRUE /\ active' = active \cup {s} /\ Shared!Goto(s, "write") /\ UNCHANGED sem
    <3>1. s \in active'
      BY <2>2
    <3> QED
      BY <1>1, <1>2, <1>4, <2>1, <2>2, <3>1, SinkMoves
  <2>3. CASE sem' = sem + 1 /\ Shared!Goto(s, "idle") /\ UNCHANGED <<amp, active>>
    <3>1. sem' = 1
      BY <1>1, <2>1, <2>3
    <3> QED
      BY <1>1, <1>2, <1>4, <2>1, <2>3, <3>1, SinkMoves
  <2> QED
    BY <1>7, <2>2, <2>3 DEF Shared!SinkAmp
<1>8. CASE Shared!SinkWrite(s)
  <2>1. Uses(s) /\ loop.sink = s /\ s \in active /\ UNCHANGED <<sem, amp, active>>
    BY <1>3, <1>8 DEF Shared!SinkWrite, SpeakerInv
  <2>2. loop' = LoopStep(s, "idle") \/ loop' = LoopStep(s, "quiet")
    BY <1>4, <1>8 DEF Shared!SinkWrite
  <2> QED
    BY <1>1, <1>2, <2>1, <2>2, SinkMoves
<1>9. CASE Shared!SinkQuiet(s)
  <2>1. /\ Uses(s) /\ loop.sink = s /\ active' = active \ {s} /\ UNCHANGED sem
        /\ loop' = LoopStep(s, "post") /\ (amp' = FALSE \/ amp' = amp)
    BY <1>3, <1>4, <1>9 DEF Shared!SinkQuiet
  <2>2. s \notin active'
    BY <2>1
  <2> QED
    BY <1>1, <1>2, <2>1, <2>2, SinkMoves
<1>10. CASE Shared!SinkPost(s)
  <2>1. /\ Uses(s) /\ loop.sink = s /\ s \notin active /\ UNCHANGED <<active, amp>>
        /\ sem' = sem + 1 /\ loop' = LoopStep(s, "idle")
    BY <1>3, <1>4, <1>10 DEF Shared!SinkPost, SpeakerInv
  <2>2. sem' = 1
    BY <1>1, <2>1
  <2> QED
    BY <1>1, <1>2, <2>1, <2>2, SinkMoves
<1> QED
  BY <1>5, <1>6, <1>7, <1>8, <1>9, <1>10 DEF Shared!Handler

LEMMA SpeakerKept == SpeakerInv /\ UNCHANGED <<sem, amp, clip, active, loop>> /\ reopens' \in Nat
                     => SpeakerInv'
<1> SUFFICES ASSUME SpeakerInv, UNCHANGED <<sem, amp, clip, active, loop>>, reopens' \in Nat
             PROVE  SpeakerInv'
    OBVIOUS
<1>1. SpeakerTypes'
  BY DEF SpeakerInv, SpeakerTypes, Shared!Idle
<1>2. /\ \A c \in Clips : Holds(c)' <=> Holds(c)
      /\ \A s \in Sinks : Uses(s)' <=> Uses(s)
  BY DEF Holds, Uses, Busy
<1> QED
  BY <1>1, <1>2 DEF SpeakerInv

LEMMA SpeakerStep == SpeakerInv /\ Shared!Next => SpeakerInv'
<1> SUFFICES ASSUME SpeakerInv, Shared!Next PROVE SpeakerInv'
    OBVIOUS
<1>1. reopens \in Nat /\ reopens + 1 \in Nat
  BY DEF SpeakerInv, SpeakerTypes
<1>2. CASE Shared!ReaderOpens \/ Shared!ReaderDies
  <2>1. UNCHANGED <<sem, amp, clip, active, loop>> /\ reopens' \in Nat
    BY <1>1, <1>2 DEF Shared!ReaderOpens, Shared!ReaderDies, Shared!rtsp
  <2> QED
    BY <2>1, SpeakerKept
<1> QED
  BY <1>2, ClipStep, SinkStep DEF Shared!Next

(* Without restarts of rmm there are only steps of the same kind.          *)
LEMMA KeptIsShared == SpeakerInv /\ Kept!Next => Shared!Next
<1>1. SpeakerInv => ~Kept!ReaderDies
  BY DEF SpeakerInv, SpeakerTypes, Kept!ReaderDies
<1>2. \A c \in Clips : Kept!Clip(c) => Shared!Clip(c)
  BY DEF Kept!Clip, Kept!ClipTake, Kept!ClipOpen, Kept!ClipAmp, Kept!ClipEnd, Kept!ClipBroken,
         Kept!ClipQuiet, Kept!ClipPost, Kept!Step, Kept!Fault, Kept!rtsp,
         Shared!Clip, Shared!ClipTake, Shared!ClipOpen, Shared!ClipAmp, Shared!ClipEnd,
         Shared!ClipBroken, Shared!ClipQuiet, Shared!ClipPost, Shared!Step, Shared!Fault, Shared!rtsp
<1>3. Kept!Idle = Shared!Idle
  BY DEF Kept!Idle, Shared!Idle
<1>4. \A s \in Sinks : Kept!Packet(s) \/ Kept!SwitchOff(s) => Shared!Packet(s) \/ Shared!SwitchOff(s)
  BY <1>3 DEF Kept!Packet, Kept!SwitchOff, Kept!Goto, Kept!rest,
              Shared!Packet, Shared!SwitchOff, Shared!Goto, Shared!rest
<1>5. \A s \in Sinks : Kept!Handler(s) => Shared!Handler(s)
  BY <1>3 DEF Kept!Handler, Kept!SinkAmp, Kept!SinkWrite, Kept!SinkQuiet, Kept!SinkPost,
              Kept!At, Kept!Goto, Kept!rest, Kept!Fault,
              Shared!Handler, Shared!SinkAmp, Shared!SinkWrite, Shared!SinkQuiet, Shared!SinkPost,
              Shared!At, Shared!Goto, Shared!rest, Shared!Fault
<1>6. Kept!ReaderOpens => Shared!ReaderOpens
  BY DEF Kept!ReaderOpens, Kept!rtsp, Shared!ReaderOpens, Shared!rtsp
<1> QED
  BY <1>1, <1>2, <1>4, <1>5, <1>6 DEF Kept!Next, Shared!Next

(* One holder is one writer, and it has the amplifier on.                  *)
LEMMA SpeakerSays == SpeakerInv => SpeakerExclusive
<1> SUFFICES ASSUME SpeakerInv PROVE SpeakerExclusive
    OBVIOUS
<1>1. \A s \in Sinks : Shared!At(s, "write") => loop.step = "write" /\ loop.sink = s /\ s \in active
  BY DEF Shared!At, SpeakerInv
<1>2. Shared!Audible
  BY <1>1 DEF Shared!Audible, SpeakerInv
<1>3. Shared!OneWriter
  <2> DEFINE W == {c \in Clips : clip[c] = "play"} \cup active \cup {s \in Sinks : Shared!At(s, "write")}
  <2>1. \A x, y \in W : x = y
    <3>1. \A x \in W : (x \in Clips /\ Holds(x)) \/ (x \in Sinks /\ Uses(x))
      BY <1>1 DEF Holds, Uses, SpeakerInv, SpeakerTypes
    <3> QED
      BY <3>1 DEF SpeakerInv
  <2> QED
    BY <2>1 DEF Shared!OneWriter
<1> QED
  BY <1>2, <1>3 DEF SpeakerExclusive

(* Clips, talkback sessions and a restarted rmm, any number of them: nobody *)
(* writes to the loudspeaker while another may, and nobody's amplifier is  *)
(* switched off by another (speaker.c, Speaker.cpp, PCMFileSink.cpp).      *)
THEOREM SpeakerIsExclusive == Spec => []SpeakerExclusive
<1>1. Init => SpeakerInv
  BY SpeakerInit DEF Init
<1>2. SpeakerInv /\ [Next]_vars => SpeakerInv'
  <2> SUFFICES ASSUME SpeakerInv, [Next]_vars PROVE SpeakerInv'
      OBVIOUS
  <2>1. CASE Shared!Next \/ Kept!Next
    BY <2>1, SpeakerStep, KeptIsShared
  <2>2. CASE UNCHANGED speaker
    BY <2>2, SpeakerKept DEF speaker, SpeakerInv, SpeakerTypes
  <2> QED
    BY <2>1, <2>2 DEF Next, vars
<1> QED
  BY <1>1, <1>2, SpeakerSays, PTL DEF Spec

-----------------------------------------------------------------------------
(* Night vision.  What the camera loop and the status page rely on is that *)
(* an even generation names the pair in the structure, that a generation   *)
(* is published once, and that only the one writer that made it odd        *)
(* changes anything.                                                       *)
Settings    == [mode : {"auto", "on", "off"}, threshold : Nat]
LoopSteps   == {"off", "plain", "top", "first", "mode", "threshold", "last", "native", "report"}
WriterSteps == {"idle", "lock", "mode", "threshold", "publish"}
ReaderSteps == {"idle", "mode", "threshold", "last", "pid", "applied", "state", "answered"}
CameraLoops == [step : LoopSteps, first : Nat, pair : Settings, try : Nat, active : Settings, gen : Nat]
NightWriter == [step : WriterSteps, n : Nat, gen : Nat, boot : BOOLEAN]
StatusPage  == [step : ReaderSteps, gen : Nat, pair : Settings, answer : {"none", "applied", "applying"}]

NightTypes ==
  /\ gen \in Nat /\ mode \in {"auto", "on", "off"} /\ threshold \in Nat /\ sets \in Nat
  /\ rmm \in CameraLoops /\ writer \in [Writers -> NightWriter]
  /\ given \in [DOMAIN given -> Settings]

GivenInv ==
  /\ gen # 0 /\ 0 \in DOMAIN given /\ given[0] = Page!Default
  /\ \A g \in DOMAIN given : g \in Nat /\ g <= gen /\ ~Page!Odd(g)
  /\ ~Page!Odd(gen) => gen \in DOMAIN given /\ given[gen] = Page!Pair(mode, threshold)

Stores(w) == writer[w].step \in {"mode", "threshold", "publish"}

StoresInv ==
  /\ \A w \in Writers : Stores(w) => gen = writer[w].gen + 1 /\ Page!Odd(gen)
  /\ \A v, w \in Writers : Stores(v) /\ Stores(w) => v = w
  /\ \A w \in Writers : writer[w].step \in {"threshold", "publish"} => mode = Page!Request(writer[w].n).mode
  /\ \A w \in Writers : writer[w].step = "publish" => threshold = Page!Request(writer[w].n).threshold

(* What one who has read a generation g and then this pair knows while the *)
(* generation is still the same.                                           *)
ReadSoFar(at, g, pair) ==
  /\ at \in {"threshold", "last"} /\ gen = g => pair.mode = mode
  /\ at = "last" /\ gen = g => pair.threshold = threshold

LoopInv ==
  /\ rmm.gen \in DOMAIN given /\ rmm.active = given[rmm.gen]
  /\ rmm.step \in {"mode", "threshold", "last"} => rmm.first \in DOMAIN given
  /\ ReadSoFar(rmm.step, rmm.first, rmm.pair)

ReportInv ==
  /\ rmm.step = "report" => rmm.gen \in inForce
  /\ applied = 0 \/ applied \in inForce

PageOK(x) ==
  /\ x.step # "idle" => x.gen \in DOMAIN given /\ x.gen # 0
  /\ ReadSoFar(x.step, x.gen, x.pair)
  /\ x.step \in {"pid", "applied", "state", "answered"} => x.pair = given[x.gen]
  /\ x.step = "state" \/ x.answer = "applied" => x.gen \in inForce
  /\ x.answer = "applied" => x.step = "answered"

PageInv == reader \in [Readers -> StatusPage] /\ \A r \in Readers : PageOK(reader[r])

NightInv == NightTypes /\ GivenInv /\ StoresInv /\ LoopInv /\ ReportInv /\ (part = "page" => PageInv)

LEMMA OddNext == \A n \in Nat : n + 1 \in Nat /\ (Page!Odd(n + 1) <=> ~Page!Odd(n))
BY DEF Page!Odd

LEMMA RequestType == Page!Default \in Settings /\ \A n \in Nat : Page!Request(n) \in Settings
<1>1. Page!Default \in Settings
  BY DEF Page!Default, Page!Pair, Settings
<1>2. ASSUME NEW n \in Nat PROVE Page!Request(n) \in Settings
  <2>1. CASE n = 0
    BY <1>1, <2>1 DEF Page!Request
  <2>2. CASE n # 0 /\ n % 2 = 1
    BY <2>2 DEF Page!Request, Page!Pair, Settings
  <2>3. CASE n # 0 /\ n % 2 # 1
    BY <2>3 DEF Page!Request, Page!Pair, Settings
  <2> QED
    BY <2>1, <2>2, <2>3
<1> QED
  BY <1>1, <1>2

(* A pair is its mode and its threshold.                                   *)
LEMMA SamePair ==
  ASSUME NEW p \in Settings, NEW q \in Settings, p.mode = q.mode, p.threshold = q.threshold
  PROVE  p = q
BY DEF Settings

LEMMA LoopFields ==
  ASSUME NEW x \in CameraLoops
  PROVE  /\ \A s \in LoopSteps : [x EXCEPT !.step = s] \in CameraLoops
         /\ \A n \in Nat : [x EXCEPT !.first = n] \in CameraLoops
         /\ \A n \in Nat : [x EXCEPT !.try = n] \in CameraLoops
         /\ \A n \in Nat : [x EXCEPT !.gen = n] \in CameraLoops
         /\ \A p \in Settings : [x EXCEPT !.active = p] \in CameraLoops
         /\ \A m \in {"auto", "on", "off"} : [x EXCEPT !.pair.mode = m] \in CameraLoops
         /\ \A n \in Nat : [x EXCEPT !.pair.threshold = n] \in CameraLoops
<1>1. \A s \in LoopSteps : [x EXCEPT !.step = s] \in CameraLoops
  BY DEF CameraLoops
<1>2. \A n \in Nat : [x EXCEPT !.first = n] \in CameraLoops
  BY DEF CameraLoops
<1>3. \A n \in Nat : [x EXCEPT !.try = n] \in CameraLoops
  BY DEF CameraLoops
<1>4. \A n \in Nat : [x EXCEPT !.gen = n] \in CameraLoops
  BY DEF CameraLoops
<1>5. \A p \in Settings : [x EXCEPT !.active = p] \in CameraLoops
  BY DEF CameraLoops
<1>6. \A m \in {"auto", "on", "off"} : [x EXCEPT !.pair.mode = m] \in CameraLoops
  BY DEF CameraLoops, Settings
<1>7. \A n \in Nat : [x EXCEPT !.pair.threshold = n] \in CameraLoops
  BY DEF CameraLoops, Settings
<1> QED
  BY <1>1, <1>2, <1>3, <1>4, <1>5, <1>6, <1>7

LEMMA LoopGoes ==
  ASSUME NEW x \in CameraLoops, NEW s \in LoopSteps, NEW y, y = [x EXCEPT !.step = s]
  PROVE  y \in CameraLoops /\ y.step = s /\ y.gen = x.gen /\ y.active = x.active
<1>1. y \in CameraLoops
  BY LoopFields
<1> QED
  BY <1>1 DEF CameraLoops

(* The next attempt, or none after the fourth.                             *)
LEMMA AgainEffect ==
  ASSUME rmm \in CameraLoops, Page!Again
  PROVE  /\ rmm' \in CameraLoops /\ rmm'.step \in {"native", "first"}
         /\ rmm'.gen = rmm.gen /\ rmm'.active = rmm.active
<1>1. CASE rmm.try = 3
  <2>1. rmm' = [rmm EXCEPT !.step = "native"]
    BY <1>1 DEF Page!Again
  <2> QED
    BY <2>1, LoopGoes DEF LoopSteps
<1>2. CASE rmm.try # 3
  <2> DEFINE x == [rmm EXCEPT !.step = "first"]
  <2>1. x \in CameraLoops /\ rmm.try + 1 \in Nat
    BY LoopFields DEF LoopSteps, CameraLoops
  <2>2. rmm' = [rmm EXCEPT !.step = "first", !.try = rmm.try + 1]
    BY <1>2 DEF Page!Again
  <2>3. rmm' = [x EXCEPT !.try = rmm.try + 1]
    BY <2>2
  <2>4. rmm'.step = "first" /\ rmm'.gen = rmm.gen /\ rmm'.active = rmm.active
    BY <2>2 DEF CameraLoops
  <2> HIDE DEF x
  <2> QED
    BY <2>1, <2>3, <2>4, LoopFields
<1> QED
  BY <1>1, <1>2

LEMMA CameraStep ==
  ASSUME NightInv, Page!CameraLoop
  PROVE  rmm' \in CameraLoops /\ LoopInv' /\ ReportInv' /\ inForce \subseteq inForce'
<1>1. /\ rmm \in CameraLoops /\ gen \in Nat /\ mode \in {"auto", "on", "off"} /\ threshold \in Nat
      /\ rmm.step \in LoopSteps /\ rmm.gen \in DOMAIN given /\ rmm.active = given[rmm.gen]
      /\ rmm.first \in Nat /\ rmm.gen \in Nat /\ rmm.pair \in Settings
  BY DEF NightInv, NightTypes, LoopInv, CameraLoops
<1>2. UNCHANGED <<gen, mode, threshold, given>>
  BY DEF Page!CameraLoop, Page!LoopTop, Page!LoopFirst, Page!LoopMode, Page!LoopThreshold,
         Page!LoopLast, Page!Native, Page!Report, Page!shared, Page!control
<1>3. CASE Page!LoopTop
  <2> DEFINE x == [rmm EXCEPT !.step = "first"]
  <2>1. rmm' = [rmm EXCEPT !.step = "first", !.try = 0] /\ UNCHANGED <<applied, inForce>>
    BY <1>3 DEF Page!LoopTop, Page!shared, Page!control
  <2>2. x \in CameraLoops /\ rmm' = [x EXCEPT !.try = 0]
    BY <1>1, <2>1, LoopFields DEF LoopSteps
  <2>3. rmm'.step = "first" /\ rmm'.gen = rmm.gen /\ rmm'.active = rmm.active
    BY <1>1, <2>1 DEF CameraLoops
  <2> HIDE DEF x
  <2>4. rmm' \in CameraLoops
    BY <2>2, LoopFields
  <2> QED
    BY <1>1, <1>2, <2>1, <2>3, <2>4 DEF LoopInv, ReportInv, ReadSoFar, NightInv
<1>4. CASE Page!LoopFirst /\ Page!Again
  <2>1. /\ rmm' \in CameraLoops /\ rmm'.step \in {"native", "first"}
        /\ rmm'.gen = rmm.gen /\ rmm'.active = rmm.active /\ UNCHANGED <<applied, inForce>>
    BY <1>1, <1>4, AgainEffect DEF Page!LoopFirst, Page!shared, Page!control
  <2> QED
    BY <1>1, <1>2, <2>1 DEF LoopInv, ReportInv, ReadSoFar, NightInv
<1>5. CASE Page!LoopFirst /\ ~Page!Odd(gen) /\ rmm' = [rmm EXCEPT !.step = "mode", !.first = gen]
  <2> DEFINE x == [rmm EXCEPT !.step = "mode"]
  <2>1. x \in CameraLoops /\ rmm' = [x EXCEPT !.first = gen] /\ UNCHANGED <<applied, inForce>>
    BY <1>1, <1>5, LoopFields DEF LoopSteps, Page!LoopFirst, Page!shared, Page!control
  <2>2. rmm'.step = "mode" /\ rmm'.gen = rmm.gen /\ rmm'.active = rmm.active /\ rmm'.first = gen
    BY <1>1, <1>5 DEF CameraLoops
  <2> HIDE DEF x
  <2>3. rmm' \in CameraLoops
    BY <1>1, <2>1, LoopFields
  <2>4. gen \in DOMAIN given
    BY <1>5 DEF NightInv, GivenInv
  <2> QED
    BY <1>1, <1>2, <2>1, <2>2, <2>3, <2>4 DEF LoopInv, ReportInv, ReadSoFar, NightInv
<1>6. CASE Page!LoopMode
  <2> DEFINE x == [rmm EXCEPT !.step = "threshold"]
  <2>1. /\ rmm.step = "mode" /\ rmm' = [rmm EXCEPT !.step = "threshold", !.pair.mode = mode]
        /\ UNCHANGED <<applied, inForce>>
    BY <1>6 DEF Page!LoopMode, Page!shared, Page!control
  <2>2. x \in CameraLoops /\ rmm' = [x EXCEPT !.pair.mode = mode]
    BY <1>1, <2>1, LoopFields DEF LoopSteps
  <2>3. /\ rmm'.step = "threshold" /\ rmm'.gen = rmm.gen /\ rmm'.active = rmm.active
        /\ rmm'.first = rmm.first /\ rmm'.pair.mode = mode
    BY <1>1, <2>1 DEF CameraLoops, Settings
  <2> HIDE DEF x
  <2>4. rmm' \in CameraLoops
    BY <1>1, <2>2, LoopFields
  <2>5. rmm.first \in DOMAIN given
    BY <2>1 DEF NightInv, LoopInv
  <2> QED
    BY <1>1, <1>2, <2>1, <2>3, <2>4, <2>5 DEF LoopInv, ReportInv, ReadSoFar, NightInv
<1>7. CASE Page!LoopThreshold
  <2> DEFINE x == [rmm EXCEPT !.step = "last"]
  <2>1. /\ rmm.step = "threshold" /\ rmm' = [rmm EXCEPT !.step = "last", !.pair.threshold = threshold]
        /\ UNCHANGED <<applied, inForce>>
    BY <1>7 DEF Page!LoopThreshold, Page!shared, Page!control
  <2>2. x \in CameraLoops /\ rmm' = [x EXCEPT !.pair.threshold = threshold]
    BY <1>1, <2>1, LoopFields DEF LoopSteps
  <2>3. /\ rmm'.step = "last" /\ rmm'.gen = rmm.gen /\ rmm'.active = rmm.active
        /\ rmm'.first = rmm.first /\ rmm'.pair.mode = rmm.pair.mode /\ rmm'.pair.threshold = threshold
    BY <1>1, <2>1 DEF CameraLoops, Settings
  <2> HIDE DEF x
  <2>4. rmm' \in CameraLoops
    BY <1>1, <2>2, LoopFields
  <2>5. rmm.first \in DOMAIN given /\ (gen = rmm.first => rmm.pair.mode = mode)
    BY <2>1 DEF NightInv, LoopInv, ReadSoFar
  <2> QED
    BY <1>1, <1>2, <2>1, <2>3, <2>4, <2>5 DEF LoopInv, ReportInv, ReadSoFar, NightInv
<1>8. CASE Page!LoopLast /\ gen # rmm.first
  <2>1. /\ rmm' \in CameraLoops /\ rmm'.step \in {"native", "first"}
        /\ rmm'.gen = rmm.gen /\ rmm'.active = rmm.active /\ UNCHANGED <<applied, inForce>>
    BY <1>1, <1>8, AgainEffect DEF Page!LoopLast, Page!shared, Page!control
  <2> QED
    BY <1>1, <1>2, <2>1 DEF LoopInv, ReportInv, ReadSoFar, NightInv
<1>9. CASE Page!LoopLast /\ gen = rmm.first
  <2> DEFINE x == [rmm EXCEPT !.step = "native"]
             y == [x EXCEPT !.active = rmm.pair]
  <2>1. /\ rmm.step = "last" /\ UNCHANGED <<applied, inForce>>
        /\ rmm' = [rmm EXCEPT !.step = "native", !.active = rmm.pair, !.gen = rmm.first]
    BY <1>9 DEF Page!LoopLast, Page!shared, Page!control
  <2>2. x \in CameraLoops
    BY <1>1, LoopFields DEF LoopSteps
  <2>3. y \in CameraLoops
    <3> HIDE DEF x
    <3> QED
      BY <1>1, <2>2, LoopFields
  <2>4. rmm' = [y EXCEPT !.gen = rmm.first]
    BY <2>1
  <2>5. rmm'.step = "native" /\ rmm'.gen = rmm.first /\ rmm'.active = rmm.pair
    BY <1>1, <2>1 DEF CameraLoops
  <2> HIDE DEF y
  <2>6. rmm' \in CameraLoops
    BY <1>1, <2>3, <2>4, LoopFields
  <2>7. rmm.first \in DOMAIN given /\ rmm.pair.mode = mode /\ rmm.pair.threshold = threshold
    BY <1>9, <2>1 DEF NightInv, LoopInv, ReadSoFar
  <2>8. given[gen] = Page!Pair(mode, threshold) /\ given[gen] \in Settings
    BY <1>9, <2>7 DEF NightInv, GivenInv, NightTypes
  <2>9. rmm.pair = given[rmm.first]
    BY <1>1, <1>9, <2>7, <2>8, SamePair DEF Page!Pair
  <2> QED
    BY <1>1, <1>2, <2>1, <2>5, <2>6, <2>7, <2>9 DEF LoopInv, ReportInv, ReadSoFar, NightInv
<1>10. CASE Page!Native
  <2>1. /\ rmm' = [rmm EXCEPT !.step = "report"] /\ UNCHANGED applied
        /\ inForce' = inForce \cup {rmm.gen}
    BY <1>10 DEF Page!Native
  <2>2. /\ rmm' \in CameraLoops /\ rmm'.step = "report" /\ rmm'.gen = rmm.gen
        /\ rmm'.active = rmm.active
    BY <1>1, <2>1, LoopGoes DEF LoopSteps
  <2> QED
    BY <1>1, <1>2, <2>1, <2>2 DEF LoopInv, ReportInv, ReadSoFar, NightInv
<1>11. CASE Page!Report
  <2>1. /\ rmm.step = "report" /\ rmm' = [rmm EXCEPT !.step = "top"] /\ UNCHANGED inForce
        /\ applied' = rmm.gen
    BY <1>11 DEF Page!Report
  <2>2. rmm' \in CameraLoops /\ rmm'.step = "top" /\ rmm'.gen = rmm.gen /\ rmm'.active = rmm.active
    BY <1>1, <2>1, LoopGoes DEF LoopSteps
  <2> QED
    BY <1>1, <1>2, <2>1, <2>2 DEF LoopInv, ReportInv, ReadSoFar, NightInv
<1> QED
  BY <1>3, <1>4, <1>5, <1>6, <1>7, <1>8, <1>9, <1>10, <1>11 DEF Page!CameraLoop, Page!LoopFirst

(* Who has read something before a step and compares the generation after  *)
(* it is not misled: nothing changes under a generation that was published. *)
Undisturbed ==
  /\ \A g \in DOMAIN given : g \in DOMAIN given' /\ given'[g] = given[g]
  /\ UNCHANGED <<gen, mode, threshold>> \/ gen' \notin DOMAIN given

LEMMA PageKept ==
  ASSUME NightInv, part = "page", UNCHANGED reader, Undisturbed, inForce \subseteq inForce'
  PROVE  PageInv'
<1>1. PageInv
  BY DEF NightInv
<1>2. ASSUME NEW r \in Readers PROVE PageOK(reader[r])'
  <2>1. PageOK(reader[r])
    BY <1>1 DEF PageInv
  <2>2. ReadSoFar(reader[r].step, reader[r].gen, reader[r].pair)'
    BY <2>1 DEF PageOK, Undisturbed, ReadSoFar
  <2> QED
    BY <2>1, <2>2 DEF PageOK, Undisturbed
<1> QED
  BY <1>1, <1>2 DEF PageInv

(* The loop stays where it was, or rmm starts or ends.                     *)
LEMMA LoopKept ==
  ASSUME NightInv, Undisturbed, UNCHANGED <<applied, inForce>>, rmm' \in CameraLoops,
         \/ UNCHANGED rmm
         \/ rmm'.step \in {"off", "plain", "top"} /\ rmm'.gen = rmm.gen /\ rmm'.active = rmm.active
         \/ rmm'.step = "off" /\ rmm'.gen = 0 /\ rmm'.active = Page!Default
  PROVE  LoopInv' /\ ReportInv'
<1>1. /\ rmm.gen \in DOMAIN given /\ rmm.active = given[rmm.gen]
      /\ 0 \in DOMAIN given /\ given[0] = Page!Default
      /\ rmm.step \in {"mode", "threshold", "last"} => rmm.first \in DOMAIN given
  BY DEF NightInv, LoopInv, GivenInv
<1>2. rmm'.gen \in DOMAIN given' /\ rmm'.active = given'[rmm'.gen]
  BY <1>1 DEF Undisturbed
<1>3. CASE UNCHANGED rmm
  <2>1. ReadSoFar(rmm.step, rmm.first, rmm.pair)'
    BY <1>1, <1>3 DEF Undisturbed, ReadSoFar, NightInv, LoopInv
  <2> QED
    BY <1>1, <1>2, <1>3, <2>1 DEF LoopInv, ReportInv, NightInv, Undisturbed
<1>4. CASE rmm'.step \in {"off", "plain", "top"}
  BY <1>2, <1>4 DEF LoopInv, ReportInv, ReadSoFar, NightInv
<1> QED
  BY <1>3, <1>4

LEMMA WriterFields ==
  ASSUME NEW f \in [Writers -> NightWriter], NEW w \in Writers
  PROVE  /\ \A s \in WriterSteps : [f EXCEPT ![w].step = s] \in [Writers -> NightWriter]
         /\ \A n \in Nat : [f EXCEPT ![w].gen = n] \in [Writers -> NightWriter]
         /\ \A x \in NightWriter : [f EXCEPT ![w] = x] \in [Writers -> NightWriter]
<1>1. \A s \in WriterSteps : [f EXCEPT ![w].step = s] \in [Writers -> NightWriter]
  BY DEF NightWriter
<1>2. \A n \in Nat : [f EXCEPT ![w].gen = n] \in [Writers -> NightWriter]
  BY DEF NightWriter
<1> QED
  BY <1>1, <1>2

LEMMA NewWriters ==
  ASSUME sets \in Nat
  PROVE  /\ Page!IdleWriter \in NightWriter /\ Page!IdleWriter.step = "idle"
         /\ [Page!IdleWriter EXCEPT !.step = "lock", !.n = sets + 1] \in NightWriter
         /\ [Page!IdleWriter EXCEPT !.step = "lock", !.n = sets + 1].step = "lock"
         /\ [Page!IdleWriter EXCEPT !.step = "lock", !.n = sets, !.boot = TRUE] \in NightWriter
         /\ [Page!IdleWriter EXCEPT !.step = "lock", !.n = sets, !.boot = TRUE].step = "lock"
<1>1. Page!IdleWriter \in NightWriter /\ Page!IdleWriter.step = "idle"
  BY DEF Page!IdleWriter, NightWriter, WriterSteps
<1> DEFINE x == [Page!IdleWriter EXCEPT !.step = "lock"]
<1>2. x \in NightWriter
  BY <1>1 DEF NightWriter, WriterSteps
<1>3. /\ [Page!IdleWriter EXCEPT !.step = "lock", !.n = sets + 1] = [x EXCEPT !.n = sets + 1]
      /\ [Page!IdleWriter EXCEPT !.step = "lock", !.n = sets, !.boot = TRUE]
         = [[x EXCEPT !.n = sets] EXCEPT !.boot = TRUE]
  OBVIOUS
<1>4. /\ [Page!IdleWriter EXCEPT !.step = "lock", !.n = sets + 1].step = "lock"
      /\ [Page!IdleWriter EXCEPT !.step = "lock", !.n = sets, !.boot = TRUE].step = "lock"
  BY <1>1 DEF NightWriter
<1> HIDE DEF x
<1>5. [x EXCEPT !.n = sets + 1] \in NightWriter
  BY <1>2 DEF NightWriter
<1> DEFINE y == [x EXCEPT !.n = sets]
<1>6. y \in NightWriter
  BY <1>2 DEF NightWriter
<1> HIDE DEF y
<1>7. [y EXCEPT !.boot = TRUE] \in NightWriter
  BY <1>6 DEF NightWriter
<1> QED
  BY <1>1, <1>3, <1>4, <1>5, <1>7 DEF y

(* The part of the invariant that the writers are responsible for, and     *)
(* what the others see of their steps.                                     *)
WritersInv == NightTypes /\ GivenInv /\ StoresInv

(* A writer that is not between its lock and its publication.              *)
LEMMA WriterAside ==
  ASSUME NightInv, NEW w \in Writers, NEW x \in NightWriter, x.step \in {"idle", "lock"},
         writer' = [writer EXCEPT ![w] = x], UNCHANGED <<gen, mode, threshold, given>>,
         sets' \in Nat, rmm' \in CameraLoops
  PROVE  WritersInv' /\ Undisturbed
<1>1. writer \in [Writers -> NightWriter]
  BY DEF NightInv, NightTypes
<1>2. writer' \in [Writers -> NightWriter] /\ writer'[w] = x
      /\ \A v \in Writers \ {w} : writer'[v] = writer[v]
  BY <1>1, WriterFields
<1>3. NightTypes'
  BY <1>2 DEF NightInv, NightTypes
<1>4. ~Stores(w)' /\ \A v \in Writers \ {w} : Stores(v)' <=> Stores(v)
  BY <1>2 DEF Stores
<1>5. StoresInv'
  BY <1>2, <1>4 DEF NightInv, StoresInv, Stores
<1> QED
  BY <1>3, <1>5 DEF NightInv, GivenInv, WritersInv, Undisturbed

(* The compare-and-exchange: it succeeds only when nobody is storing.      *)
LEMMA WriterLocks ==
  ASSUME NightInv, NEW w \in Writers, ~Page!Odd(gen), gen' = gen + 1,
         writer' = [writer EXCEPT ![w].step = "mode", ![w].gen = gen],
         UNCHANGED <<mode, threshold, given, sets, rmm>>
  PROVE  WritersInv' /\ Undisturbed
<1>1. writer \in [Writers -> NightWriter] /\ gen \in Nat
  BY DEF NightInv, NightTypes
<1> DEFINE f == [writer EXCEPT ![w].step = "mode"]
<1>2. f \in [Writers -> NightWriter] /\ writer' = [f EXCEPT ![w].gen = gen]
  BY <1>1, WriterFields DEF WriterSteps
<1>3. writer'[w].step = "mode" /\ writer'[w].gen = gen /\ \A v \in Writers \ {w} : writer'[v] = writer[v]
  BY <1>1 DEF NightWriter
<1> HIDE DEF f
<1>4. writer' \in [Writers -> NightWriter]
  <2>1. \A n \in Nat : [f EXCEPT ![w].gen = n] \in [Writers -> NightWriter]
    BY <1>2, WriterFields
  <2>2. [f EXCEPT ![w].gen = gen] \in [Writers -> NightWriter]
    BY <1>1, <2>1
  <2> QED
    BY <1>2, <2>2, Zenon
<1>5. NightTypes'
  BY <1>1, <1>4, OddNext DEF NightInv, NightTypes
<1>6. \A v \in Writers : ~Stores(v)
  BY DEF NightInv, StoresInv
<1>7. Page!Odd(gen)' /\ \A v \in Writers \ {w} : ~Stores(v)'
  BY <1>1, <1>3, <1>6, OddNext DEF Stores, Page!Odd
<1>8. StoresInv'
  BY <1>3, <1>7 DEF StoresInv, Stores
<1>9. gen' \in Nat /\ gen' # 0 /\ \A g \in DOMAIN given : g \in Nat /\ g <= gen' /\ g # gen'
  BY <1>1 DEF NightInv, GivenInv
<1>10. GivenInv' /\ Undisturbed
  BY <1>7, <1>9 DEF NightInv, GivenInv, Undisturbed, Page!Odd, Page!Default, Page!Pair
<1> QED
  BY <1>5, <1>8, <1>10 DEF WritersInv

LEMMA WriterStoresMode ==
  ASSUME NightInv, NEW w \in Writers, Page!WriteMode(w)
  PROVE  WritersInv' /\ Undisturbed
<1>1. /\ writer \in [Writers -> NightWriter] /\ gen \in Nat
      /\ writer' = [writer EXCEPT ![w].step = "threshold"] /\ mode' = Page!Request(writer[w].n).mode
      /\ UNCHANGED <<gen, threshold, given, sets, rmm>> /\ Stores(w)
  BY DEF NightInv, NightTypes, Page!WriteMode, Page!Write, Stores
<1>2. writer' \in [Writers -> NightWriter]
  BY <1>1, WriterFields DEF WriterSteps
<1>3. /\ writer'[w].step = "threshold" /\ writer'[w].gen = writer[w].gen /\ writer'[w].n = writer[w].n
      /\ \A v \in Writers \ {w} : writer'[v] = writer[v]
  BY <1>1 DEF NightWriter
<1>4. Page!Odd(gen) /\ gen = writer[w].gen + 1 /\ \A v \in Writers \ {w} : ~Stores(v)
  BY <1>1 DEF NightInv, StoresInv
<1>5. mode' \in {"auto", "on", "off"}
  <2>1. writer[w].n \in Nat
    BY <1>1 DEF NightWriter
  <2> QED
    BY <1>1, <2>1, RequestType DEF Settings
<1>6. NightTypes'
  BY <1>1, <1>2, <1>5 DEF NightInv, NightTypes
<1>7. StoresInv'
  BY <1>1, <1>3, <1>4 DEF StoresInv, Stores
<1>8. gen \notin DOMAIN given
  BY <1>4 DEF NightInv, GivenInv
<1>9. GivenInv' /\ Undisturbed
  BY <1>1, <1>4, <1>8 DEF NightInv, GivenInv, Undisturbed
<1> QED
  BY <1>6, <1>7, <1>9 DEF WritersInv

LEMMA WriterStoresThreshold ==
  ASSUME NightInv, NEW w \in Writers, Page!WriteThreshold(w)
  PROVE  WritersInv' /\ Undisturbed
<1>1. /\ writer \in [Writers -> NightWriter] /\ gen \in Nat /\ writer[w].step = "threshold"
      /\ writer' = [writer EXCEPT ![w].step = "publish"]
      /\ threshold' = Page!Request(writer[w].n).threshold
      /\ UNCHANGED <<gen, mode, given, sets, rmm>> /\ Stores(w)
  BY DEF NightInv, NightTypes, Page!WriteThreshold, Page!Write, Stores
<1>2. writer' \in [Writers -> NightWriter]
  BY <1>1, WriterFields DEF WriterSteps
<1>3. /\ writer'[w].step = "publish" /\ writer'[w].gen = writer[w].gen /\ writer'[w].n = writer[w].n
      /\ \A v \in Writers \ {w} : writer'[v] = writer[v]
  BY <1>1 DEF NightWriter
<1>4. /\ Page!Odd(gen) /\ gen = writer[w].gen + 1 /\ mode = Page!Request(writer[w].n).mode
      /\ \A v \in Writers \ {w} : ~Stores(v)
  BY <1>1 DEF NightInv, StoresInv
<1>5. threshold' \in Nat
  <2>1. writer[w].n \in Nat
    BY <1>1 DEF NightWriter
  <2> QED
    BY <1>1, <2>1, RequestType DEF Settings
<1>6. NightTypes'
  BY <1>1, <1>2, <1>5 DEF NightInv, NightTypes
<1>7. StoresInv'
  BY <1>1, <1>3, <1>4 DEF StoresInv, Stores
<1>8. gen \notin DOMAIN given
  BY <1>4 DEF NightInv, GivenInv
<1>9. GivenInv' /\ Undisturbed
  BY <1>1, <1>4, <1>8 DEF NightInv, GivenInv, Undisturbed
<1> QED
  BY <1>6, <1>7, <1>9 DEF WritersInv

(* The generation that is published is new, and names what is stored.      *)
LEMMA WriterPublishes ==
  ASSUME NightInv, NEW w \in Writers, Page!Publish(w), rmm' \in CameraLoops
  PROVE  WritersInv' /\ Undisturbed
<1>1. /\ writer \in [Writers -> NightWriter] /\ gen \in Nat /\ Stores(w)
      /\ writer' = [writer EXCEPT ![w] = Page!IdleWriter] /\ writer[w].step = "publish"
      /\ gen' = writer[w].gen + 2 /\ UNCHANGED <<mode, threshold, sets>>
      /\ given' = [g \in DOMAIN given \cup {gen'} |->
                     IF g = gen' THEN Page!Request(writer[w].n) ELSE given[g]]
  BY DEF NightInv, NightTypes, Page!Publish, Stores
<1>2. /\ Page!Odd(gen) /\ gen = writer[w].gen + 1 /\ \A v \in Writers \ {w} : ~Stores(v)
      /\ mode = Page!Request(writer[w].n).mode /\ threshold = Page!Request(writer[w].n).threshold
  BY <1>1 DEF NightInv, StoresInv
<1>3. /\ writer[w].n \in Nat /\ writer[w].gen \in Nat
  BY <1>1 DEF NightWriter
<1>4. gen' = gen + 1 /\ gen' \in Nat /\ gen' # 0 /\ ~Page!Odd(gen')
  <2>1. gen' = gen + 1 /\ gen' \in Nat /\ gen' # 0
    BY <1>1, <1>2, <1>3
  <2> QED
    BY <1>1, <1>2, <2>1, OddNext
<1>5. \A g \in DOMAIN given : g \in Nat /\ g <= gen' /\ g # gen' /\ ~Page!Odd(g)
  BY <1>1, <1>4 DEF NightInv, GivenInv
<1>6. /\ DOMAIN given' = DOMAIN given \cup {gen'} /\ given'[gen'] = Page!Request(writer[w].n)
      /\ \A g \in DOMAIN given : given'[g] = given[g]
  BY <1>1, <1>5
<1>7. Page!Request(writer[w].n) \in Settings /\ given \in [DOMAIN given -> Settings]
  BY <1>3, RequestType DEF NightInv, NightTypes
<1>8. given' \in [DOMAIN given' -> Settings]
  <2>1. \A g \in DOMAIN given' : given'[g] \in Settings
    BY <1>6, <1>7
  <2>2. given' = [g \in DOMAIN given' |-> given'[g]]
    BY <1>1
  <2> QED
    BY <2>1, <2>2
<1>9. Page!IdleWriter \in NightWriter /\ Page!IdleWriter.step = "idle" /\ sets \in Nat
  BY NewWriters DEF NightInv, NightTypes
<1>10. writer' \in [Writers -> NightWriter] /\ writer'[w].step = "idle"
       /\ \A v \in Writers \ {w} : writer'[v] = writer[v]
  BY <1>1, <1>9
<1>11. NightTypes'
  BY <1>1, <1>4, <1>8, <1>10 DEF NightInv, NightTypes
<1>12. \A v \in Writers : ~Stores(v)'
  BY <1>2, <1>10 DEF Stores
<1>13. StoresInv'
  BY <1>12 DEF StoresInv, Stores
<1>14. given'[gen'] = Page!Pair(mode, threshold)
  <2>1. /\ Page!Pair(mode, threshold) \in Settings
        /\ Page!Pair(mode, threshold).mode = mode /\ Page!Pair(mode, threshold).threshold = threshold
    BY DEF NightInv, NightTypes, Page!Pair, Settings
  <2> QED
    BY <1>2, <1>6, <1>7, <2>1, SamePair
<1>15. GivenInv'
  <2>1. 0 \in DOMAIN given /\ given[0] = Page!Default
    BY DEF NightInv, GivenInv
  <2>2. /\ 0 \in DOMAIN given' /\ given'[0] = Page!Default
        /\ \A g \in DOMAIN given' : g \in Nat /\ g <= gen' /\ ~Page!Odd(g)
        /\ gen' \in DOMAIN given'
    BY <1>4, <1>5, <1>6, <2>1
  <2>3. Page!Pair(mode, threshold)' = Page!Pair(mode, threshold) /\ Page!Default' = Page!Default
        /\ \A g : Page!Odd(g)' <=> Page!Odd(g)
    BY <1>1 DEF Page!Pair, Page!Default, Page!Odd
  <2> QED
    BY <1>4, <1>14, <2>2, <2>3 DEF GivenInv
<1>16. Undisturbed
  BY <1>5, <1>6 DEF Undisturbed
<1> QED
  BY <1>11, <1>13, <1>15, <1>16 DEF WritersInv

(* The status page reads: what it shows as applied was published, and a    *)
(* round of some camera loop has ended with it.                            *)
LEMMA PageFields ==
  ASSUME NEW x \in StatusPage
  PROVE  /\ \A s \in ReaderSteps : [x EXCEPT !.step = s] \in StatusPage
         /\ \A a \in {"none", "applied", "applying"} : [x EXCEPT !.answer = a] \in StatusPage
         /\ \A n \in Nat : [x EXCEPT !.gen = n] \in StatusPage
         /\ \A m \in {"auto", "on", "off"} : [x EXCEPT !.pair.mode = m] \in StatusPage
         /\ \A n \in Nat : [x EXCEPT !.pair.threshold = n] \in StatusPage
<1>1. \A s \in ReaderSteps : [x EXCEPT !.step = s] \in StatusPage
  BY DEF StatusPage
<1>2. \A a \in {"none", "applied", "applying"} : [x EXCEPT !.answer = a] \in StatusPage
  BY DEF StatusPage
<1>3. \A n \in Nat : [x EXCEPT !.gen = n] \in StatusPage
  BY DEF StatusPage
<1>4. \A m \in {"auto", "on", "off"} : [x EXCEPT !.pair.mode = m] \in StatusPage
  BY DEF StatusPage, Settings
<1>5. \A n \in Nat : [x EXCEPT !.pair.threshold = n] \in StatusPage
  BY DEF StatusPage, Settings
<1> QED
  BY <1>1, <1>2, <1>3, <1>4, <1>5

LEMMA IdlePage ==
  Page!IdleReader \in StatusPage /\ PageOK(Page!IdleReader) /\ Page!IdleReader.answer = "none"
<1>1. /\ Page!IdleReader.step = "idle" /\ Page!IdleReader.answer = "none"
      /\ Page!IdleReader \in StatusPage
  BY RequestType DEF Page!IdleReader, Page!None, StatusPage, ReaderSteps
<1> QED
  BY <1>1 DEF PageOK, ReadSoFar

LEMMA StatusStep ==
  ASSUME NightInv, part = "page", NEW r \in Readers, Page!Status(r)
  PROVE  \E x \in StatusPage : reader' = [reader EXCEPT ![r] = x] /\ PageOK(x)
<1>1. /\ reader \in [Readers -> StatusPage] /\ reader[r] \in StatusPage /\ PageOK(reader[r])
      /\ gen \in Nat /\ mode \in {"auto", "on", "off"} /\ threshold \in Nat /\ gen # 0
  BY DEF NightInv, NightTypes, GivenInv, PageInv
<1>2. CASE Page!StatusFirst(r)
  <2> DEFINE y == [Page!IdleReader EXCEPT !.step = "mode"]
             x == [Page!IdleReader EXCEPT !.step = "mode", !.gen = gen]
  <2>1. ~Page!Odd(gen) /\ reader' = [reader EXCEPT ![r] = x]
    BY <1>2 DEF Page!StatusFirst, Page!Read
  <2>2. y \in StatusPage /\ x = [y EXCEPT !.gen = gen]
    BY IdlePage, PageFields DEF ReaderSteps
  <2>3. x.step = "mode" /\ x.gen = gen /\ x.answer = "none"
    BY IdlePage DEF StatusPage
  <2>4. x \in StatusPage
    <3> HIDE DEF y, x
    <3> QED
      BY <1>1, <2>2, PageFields
  <2>5. PageOK(x)
    <3> HIDE DEF y, x
    <3> QED
      BY <1>1, <2>1, <2>3 DEF PageOK, ReadSoFar, NightInv, GivenInv
  <2> HIDE DEF x, y
  <2> QED
    BY <2>1, <2>4, <2>5
<1>3. CASE Page!StatusMode(r)
  <2> DEFINE y == [reader[r] EXCEPT !.step = "threshold"]
             x == [reader[r] EXCEPT !.step = "threshold", !.pair.mode = mode]
  <2>1. reader[r].step = "mode" /\ reader' = [reader EXCEPT ![r] = x]
    BY <1>3 DEF Page!StatusMode, Page!Read
  <2>2. y \in StatusPage /\ x = [y EXCEPT !.pair.mode = mode]
    BY <1>1, PageFields DEF ReaderSteps
  <2>3. /\ x.step = "threshold" /\ x.gen = reader[r].gen /\ x.answer = reader[r].answer
        /\ x.pair.mode = mode
    BY <1>1 DEF StatusPage, Settings
  <2>4. x \in StatusPage
    <3> HIDE DEF y, x
    <3> QED
      BY <1>1, <2>2, PageFields
  <2>5. PageOK(x)
    <3> HIDE DEF y, x
    <3> QED
      BY <1>1, <2>1, <2>3 DEF PageOK, ReadSoFar
  <2> HIDE DEF x, y
  <2> QED
    BY <2>1, <2>4, <2>5
<1>4. CASE Page!StatusThreshold(r)
  <2> DEFINE y == [reader[r] EXCEPT !.step = "last"]
             x == [reader[r] EXCEPT !.step = "last", !.pair.threshold = threshold]
  <2>1. reader[r].step = "threshold" /\ reader' = [reader EXCEPT ![r] = x]
    BY <1>4 DEF Page!StatusThreshold, Page!Read
  <2>2. y \in StatusPage /\ x = [y EXCEPT !.pair.threshold = threshold]
    BY <1>1, PageFields DEF ReaderSteps
  <2>3. /\ x.step = "last" /\ x.gen = reader[r].gen /\ x.answer = reader[r].answer
        /\ x.pair.mode = reader[r].pair.mode /\ x.pair.threshold = threshold
    BY <1>1 DEF StatusPage, Settings
  <2>4. x \in StatusPage
    <3> HIDE DEF y, x
    <3> QED
      BY <1>1, <2>2, PageFields
  <2>5. PageOK(x)
    <3> HIDE DEF y, x
    <3> QED
      BY <1>1, <2>1, <2>3 DEF PageOK, ReadSoFar
  <2> HIDE DEF x, y
  <2> QED
    BY <2>1, <2>4, <2>5
<1>5. CASE \/ Page!StatusLast(r) /\ gen # reader[r].gen
           \/ Page!StatusPid(r) /\ rmm.step \in {"off", "plain"}
  <2>1. reader' = [reader EXCEPT ![r] = Page!IdleReader]
    BY <1>5 DEF Page!StatusLast, Page!StatusPid, Page!Read
  <2> QED
    BY <2>1, IdlePage
<1>6. CASE Page!StatusLast(r) /\ gen = reader[r].gen
  <2> DEFINE x == [reader[r] EXCEPT !.step = "pid"]
  <2>1. reader[r].step = "last" /\ reader' = [reader EXCEPT ![r] = x]
    BY <1>6 DEF Page!StatusLast, Page!Read
  <2>2. x \in StatusPage
    BY <1>1, PageFields DEF ReaderSteps
  <2>3. /\ x.step = "pid" /\ x.gen = reader[r].gen /\ x.answer = reader[r].answer
        /\ x.pair = reader[r].pair /\ reader[r].pair \in Settings
    BY <1>1 DEF StatusPage
  <2> HIDE DEF x
  <2>4. reader[r].pair = given[reader[r].gen]
    <3>1. /\ reader[r].gen \in DOMAIN given
          /\ reader[r].pair.mode = mode /\ reader[r].pair.threshold = threshold
      BY <1>1, <1>6, <2>1 DEF PageOK, ReadSoFar
    <3>2. given[gen] = Page!Pair(mode, threshold) /\ given[gen] \in Settings
      BY <1>6, <3>1 DEF NightInv, GivenInv, NightTypes
    <3> QED
      BY <1>6, <2>3, <3>1, <3>2, SamePair DEF Page!Pair
  <2>5. PageOK(x)
    BY <1>1, <2>1, <2>3, <2>4 DEF PageOK, ReadSoFar
  <2> QED
    BY <2>1, <2>2, <2>5
<1>7. CASE Page!StatusPid(r) /\ rmm.step \notin {"off", "plain"}
  <2> DEFINE x == [reader[r] EXCEPT !.step = "applied"]
  <2>1. reader[r].step = "pid" /\ reader' = [reader EXCEPT ![r] = x]
    BY <1>7 DEF Page!StatusPid, Page!Read
  <2>2. x \in StatusPage
    BY <1>1, PageFields DEF ReaderSteps
  <2>3. /\ x.step = "applied" /\ x.gen = reader[r].gen /\ x.answer = reader[r].answer
        /\ x.pair = reader[r].pair
    BY <1>1 DEF StatusPage
  <2> HIDE DEF x
  <2>4. PageOK(x)
    BY <1>1, <2>1, <2>3 DEF PageOK, ReadSoFar
  <2> QED
    BY <2>1, <2>2, <2>4
<1>8. CASE Page!StatusApplied(r) \/ Page!StatusState(r)
  <2> DEFINE to == IF Page!StatusApplied(r) /\ applied = reader[r].gen THEN "state" ELSE "answered"
             an == IF Page!StatusApplied(r) \/ ~Page!Agrees(reader[r].pair.mode)
                   THEN "applying" ELSE "applied"
             y  == [reader[r] EXCEPT !.step = to]
             x  == [reader[r] EXCEPT !.step = to, !.answer = an]
  <2>1. /\ reader[r].step \in {"applied", "state"} /\ reader' = [reader EXCEPT ![r] = x]
        /\ an = "applied" => reader[r].step = "state" /\ to = "answered"
        /\ to = "state" => applied = reader[r].gen
    BY <1>8 DEF Page!StatusApplied, Page!StatusState, Page!Read
  <2>2. to \in ReaderSteps /\ an \in {"none", "applied", "applying"} /\ to \in {"state", "answered"}
    BY DEF ReaderSteps
  <2> HIDE DEF to, an
  <2>3. y \in StatusPage /\ x = [y EXCEPT !.answer = an]
    BY <1>1, <2>2, PageFields
  <2>4. x.step = to /\ x.gen = reader[r].gen /\ x.answer = an /\ x.pair = reader[r].pair
    BY <1>1, <2>2 DEF StatusPage
  <2>5. x \in StatusPage
    <3> HIDE DEF y, x
    <3> QED
      BY <2>2, <2>3, PageFields
  <2>6. applied = reader[r].gen => reader[r].gen \in inForce
    BY <1>1, <2>1 DEF NightInv, ReportInv, PageOK
  <2>7. PageOK(x)
    <3> HIDE DEF y, x
    <3> QED
      BY <1>1, <2>1, <2>2, <2>4, <2>6 DEF PageOK, ReadSoFar
  <2> HIDE DEF x, y
  <2> QED
    BY <2>1, <2>5, <2>7
<1> QED
  BY <1>2, <1>3, <1>4, <1>5, <1>6, <1>7, <1>8 DEF Page!Status, Page!StatusLast

(* The steps of rmm and of the writers, without their bounds.              *)
NightRest == <<gen, mode, threshold, applied, given, inForce, reader>>
NightRestarts == rmm' = Page!FreshLoop /\ UNCHANGED <<NightRest, writer, sets>>
NightSets(w) ==
  /\ writer' = [writer EXCEPT ![w] = [Page!IdleWriter EXCEPT !.step = "lock", !.n = sets + 1]]
  /\ sets' = sets + 1 /\ UNCHANGED <<NightRest, rmm>>
NightKills(w) ==
  writer' = [writer EXCEPT ![w] = Page!IdleWriter] /\ UNCHANGED <<NightRest, rmm, sets>>
NightSteps ==
  \/ Page!CameraLoop \/ NightRestarts
  \/ \E w \in Writers : NightSets(w) \/ Page!Preload(w) \/ Page!Writing(w) \/ NightKills(w)

LEMMA PageIsNight == Page!Next => NightSteps \/ \E r \in Readers : Page!Status(r)
<1>1. Page!Restart => NightRestarts
  BY DEF Page!Restart, NightRestarts, NightRest, Page!control
<1>2. \A w \in Writers : Page!Set(w) => NightSets(w)
  BY DEF Page!Set, NightSets, NightRest, Page!others
<1>3. \A w \in Writers : Page!KillWriter(w) => NightKills(w)
  BY DEF Page!KillWriter, NightKills, NightRest, Page!control
<1> QED
  BY <1>1, <1>2, <1>3 DEF Page!Next, NightSteps

LEMMA AliveIsNight == Alive!Next => NightSteps
<1> USE DEF Alive!FreshLoop, Page!FreshLoop, Alive!IdleWriter, Page!IdleWriter, Alive!Default,
            Page!Default, Alive!Pair, Page!Pair, Alive!Odd, Page!Odd
<1>1. Alive!Restart => NightRestarts
  BY DEF Alive!Restart, NightRestarts, NightRest, Alive!control
<1>2. \A w \in Writers : Alive!Set(w) => NightSets(w)
  BY DEF Alive!Set, NightSets, NightRest, Alive!others
<1>3. \A w \in Writers : Alive!KillWriter(w) => NightKills(w)
  BY DEF Alive!KillWriter, NightKills, NightRest, Alive!control
<1>4. \A w \in Writers : Alive!Preload(w) => Page!Preload(w)
  BY DEF Alive!Preload, Page!Preload, Alive!others, Page!others
<1>5. \A w \in Writers : Alive!Writing(w) => Page!Writing(w)
  <2>1. \A n : Alive!Request(n) = Page!Request(n)
    BY DEF Alive!Request, Page!Request
  <2>2. \A w \in Writers : Alive!Lock(w) => Page!Lock(w)
    BY DEF Alive!Lock, Page!Lock, Alive!Holding, Page!Holding, Alive!others, Page!others
  <2>3. \A w \in Writers : Alive!WriteMode(w) => Page!WriteMode(w)
    BY <2>1 DEF Alive!WriteMode, Page!WriteMode, Alive!Write, Page!Write, Alive!others, Page!others
  <2>4. \A w \in Writers : Alive!WriteThreshold(w) => Page!WriteThreshold(w)
    BY <2>1 DEF Alive!WriteThreshold, Page!WriteThreshold, Alive!Write, Page!Write, Alive!others, Page!others
  <2>5. \A w \in Writers : Alive!Publish(w) => Page!Publish(w)
    BY <2>1 DEF Alive!Publish, Page!Publish, Alive!others, Page!others
  <2> QED
    BY <2>2, <2>3, <2>4, <2>5 DEF Alive!Writing, Page!Writing
<1>6. Alive!CameraLoop => Page!CameraLoop
  BY DEF Alive!CameraLoop, Alive!LoopTop, Alive!LoopFirst, Alive!LoopMode, Alive!LoopThreshold,
         Alive!LoopLast, Alive!Native, Alive!Report, Alive!Again, Alive!shared, Alive!control,
         Alive!bounds, Page!CameraLoop, Page!LoopTop, Page!LoopFirst, Page!LoopMode,
         Page!LoopThreshold, Page!LoopLast, Page!Native, Page!Report, Page!Again, Page!shared,
         Page!control, Page!bounds
<1> QED
  BY <1>1, <1>2, <1>3, <1>4, <1>5, <1>6 DEF Alive!Next, NightSteps

LEMMA FreshLoopType ==
  /\ Page!FreshLoop \in CameraLoops /\ Page!FreshLoop.step = "off"
  /\ Page!FreshLoop.gen = 0 /\ Page!FreshLoop.active = Page!Default
BY RequestType DEF Page!FreshLoop, CameraLoops, LoopSteps

(* What a writer's step has to leave, put together.                        *)
LEMMA WriterKeeps ==
  ASSUME NightInv, UNCHANGED <<part, reader, applied, inForce>>, WritersInv', Undisturbed,
         \/ UNCHANGED rmm
         \/ rmm'.step \in {"off", "plain", "top"} /\ rmm'.gen = rmm.gen /\ rmm'.active = rmm.active
         \/ rmm'.step = "off" /\ rmm'.gen = 0 /\ rmm'.active = Page!Default
  PROVE  NightInv'
<1>1. rmm' \in CameraLoops
  BY DEF WritersInv, NightTypes
<1>2. LoopInv' /\ ReportInv'
  BY <1>1, LoopKept
<1>3. part = "page" => PageInv'
  BY PageKept
<1> QED
  BY <1>2, <1>3 DEF NightInv, WritersInv

LEMMA NightMoves ==
  ASSUME NightInv, UNCHANGED part, NightSteps
  PROVE  NightInv'
<1>1. sets \in Nat /\ sets + 1 \in Nat /\ rmm \in CameraLoops /\ writer \in [Writers -> NightWriter]
  BY DEF NightInv, NightTypes
<1>2. CASE Page!CameraLoop
  <2>1. rmm' \in CameraLoops /\ LoopInv' /\ ReportInv' /\ inForce \subseteq inForce'
    BY <1>2, CameraStep
  <2>2. UNCHANGED <<gen, mode, threshold, writer, reader, given, sets>>
    BY <1>2 DEF Page!CameraLoop, Page!LoopTop, Page!LoopFirst, Page!LoopMode, Page!LoopThreshold,
       Page!LoopLast, Page!Native, Page!Report, Page!shared, Page!control, Page!bounds
  <2>3. NightTypes' /\ GivenInv' /\ StoresInv'
    <3>1. NightTypes'
      BY <2>1, <2>2 DEF NightInv, NightTypes
    <3>2. GivenInv'
      BY <2>2 DEF NightInv, GivenInv
    <3>3. StoresInv'
      BY <2>2 DEF NightInv, StoresInv, Stores
    <3> QED
      BY <3>1, <3>2, <3>3
  <2>4. Undisturbed
    BY <2>2 DEF Undisturbed
  <2>5. part = "page" => PageInv'
    BY <2>1, <2>2, <2>4, PageKept
  <2> QED
    BY <2>1, <2>3, <2>5 DEF NightInv
<1>3. CASE NightRestarts
  <2>1. rmm' = Page!FreshLoop /\ UNCHANGED <<gen, mode, threshold, writer, reader, given, sets, applied, inForce>>
    BY <1>3 DEF NightRestarts, NightRest
  <2>2. WritersInv'
    <3>1. NightTypes'
      BY <2>1, FreshLoopType DEF NightInv, NightTypes
    <3>2. GivenInv'
      BY <2>1 DEF NightInv, GivenInv
    <3>3. StoresInv'
      BY <2>1 DEF NightInv, StoresInv, Stores
    <3> QED
      BY <3>1, <3>2, <3>3 DEF WritersInv
  <2>3. Undisturbed
    BY <2>1 DEF Undisturbed
  <2> QED
    BY <2>1, <2>2, <2>3, FreshLoopType, WriterKeeps
<1>4. ASSUME NEW w \in Writers, NightSets(w) \/ Page!Preload(w) \/ NightKills(w)
      PROVE  NightInv'
  <2>1. /\ UNCHANGED <<gen, mode, threshold, given, rmm, reader, applied, inForce>> /\ sets' \in Nat
        /\ \E x \in NightWriter : x.step \in {"idle", "lock"} /\ writer' = [writer EXCEPT ![w] = x]
    BY <1>1, <1>4, NewWriters DEF NightSets, NightKills, NightRest, Page!Preload, Page!others
  <2>2. PICK x \in NightWriter : x.step \in {"idle", "lock"} /\ writer' = [writer EXCEPT ![w] = x]
    BY <2>1
  <2>3. WritersInv' /\ Undisturbed
    BY <1>1, <2>1, <2>2, WriterAside
  <2> QED
    BY <2>1, <2>3, WriterKeeps
<1>5. ASSUME NEW w \in Writers, Page!Lock(w)
      PROVE  NightInv'
  <2>1. UNCHANGED <<mode, threshold, given, sets, reader, applied, inForce>>
    BY <1>5 DEF Page!Lock, Page!others
  <2>2. CASE /\ ~Page!Odd(gen) /\ gen' = gen + 1 /\ UNCHANGED rmm
             /\ writer' = [writer EXCEPT ![w].step = "mode", ![w].gen = gen]
    <3>1. WritersInv' /\ Undisturbed
      BY <2>1, <2>2, WriterLocks
    <3> QED
      BY <2>1, <2>2, <3>1, WriterKeeps
  <2>3. CASE /\ writer' = [writer EXCEPT ![w] = Page!IdleWriter] /\ UNCHANGED gen
             /\ rmm' = IF writer[w].boot THEN [rmm EXCEPT !.step = "plain"] ELSE rmm
    <3>1. \/ UNCHANGED rmm
          \/ /\ rmm' \in CameraLoops /\ rmm'.step = "plain"
             /\ rmm'.gen = rmm.gen /\ rmm'.active = rmm.active
      <4>1. CASE rmm' = [rmm EXCEPT !.step = "plain"]
        BY <1>1, <4>1, LoopGoes DEF LoopSteps
      <4> QED
        BY <2>3, <4>1
    <3>2. rmm' \in CameraLoops
      BY <1>1, <3>1
    <3>3. WritersInv' /\ Undisturbed
      <4>1. Page!IdleWriter \in NightWriter /\ Page!IdleWriter.step \in {"idle", "lock"} /\ sets' \in Nat
        BY <1>1, <2>1, NewWriters
      <4> QED
        BY <2>1, <2>3, <3>2, <4>1, WriterAside
    <3> QED
      BY <2>1, <3>1, <3>3, WriterKeeps
  <2> QED
    BY <1>5, <2>2, <2>3 DEF Page!Lock
<1>6. ASSUME NEW w \in Writers, Page!WriteMode(w)
      PROVE  NightInv'
  <2>1. UNCHANGED <<rmm, reader, applied, inForce>>
    BY <1>6 DEF Page!WriteMode, Page!others
  <2> QED
    BY <1>6, <2>1, WriterStoresMode, WriterKeeps
<1>7. ASSUME NEW w \in Writers, Page!WriteThreshold(w)
      PROVE  NightInv'
  <2>1. UNCHANGED <<rmm, reader, applied, inForce>>
    BY <1>7 DEF Page!WriteThreshold, Page!others
  <2> QED
    BY <1>7, <2>1, WriterStoresThreshold, WriterKeeps
<1>8. ASSUME NEW w \in Writers, Page!Publish(w)
      PROVE  NightInv'
  <2>1. /\ UNCHANGED <<reader, applied, inForce>>
        /\ rmm' = IF writer[w].boot THEN [rmm EXCEPT !.step = "top"] ELSE rmm
    BY <1>8 DEF Page!Publish, Page!others
  <2>2. \/ UNCHANGED rmm
        \/ /\ rmm' \in CameraLoops /\ rmm'.step = "top"
           /\ rmm'.gen = rmm.gen /\ rmm'.active = rmm.active
    <3>1. CASE rmm' = [rmm EXCEPT !.step = "top"]
      BY <1>1, <3>1, LoopGoes DEF LoopSteps
    <3> QED
      BY <2>1, <3>1
  <2>3. rmm' \in CameraLoops
    BY <1>1, <2>2
  <2>4. WritersInv' /\ Undisturbed
    BY <1>8, <2>3, WriterPublishes
  <2> QED
    BY <2>1, <2>2, <2>4, WriterKeeps
<1> QED
  BY <1>2, <1>3, <1>4, <1>5, <1>6, <1>7, <1>8 DEF NightSteps, Page!Writing

LEMMA PageMoves ==
  ASSUME NightInv, part = "page", UNCHANGED part, NEW r \in Readers, Page!Status(r)
  PROVE  NightInv'
<1>1. UNCHANGED <<gen, mode, threshold, applied, state, rmm, writer, sets, given, inForce>>
  BY DEF Page!Status, Page!StatusFirst, Page!StatusMode, Page!StatusThreshold, Page!StatusLast,
         Page!StatusPid, Page!StatusApplied, Page!StatusState, Page!unread, Page!control, Page!bounds
<1>2. PICK x \in StatusPage : reader' = [reader EXCEPT ![r] = x] /\ PageOK(x)
  BY StatusStep
<1>3. reader \in [Readers -> StatusPage] /\ \A q \in Readers : PageOK(reader[q])
  BY DEF NightInv, PageInv
<1>4. reader' \in [Readers -> StatusPage] /\ \A q \in Readers : PageOK(reader'[q])
  BY <1>2, <1>3
<1>5. PageInv'
  BY <1>1, <1>4 DEF PageInv, PageOK, ReadSoFar
<1>6. NightTypes' /\ LoopInv' /\ ReportInv'
  BY <1>1 DEF NightInv, NightTypes, LoopInv, ReportInv, ReadSoFar
<1>7. GivenInv' /\ StoresInv'
  BY <1>1 DEF NightInv, GivenInv, StoresInv, Stores
<1> QED
  BY <1>5, <1>6, <1>7 DEF NightInv

LEMMA NightInit == Init => NightInv
<1> SUFFICES ASSUME Init PROVE NightInv
    OBVIOUS
<1>1. /\ gen = 2 /\ mode = "auto" /\ threshold = 0 /\ applied = 0 /\ sets = 0 /\ inForce = {}
      /\ rmm = [Page!FreshLoop EXCEPT !.step = "top"]
      /\ writer = [w \in Writers |-> Page!IdleWriter]
      /\ given = [g \in {0, 2} |-> Page!Default]
      /\ part = "page" => reader = [r \in Readers |-> Page!IdleReader]
  <2>1. CASE part = "page"
    BY <2>1 DEF Init, Page!Init
  <2>2. CASE part # "page"
    BY <2>2 DEF Init, Alive!Init, Alive!FreshLoop, Page!FreshLoop, Alive!IdleWriter, Page!IdleWriter,
       Alive!Default, Page!Default, Alive!Pair, Page!Pair
  <2> QED
    BY <2>1, <2>2
<1>2. rmm \in CameraLoops /\ rmm.step = "top" /\ rmm.gen = 0 /\ rmm.active = Page!Default
  BY <1>1, FreshLoopType, LoopGoes DEF LoopSteps
<1>3. Page!IdleWriter \in NightWriter /\ Page!IdleWriter.step = "idle"
  BY <1>1, NewWriters
<1>4. writer \in [Writers -> NightWriter] /\ \A w \in Writers : ~Stores(w) /\ writer[w].step = "idle"
  BY <1>1, <1>3 DEF Stores
<1>5. DOMAIN given = {0, 2} /\ given[0] = Page!Default /\ given[2] = Page!Default
  BY <1>1
<1>6. NightTypes
  BY <1>1, <1>2, <1>4, <1>5, RequestType DEF NightTypes
<1>7. GivenInv
  <2>1. ~Page!Odd(0) /\ ~Page!Odd(2)
    BY DEF Page!Odd
  <2>2. Page!Pair(mode, threshold) = Page!Default
    BY <1>1 DEF Page!Pair, Page!Default
  <2> QED
    BY <1>1, <1>5, <2>1, <2>2 DEF GivenInv
<1>8. StoresInv
  BY <1>4 DEF StoresInv
<1>9. LoopInv /\ ReportInv
  BY <1>1, <1>2, <1>5 DEF LoopInv, ReportInv, ReadSoFar
<1>10. part = "page" => PageInv
  BY <1>1, IdlePage DEF PageInv
<1> QED
  BY <1>6, <1>7, <1>8, <1>9, <1>10 DEF NightInv

LEMMA NightKept == NightInv /\ UNCHANGED <<part, night>> => NightInv'
<1> SUFFICES ASSUME NightInv, UNCHANGED <<part, night>> PROVE NightInv'
    OBVIOUS
<1>1. UNCHANGED <<part, gen, mode, threshold, applied, rmm, writer, reader, sets, given, inForce>>
  BY DEF night
<1>2. NightTypes' /\ GivenInv'
  BY <1>1 DEF NightInv, NightTypes, GivenInv
<1>3. StoresInv' /\ LoopInv' /\ ReportInv'
  BY <1>1 DEF NightInv, StoresInv, Stores, LoopInv, ReportInv, ReadSoFar
<1>4. part = "page" => PageInv'
  BY <1>1 DEF NightInv, PageInv, PageOK, ReadSoFar
<1> QED
  BY <1>1, <1>2, <1>3, <1>4 DEF NightInv

(* However many nightvisionctl processes write, are killed or find rmm     *)
(* restarting: the camera uses a pair that was published as a pair, and    *)
(* what the page shows as applied was in force (nightvision.c,             *)
(* nightvisionctl.c).                                                      *)
THEOREM PairsAreWhole == Spec => []PairsWhole
<1>1. NightInv /\ [Next]_vars => NightInv'
  <2> SUFFICES ASSUME NightInv, [Next]_vars PROVE NightInv'
      OBVIOUS
  <2>1. UNCHANGED part
    BY DEF Next, vars
  <2>2. CASE part = "page" /\ Page!Next
    BY <2>1, <2>2, PageIsNight, NightMoves, PageMoves
  <2>3. CASE part = "alive" /\ Alive!Next
    BY <2>1, <2>3, AliveIsNight, NightMoves
  <2>4. CASE UNCHANGED night
    BY <2>1, <2>4, NightKept
  <2> QED
    BY <2>2, <2>3, <2>4 DEF Next, vars
<1>2. NightInv => PairsWhole
  <2> SUFFICES ASSUME NightInv PROVE PairsWhole
      OBVIOUS
  <2>1. Alive!PairsWhole
    BY DEF NightInv, LoopInv, Alive!PairsWhole
  <2>2. part = "page" => Page!AppliedIsTrue
    BY DEF NightInv, PageInv, PageOK, Page!AppliedIsTrue
  <2> QED
    BY <2>1, <2>2 DEF PairsWhole
<1> QED
  BY <1>1, <1>2, NightInit, PTL DEF Spec

-----------------------------------------------------------------------------
(* Remainders: what the provers need of them, for any divisor.             *)
LEMMA ModDiv ==
  ASSUME NEW a \in Int, NEW c \in Nat \ {0}
  PROVE  a = c * (a \div c) + (a % c) /\ a \div c \in Int /\ a % c \in 0..(c - 1)
BY Z3

LEMMA NoMultiple ==
  ASSUME NEW c \in Nat \ {0}, NEW q \in Int PROVE c * q \in Int /\ (c * q <= 0 \/ c * q >= c)
<1>1. CASE q <= 0
  BY <1>1
<1>2. CASE q >= 1
  BY <1>2
<1> QED
  BY <1>1, <1>2

LEMMA ModIs ==
  ASSUME NEW a \in Int, NEW c \in Nat \ {0}, NEW q \in Int, NEW r \in 0..(c - 1), a = c * q + r
  PROVE  a % c = r
<1> DEFINE p == a \div c
           s == a % c
<1>1. a = c * p + s /\ p \in Int /\ s \in 0..(c - 1)
  BY ModDiv
<1> HIDE DEF p, s
<1>2. c * p \in Int /\ c * q \in Int /\ q - p \in Int /\ p - q \in Int
  BY <1>1
<1>3. s - r = c * q - c * p /\ s - r > -c /\ s - r < c /\ s - r \in Int
  BY <1>1, <1>2
<1>4. c * q - c * p = c * (q - p) /\ c * p - c * q = c * (p - q)
  BY <1>1
<1>5. /\ c * (q - p) <= 0 \/ c * (q - p) >= c
      /\ c * (p - q) <= 0 \/ c * (p - q) >= c
  BY <1>2, NoMultiple
<1> DEFINE d == s - r
<1>6. d \in Int /\ -c < d /\ d < c /\ c * q - c * p = d
  BY <1>3
<1>7. c * p - c * q = -d
  BY <1>2, <1>6
<1> HIDE DEF d
<1>8. d <= 0 \/ d >= c
  BY <1>4, <1>5, <1>6
<1>9. -d <= 0 \/ -d >= c
  BY <1>4, <1>5, <1>7
<1>10. d = 0
  BY <1>6, <1>8, <1>9
<1> QED
  BY <1>1, <1>10 DEF s, d

LEMMA ModUnique ==
  ASSUME NEW a \in Int, NEW b \in Int, NEW c \in Nat \ {0}, a % c = b % c, b - a < c, a - b < c
  PROVE  a = b
<1> DEFINE p == a \div c
           q == b \div c
           r == a % c
<1>1. a = c * p + r /\ b = c * q + r /\ p \in Int /\ q \in Int /\ r \in Int
  BY ModDiv
<1> HIDE DEF p, q, r
<1>2. c * p \in Int /\ c * q \in Int /\ q - p \in Int /\ p - q \in Int
  BY <1>1
<1>3. b - a = c * q - c * p /\ a - b = c * p - c * q
  BY <1>1, <1>2
<1>4. c * q - c * p = c * (q - p) /\ c * p - c * q = c * (p - q)
  BY <1>1
<1>5. /\ c * (q - p) <= 0 \/ c * (q - p) >= c
      /\ c * (p - q) <= 0 \/ c * (p - q) >= c
  BY <1>2, NoMultiple
<1>6. b - a <= 0 /\ a - b <= 0
  BY <1>3, <1>4, <1>5
<1> QED
  BY <1>6

LEMMA ModShift ==
  ASSUME NEW a \in Int, NEW b \in Int, NEW c \in Nat \ {0}, NEW i \in Int, a % c = b % c
  PROVE  (a + i) % c = (b + i) % c
<1> DEFINE p == a \div c
           q == b \div c
           r == a % c
           u == (a + i) \div c
           t == (a + i) % c
<1>1. a = c * p + r /\ b = c * q + r /\ p \in Int /\ q \in Int /\ r \in Int
  BY ModDiv
<1>2. a + i = c * u + t /\ u \in Int /\ t \in 0..(c - 1)
  BY ModDiv
<1> HIDE DEF p, q, r, u, t
<1>3. c * p \in Int /\ c * q \in Int /\ c * u \in Int /\ u + q - p \in Int
  BY <1>1, <1>2
<1>4. b + i = c * u + c * q - c * p + t
  BY <1>1, <1>2, <1>3
<1>5. c * u + c * q - c * p = c * (u + q - p)
  BY <1>1, <1>2
<1>6. b + i = c * (u + q - p) + t
  BY <1>4, <1>5
<1>7. b + i \in Int
  OBVIOUS
<1>8. (b + i) % c = t
  BY <1>2, <1>3, <1>6, <1>7, ModIs
<1> QED
  BY <1>8 DEF t

LEMMA ModWrap ==
  ASSUME NEW a \in Int, NEW c \in Nat \ {0} PROVE (a + c) % c = a % c
<1> DEFINE p == a \div c
           r == a % c
<1>1. a = c * p + r /\ p \in Int /\ r \in 0..(c - 1)
  BY ModDiv
<1> HIDE DEF p, r
<1>2. c * (p + 1) = c * p + c /\ p + 1 \in Int /\ c * p \in Int
  BY <1>1
<1>3. a + c = c * (p + 1) + r /\ a + c \in Int
  BY <1>1, <1>2
<1>4. (a + c) % c = r
  BY <1>1, <1>2, <1>3, ModIs
<1> QED
  BY <1>4 DEF r

LEMMA ModSmall ==
  ASSUME NEW a \in Nat, NEW c \in Nat \ {0}, a < c PROVE a % c = a
BY Z3
-----------------------------------------------------------------------------
(* The ring of frames.  Addresses and the words of the header are modulo   *)
(* the ring; the invariant speaks of frame numbers: n is the frame that    *)
(* the capture thread has come to, and those of its batch are before it.   *)
AbsEnd == IF end = Frames!Cell(written + 1) THEN written + 1 ELSE written

EncoderInv ==
  /\ written \in First..Last /\ ring \in [0..(Cells - 1) -> Nat]
  /\ end \in {Frames!Cell(written), Frames!Cell(written + 1)}
  /\ torn \in {Cells, Frames!Cell(written)}
  /\ \A k \in First..written : written - k < Cells => ring[Frames!Cell(k)] = k

(* The encoder does not come round to what is still to be copied, and the  *)
(* frame it is writing is never in the batch.                              *)
CaptureInv(n) ==
  /\ n \in (First + 1)..AbsEnd /\ prev \in 0..Cells /\ Frames!Cell(prev) = Frames!Cell(n)
  /\ batch \in Seq(0..Cells) /\ (pc = "copy" <=> Len(batch) > 0) /\ n - Len(batch) > First
  /\ (written + 1 - n) + Len(batch) < Cells
  /\ Len(batch) > 0 => n <= written
  /\ \A i \in 1..Len(batch) : Frames!Cell(batch[i]) = Frames!Cell(n - Len(batch) + i - 1)

Queued == [num : (First + 1)..Last, whole : BOOLEAN]

QueueBelow(q, k) ==
  /\ q \in Seq(Queued)
  /\ \A i \in 1..Len(q) : q[i].whole = TRUE /\ q[i].num < k
  /\ \A i \in 1..(Len(q) - 1) : q[i].num < q[i + 1].num

QueueInv(n) == QueueBelow(queue, n - Len(batch))

(* In a session that has begun the last frame counted is the last one      *)
(* delivered.                                                              *)
SourceInv ==
  /\ last \in {-1} \cup (First + 1)..Last /\ heard \in Int \X Int
  /\ started = TRUE => playing = TRUE
  /\ started = TRUE /\ last # -1 => heard[1] = last
  /\ Frames!Decodable

StreamInv == EncoderInv /\ SourceInv /\ \E n \in Int : CaptureInv(n) /\ QueueInv(n)

LEMMA FrameConstants ==
  /\ Cells \in Nat \ {0} /\ Cells > 2 /\ MaxBatch \in Nat /\ 1 < MaxBatch /\ MaxBatch < Cells
  /\ QueueMax \in Nat \ {0} /\ First \in Nat /\ Last \in Nat /\ First <= Last
  /\ Modulus \in Nat \ {0} /\ Last - First < Modulus
BY FramesAssumption DEF Frames!FrameRingAssumption

LEMMA TailFacts ==
  ASSUME NEW S, NEW s \in Seq(S), Len(s) > 0
  PROVE  /\ Tail(s) \in Seq(S) /\ Len(Tail(s)) = Len(s) - 1 /\ Head(s) = s[1] /\ s[1] \in S
         /\ \A i \in 1..(Len(s) - 1) : Tail(s)[i] = s[i + 1]
OBVIOUS

(* Two frames less than a ring apart are in different cells.               *)
LEMMA CellUnique ==
  ASSUME NEW a \in Int, NEW b \in Int, Frames!Cell(a) = Frames!Cell(b), b - a < Cells, a - b < Cells
  PROVE  a = b
<1>1. Cells \in Nat \ {0} /\ a % Cells = b % Cells
  BY FrameConstants DEF Frames!Cell
<1> QED
  BY <1>1, ModUnique

LEMMA CellRange ==
  ASSUME NEW a \in Int PROVE Frames!Cell(a) \in 0..(Cells - 1) /\ Frames!Cell(a) \in Int
<1>1. Cells \in Nat \ {0}
  BY FrameConstants
<1>2. a % Cells \in 0..(Cells - 1)
  BY <1>1, ModDiv
<1> QED
  BY <1>1, <1>2 DEF Frames!Cell

LEMMA CellShift ==
  ASSUME NEW a \in Int, NEW b \in Int, NEW i \in Int, Frames!Cell(a) = Frames!Cell(b)
  PROVE  Frames!Cell(a + i) = Frames!Cell(b + i)
<1>1. Cells \in Nat \ {0} /\ a % Cells = b % Cells
  BY FrameConstants DEF Frames!Cell
<1> QED
  BY <1>1, ModShift DEF Frames!Cell

LEMMA CellWrap ==
  ASSUME NEW a \in Int PROVE Frames!Cell(a + Cells) = Frames!Cell(a)
BY FrameConstants, ModWrap DEF Frames!Cell

LEMMA CellSmall ==
  ASSUME NEW a \in 0..(Cells - 1) PROVE Frames!Cell(a) = a
<1>1. Cells \in Nat \ {0} /\ a \in Nat /\ a < Cells
  BY FrameConstants
<1> QED
  BY <1>1, ModSmall DEF Frames!Cell

LEMMA CellOfEnd ==
  ASSUME EncoderInv
  PROVE  /\ AbsEnd \in {written, written + 1} /\ AbsEnd \in Int /\ end = Frames!Cell(AbsEnd)
         /\ end \in 0..(Cells - 1) /\ end \in Int /\ written \in Int /\ AbsEnd <= written + 1 /\ written <= AbsEnd
<1>1. written \in Int
  BY FrameConstants DEF EncoderInv
<1>2. AbsEnd \in {written, written + 1} /\ end = Frames!Cell(AbsEnd)
  BY DEF EncoderInv, AbsEnd
<1> QED
  BY <1>1, <1>2, CellRange, FrameConstants

(* What lies between the capture thread and the end of the ring.           *)
LEMMA BacklogIs ==
  ASSUME NEW n \in Int, EncoderInv, CaptureInv(n) PROVE Frames!Backlog = AbsEnd - n
<1>1. Cells \in Int /\ prev \in Int /\ AbsEnd \in Int /\ end \in Int /\ end = Frames!Cell(AbsEnd) /\ end \in 0..(Cells - 1)
  BY CellOfEnd, FrameConstants DEF CaptureInv
<1>2. Frames!Cell(end) = Frames!Cell(AbsEnd)
  BY <1>1, CellSmall
<1>3. Frames!Cell(end + (Cells - prev)) = Frames!Cell(AbsEnd + (Cells - prev))
  <2>1. Cells - prev \in Int
    BY <1>1
  <2> QED
    BY <1>1, <1>2, <2>1, CellShift
<1>4. Frames!Cell(prev + (AbsEnd + Cells - prev - n)) = Frames!Cell(n + (AbsEnd + Cells - prev - n))
  <2>1. Frames!Cell(prev) = Frames!Cell(n) /\ AbsEnd + Cells - prev - n \in Int
    BY <1>1 DEF CaptureInv
  <2> QED
    BY <1>1, <2>1, CellShift
<1>5. /\ prev + (AbsEnd + Cells - prev - n) = (AbsEnd - n) + Cells /\ AbsEnd - n \in Int
      /\ n + (AbsEnd + Cells - prev - n) = AbsEnd + (Cells - prev)
      /\ end + (Cells - prev) = end + Cells - prev
  BY <1>1
<1>6. Frames!Cell((AbsEnd - n) + Cells) = Frames!Cell(AbsEnd - n)
  BY <1>5, CellWrap
<1>7. AbsEnd - n \in 0..(Cells - 1)
  <2>1. AbsEnd <= written + 1 /\ written \in Int
    BY CellOfEnd
  <2>2. n <= AbsEnd /\ (written + 1 - n) + Len(batch) < Cells /\ Len(batch) \in Nat
    BY DEF CaptureInv
  <2> QED
    BY <1>1, <2>1, <2>2
<1>8. Frames!Cell(AbsEnd - n) = AbsEnd - n
  BY <1>7, CellSmall
<1> QED
  BY <1>3, <1>4, <1>5, <1>6, <1>8 DEF Frames!Backlog

LEMMA StreamInit ==
  ASSUME Frames!Init PROVE StreamInv
<1> USE FrameConstants
<1>1. First \in Int /\ First + 1 \in Int
  OBVIOUS
<1>2. EncoderInv
  <2>1. written \in First..Last /\ end = Frames!Cell(written + 1) /\ torn = Cells /\ written = First
    BY DEF Frames!Init
  <2>2. ring \in [0..(Cells - 1) -> Nat]
    BY DEF Frames!Init
  <2>3. \A k \in First..written : written - k < Cells => ring[Frames!Cell(k)] = k
    BY <1>1, CellRange DEF Frames!Init
  <2> QED
    BY <2>1, <2>2, <2>3 DEF EncoderInv
<1>3. SourceInv
  BY DEF Frames!Init, SourceInv, Frames!Decodable
<1>4. CaptureInv(First + 1) /\ QueueInv(First + 1)
  <2>1. AbsEnd = First + 1 /\ written = First
    BY DEF Frames!Init, AbsEnd
  <2>2. prev = Frames!Cell(First + 1) /\ prev \in 0..(Cells - 1)
    BY <1>1, CellRange DEF Frames!Init
  <2>3. Frames!Cell(prev) = Frames!Cell(First + 1)
    BY <2>2, CellSmall
  <2>4. batch = <<>> /\ Len(batch) = 0 /\ batch \in Seq(0..Cells) /\ pc = "poll"
    BY DEF Frames!Init
  <2>5. CaptureInv(First + 1)
    BY <2>1, <2>2, <2>3, <2>4 DEF CaptureInv
  <2> QED
    BY <2>5 DEF QueueInv, QueueBelow, Frames!Init
<1> QED
  BY <1>1, <1>2, <1>3, <1>4 DEF StreamInv

-----------------------------------------------------------------------------
LEMMA StepBegin ==
  ASSUME StreamInv, Frames!Begin, UNCHANGED <<Frames!capture, queue, Frames!source>> PROVE StreamInv'
<1> USE FrameConstants
<1> PICK n \in Int : CaptureInv(n) /\ QueueInv(n)
  BY DEF StreamInv
<1>0. EncoderInv /\ SourceInv
  BY DEF StreamInv
<1>1. /\ written \in Int /\ written' = written + 1 /\ written + 1 \in Int /\ written + 2 \in Int
      /\ end' = end /\ end = Frames!Cell(written + 1) /\ AbsEnd = written + 1
  BY <1>0 DEF EncoderInv, Frames!Begin, AbsEnd
<1>2. AbsEnd' = written + 1
  <2>1. Frames!Cell(written + 1) # Frames!Cell(written + 2)
    BY <1>1, CellUnique
  <2> QED
    BY <1>1, <2>1 DEF AbsEnd
<1>3. EncoderInv'
  <2>1. written' \in First..Last
    BY <1>0, <1>1 DEF EncoderInv, Frames!Begin
  <2>2. Frames!Cell(written + 1) \in 0..(Cells - 1)
    BY <1>1, CellRange
  <2>3. ring' = [ring EXCEPT ![Frames!Cell(written + 1)] = written + 1] /\ ring \in [0..(Cells - 1) -> Nat] /\ written + 1 \in Nat
    BY <1>0 DEF EncoderInv, Frames!Begin
  <2>4. ring' \in [0..(Cells - 1) -> Nat]
    BY <2>2, <2>3
  <2>5. ASSUME NEW k \in First..written', written' - k < Cells
        PROVE  ring'[Frames!Cell(k)] = k
    <3>0. k \in Int /\ k <= written + 1 /\ Frames!Cell(k) \in 0..(Cells - 1)
      BY <1>1, CellRange
    <3>1. CASE k = written + 1
      BY <2>2, <2>3, <3>1
    <3>2. CASE k # written + 1
      <4>1. k \in First..written /\ written - k < Cells
        BY <1>1, <2>5, <3>0, <3>2
      <4>2. ring[Frames!Cell(k)] = k
        BY <1>0, <4>1 DEF EncoderInv
      <4>3. Frames!Cell(k) # Frames!Cell(written + 1)
        BY <1>1, <2>5, <3>0, <3>2, CellUnique
      <4> QED
        BY <2>2, <2>3, <3>0, <4>2, <4>3
    <3> QED
      BY <3>1, <3>2
  <2>6. torn' = Frames!Cell(written') /\ end' = Frames!Cell(written')
    BY <1>1 DEF Frames!Begin
  <2> QED
    BY <2>1, <2>4, <2>5, <2>6 DEF EncoderInv
<1>4. SourceInv' /\ QueueInv(n)'
  BY <1>0 DEF SourceInv, QueueInv, QueueBelow, Frames!capture, Frames!source, Frames!Decodable, Frames!Key
<1>5. CaptureInv(n)'
  <2>1. Frames!Backlog = AbsEnd - n
    BY <1>0, BacklogIs
  <2>2. (AbsEnd - n) + Len(batch) + 1 < Cells
    BY <2>1 DEF Frames!Begin
  <2>3. (written' + 1 - n) + Len(batch) < Cells
    BY <1>1, <2>2 DEF CaptureInv
  <2>4. Len(batch) > 0 => n <= written'
    BY <1>1 DEF CaptureInv
  <2> QED
    BY <1>1, <1>2, <2>3, <2>4 DEF CaptureInv, Frames!capture
<1> QED
  BY <1>3, <1>4, <1>5 DEF StreamInv

LEMMA StepHeader ==
  ASSUME StreamInv, Frames!HeaderWord \/ Frames!Finish,
         UNCHANGED <<Frames!capture, queue, Frames!source>> PROVE StreamInv'
<1> USE FrameConstants
<1> PICK n \in Int : CaptureInv(n) /\ QueueInv(n)
  BY DEF StreamInv
<1>0. EncoderInv /\ SourceInv
  BY DEF StreamInv
<1>1. /\ written' = written /\ ring' = ring /\ torn' \in {torn, Cells}
      /\ end' \in {end, Frames!Cell(written + 1)}
  BY DEF Frames!HeaderWord, Frames!Finish
<1>2. EncoderInv'
  BY <1>0, <1>1 DEF EncoderInv
<1>3. AbsEnd' >= AbsEnd /\ AbsEnd' \in Int /\ AbsEnd \in Int
  BY <1>0, <1>1 DEF AbsEnd, EncoderInv
<1>4. CaptureInv(n)'
  BY <1>1, <1>3 DEF CaptureInv, Frames!capture
<1>5. SourceInv' /\ QueueInv(n)'
  BY <1>0 DEF SourceInv, QueueInv, QueueBelow, Frames!capture, Frames!source, Frames!Decodable, Frames!Key
<1> QED
  BY <1>2, <1>4, <1>5 DEF StreamInv

LEMMA StepPoll ==
  ASSUME StreamInv, Frames!Poll PROVE StreamInv'
<1> PICK n \in Int : CaptureInv(n) /\ QueueInv(n)
  BY DEF StreamInv
<1>1. EncoderInv' /\ SourceInv' /\ QueueInv(n)'
  BY DEF StreamInv, EncoderInv, SourceInv, QueueInv, QueueBelow, Frames!Poll, Frames!encoder, Frames!source, Frames!Decodable, Frames!Key
<1>2. pc = "poll" /\ pc' = "confirm" /\ batch' = batch /\ AbsEnd' = AbsEnd /\ prev' = prev /\ written' = written
  BY DEF Frames!Poll, Frames!encoder, AbsEnd
<1>3. CaptureInv(n)'
  BY <1>2 DEF CaptureInv
<1> QED
  BY <1>1, <1>3 DEF StreamInv

(* The addresses of a walk are those of the frames from n on.              *)
LEMMA MoveIs ==
  ASSUME NEW n \in Int, CaptureInv(n), NEW i \in 0..(MaxBatch - 1)
  PROVE  Frames!Move(prev, i) \in 0..Cells /\ Frames!Cell(Frames!Move(prev, i)) = Frames!Cell(n + i)
<1> USE FrameConstants
<1>1. prev \in 0..Cells /\ prev \in Int /\ i \in Int /\ Frames!Cell(prev) = Frames!Cell(n)
  BY DEF CaptureInv
<1>2. Frames!Cell(prev + i) = Frames!Cell(n + i)
  BY <1>1, CellShift
<1>3. CASE prev + i > Cells
  <2>1. Frames!Move(prev, i) = prev + i - Cells /\ prev + i - Cells \in 0..Cells /\ prev + i - Cells \in Int
    BY <1>1, <1>3 DEF Frames!Move
  <2>2. Frames!Cell((prev + i - Cells) + Cells) = Frames!Cell(prev + i - Cells)
    BY <2>1, CellWrap
  <2>3. (prev + i - Cells) + Cells = prev + i
    BY <1>1
  <2> QED
    BY <1>2, <2>1, <2>2, <2>3
<1>4. CASE ~(prev + i > Cells)
  BY <1>1, <1>2, <1>4 DEF Frames!Move
<1> QED
  BY <1>3, <1>4

(* A walk that comes to the end has exactly the frames from n on to it.    *)
LEMMA WalkIs ==
  ASSUME NEW n \in Int, EncoderInv, CaptureInv(n)
  PROVE  LET w == Frames!Walk(end)
         IN  \E m \in 0..MaxBatch : 
               /\ w = [i \in 1..m |-> Frames!Move(prev, i - 1)]
               /\ m < MaxBatch => m = AbsEnd - n
<1> USE FrameConstants
<1> DEFINE ends == {i \in 1..MaxBatch : Frames!Move(prev, i - 1) = end}
           m == IF ends = {} THEN MaxBatch ELSE (CHOOSE i \in ends : \A j \in ends : i <= j) - 1
<1>1. Frames!Walk(end) = [i \in 1..m |-> Frames!Move(prev, i - 1)]
  BY DEF Frames!Walk
<1>2. /\ AbsEnd \in Int /\ end = Frames!Cell(AbsEnd) /\ end \in 0..(Cells - 1)
      /\ AbsEnd - n < Cells /\ n <= AbsEnd
  <2>1. (written + 1 - n) + Len(batch) < Cells /\ Len(batch) \in Nat /\ n <= AbsEnd
    BY DEF CaptureInv
  <2> QED
    BY <2>1, CellOfEnd
<1>3. ASSUME NEW i \in ends PROVE i = AbsEnd - n + 1
  <2>1. i \in 1..MaxBatch /\ i \in Int /\ i - 1 \in 0..(MaxBatch - 1) /\ Frames!Move(prev, i - 1) = end
    OBVIOUS
  <2>2. Frames!Cell(end) = Frames!Cell(n + (i - 1))
    BY <2>1, MoveIs
  <2>3. Frames!Cell(end) = end
    BY <1>2, CellSmall
  <2>4. n + (i - 1) \in Int /\ AbsEnd - (n + (i - 1)) < Cells /\ (n + (i - 1)) - AbsEnd < Cells
    BY <1>2, <2>1
  <2>5. n + (i - 1) = AbsEnd
    BY <1>2, <2>2, <2>3, <2>4, CellUnique
  <2> QED
    BY <1>2, <2>1, <2>5
<1>4. CASE ends = {}
  BY <1>1, <1>4
<1>5. CASE ends # {}
  <2>1. PICK e \in ends : TRUE
    BY <1>5
  <2>2. e \in 1..MaxBatch /\ e = AbsEnd - n + 1 /\ \A i \in ends : i = e
    BY <1>3, <2>1
  <2> HIDE DEF ends
  <2>3. e <= e
    BY <2>2
  <2>4. (CHOOSE i \in ends : \A j \in ends : i <= j) = e
    BY <2>1, <2>2, <2>3
  <2>5. m = e - 1
    BY <1>5, <2>4
  <2>6. m \in 0..MaxBatch /\ m = AbsEnd - n
    BY <1>2, <2>2, <2>5
  <2> HIDE DEF m
  <2> QED
    BY <1>1, <2>6
<1> QED
  BY <1>4, <1>5

LEMMA QueuedNumbers ==
  ASSUME NEW q \in Seq(Queued), NEW i \in 1..Len(q) PROVE q[i] \in Queued /\ q[i].num \in First..Last /\ q[i].num \in Int
<1>1. q[i] \in Queued
  OBVIOUS
<1> QED
  BY <1>1, FrameConstants DEF Queued

LEMMA StepConfirm ==
  ASSUME StreamInv, Frames!Confirm PROVE StreamInv'
<1> USE FrameConstants
<1> PICK n \in Int : CaptureInv(n) /\ QueueInv(n)
  BY DEF StreamInv
<1>0. EncoderInv /\ SourceInv
  BY DEF StreamInv
<1>1. PICK m \in 0..MaxBatch : /\ Frames!Walk(end) = [i \in 1..m |-> Frames!Move(prev, i - 1)]
                               /\ m < MaxBatch => m = AbsEnd - n
  BY <1>0, WalkIs
<1> DEFINE w == Frames!Walk(end)
<1>2. w \in Seq(0..Cells) /\ Len(w) = m /\ \A i \in 1..m : w[i] \in 0..Cells /\ Frames!Cell(w[i]) = Frames!Cell(n + (i - 1))
  <2>1. \A i \in 1..m : /\ Frames!Move(prev, i - 1) \in 0..Cells
                        /\ Frames!Cell(Frames!Move(prev, i - 1)) = Frames!Cell(n + (i - 1))
    <3> TAKE i \in 1..m
    <3>1. i - 1 \in 0..(MaxBatch - 1)
      OBVIOUS
    <3> QED
      BY <3>1, MoveIs
  <2> QED
    BY <1>1, <2>1
<1>3. EncoderInv' /\ SourceInv' /\ queue' = queue /\ end' = end /\ written' = written /\ AbsEnd' = AbsEnd
  BY <1>0 DEF EncoderInv, SourceInv, Frames!Confirm, Frames!encoder, Frames!source, Frames!Decodable, Frames!Key, AbsEnd
<1>4. /\ AbsEnd \in Int /\ AbsEnd <= written + 1 /\ written \in Int /\ written <= AbsEnd
      /\ end \in 0..(Cells - 1) /\ end = Frames!Cell(AbsEnd)
  BY <1>0, CellOfEnd
<1>5. pc = "confirm" /\ batch \in Seq(0..Cells) /\ Len(batch) = 0 /\ n > First /\ n <= AbsEnd /\ written + 1 - n < Cells
  <2>1. pc = "confirm"
    BY DEF Frames!Confirm
  <2>2. batch \in Seq(0..Cells) /\ Len(batch) \in Nat /\ ~(Len(batch) > 0)
    BY <2>1 DEF CaptureInv
  <2>3. Len(batch) = 0 /\ n \in (First + 1)..AbsEnd /\ (written + 1 - n) + Len(batch) < Cells
    BY <2>2 DEF CaptureInv
  <2> QED
    BY <1>4, <2>1, <2>2, <2>3
<1>6. queue \in Seq(Queued) /\ \A i \in 1..Len(queue) : queue[i].num \in Int /\ queue[i].num < n
  <2>1. queue \in Seq(Queued) /\ \A i \in 1..Len(queue) : queue[i] \in Queued /\ queue[i].num < n - Len(batch)
    BY DEF QueueInv, QueueBelow
  <2>2. n - Len(batch) = n
    BY <1>5
  <2> QED
    BY <2>1, <2>2, QueuedNumbers
<1>7. CASE pc' = "poll" /\ prev' = prev /\ batch' = batch
  <2>1. CaptureInv(n)'
    BY <1>3, <1>5, <1>7 DEF CaptureInv
  <2>2. QueueInv(n)'
    BY <1>3, <1>7 DEF QueueInv, QueueBelow
  <2> QED
    BY <1>3, <2>1, <2>2 DEF StreamInv
<1>8. CASE prev' = end /\ pc' = "poll" /\ batch' = batch
  <2>1. Frames!Cell(end) = end
    BY <1>4, CellSmall
  <2>2. CaptureInv(AbsEnd)'
    BY <1>3, <1>4, <1>5, <1>8, <2>1 DEF CaptureInv
  <2>3. QueueInv(AbsEnd)'
    <3>1. \A i \in 1..Len(queue) : queue[i].num < AbsEnd' - Len(batch')
      BY <1>3, <1>4, <1>5, <1>8, <1>6
    <3> QED
      BY <1>3, <3>1 DEF QueueInv, QueueBelow
  <2> QED
    BY <1>3, <1>4, <2>2, <2>3 DEF StreamInv
<1>9. CASE 1 < Len(w) /\ Len(w) < MaxBatch /\ prev' = w[Len(w)] /\ batch' = SubSeq(w, 1, Len(w) - 1) /\ pc' = "copy"
  <2> PICK p \in Int : p = AbsEnd - 1
    BY <1>4
  <2>1. m > 1 /\ m = AbsEnd - n /\ p \in Int /\ p = n + (m - 1) /\ p <= written
    BY <1>1, <1>2, <1>4, <1>9
  <2>2. batch' \in Seq(0..Cells) /\ Len(batch') = m - 1 /\ \A i \in 1..(m - 1) : batch'[i] = w[i]
    BY <1>2, <1>9, <2>1
  <2> HIDE DEF w
  <2>3. prev' \in 0..Cells /\ Frames!Cell(prev') = Frames!Cell(p)
    BY <1>2, <1>9, <2>1
  <2>4. p - Len(batch') = n
    BY <2>1, <2>2
  <2>5. \A i \in 1..Len(batch') : Frames!Cell(batch'[i]) = Frames!Cell(n + i - 1)
    <3> TAKE i \in 1..Len(batch')
    <3>1. i \in 1..m /\ n + i - 1 = n + (i - 1) /\ batch'[i] = w[i]
      BY <2>1, <2>2
    <3> QED
      BY <1>2, <3>1
  <2>6. p \in (First + 1)..AbsEnd' /\ (written' + 1 - p) + Len(batch') < Cells
    BY <1>3, <1>4, <1>5, <2>1, <2>2
  <2>7. CaptureInv(p)'
    <3>1. (pc' = "copy" <=> Len(batch') > 0) /\ p - Len(batch') > First /\ (Len(batch') > 0 => p <= written')
      <4>1. Len(batch') > 0 /\ pc' = "copy"
        BY <1>9, <2>1, <2>2
      <4>2. p - Len(batch') > First /\ p <= written'
        BY <1>3, <1>5, <2>1, <2>4
      <4> QED
        BY <4>1, <4>2
    <3>2. \A i \in 1..Len(batch') : Frames!Cell(batch'[i]) = Frames!Cell(p - Len(batch') + i - 1)
      BY <2>4, <2>5
    <3> QED
      BY <2>2, <2>3, <2>6, <3>1, <3>2 DEF CaptureInv
  <2>8. QueueInv(p)'
    BY <1>3, <1>6, <2>4 DEF QueueInv, QueueBelow
  <2> QED
    BY <1>3, <2>1, <2>7, <2>8 DEF StreamInv
<1> QED
  BY <1>7, <1>8, <1>9 DEF Frames!Confirm

(* The frame copied is the one at n - Len(batch), and it is not being      *)
(* written.                                                                *)
LEMMA CopyIs ==
  ASSUME NEW n \in Int, EncoderInv, CaptureInv(n), Frames!Copy
  PROVE  LET k == n - Len(batch)
             c == Frames!Cell(Head(batch))
         IN  /\ Len(batch) > 0 /\ k \in (First + 1)..Last /\ c # torn /\ ring[c] = k
             /\ k + 1 = n - (Len(batch) - 1)
<1> USE FrameConstants
<1>1. pc = "copy" /\ batch \in Seq(0..Cells) /\ Len(batch) \in Nat /\ Len(batch) > 0
  BY DEF CaptureInv, Frames!Copy
<1>2. PICK k \in Int : k = n - Len(batch)
  BY <1>1
<1>3. /\ k > First /\ n <= written /\ written + 1 - k < Cells
      /\ Frames!Cell(batch[1]) = Frames!Cell(n - Len(batch) + 1 - 1)
      /\ written \in First..Last /\ written \in Int
  <2>1. 1 \in 1..Len(batch)
    BY <1>1
  <2>2. written \in First..Last /\ written \in Int
    BY DEF EncoderInv
  <2>3. n - Len(batch) > First /\ n <= written /\ (written + 1 - n) + Len(batch) < Cells
    BY <1>1 DEF CaptureInv
  <2>4. Frames!Cell(batch[1]) = Frames!Cell(n - Len(batch) + 1 - 1)
    BY <2>1 DEF CaptureInv
  <2> QED
    BY <1>1, <1>2, <2>2, <2>3, <2>4
<1>4. Head(batch) = batch[1] /\ n - Len(batch) + 1 - 1 = k
  BY <1>1, <1>2, TailFacts
<1>5. Frames!Cell(Head(batch)) = Frames!Cell(k)
  BY <1>3, <1>4
<1>6. k \in First..written /\ written - k < Cells /\ k < written /\ k \in (First + 1)..Last
  BY <1>1, <1>2, <1>3
<1>7. ring[Frames!Cell(k)] = k
  BY <1>6 DEF EncoderInv
<1>8. Frames!Cell(k) # Cells
  BY CellRange
<1>9. Frames!Cell(k) # Frames!Cell(written)
  BY <1>3, <1>6, CellUnique
<1>10. Frames!Cell(k) # torn
  BY <1>8, <1>9 DEF EncoderInv
<1>11. k + 1 = n - (Len(batch) - 1)
  BY <1>1, <1>2
<1> QED
  BY <1>1, <1>2, <1>5, <1>6, <1>7, <1>10, <1>11

(* Dropping the oldest frame of a queue keeps it sound.                    *)
LEMMA QueueTail ==
  ASSUME NEW q, NEW k \in Int, QueueBelow(q, k), Len(q) > 0 PROVE QueueBelow(Tail(q), k)
<1>1. q \in Seq(Queued) /\ Len(q) \in Nat
  BY DEF QueueBelow
<1>2. /\ Tail(q) \in Seq(Queued) /\ Len(Tail(q)) = Len(q) - 1
      /\ \A i \in 1..(Len(q) - 1) : Tail(q)[i] = q[i + 1]
  BY <1>1, TailFacts
<1>3. \A i \in 1..(Len(q) - 1) : i + 1 \in 1..Len(q) /\ (i < Len(q) - 1 => i + 1 \in 1..(Len(q) - 1))
  BY <1>1
<1>4. ASSUME NEW i \in 1..Len(Tail(q)) PROVE Tail(q)[i].whole = TRUE /\ Tail(q)[i].num < k
  <2>1. Tail(q)[i] = q[i + 1] /\ i + 1 \in 1..Len(q)
    BY <1>2, <1>3
  <2> QED
    BY <2>1 DEF QueueBelow
<1>5. ASSUME NEW i \in 1..(Len(Tail(q)) - 1) PROVE Tail(q)[i].num < Tail(q)[i + 1].num
  <2>1. i \in 1..(Len(q) - 1) /\ i + 1 \in 1..(Len(q) - 1)
    BY <1>1, <1>2
  <2>2. Tail(q)[i] = q[i + 1] /\ Tail(q)[i + 1] = q[(i + 1) + 1]
    BY <1>2, <2>1
  <2>3. q[i + 1].num < q[(i + 1) + 1].num
    BY <2>1 DEF QueueBelow
  <2> QED
    BY <2>2, <2>3
<1> QED
  BY <1>2, <1>4, <1>5 DEF QueueBelow

LEMMA QueueAppend ==
  ASSUME NEW q, NEW k \in (First + 1)..Last, QueueBelow(q, k)
  PROVE  QueueBelow(Append(q, [num |-> k, whole |-> TRUE]), k + 1)
<1> USE FrameConstants
<1> DEFINE e == [num |-> k, whole |-> TRUE]
           r == Append(q, e)
<1>1. e \in Queued /\ e.num = k /\ e.whole = TRUE
  BY DEF Queued
<1>2. q \in Seq(Queued) /\ Len(q) \in Nat
  BY DEF QueueBelow
<1> HIDE DEF e
<1>3. r \in Seq(Queued) /\ Len(r) = Len(q) + 1 /\ r[Len(q) + 1] = e /\ \A i \in 1..Len(q) : r[i] = q[i]
  BY <1>1, <1>2
<1> HIDE DEF r
<1>4. \A i \in 1..Len(q) : q[i].num \in Int /\ q[i].num < k
  BY <1>2, QueuedNumbers DEF QueueBelow
<1>5. ASSUME NEW i \in 1..Len(r) PROVE r[i].whole = TRUE /\ r[i].num < k + 1
  <2>1. CASE i = Len(q) + 1
    BY <1>1, <1>3, <2>1
  <2>2. CASE i # Len(q) + 1
    <3>1. i \in 1..Len(q)
      BY <1>2, <1>3, <2>2
    <3> QED
      BY <1>3, <1>4, <3>1 DEF QueueBelow
  <2> QED
    BY <2>1, <2>2
<1>6. ASSUME NEW i \in 1..(Len(r) - 1) PROVE r[i].num < r[i + 1].num
  <2>0. i \in 1..Len(q)
    BY <1>2, <1>3
  <2>1. CASE i = Len(q)
    BY <1>1, <1>3, <1>4, <2>0, <2>1
  <2>2. CASE i # Len(q)
    <3>1. i \in 1..(Len(q) - 1) /\ i + 1 \in 1..Len(q)
      BY <1>2, <2>0, <2>2
    <3> QED
      BY <1>3, <2>0, <3>1 DEF QueueBelow
  <2> QED
    BY <2>1, <2>2
<1>7. QueueBelow(r, k + 1)
  BY <1>3, <1>5, <1>6 DEF QueueBelow
<1> QED
  BY <1>7 DEF r, e

LEMMA OneLess ==
  ASSUME NEW a \in Int, NEW b \in Int, NEW c \in Int, NEW d \in Int, NEW h \in Int,
         a - (h + 1) > b, (c + 1 - a) + (h + 1) < d
  PROVE  a - h > b /\ (c + 1 - a) + h < d
OBVIOUS

LEMMA StepCopy ==
  ASSUME StreamInv, Frames!Copy PROVE StreamInv'
<1> USE FrameConstants
<1> PICK n \in Int : CaptureInv(n) /\ QueueInv(n)
  BY DEF StreamInv
<1>0. EncoderInv /\ SourceInv
  BY DEF StreamInv
<1>1. PICK k \in (First + 1)..Last :
        /\ k = n - Len(batch) /\ Len(batch) > 0 /\ k + 1 = n - (Len(batch) - 1)
        /\ Frames!Cell(Head(batch)) # torn /\ ring[Frames!Cell(Head(batch))] = k
  BY <1>0, CopyIs
<1>2. /\ EncoderInv' /\ SourceInv' /\ written' = written /\ AbsEnd' = AbsEnd /\ prev' = prev
      /\ batch' = Tail(batch)
  BY <1>0 DEF EncoderInv, SourceInv, Frames!Copy, Frames!encoder, Frames!source, Frames!Decodable, Frames!Key, AbsEnd
<1>3. /\ batch \in Seq(0..Cells) /\ Len(batch) \in Nat
      /\ batch' \in Seq(0..Cells) /\ Len(batch') = Len(batch) - 1 /\ \A i \in 1..(Len(batch) - 1) : batch'[i] = batch[i + 1]
  <2>1. batch \in Seq(0..Cells) /\ Len(batch) \in Nat
    BY DEF CaptureInv
  <2> QED
    BY <1>1, <1>2, <2>1, TailFacts
<1> PICK h \in Nat : Len(batch) = h + 1 /\ Len(batch') = h /\ \A i \in 1..h : batch'[i] = batch[i + 1]
  <2>1. Len(batch) - 1 \in Nat /\ Len(batch) = (Len(batch) - 1) + 1
    BY <1>1, <1>3
  <2> QED
    BY <1>3, <2>1
<1>4. CaptureInv(n)'
  <2>1. pc' = "copy" <=> Len(batch') > 0
    <3>1. pc' = IF batch' = <<>> THEN "poll" ELSE "copy"
      BY DEF Frames!Copy
    <3>2. batch' = <<>> <=> ~(Len(batch') > 0)
      <4>1. batch' = <<>> => Len(batch') = 0
        OBVIOUS
      <4>2. Len(batch') = 0 => batch' = <<>>
        BY <1>3
      <4>3. Len(batch') \in Nat
        BY <1>3
      <4> QED
        BY <4>1, <4>2, <4>3
    <3> QED
      BY <3>1, <3>2
  <2>2. \A i \in 1..Len(batch') : Frames!Cell(batch'[i]) = Frames!Cell(n - Len(batch') + i - 1)
    <3> TAKE i \in 1..Len(batch')
    <3>0. i \in 1..h /\ i + 1 \in 1..(h + 1) /\ n - (h + 1) + (i + 1) - 1 = n - h + i - 1
      OBVIOUS
    <3>1. i + 1 \in 1..Len(batch) /\ batch'[i] = batch[i + 1] /\ n - Len(batch) + (i + 1) - 1 = n - Len(batch') + i - 1
      BY <3>0
    <3>2. Frames!Cell(batch[i + 1]) = Frames!Cell(n - Len(batch) + (i + 1) - 1)
      BY <3>1 DEF CaptureInv
    <3> QED
      BY <3>1, <3>2
  <2>3. /\ n \in (First + 1)..AbsEnd /\ prev \in 0..Cells /\ Frames!Cell(prev) = Frames!Cell(n)
        /\ n - Len(batch) > First /\ (written + 1 - n) + Len(batch) < Cells /\ n <= written
    BY <1>1 DEF CaptureInv
  <2>4. n - Len(batch') > First /\ (written' + 1 - n) + Len(batch') < Cells
    <3>1. written \in Int
      BY <1>0, CellOfEnd
    <3>2. n - (h + 1) > First /\ (written + 1 - n) + (h + 1) < Cells
      BY <2>3
    <3>3. n - h > First /\ (written + 1 - n) + h < Cells
      BY <3>1, <3>2, FrameConstants, OneLess
    <3> QED
      BY <1>2, <3>3
  <2> QED
    BY <1>2, <1>3, <2>1, <2>2, <2>3, <2>4 DEF CaptureInv
<1>5. QueueBelow(queue', k + 1)
  <2> DEFINE q == Append(queue, [num |-> k, whole |-> TRUE])
  <2>1. QueueBelow(queue, k)
    BY <1>1 DEF QueueInv, QueueBelow
  <2>2. QueueBelow(q, k + 1)
    BY <2>1, QueueAppend
  <2>3. QueueBelow(queue, k + 1)
    <3>1. \A i \in 1..Len(queue) : queue[i].num \in Int /\ queue[i].num < k
      BY <2>1, QueuedNumbers DEF QueueBelow
    <3>2. \A i \in 1..Len(queue) : queue[i].num < k + 1
      BY <3>1
    <3> QED
      BY <2>1, <3>2 DEF QueueBelow
  <2>4. queue' = queue \/ queue' = Frames!Newest(q)
    BY <1>1 DEF Frames!Copy
  <2>5. q \in Seq(Queued) /\ Len(q) \in Nat /\ k + 1 \in Int
    BY <2>2 DEF QueueBelow
  <2> HIDE DEF q
  <2>6. CASE Len(q) > QueueMax
    <3>1. Len(q) > 0
      BY <2>5, <2>6
    <3>2. QueueBelow(Tail(q), k + 1)
      BY <2>2, <2>5, <3>1, QueueTail
    <3> QED
      BY <2>3, <2>4, <2>6, <3>2 DEF Frames!Newest
  <2> QED
    BY <2>2, <2>3, <2>4, <2>6 DEF Frames!Newest
<1>6. QueueInv(n)'
  <2>1. n - Len(batch') = k + 1
    BY <1>1, <1>3
  <2> QED
    BY <1>5, <2>1 DEF QueueInv, QueueBelow
<1> QED
  BY <1>2, <1>4, <1>6 DEF StreamInv

(* Neither the player nor the client moves the ring.                       *)
LEMMA SourceOnly ==
  ASSUME StreamInv, SourceInv', UNCHANGED <<Frames!encoder, Frames!capture>>,
         queue' = queue \/ (queue # <<>> /\ queue' = Tail(queue))
  PROVE  StreamInv'
<1> PICK n \in Int : CaptureInv(n) /\ QueueInv(n)
  BY DEF StreamInv
<1>1. EncoderInv' /\ CaptureInv(n)' /\ batch' = batch
  BY DEF StreamInv, EncoderInv, CaptureInv, AbsEnd, Frames!encoder, Frames!capture
<1>2. batch \in Seq(0..Cells) /\ n - Len(batch) \in Int
  BY DEF CaptureInv
<1>3. QueueBelow(queue, n - Len(batch)) /\ queue \in Seq(Queued)
  BY DEF QueueInv, QueueBelow
<1>4. queue # <<>> => Len(queue) > 0
  BY <1>3
<1>5. QueueBelow(queue', n - Len(batch))
  BY <1>2, <1>3, <1>4, QueueTail
<1> QED
  BY <1>1, <1>5 DEF StreamInv, QueueInv

(* The frame at the head of the queue, and what it means that it follows   *)
(* the last one: their counters are equal modulo Modulus, and no two of    *)
(* the frames considered are that far apart.                               *)
LEMMA NoDiscontinuity ==
  ASSUME NEW k \in (First + 1)..Last, last \in {-1} \cup (First + 1)..Last, ~Frames!Discontinuity(k)
  PROVE  last # -1 /\ k = last + 1
<1> USE FrameConstants
<1>1. last # -1 /\ k % Modulus = (last + 1) % Modulus
  BY DEF Frames!Discontinuity
<1>2. last \in (First + 1)..Last /\ last \in Int /\ last + 1 \in Int /\ k \in Int
  BY <1>1
<1>3. k - (last + 1) < Modulus /\ (last + 1) - k < Modulus
  BY <1>2
<1> QED
  BY <1>1, <1>2, <1>3, ModUnique

LEMMA StepDeliver ==
  ASSUME StreamInv, Frames!Deliver PROVE StreamInv'
<1> USE FrameConstants
<1> PICK n \in Int : CaptureInv(n) /\ QueueInv(n)
  BY DEF StreamInv
<1>1. queue \in Seq(Queued) /\ queue # <<>> /\ started = TRUE /\ playing = TRUE
  BY DEF QueueInv, QueueBelow, Frames!Deliver, StreamInv, SourceInv
<1>2. PICK k \in (First + 1)..Last : k = Head(queue).num
  <2>1. Head(queue) \in Queued
    BY <1>1
  <2> QED
    BY <2>1 DEF Queued
<1>3. /\ last' = k /\ heard' = <<k, heard[1]>> /\ started' = started /\ playing' = playing
      /\ ~Frames!Discontinuity(k) \/ Frames!Key(k)
  BY <1>2 DEF Frames!Deliver
<1>4. last \in {-1} \cup (First + 1)..Last /\ heard \in Int \X Int /\ (last # -1 => heard[1] = last)
  BY <1>1 DEF StreamInv, SourceInv
<1>5. ASSUME ~Frames!Discontinuity(k) PROVE Frames!Decodable'
  <2>1. heard[1] = k - 1
    <3>1. last # -1 /\ k = last + 1
      BY <1>4, <1>5, NoDiscontinuity
    <3>2. last \in Int
      BY <1>4
    <3> QED
      BY <1>4, <3>1, <3>2
  <2> QED
    BY <1>3, <2>1 DEF Frames!Decodable
<1>6. ASSUME Frames!Key(k) PROVE Frames!Decodable'
  BY <1>3, <1>6 DEF Frames!Decodable, Frames!Key
<1>7. SourceInv'
  <2>1. heard'[1] = k /\ heard' \in Int \X Int
    BY <1>3, <1>4
  <2>2. Frames!Decodable'
    BY <1>3, <1>5, <1>6
  <2> QED
    BY <1>1, <1>3, <2>1, <2>2 DEF SourceInv
<1>8. UNCHANGED <<Frames!encoder, Frames!capture>> /\ queue' = Tail(queue)
  BY DEF Frames!Deliver
<1> QED
  BY <1>1, <1>7, <1>8, SourceOnly

LEMMA StepSource ==
  ASSUME StreamInv, Frames!WaitToStart \/ Frames!TooLarge \/ Frames!Skip \/ Frames!Play \/ Frames!StopPlaying
  PROVE  StreamInv'
<1> USE FrameConstants
<1>0. SourceInv
  BY DEF StreamInv
<1>1. /\ UNCHANGED <<Frames!encoder, Frames!capture>>
      /\ queue' = queue \/ (queue # <<>> /\ queue' = Tail(queue))
  BY DEF Frames!WaitToStart, Frames!TooLarge, Frames!Skip, Frames!Play, Frames!StopPlaying
<1>2. CASE Frames!WaitToStart
  BY <1>0, <1>1, <1>2, SourceOnly DEF SourceInv, Frames!WaitToStart, Frames!Decodable, Frames!Key
<1>3. CASE Frames!TooLarge \/ Frames!Skip
  <2>1. UNCHANGED <<started, last, playing, heard>>
    BY <1>3 DEF Frames!TooLarge, Frames!Skip, Frames!source
  <2>2. SourceInv'
    BY <1>0, <2>1 DEF SourceInv, Frames!Decodable, Frames!Key
  <2> QED
    BY <1>1, <2>2, SourceOnly
<1>4. CASE Frames!Play
  <2>1. playing' = TRUE /\ heard' = <<-1, -1>> /\ started' = started /\ last' = last /\ started # TRUE
    BY <1>0, <1>4 DEF Frames!Play, SourceInv
  <2>2. heard'[1] = -1 /\ heard' \in Int \X Int
    BY <2>1
  <2>3. SourceInv'
    BY <1>0, <2>1, <2>2 DEF SourceInv, Frames!Decodable
  <2> QED
    BY <1>1, <2>3, SourceOnly
<1>5. CASE Frames!StopPlaying
  <2>1. started' = FALSE /\ heard' = heard /\ last' = last
    BY <1>5 DEF Frames!StopPlaying
  <2>2. SourceInv'
    BY <1>0, <2>1 DEF SourceInv, Frames!Decodable, Frames!Key
  <2> QED
    BY <1>1, <2>2, SourceOnly
<1> QED
  BY <1>2, <1>3, <1>4, <1>5 DEF Frames!WaitToStart

LEMMA StreamStutter ==
  ASSUME StreamInv, UNCHANGED frames PROVE StreamInv'
<1> PICK n \in Int : CaptureInv(n) /\ QueueInv(n)
  BY DEF StreamInv
<1>1. EncoderInv' /\ SourceInv' /\ CaptureInv(n)' /\ QueueInv(n)'
  BY DEF StreamInv, EncoderInv, SourceInv, CaptureInv, QueueInv, QueueBelow, AbsEnd, frames, Frames!Decodable, Frames!Key
<1> QED
  BY <1>1 DEF StreamInv

LEMMA StreamSoundFromInv == ASSUME StreamInv PROVE StreamSound
<1> PICK n \in Int : CaptureInv(n) /\ QueueInv(n)
  BY DEF StreamInv
<1>1. Frames!NoTornFrame /\ Frames!InOrder
  BY DEF QueueInv, QueueBelow, Frames!NoTornFrame, Frames!InOrder
<1> QED
  BY <1>1 DEF StreamInv, SourceInv, StreamSound

(* rRTSPServer.cpp follows the vendor's encoder through shared memory      *)
(* without a lock: for any ring, batch and queue, and any number of frames *)
(* below the period of their counter, it never queues a frame that is      *)
(* being written, keeps the encoder's order, and a client is only sent a   *)
(* key frame or the successor of the frame it was sent before.             *)
THEOREM StreamIsSound == Spec => []StreamSound
<1>1. Init => StreamInv
  BY StreamInit DEF Init
<1>2. StreamInv /\ [Next]_vars => StreamInv'
  <2> SUFFICES ASSUME StreamInv, [Next]_vars PROVE StreamInv'
    OBVIOUS
  <2>1. CASE Frames!Encode
    BY <2>1, StepBegin, StepHeader DEF Frames!Encode
  <2>2. CASE Frames!Next /\ ~Frames!Encode
    BY <2>2, StepPoll, StepConfirm, StepCopy, StepDeliver, StepSource DEF Frames!Next
  <2>3. CASE UNCHANGED frames
    BY <2>3, StreamStutter
  <2> QED
    BY <2>1, <2>2, <2>3 DEF Next, vars
<1> QED
  BY <1>1, <1>2, StreamSoundFromInv, PTL DEF Spec
=============================================================================
