---------------------------- MODULE ResetButton ----------------------------
(***************************************************************************)
(* The rear reset button in the vendor's broker (reset_hotspot.c, a        *)
(* preloaded ioctl): once the watchdog has allowed it and a settling time  *)
(* is over, pressed samples are hidden from the vendor's factory reset and *)
(* a press of five seconds asks for the hotspot instead.  /proc is mounted *)
(* and the call comes from the one audited place.                          *)
(***************************************************************************)
EXTENDS Naturals

CONSTANTS
    Hold, Settle,         \* 5 and 30 seconds, in polls
    MaxTime, MaxFaults    \* bounds

\* The constants of an instance.
ButtonAssumption == {Hold, Settle, MaxTime, MaxFaults} \subseteq Nat \ {0}

VARIABLES
    now,       \* CLOCK_MONOTONIC
    down,      \* the button is pressed
    ready,     \* RESET_READY exists and was seen: runtime_ready
    accept,    \* accept_after, 0 while unset
    released,  \* startup_released
    press,     \* struct reset_press
    armed,     \* RESET_ARMED names the running broker
    request,   \* a start-open request was written in this press
    low,       \* pressed samples in a row that the vendor got
    steady,    \* since when every sample of this press was read and timed, 0 if none
    long,      \* this press had Hold such polls
    asks,      \* requests made for this press
    faults     \* bound

vars == <<now, down, ready, accept, released, press, armed, request, low, steady, long, asks, faults>>
code == <<ready, accept, released, press, armed, request>>

Init ==
    /\ now = 1 /\ down \in BOOLEAN
    /\ ready = FALSE /\ accept = 0 /\ released = FALSE
    /\ press = [since |-> 0, tracking |-> FALSE, fired |-> FALSE]
    /\ armed = FALSE /\ request = FALSE
    /\ low = 0 /\ steady = 0 /\ long = FALSE /\ asks = 0 /\ faults = 0

-----------------------------------------------------------------------------
(* reset_press_update, with level -1 for a failed ioctl written as "error" *)
Update(level, t) ==
    CASE level = "up" -> [press EXCEPT !.tracking = FALSE, !.fired = FALSE]
      [] level = "error" -> [press EXCEPT !.tracking = FALSE]
      [] OTHER -> LET since == IF press.tracking THEN press.since ELSE t
                  IN  [since |-> since, tracking |-> TRUE,
                       fired |-> press.fired \/ t - since >= Hold]

Fires(level, t) == level = "down" /\ ~press.fired /\ Update(level, t).fired

\* filter_level: whether this poll is intercepted.
Filtering(timed) ==
    /\ ready'
    /\ accept' # 0
    /\ timed => now >= accept'

Answer(level, written) ==
    /\ press' = Update(level, now)
    /\ asks' = IF level = "up" THEN 0 ELSE IF Fires(level, now) THEN asks + 1 ELSE asks
    /\ request' = (level # "up" /\ (request \/ (Fires(level, now) /\ written)))

Interrupt == press' = [press EXCEPT !.tracking = FALSE] /\ UNCHANGED <<request, asks>>

\* A hold counts once a released sample was seen and while the clock works.
Track(level, timed, written) ==
    IF timed /\ released THEN Answer(level, written) /\ UNCHANGED released
    ELSE Interrupt /\ released' = (released \/ (timed /\ level = "up"))

\* MUTANT: without a time the sample is passed on.
ShownUntimed(level, timed) ==
    IF Filtering(timed) /\ timed /\ level = "down" THEN "up" ELSE level

\* What the vendor's loop is told.
Shown(level, timed) == IF Filtering(timed) /\ level = "down" THEN "up" ELSE level

\* The vendor's loop, external: two pressed samples in a row reset the camera.
Vendor(shown) == low' = CASE shown = "up" -> 0 [] shown = "down" -> low + 1 [] OTHER -> low

\* What was asked of the button, from the samples alone.
Witness(level, timed) ==
    /\ steady' = IF level # "down" \/ ~timed \/ ~Filtering(timed) \/ ~released THEN 0
                 ELSE IF steady = 0 THEN now ELSE steady
    /\ long' = IF level = "up" /\ timed THEN FALSE ELSE long \/ (steady' # 0 /\ now - steady' >= Hold)

\* One call of ioctl, and the time to the next.
Poll(level, timed, written) ==
    /\ now < MaxTime /\ low < 2
    /\ level \in {IF down THEN "down" ELSE "up", "error"}
    /\ faults' = faults + IF level # "error" /\ timed /\ written THEN 0 ELSE 1
    /\ faults' <= MaxFaults
    /\ accept' = IF ready' /\ accept = 0 /\ timed THEN now + Settle ELSE accept
    /\ IF Filtering(timed)
       THEN Track(level, timed, written) /\ armed' = (armed \/ written)
       ELSE UNCHANGED <<released, press, armed, request, asks>>
    /\ Vendor(Shown(level, timed))
    /\ Witness(level, timed)
    /\ now' = now + 1
    /\ UNCHANGED down

\* The watchdog creates RESET_READY; until then every sample is the vendor's.
AnyPoll(level, timed, written) == ready' \in {ready, TRUE} /\ Poll(level, timed, written)

Move ==
    /\ low < 2
    /\ down' = ~down
    /\ UNCHANGED <<now, low, steady, long, asks, faults>> /\ UNCHANGED code

\* The broker starts again, without any of its variables.
Restart ==
    /\ faults < MaxFaults
    /\ faults' = faults + 1
    /\ ready' = FALSE /\ accept' = 0 /\ released' = FALSE /\ armed' = FALSE /\ request' = FALSE
    /\ press' = [since |-> 0, tracking |-> FALSE, fired |-> FALSE]
    /\ low' = 0 /\ steady' = 0 /\ long' = FALSE /\ asks' = 0
    /\ UNCHANGED <<now, down>>

Next ==
    \/ \E level \in {"up", "down", "error"}, timed, written \in BOOLEAN : AnyPoll(level, timed, written)
    \/ Move \/ Restart

Spec == Init /\ [][Next]_vars

-----------------------------------------------------------------------------
(* HOTSPOT.md:81, "Short pressed samples are hidden from the vendor's      *)
(* physical reset loop, so they cannot accumulate", and :102, "clock       *)
(* failure still hides pressed samples": once the marker says armed, the   *)
(* vendor's count of pressed samples never grows, whatever fails.  A clock *)
(* that fails in the settling time arms too early (reset_hotspot.c:106:    *)
(* the time of a failed clock is later than any).                          *)
HiddenOnceArmed == [][armed => low' <= low]_vars

(* ... and once the settling time is over too, they are hidden whatever    *)
(* failed before or fails now.                                             *)
HiddenOnceSettled == [][armed /\ accept <= now => low' <= low]_vars

(* HOTSPOT.md:78, "a continuous five-second active-low press emits one     *)
(* open-hotspot request": one request if every sample of five seconds of   *)
(* the press was read and timed, none otherwise, and never a second before *)
(* the release.                                                            *)
OneRequestPerHold == asks = IF long THEN 1 ELSE 0

(* A request on disk was asked for by a whole hold that began after the    *)
(* settling time and after a release (reset_hotspot.c:119-124).            *)
RequestMeansHold == request => long /\ released /\ accept # 0
===============================================================================
