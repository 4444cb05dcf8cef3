---------------------------- MODULE NightVision ----------------------------
(***************************************************************************)
(* The night-vision settings: nightvisionctl processes (the settings page, *)
(* and nightvision.sh before each start of rmm) write a mode and a         *)
(* threshold into a shared structure; the vendor's camera loop, wrapped by *)
(* nightvision.so inside rmm, reads them and reports what it applied.  The *)
(* generation is odd while a pair is written.  Loads and stores are        *)
(* interleaved one by one, as on the one core of these cameras.            *)
(***************************************************************************)
EXTENDS Naturals

CONSTANTS
    Writers,      \* nightvisionctl --set and --init
    Readers,      \* nightvisionctl --status
    MaxSets,      \* bound: --set calls
    MaxRestarts,  \* bound: restarts of rmm
    MaxKills      \* bound: writers killed

\* The constants of an instance.
NightAssumption == {MaxSets, MaxRestarts, MaxKills} \subseteq Nat

None == "none"
Pair(m, t) == [mode |-> m, threshold |-> t]

(* The n-th request: modes alternate, so that mixed pairs can be told.  It is *)
(* also what camera.conf holds after it.                                      *)
Default    == Pair("auto", 0)
Request(n) == IF n = 0 THEN Default ELSE Pair(IF n % 2 = 1 THEN "on" ELSE "off", n)
Odd(n)     == n % 2 = 1

VARIABLES
    gen, mode, threshold,        \* control: generation, mode, threshold
    applied, state,              \* control: applied_generation, state
    rmm,        \* the camera loop: step, first, pair read, attempt, active pair and generation;
                \* its step is "off" before the preload and "plain" without the library
    writer,     \* writer -> step, number of its request, generation, whether it is the preload
    reader,     \* reader -> step, generation, pair, answer
    sets, restarts, kills,
    given,      \* generation -> the pair published with it
    inForce     \* generations with which some camera loop has ended a round

control == <<gen, mode, threshold, applied, state>>
bounds  == <<sets, restarts, kills>>
vars    == <<control, rmm, writer, reader, bounds, given, inForce>>

FreshLoop  == [step |-> "off", first |-> 0, pair |-> Default, try |-> 0, active |-> Default, gen |-> 0]
IdleWriter == [step |-> "idle", n |-> 0, gen |-> 0, boot |-> FALSE]
IdleReader == [step |-> "idle", gen |-> 0, pair |-> Default, answer |-> None]

(* The first preload created the structure and published the saved pair    *)
(* before the web server was up.                                           *)
Init ==
    /\ gen = 2 /\ mode = "auto" /\ threshold = 0 /\ applied = 0 /\ state = "day"
    /\ rmm = [FreshLoop EXCEPT !.step = "top"]
    /\ writer = [w \in Writers |-> IdleWriter]
    /\ reader = [r \in Readers |-> IdleReader]
    /\ sets = 0 /\ restarts = 0 /\ kills = 0
    /\ given = [g \in {0, 2} |-> Default]
    /\ inForce = {}

-----------------------------------------------------------------------------
(* read_settings: four attempts, then the last good pair stays. *)
Again == rmm' = IF rmm.try = 3 THEN [rmm EXCEPT !.step = "native"]
                               ELSE [rmm EXCEPT !.step = "first", !.try = rmm.try + 1]
shared == <<control, writer, reader, bounds, given, inForce>>

LoopTop ==
    /\ rmm.step = "top"
    /\ rmm' = [rmm EXCEPT !.step = "first", !.try = 0]
    /\ UNCHANGED shared

(* Mutant: an odd generation is not turned away. *)
LoopFirstAny ==
    /\ rmm.step = "first"
    /\ rmm' = [rmm EXCEPT !.step = "mode", !.first = gen]
    /\ UNCHANGED shared

LoopFirst ==
    /\ rmm.step = "first"
    /\ IF Odd(gen) THEN Again ELSE rmm' = [rmm EXCEPT !.step = "mode", !.first = gen]
    /\ UNCHANGED shared

LoopMode ==
    /\ rmm.step = "mode"
    /\ rmm' = [rmm EXCEPT !.step = "threshold", !.pair.mode = mode]
    /\ UNCHANGED shared

LoopThreshold ==
    /\ rmm.step = "threshold"
    /\ rmm' = [rmm EXCEPT !.step = "last", !.pair.threshold = threshold]
    /\ UNCHANGED shared

LoopLast ==
    /\ rmm.step = "last"
    /\ IF gen = rmm.first
       THEN rmm' = [rmm EXCEPT !.step = "native", !.active = rmm.pair, !.gen = rmm.first]
       ELSE Again
    /\ UNCHANGED shared

(* The native loop commits the manual state, at once or in a later round; *)
(* in automatic mode the light decides.                                   *)
Native ==
    /\ rmm.step = "native"
    /\ LET wanted == CASE rmm.active.mode = "on" -> {"night"} [] rmm.active.mode = "off" -> {"day"}
                       [] OTHER -> {"day", "night"}
       IN state' \in wanted \cup {state}
    /\ rmm' = [rmm EXCEPT !.step = "report"]
    /\ inForce' = inForce \cup {rmm.gen}
    /\ UNCHANGED <<gen, mode, threshold, applied, writer, reader, bounds, given>>

(* Mutant: the generation that is in the structure now is reported. *)
ReportCurrent ==
    /\ rmm.step = "report"
    /\ applied' = gen
    /\ rmm' = [rmm EXCEPT !.step = "top"]
    /\ UNCHANGED <<gen, mode, threshold, state, writer, reader, bounds, given, inForce>>

Report ==
    /\ rmm.step = "report"
    /\ applied' = rmm.gen
    /\ rmm' = [rmm EXCEPT !.step = "top"]
    /\ UNCHANGED <<gen, mode, threshold, state, writer, reader, bounds, given, inForce>>

CameraLoop == LoopTop \/ LoopFirst \/ LoopMode \/ LoopThreshold \/ LoopLast \/ Native \/ Report

-----------------------------------------------------------------------------
Write(w, step) == writer' = [writer EXCEPT ![w].step = step]
others == <<applied, state, reader, restarts, kills, inForce>>

Set(w) ==
    /\ writer[w].step = "idle" /\ sets < MaxSets
    /\ sets' = sets + 1
    /\ writer' = [writer EXCEPT ![w] = [IdleWriter EXCEPT !.step = "lock", !.n = sets + 1]]
    /\ UNCHANGED <<gen, mode, threshold, rmm, given, others>>

(* nightvision.sh preload, before rmm is started *)
Preload(w) ==
    /\ writer[w].step = "idle" /\ rmm.step = "off"
    /\ \A v \in Writers : ~writer[v].boot
    /\ writer' = [writer EXCEPT ![w] = [IdleWriter EXCEPT !.step = "lock", !.n = sets, !.boot = TRUE]]
    /\ UNCHANGED <<gen, mode, threshold, rmm, sets, given, others>>

(* Mutant: the generation is not looked at before it is made odd. *)
LockAny(w) ==
    /\ writer[w].step = "lock"
    /\ gen' = IF Odd(gen) THEN gen ELSE gen + 1
    /\ writer' = [writer EXCEPT ![w].step = "mode", ![w].gen = IF Odd(gen) THEN gen - 1 ELSE gen]
    /\ UNCHANGED <<mode, threshold, rmm, sets, given, others>>

(* The compare-and-exchange of an even generation.  The three stores of a     *)
(* writer that lives are over before fifty attempts are; those of a killed    *)
(* one never, and a preload that fails starts rmm without the library.        *)
Holding == \E w \in Writers : writer[w].step \in {"mode", "threshold", "publish"}
Lock(w) ==
    /\ writer[w].step = "lock"
    /\ \/ /\ ~Odd(gen)
          /\ gen' = gen + 1
          /\ writer' = [writer EXCEPT ![w].step = "mode", ![w].gen = gen]
          /\ UNCHANGED rmm
       \/ /\ Odd(gen) /\ ~Holding
          /\ writer' = [writer EXCEPT ![w] = IdleWriter]
          /\ rmm' = IF writer[w].boot THEN [rmm EXCEPT !.step = "plain"] ELSE rmm
          /\ UNCHANGED gen
    /\ UNCHANGED <<mode, threshold, sets, given, others>>

WriteMode(w) ==
    /\ writer[w].step = "mode"
    /\ mode' = Request(writer[w].n).mode
    /\ Write(w, "threshold")
    /\ UNCHANGED <<gen, threshold, rmm, sets, given, others>>

WriteThreshold(w) ==
    /\ writer[w].step = "threshold"
    /\ threshold' = Request(writer[w].n).threshold
    /\ Write(w, "publish")
    /\ UNCHANGED <<gen, mode, rmm, sets, given, others>>

(* A preload ends here, and rmm starts with the library. *)
Publish(w) ==
    /\ writer[w].step = "publish"
    /\ rmm' = IF writer[w].boot THEN [rmm EXCEPT !.step = "top"] ELSE rmm
    /\ gen' = writer[w].gen + 2
    /\ given' = [g \in DOMAIN given \cup {gen'} |-> IF g = gen' THEN Request(writer[w].n) ELSE given[g]]
    /\ writer' = [writer EXCEPT ![w] = IdleWriter]
    /\ UNCHANGED <<mode, threshold, sets, others>>

(* The page's time limit or a shutdown ends a writer anywhere. *)
KillWriter(w) ==
    /\ kills < MaxKills /\ writer[w].step # "idle" /\ ~writer[w].boot
    /\ kills' = kills + 1
    /\ writer' = [writer EXCEPT ![w] = IdleWriter]
    /\ UNCHANGED <<control, rmm, reader, sets, restarts, given, inForce>>

Restart ==
    /\ restarts < MaxRestarts /\ rmm.step # "off"
    /\ restarts' = restarts + 1
    /\ rmm' = FreshLoop
    /\ UNCHANGED <<control, writer, reader, sets, kills, given, inForce>>

-----------------------------------------------------------------------------
(* --status: a snapshot of the pair, then what the loop reported *)
Read(r, new) == reader' = [reader EXCEPT ![r] = new]
unread == <<control, rmm, writer, bounds, given, inForce>>

StatusFirst(r) ==
    /\ reader[r].step \in {"idle", "answered"} /\ ~Odd(gen)
    /\ Read(r, [IdleReader EXCEPT !.step = "mode", !.gen = gen])
    /\ UNCHANGED unread

StatusMode(r) ==
    /\ reader[r].step = "mode"
    /\ Read(r, [reader[r] EXCEPT !.step = "threshold", !.pair.mode = mode])
    /\ UNCHANGED unread

StatusThreshold(r) ==
    /\ reader[r].step = "threshold"
    /\ Read(r, [reader[r] EXCEPT !.step = "last", !.pair.threshold = threshold])
    /\ UNCHANGED unread

StatusLast(r) ==
    /\ reader[r].step = "last"
    /\ Read(r, IF gen = reader[r].gen THEN [reader[r] EXCEPT !.step = "pid"] ELSE IdleReader)
    /\ UNCHANGED unread

(* ready_pid names a running rmm. *)
StatusPid(r) ==
    /\ reader[r].step = "pid"
    /\ Read(r, IF rmm.step \in {"off", "plain"} THEN IdleReader ELSE [reader[r] EXCEPT !.step = "applied"])
    /\ UNCHANGED unread

StatusApplied(r) ==
    /\ reader[r].step = "applied"
    /\ Read(r, [reader[r] EXCEPT !.step = IF applied = reader[r].gen THEN "state" ELSE "answered",
                                 !.answer = "applying"])
    /\ UNCHANGED unread

Agrees(m) == m = "auto" \/ (m = "on" /\ state = "night") \/ (m = "off" /\ state = "day")

StatusState(r) ==
    /\ reader[r].step = "state"
    /\ Read(r, [reader[r] EXCEPT !.step = "answered",
                                 !.answer = IF Agrees(reader[r].pair.mode) THEN "applied" ELSE "applying"])
    /\ UNCHANGED unread

Status(r) == StatusFirst(r) \/ StatusMode(r) \/ StatusThreshold(r) \/ StatusLast(r) \/ StatusPid(r) \/ StatusApplied(r) \/ StatusState(r)
Writing(w) == Lock(w) \/ WriteMode(w) \/ WriteThreshold(w) \/ Publish(w)

Next ==
    \/ CameraLoop \/ Restart
    \/ \E w \in Writers : Set(w) \/ Preload(w) \/ Writing(w) \/ KillWriter(w)
    \/ \E r \in Readers : Status(r)

(* The camera loop runs on, a writer that is not killed ends, and a missing *)
(* rmm is started again.                                                    *)
Spec ==
    /\ Init /\ [][Next]_vars
    /\ WF_vars(CameraLoop)
    /\ \A w \in Writers : WF_vars(Writing(w))
    /\ WF_vars(\E w \in Writers : Preload(w))

-----------------------------------------------------------------------------
(* The pair the camera uses was published as a pair, under the generation it *)
(* is reported with ("Keep the last good pair").                             *)
PairsWhole == rmm.gen \in DOMAIN given /\ rmm.active = given[rmm.gen]

(* When the page says that a setting is applied, it shows a pair that was    *)
(* published and with which a camera loop has ended a round.                 *)
AppliedIsTrue ==
    \A r \in Readers : reader[r].answer = "applied" =>
        /\ reader[r].pair = given[reader[r].gen]
        /\ reader[r].gen \in inForce

(* "Settings take effect without restarting RTSP or the recorder"            *)
(* (docs/NIGHTVISION.md): what is published last, the camera comes to use,   *)
(* and the structure takes new settings again.                               *)
SettingsTakeEffect == []<>(~Odd(gen) /\ rmm.active = given[gen])
=============================================================================
