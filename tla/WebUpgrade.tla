----------------------------- MODULE WebUpgrade -----------------------------
(***************************************************************************)
(* The upgrade of a camera that runs from the card: fw_upload.sh places an *)
(* archive, fw_upgrade.sh exchanges the tree on the card, the bootstrap    *)
(* /backup/init.sh and the kernel of y623, and takes the first two back    *)
(* when a step fails.  Bootstrap and Factory/config.sh, which installs a   *)
(* release from the card, decide at the next start whether the camera      *)
(* runs: a bootstrap accepts only the tree of its own release.             *)
(*                                                                         *)
(* The renames of the card and of the internal flash are atomic and last;  *)
(* a copy onto the bootstrap and a write of the boot partition are not.    *)
(***************************************************************************)
EXTENDS Naturals, FiniteSets

CONSTANTS
    Requests,   \* requests for an upgrade at the same time
    Releases,   \* releases, as numbers from 1 to 8
    Slots,      \* rollback slots of a release (100 in the code)
    Triggers,   \* releases whose Factory directory a running camera may have
    Fresh,      \* releases on a new card that is started for the first time
    Faults,     \* "io", "restore", "term", "power"
    EditsAlways,  \* settings are saved during an upgrade too
    MaxEdits, MaxFaults  \* bounds

UpgradeAssumption ==
    /\ Releases \subseteq 1..8 /\ 1 \in Releases /\ 0 \in Slots /\ Slots \subseteq Nat
    /\ Triggers \subseteq Releases \cup {0} /\ Fresh \subseteq Releases
    /\ Faults \subseteq {"io", "restore", "term", "power"}
    /\ EditsAlways \in BOOLEAN /\ MaxEdits \in Nat /\ MaxFaults \in Nat

VARIABLES
    fs,       \* the card: trees, archive, Factory, rollback copies, lock
    init,     \* the release of /backup/init.sh, or Torn
    initNew,  \* init.sh.web-new, 0: none
    kernel,   \* the boot partition: "stock", "patched" or "torn"
    mode,     \* "on", "off", a step of Factory/config.sh, "stuck" or "dead"
    req,      \* the requests
    saved,    \* the settings that the owner saved last
    faults    \* bound

vars == <<fs, init, initNew, kernel, mode, req, saved, faults>>

Torn == 9  \* a bootstrap cut off in the middle
NoTree == [rel |-> 0, conf |-> 0]
Trees == [rel : Releases \cup {0}, conf : 0..MaxEdits]
Copies == Releases \X Slots
Idle == [pc |-> "idle", ver |-> 0, arch |-> 0, slot |-> 0, hash |-> 0,
         old |-> FALSE, new |-> FALSE, installed |-> FALSE]

Forward == {"lock", "steal", "take", "pid", "slot", "validate", "clear", "extract", "verify", "copy",
            "keep", "stage", "away", "place", "check", "install", "compare", "retire", "kernel",
            "write", "readback", "finish"}
Backward == {"uninit", "reinit", "untree", "retree", "sweep", "cleanup"}
Installer == {"factory", "bootstrap", "patch", "reread", "retired"}

TypeOK ==
    /\ fs \in [tree : Trees, stage : Trees, failed : Trees, extra : Releases \cup {0},
               fw : Releases \cup {0}, factory : Releases \cup {0}, manifest : BOOLEAN,
               rb : [Copies -> Trees], rinit : [Copies -> Releases \cup {0, Torn}],
               lock : {"none", "empty", "stale"} \cup Requests]
    /\ init \in Releases \cup {Torn} /\ initNew \in Releases \cup {0}
    /\ kernel \in {"stock", "patched", "torn"}
    /\ mode \in {"on", "off", "stuck", "dead"} \cup Installer
    /\ req \in [Requests -> [pc : {"idle", "unlock", "done"} \cup Forward \cup Backward,
                             ver : Releases \cup {0}, arch : Releases \cup {0}, slot : Slots,
                             hash : Releases \cup {0},
                             old : BOOLEAN, new : BOOLEAN, installed : BOOLEAN]]
    /\ saved \in 0..MaxEdits /\ faults \in 0..MaxFaults

\* A camera that runs release 1, or one with a new card that is not started yet.
Init ==
    \E rel \in Releases, trigger \in Releases \cup {0}, m \in {"on", "off"} :
        /\ m = "on" => rel = 1 /\ trigger \in Triggers
        /\ m = "off" => rel \in Fresh /\ trigger = rel
        /\ fs = [tree |-> [rel |-> rel, conf |-> 0], stage |-> NoTree, failed |-> NoTree, extra |-> 0,
                 fw |-> 0, factory |-> trigger, manifest |-> FALSE,
                 rb |-> [c \in Copies |-> NoTree], rinit |-> [c \in Copies |-> 0], lock |-> "none"]
        /\ mode = m
        /\ init = 1 /\ initNew = 0 /\ kernel = "stock"
        /\ req = [i \in Requests |-> Idle]
        /\ saved = 0 /\ faults = 0

Fault(f) ==
    /\ f \in Faults /\ faults < MaxFaults
    /\ faults' = faults + 1

-----------------------------------------------------------------------------
(* The web pages; they are served from the tree in place.                  *)
Serving == mode = "on" /\ fs.tree # NoTree

\* fw_upload.sh: rm of the earlier archive, and mv of a validated one.
UploadRemoves ==
    /\ Serving /\ fs.fw # 0
    /\ fs' = [fs EXCEPT !.fw = 0]
    /\ UNCHANGED <<init, initNew, kernel, mode, req, saved, faults>>

UploadPlaces(rel) ==
    /\ Serving /\ fs.fw = 0
    /\ fs' = [fs EXCEPT !.fw = rel]
    /\ UNCHANGED <<init, initNew, kernel, mode, req, saved, faults>>

Save ==
    /\ Serving /\ saved < MaxEdits
    /\ EditsAlways \/ \A i \in Requests : req[i].pc = "idle"
    /\ saved' = saved + 1
    /\ fs' = [fs EXCEPT !.tree.conf = saved + 1]
    /\ UNCHANGED <<init, initNew, kernel, mode, req, faults>>

-----------------------------------------------------------------------------
(* fw_upgrade.sh, forward.                                                 *)
At(i, pc) == mode = "on" /\ req[i].pc = pc
Go(i, pc) == req' = [req EXCEPT ![i].pc = pc]
Die(i) == Go(i, "uninit")
Copy(i) == <<req[i].ver, req[i].slot>>

Begin(i) ==
    /\ Serving /\ req[i].pc = "idle"
    /\ req' = [req EXCEPT ![i] = [Idle EXCEPT !.pc = IF fs.fw # 0 THEN "lock" ELSE "uninit",
                                              !.ver = fs.tree.rel]]
    /\ UNCHANGED <<fs, init, initNew, kernel, mode, saved, faults>>

\* A PID of before the last start may by now belong to another process.
Running(l) == l = "stale" \/ (l \in Requests /\ req[l].pc # "idle")
Ended(l)   == l \in {"empty", "stale"} \/ (l \in Requests /\ req[l].pc = "idle")

Lock(i) ==
    /\ At(i, "lock")
    /\ \/ /\ fs.lock = "none"
          /\ fs' = [fs EXCEPT !.lock = "empty"] /\ Go(i, "pid")
       \/ Running(fs.lock) /\ Die(i) /\ UNCHANGED fs
       \/ Ended(fs.lock) /\ Go(i, "steal") /\ UNCHANGED fs
    /\ UNCHANGED <<init, initNew, kernel, mode, saved, faults>>

Steal(i) ==
    /\ At(i, "steal")
    /\ fs' = [fs EXCEPT !.lock = "none"] /\ Go(i, "take")
    /\ UNCHANGED <<init, initNew, kernel, mode, saved, faults>>

Take(i) ==
    /\ At(i, "take")
    /\ IF fs.lock = "none" THEN fs' = [fs EXCEPT !.lock = "empty"] /\ Go(i, "pid")
       ELSE Die(i) /\ UNCHANGED fs
    /\ UNCHANGED <<init, initNew, kernel, mode, saved, faults>>

WritePid(i) ==
    /\ At(i, "pid")
    /\ fs' = [fs EXCEPT !.lock = IF @ = "none" THEN @ ELSE i] /\ Go(i, "slot")
    /\ UNCHANGED <<init, initNew, kernel, mode, saved, faults>>

\* The first slot with neither a tree nor a bootstrap in it; without one, the
\* names of the last slot stay set, for rollback.
ChooseSlot(i) ==
    LET free == {s \in Slots : fs.rb[<<req[i].ver, s>>] = NoTree /\ fs.rinit[<<req[i].ver, s>>] = 0} IN
    /\ At(i, "slot")
    /\ \/ /\ free = {}
          /\ \E s \in Slots : /\ \A t \in Slots : t <= s
                             /\ req' = [req EXCEPT ![i].pc = "uninit", ![i].slot = s]
       \/ \E s \in free : /\ \A t \in free : s <= t
                          /\ req' = [req EXCEPT ![i].pc = "validate", ![i].slot = s]
    /\ UNCHANGED <<fs, init, initNew, kernel, mode, saved, faults>>

Validate(i) ==
    /\ At(i, "validate")
    /\ IF fs.fw = 0 THEN Die(i)
       ELSE req' = [req EXCEPT ![i].pc = "clear", ![i].arch = fs.fw]
    /\ UNCHANGED <<fs, init, initNew, kernel, mode, saved, faults>>

Clear(i) ==
    /\ At(i, "clear")
    /\ fs' = [fs EXCEPT !.stage = NoTree, !.extra = 0, !.failed = NoTree] /\ Go(i, "extract")
    /\ UNCHANGED <<init, initNew, kernel, mode, saved, faults>>

\* extra is the archive's Factory directory, with the bootstrap and the boot image.
Extract(i) ==
    /\ At(i, "extract")
    /\ IF fs.fw = 0 THEN Die(i) /\ UNCHANGED fs
       ELSE /\ fs' = [fs EXCEPT !.stage = [rel |-> fs.fw, conf |-> 0], !.extra = fs.fw]
            /\ Go(i, "verify")
    /\ UNCHANGED <<init, initNew, kernel, mode, saved, faults>>

\* Model, version and manifest of the staged tree, and the kernel that runs.
Verify(i) ==
    /\ At(i, "verify")
    /\ IF fs.stage.rel = req[i].arch /\ kernel # "torn"
       THEN fs' = [fs EXCEPT !.manifest = TRUE] /\ Go(i, "copy")
       ELSE Die(i) /\ UNCHANGED fs
    /\ UNCHANGED <<init, initNew, kernel, mode, saved, faults>>

CopySettings(i) ==
    /\ At(i, "copy")
    /\ fs' = [fs EXCEPT !.stage.conf = fs.tree.conf] /\ Go(i, "keep")
    /\ UNCHANGED <<init, initNew, kernel, mode, saved, faults>>

KeepInit(i) ==
    /\ At(i, "keep")
    /\ fs' = [fs EXCEPT !.rinit[Copy(i)] = init] /\ Go(i, "stage")
    /\ UNCHANGED <<init, initNew, kernel, mode, saved, faults>>

StageInit(i) ==
    /\ At(i, "stage")
    /\ IF fs.extra = 0 THEN Die(i) /\ UNCHANGED initNew
       ELSE /\ initNew' = fs.extra
            /\ req' = [req EXCEPT ![i].pc = "away", ![i].hash = fs.extra]
    /\ UNCHANGED <<fs, init, kernel, mode, saved, faults>>

\* mv into a directory that exists would nest the tree, out of every reader's sight.
Onto(there, tree) == IF there = NoTree THEN tree ELSE there

\* MUTANT: the flag is set only once the new tree is in place.
MoveAwayUnflagged(i) ==
    /\ At(i, "away")
    /\ fs' = [fs EXCEPT !.rb[Copy(i)] = Onto(@, fs.tree), !.tree = NoTree]
    /\ Go(i, "place")
    /\ UNCHANGED <<init, initNew, kernel, mode, saved, faults>>

MoveAway(i) ==
    /\ At(i, "away")
    /\ IF fs.tree = NoTree THEN Die(i) /\ UNCHANGED fs
       ELSE /\ fs' = [fs EXCEPT !.rb[Copy(i)] = Onto(@, fs.tree), !.tree = NoTree]
            /\ req' = [req EXCEPT ![i].pc = "place", ![i].old = TRUE]
    /\ UNCHANGED <<init, initNew, kernel, mode, saved, faults>>

Place(i) ==
    /\ At(i, "place")
    /\ IF fs.stage = NoTree THEN Die(i) /\ UNCHANGED fs
       ELSE /\ fs' = [fs EXCEPT !.tree = Onto(@, fs.stage), !.stage = NoTree]
            /\ req' = [req EXCEPT ![i].pc = "check", ![i].new = TRUE]
    /\ UNCHANGED <<init, initNew, kernel, mode, saved, faults>>

Check(i) ==
    /\ At(i, "check")
    /\ IF fs.tree.rel = req[i].arch /\ fs.manifest THEN Go(i, "install") ELSE Die(i)
    /\ UNCHANGED <<fs, init, initNew, kernel, mode, saved, faults>>

InstallInit(i) ==
    /\ At(i, "install")
    /\ IF initNew = 0 THEN Die(i) /\ UNCHANGED <<init, initNew>>
       ELSE /\ init' = initNew /\ initNew' = 0
            /\ req' = [req EXCEPT ![i].pc = "compare", ![i].installed = TRUE]
    /\ UNCHANGED <<fs, kernel, mode, saved, faults>>

Compare(i) ==
    /\ At(i, "compare")
    /\ IF init = req[i].hash THEN Go(i, "retire") ELSE Die(i)
    /\ UNCHANGED <<fs, init, initNew, kernel, mode, saved, faults>>

Retire(i) ==
    /\ At(i, "retire")
    /\ fs' = [fs EXCEPT !.factory = 0] /\ Go(i, "kernel")
    /\ UNCHANGED <<init, initNew, kernel, mode, saved, faults>>

\* Any of these commands fails; none of them has had an effect then.
StepFails(i) ==
    /\ mode = "on" /\ req[i].pc \in Forward \ {"lock", "steal", "pid", "readback"}
    /\ Fault("io") /\ Die(i)
    /\ UNCHANGED <<fs, init, initNew, kernel, mode, saved>>

\* The trap of a signal to the request and its helper reads the status of the
\* command before, which is 0 or not.
Signal(i) ==
    /\ mode = "on" /\ req[i].pc \in Forward
    /\ Fault("term")
    /\ Go(i, "uninit") \/ Go(i, "cleanup")
    /\ UNCHANGED <<fs, init, initNew, kernel, mode, saved>>

-----------------------------------------------------------------------------
(* ensure_y623_ve_kernel.sh: a known boot image is saved, overwritten,     *)
(* read back, and restored when it is not the expected one.                *)
Kernel(i) ==
    /\ At(i, "kernel")
    /\ IF fs.extra = 0 \/ kernel = "torn" THEN Die(i)
       ELSE Go(i, IF kernel = "patched" THEN "finish" ELSE "write")
    /\ UNCHANGED <<fs, init, initNew, kernel, mode, saved, faults>>

WriteKernel(i) ==
    /\ At(i, "write")
    /\ kernel' = "torn" /\ Go(i, "readback")
    /\ UNCHANGED <<fs, init, initNew, mode, saved, faults>>

ReadBack(i) ==
    /\ At(i, "readback")
    /\ \/ kernel' = "patched" /\ Go(i, "finish") /\ UNCHANGED faults
       \/ Fault("io") /\ kernel' = "stock" /\ Die(i)
       \/ Fault("restore") /\ Die(i) /\ UNCHANGED kernel
    /\ UNCHANGED <<fs, init, initNew, mode, saved>>

Finish(i) ==
    /\ At(i, "finish")
    /\ fs' = [fs EXCEPT !.fw = 0, !.stage = NoTree, !.extra = 0] /\ Go(i, "unlock")
    /\ UNCHANGED <<init, initNew, kernel, mode, saved, faults>>

Unlock(i) ==
    /\ At(i, "unlock")
    /\ fs' = [fs EXCEPT !.manifest = FALSE, !.lock = "none"] /\ Go(i, "done")
    /\ UNCHANGED <<init, initNew, kernel, mode, saved, faults>>

-----------------------------------------------------------------------------
(* rollback and cleanup: what the exit of every failing request runs.      *)
RestoreInit(i) ==
    /\ At(i, "uninit")
    /\ IF req[i].installed /\ fs.rinit[Copy(i)] # 0
       THEN init' = Torn /\ Go(i, "reinit")
       ELSE Go(i, "untree") /\ UNCHANGED init
    /\ UNCHANGED <<fs, initNew, kernel, mode, saved, faults>>

RestoreInitEnds(i) ==
    /\ At(i, "reinit")
    /\ \/ init' = fs.rinit[Copy(i)] /\ UNCHANGED faults
       \/ Fault("restore") /\ UNCHANGED init
    /\ Go(i, "untree")
    /\ UNCHANGED <<fs, initNew, kernel, mode, saved>>

RemoveNew(i) ==
    /\ At(i, "untree")
    /\ fs' = IF req[i].new /\ fs.tree # NoTree THEN [fs EXCEPT !.failed = fs.tree, !.tree = NoTree] ELSE fs
    /\ Go(i, "retree")
    /\ UNCHANGED <<init, initNew, kernel, mode, saved, faults>>

RestoreOld(i) ==
    /\ At(i, "retree")
    /\ fs' = IF req[i].old /\ fs.rb[Copy(i)] # NoTree
             THEN [fs EXCEPT !.tree = Onto(@, fs.rb[Copy(i)]), !.rb[Copy(i)] = NoTree] ELSE fs
    /\ Go(i, "sweep")
    /\ UNCHANGED <<init, initNew, kernel, mode, saved, faults>>

Sweep(i) ==
    /\ At(i, "sweep")
    /\ fs' = [fs EXCEPT !.rinit[Copy(i)] = 0] /\ initNew' = 0
    /\ Go(i, "cleanup")
    /\ UNCHANGED <<init, kernel, mode, saved, faults>>

Cleanup(i) ==
    /\ At(i, "cleanup")
    /\ fs' = [fs EXCEPT !.manifest = FALSE, !.lock = "none"]
    /\ req' = [req EXCEPT ![i] = Idle]
    /\ UNCHANGED <<init, initNew, kernel, mode, saved, faults>>

-----------------------------------------------------------------------------
(* Restarts, the bootstrap and Factory/config.sh.                          *)
Down ==
    /\ mode' = "off"
    /\ req' = [i \in Requests |-> Idle]
    /\ fs' = [fs EXCEPT !.lock = IF @ = "none" THEN @ ELSE IF @ = "empty" THEN @ ELSE "stale"]

Reboot(i) ==
    /\ At(i, "done") /\ Down
    /\ UNCHANGED <<init, initNew, kernel, saved, faults>>

PowerLoss ==
    /\ mode \in {"on"} \cup Installer /\ Fault("power") /\ Down
    /\ UNCHANGED <<init, initNew, kernel, saved>>

Boot ==
    /\ mode = "off"
    /\ mode' = CASE kernel = "torn" \/ init = Torn -> "dead"
                 [] kernel # "torn" /\ init # Torn /\ fs.factory # 0 -> "factory"
                 [] kernel # "torn" /\ init # Torn /\ fs.factory = 0 ->
                        IF fs.tree.rel = init THEN "on" ELSE "stuck"
    /\ UNCHANGED <<fs, init, initNew, kernel, req, saved, faults>>

\* The tree must match the bootstrap of the package.
FactoryCheck ==
    /\ mode = "factory"
    /\ mode' = IF fs.tree.rel # fs.factory THEN "stuck"
               ELSE IF init = fs.factory THEN "patch" ELSE "bootstrap"
    /\ UNCHANGED <<fs, init, initNew, kernel, req, saved, faults>>

FactoryInit ==
    /\ mode = "bootstrap"
    /\ init' = fs.factory /\ mode' = "patch"
    /\ UNCHANGED <<fs, initNew, kernel, req, saved, faults>>

FactoryKernel ==
    \/ /\ mode = "patch"
       /\ IF kernel = "patched" THEN mode' = "retired" /\ UNCHANGED kernel
          ELSE kernel' = "torn" /\ mode' = "reread"
       /\ UNCHANGED <<fs, init, initNew, req, saved, faults>>
    \/ /\ mode = "reread"
       /\ \/ kernel' = "patched" /\ mode' = "retired" /\ UNCHANGED faults
          \/ Fault("io") /\ kernel' = "stock" /\ mode' = "stuck"
          \/ Fault("restore") /\ mode' = "stuck" /\ UNCHANGED kernel
       /\ UNCHANGED <<fs, init, initNew, req, saved>>

FactoryFinish ==
    /\ mode = "retired"
    /\ fs' = [fs EXCEPT !.factory = 0] /\ mode' = "off"
    /\ UNCHANGED <<init, initNew, kernel, req, saved, faults>>

FactoryFails ==
    /\ mode \in Installer \ {"reread"} /\ Fault("io")
    /\ mode' = "stuck"
    /\ UNCHANGED <<fs, init, initNew, kernel, req, saved>>

\* The trees on the card, under all the names that the upgrade gives them.
OnCard == {fs.tree, fs.stage, fs.failed} \cup {fs.rb[c] : c \in Copies}

\* The owner takes the card out and renames the tree that the bootstrap wants.
Repair ==
    /\ mode = "stuck"
    /\ \E tree \in OnCard :
        /\ tree.rel = init
        /\ fs' = [fs EXCEPT !.tree = tree, !.factory = 0,
                            !.rb = [c \in Copies |-> IF fs.rb[c] = tree THEN NoTree ELSE fs.rb[c]]]
        /\ saved' = tree.conf
    /\ mode' = "off"
    /\ UNCHANGED <<init, initNew, kernel, req, faults>>

Upgrade(i) ==
    \/ Lock(i) \/ Steal(i) \/ Take(i) \/ WritePid(i) \/ ChooseSlot(i) \/ Validate(i) \/ Clear(i)
    \/ Extract(i) \/ Verify(i) \/ CopySettings(i) \/ KeepInit(i) \/ StageInit(i) \/ MoveAway(i)
    \/ Place(i) \/ Check(i) \/ InstallInit(i) \/ Compare(i) \/ Retire(i) \/ Kernel(i)
    \/ WriteKernel(i) \/ ReadBack(i) \/ Finish(i) \/ Unlock(i) \/ Reboot(i)
    \/ RestoreInit(i) \/ RestoreInitEnds(i) \/ RemoveNew(i) \/ RestoreOld(i) \/ Sweep(i) \/ Cleanup(i)

Start == Boot \/ FactoryCheck \/ FactoryInit \/ FactoryKernel \/ FactoryFinish

Next ==
    \/ \E i \in Requests : Begin(i) \/ Upgrade(i) \/ StepFails(i) \/ Signal(i)
    \/ UploadRemoves \/ (\E rel \in Releases : UploadPlaces(rel)) \/ Save
    \/ Start \/ FactoryFails \/ PowerLoss \/ Repair

Spec == Init /\ [][Next]_vars /\ WF_vars(Start) /\ \A i \in Requests : WF_vars(Upgrade(i))

-----------------------------------------------------------------------------
AtRest == mode = "on" /\ \A i \in Requests : req[i].pc = "idle"

(* A failed upgrade is undone and a finished one starts: whenever no       *)
(* request is at work, the tree in place is the one that the bootstrap     *)
(* accepts, with the settings that were saved last, and the boot partition *)
(* is whole (rollback and the restarts of fw_upgrade.sh).                  *)
UpgradeUndone == AtRest => fs.tree.rel = init /\ fs.tree.conf = saved /\ kernel # "torn"

(* Wherever power is lost or a signal arrives, the card holds the tree     *)
(* that the bootstrap wants, under one of the names that the upgrade uses, *)
(* or a package that installs itself.                                      *)
WantedOnCard ==
    init # Torn => \/ \E tree \in OnCard : tree.rel = init
                   \/ fs.factory # 0 /\ fs.tree.rel = fs.factory

\* The automatic restarts end: an installer on the card is not started for ever.
StartsEnd == (mode \in {"off"} \cup Installer) ~> (mode \in {"on", "stuck", "dead"})

\* A request ends, with a restart or with everything taken back.
RequestsEnd == \A i \in Requests : (req[i].pc # "idle") ~> (req[i].pc = "idle")

\* Request i has chosen the slot for itself.
Owns(i, c) == req[i].pc # "idle" /\ req[i].arch # 0 /\ Copy(i) = c

(* "Repeated upgrades from the same firmware version must preserve earlier *)
(* rollback copies" (fw_upgrade.sh:145): the copy of a bootstrap goes only *)
(* with the request that made it.                                          *)
CopiesPreserved ==
    [][\A c \in Copies : fs.rinit[c] # 0 /\ (\A i \in Requests : ~Owns(i, c)) => fs'.rinit[c] # 0]_vars
=============================================================================
