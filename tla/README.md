# A verification project for yi-hack-Allwinner-v2X

TLA+ models of the parts of this firmware that act concurrently on shared state
or have to survive a loss of power, TLC instances that check them, and TLAPS
proofs of what matters most. Paths below are relative to the repository (`src/`
in the project's map); `…/script/` stands for
`src/static/static/yi-hack/script/` and `…/cgi-bin/` for
`src/www/httpd/cgi-bin/`.

1. [The system](#1-the-system)
2. [Modules and how they correspond to the code](#2-modules-and-how-they-correspond-to-the-code)
3. [Runs](#3-runs)
4. [Proofs](#4-proofs)
5. [Where code and documents disagree](#5-where-code-and-documents-disagree)
6. [What is not modelled](#6-what-is-not-modelled)
7. [Plan](#7-plan)

## 1. The system

The firmware runs beside the vendor's own processes on a small camera: one
radio, an SD card that can be pulled or worn out, little memory, a tmpfs that can
fill up, and no operator. Almost everything is a shell script or a small C
process started by the watchdog `wd.sh`, by a CGI page, by the vendor's broker
`dispatch`, or by `LD_PRELOAD` inside a vendor process. They share files under
`/tmp`, POSIX message queues, mapped files and abstract socket locks. Any of
them can be killed at any point by `service_guard`.

### Components

| Component | State it keeps | Operations | Talks to |
|---|---|---|---|
| **Wi-Fi radio ownership**: `…/script/hotspot.sh`, `wifi_failover.sh`, `wifi_recovery.sh`, `wifi_station_guard.sh`, the Wi-Fi part of `wd.sh`, `wifi.sh` save | `/tmp/yi-hotspot.request`, `/tmp/yi-hotspot/{state,pending}`, `/tmp/wifi_maintenance_active`, the daemons on `wlan0`, the watchdog's counters | request, apply, recover, restore, failover, reconnect, vendor setup, scan, save, poll, check | each other through the lock `wifi-recovery` |
| **Wi-Fi provisioning** (`configure_wifi.sh`, the bootstrap, `hotspot.sh boot`) | the provisioning partition, the boot mode in `system.conf`, a request file on the card | stage, back up, clear, write, verify, install, consume | bootstrap, Wi-Fi page |
| **Service locks** (`src/busybox/yi-lock.patch`, `service_lock.sh`) | an abstract socket per name | acquire or fail at once; release with the last descriptor | every script that changes shared state |
| **Worker guard** (`src/service_guard/service_guard.c`) | deadline, child | run, TERM then KILL of the process group | all workers |
| **Motion detection** (`motiond.c`, `motion_tuning.h`) | detector state, `/tmp/motion.state`, retry times | sample, update, write state, telemetry | delivery, histories |
| **Exclusion mask and motion map** (`motion_mask.h`, `motion_map_y623.c`) | shared map with a generation, last frame and score | publish (encoder), open, read, score | detection |
| **Motion delivery** (`motion_delivery.h`) | wanted and sent state, two pending flags, one queue descriptor | want, tick, shutdown | the vendor's `ipc_dispatch` queue |
| **Level and event histories** (`motion_metadata_levels.c`, `motion_metadata_events.c`) | mapped rings with a sequence number | begin, end, copy, reset | motiond, ipc2file, recorder hook |
| **Events and clip metadata** (`ipc2file.c`, `ipc_multiplex.c`, `record_metadata.c`) | alarm files, last alarm, table of open recordings | consume, announce, tag a closed clip | recorder, status page, ONVIF |
| **Service lifecycle** (`service.sh`, `motion_service.sh`, `wd.sh`) | processes, nested locks `motion`, `service-NAME`, `motion-events` | start, stop, restart, health check | everything |
| **FTP upload** (`ftppush.sh`, `ftppush_queue.sh`) | receipts, stop file, queue on the card | scan, send, record, delete, stop | remote server |
| **Configuration** (`config_work.sh`, `flash_config_sync.sh`, `flash_storage.sh`) | a directory lock with a PID, a staging directory, two copies of the settings | lock, stage, clean up, choose, fill, sync, retire | web pages |
| **Flash-core installer** (`scripts/flash-core/*`) | a journal, the startup entry, backups, staged images | prepare, activate, stage, verify, commit, restore | bootloader |
| **Upgrade from the card** (`fw_upload.sh`, `fw_upgrade.sh`, `ensure_y623_ve_kernel.sh`, `bootstrap.sh.in`, `Factory/config.sh`) | the tree on the card, the bootstrap in the flash, the boot partition, rollback copies | upload, exchange, roll back, install, boot | web page, bootloader |
| **Reset button** (`reset_hotspot.c`) | hold and settling state | sample, arm, request | hotspot |
| **Night vision** (`nightvision.c`, `nightvisionctl.c`) | a shared pair with a generation | set, initialise, apply, report | rmm, settings page |
| **RTSP server** (`rRTSPServer.cpp`, `VideoFramedMemorySource.cpp`) | position in the vendor's frame ring, bounded queues | follow, queue, drop, play | network clients |
| **Speaker** (`speaker.c`, `Speaker.cpp`) | a named semaphore, an amplifier, a FIFO | take, open, write, give back | rmm, talkback clients |
| Others: camera commands, native motion of y28ga, preroll, frame grabbers, the other pages, MQTT bridge, packaging | little or none of their own | | |

### What is hard here

* **Interleaving.** The watchdog looks without the lock and starts workers in
  the background; a worker runs seconds after the observation that justified it,
  next to vendor callbacks, web requests and button presses.
* **Death at any step.** `service_guard` kills process groups and power is
  pulled, so every file, daemon, partition and journal can be left as it was
  between two lines of a script.
* **Messages.** The broker's queues can be full, unlinked or recreated while
  their writers, which must never wait, go on writing.
* **Shared memory without locks.** The encoder, the recorder and the detector
  may stop, restart or be killed inside an update while others copy.
* **Partial failure.** A full tmpfs, a worn-out card, a bootloader that ignores
  its images or a server that refuses a file fail one step of several.

### What makes each modelled part correct

* Radio: one owner of `wlan0`; requests are neither lost nor inverted; an
  interrupted transition ends; a request is served.
* Provisioning: a camera that has started is reached, by the hotspot or with
  whole credentials; credentials are given up only with a copy of them.
* Delivery: START and STOP alternate; a new connection first clears the recorder;
  a motion shorter than the broker's outage still gets its START.
* Detection: a motion ends only after a whole quiet delay; no unusable map hides
  strong motion longer than its timeouts; the state file catches up.
* Histories and clips: a copy that is accepted was current as a whole; what a
  clip says of a moment is what the detector said then; a closed clip can be
  played; the alarm files agree with the detector.
* Installation and upgrade: whenever power is lost, what is left starts or can
  be taken back, but for a kernel torn as it is overwritten; automatic reboots end; what failed is undone with the settings.
* Configuration: a start that was cut off never replaces the owner's settings by the
  defaults; while none is, they give way only to whole versions of the owner's.
* Uploads: what is deleted was sent; one worker; a stop is honoured; one clip
  that fails does not hold up the others.
* Services: one process per daemon; what is configured comes back; nothing
  survives a guard that gave up on it.
* Media: a client gets decodable frames in order; one user of the loudspeaker;
  mode and threshold of night vision are applied as a pair.

The hazards behind these, each at its line, are in `PROJECT.json`.

## 2. Modules and how they correspond to the code

| Module | Models |
|---|---|
| `WifiRadio`, `MCWifiRadio`, `WifiRadioProofs` | everything that runs under `wifi-recovery`, the watchdog's Wi-Fi checks, requests, faults |
| `RecorderSignal` | what one connection promises the recorder: the abstract specification |
| `MotionDelivery` | `motion_delivery.h`, its caller in `motiond.c`, the queue; refines `RecorderSignal` |
| `MotionDetector` | the loop of `motiond.c`, `motion_tuning.h`, `motion_mask.h`, the publisher in `motion_map_y623.c` |
| `FlashInstall` | `install.sh` with the kernel helper it calls on y623, `dispatcher.sh.in`, `lower_half_init.sh` |
| `WebUpgrade` | `fw_upload.sh`, `fw_upgrade.sh`, the kernel helper, the bootstrap's decision, `Factory/config.sh` of y623 |
| `FlashConfig` | `flash_storage.sh`, `flash_config_sync.sh` |
| `ConfigWork` | `config_work.sh` and the pages that use it |
| `WifiProvision` | `configure_wifi.sh`, its two callers, `boot_request` |
| `SharedHistory` | publication and copy, word by word, of levels, events and motion map |
| `LevelRing`, `EventRing` | the contents of the two histories |
| `EventFiles` | `ipc_multiplex.c`'s copy, `ipc2file.c`, the collector's start |
| `ClipClose` | `record_metadata.c` in the recorder's threads |
| `FtpQueue` | `ftppush.sh`, `ftppush_queue.sh` |
| `ServiceGuard`, `ResetButton` | `service_guard.c`, `reset_hotspot.c` |
| `ServiceLifecycle`, `Supervisor` | `motion_service.sh`, `service.sh`, `wd.sh`, `set_configs.sh` |
| `FrameRing`, `SpeakerShare`, `NightVision` | capture of the RTSP server, `speaker.c` with the talkback, `nightvision.c` with its control |
| `MCStorage`, `MCHistories`, `MCUploads`, `MCServices`, `MCMedia` | instances of the modules above, see section 3 |
| `StorageProofs`, `HistoriesProofs`, `UploadsProofs`, `ServicesProofs`, `MediaProofs` | theorems about these instances, see section 4 |
| `MotionProofs` | theorems about `MotionDetector` and `MotionDelivery`, whose names differ so that one module can extend both |
| `SharedHistoryProofs` | theorems about `SharedHistory`, which `HistoriesProofs` uses for each of its instances |

Definitions whose comment begins with *MUTANT* are broken variants of the
definition after them. No specification uses them; `PROJECT.json` says which
property each one violates.

### WifiRadio

* *State.* `state`, `request`, `pending` and `maint` are the files under `/tmp`;
  `mode`, `password` and `primary` the settings that the scripts read;
  `supplicant` and `ap` what runs on `wlan0`. A worker process is a slot with
  `pc`, `role`, `act` (the shell variable `ACTION`) and membership in `fresh`
  (`NEW_REQUEST=yes`). `holder` is the lock. `wdpc`, `fails`, `lost` and `mfails`
  are the watchdog.
* *Steps.* A worker step ends where the script has changed one thing that others
  can see or that a kill would leave behind: a state write, the teardown, the
  start of hostapd, the marker. `restore_station` is six steps, `start_ap`
  seven. Each command that can fail has a failing alternative.
* *Kill* ends a worker at any step; its lock is released, daemons survive, a
  `udhcpd` of its process group may not. *Faults* names which of `kill`,
  `helper` (a daemon dies or the driver leaves AP mode), `sysconf` (an unwritable
  system.conf) and `tmpfs` (a full /tmp) may happen.
* *Abstractions.* Settings are reduced to what the scripts branch on. `yi_lock`
  never waits, so a caller gets the lock or leaves. Time is
  the number of watchdog passes; the counters saturate at the values the code
  compares them with. When both slots are taken
  the watchdog's pass waits for one, as if the process were slow to start.

### MotionDelivery and RecorderSignal

* *State.* `wanted`, `sent`, `todo` (`reset_pending`, `start_pending`), `conn`,
  `checkIn` and `retryIn` are the fields of `struct motion_delivery`; `conn` also
  records whether the open queue is still the one with the name ("dead" is what
  `fstat` against `stat` finds out). `queue`, `broker` and `rec` are the vendor's
  side, modelled from how motiond uses it. `at`, `tries` and `left` are the
  positions inside a tick and the shutdown loop.
* *Steps.* `want` is part of the detector's `Transition`; a tick is the identity
  check, the open, up to two sends and its end, interleaved with the broker at
  every point. A process can be killed anywhere; the next one knows nothing.
* *Refinement.* `Link` maps the delivery to `RecorderSignal`: a connection whose
  reset is outstanding is "fresh", otherwise it is the last message sent.
* *Abstractions.* One pass of the loop is one unit of time. motiond is run with
  delivery enabled (`-r`). A nonblocking `mq_send` does not meet `EINTR`. `owed`
  is a history variable for one property.

### MotionDetector

* *State.* Readings are what the thresholds make of them: strong (at or above the
  trigger), quiet (at or below the release) or between; a key frame is its own
  kind because `motion_mask_score` treats it as one. All times are ages or
  countdowns in sample intervals, saturating where the code stops telling them
  apart. `gen` is the map's generation: absent, zero after `initialize_map`, odd
  while a frame is written, even after it.
* *Steps.* A pass is the whole-frame read, the map read, `motion_update` with the
  write of a transition, the telemetry with its retry, and the sleep, which may
  be late. The encoder publishes, stalls, exits and restarts between any two.
* *Abstractions.* The mask is enabled. The copy of the map is one step here, and
  word by word in `SharedHistory`. `motion_mask_score`'s block counting is
  abstracted to its outcome. The expiry of a reader's request is left to the
  encoder's freedom not to publish. `calm`, `grounds` and `blind` are history
  variables for properties.

### Storage: FlashInstall, WebUpgrade, FlashConfig, ConfigWork, WifiProvision

* **FlashInstall.** `bk` and `sd` are what `/backup` and the card hold, as sets of
  files whose presence the scripts test, and `img` the two filesystems that the
  bootloader writes. Every write that outlives a loss of power is a step; the bootloader
  may take one staged image, both or none. `kern` is the boot partition, which the
  installer overwrites in place on y623 (`ensure_y623_ve_kernel.sh`): stock, patched,
  unknown to the script, or torn from the first block written until the partition has
  been read back or restored; `"other"` is a y28ga, whose partition nothing writes. A torn
  kernel starts nothing, and no file on the card repairs it. Checksums are abstracted
  to whether they match. A *vendor* installation replaces the vendor's startup; a *clean* one
  replaces an earlier flash core and needs its card left in, which is why
  `BootsWithoutCard` and `NoDeadEnd` are stated for the vendor kind.
* **WebUpgrade.** `fs` is the card: the tree in place, the staged and the failed
  one, the rollback copies of every version and slot, the archive, the Factory
  directory and the lock. A tree is its release and the settings in it, because a
  bootstrap accepts exactly the tree whose checksums it carries. A request walks
  the commands of `fw_upgrade.sh` and, whatever ends it, its exit trap: rollback
  and cleanup. The kernel helper writes a partition that is torn until it is read
  back. `Boot` is the bootstrap's choice between the installer on the card and
  the tree. `mv` of a directory is atomic and lasts; `cp` onto the bootstrap is
  not atomic (`Torn`).
* **FlashConfig.** `sd` and `flash` give the version of every file, counted by
  the owner's edits. `flash_storage_init` chooses and fills; `flash_config_sync.sh` copies
  file by file through a temporary name and then retires what the card lacks.
* **ConfigWork.** One step per command of `config_work_begin` and
  `config_work_cleanup`, which have no lock under the lock.
* **WifiProvision.** The partition is its SSID, its key and its flag, each field
  whole, blank or cut off in the middle. The file on the card asks for a pair of
  credentials or for the hotspot. A write to the partition is taken to be on the
  flash when `dd` returns, in the order of the script.

### Histories: SharedHistory, LevelRing, EventRing, EventFiles, ClipClose

* **SharedHistory** is one protocol with three restarts: levels are kept when
  the sequence number is even (`retain`), events always start again (`reset`), the
  map is cleared with its number (`zero`). Words are written and copied one at a
  time; readers give up after the code's number of attempts; a reader process has
  several threads that share one mapping under a mutex.
* **LevelRing** and **EventRing** hold the contents with an update as one step:
  capacity, eviction, the comparison of monotonic and wall clock, and what a clip
  gets from the ring when it is closed. The rows that a clip takes from the events
  are a set of indices (`Rows`; row 0 is the baseline), and what a clip says of a
  moment is the row with the largest index that is not after it (`StateAt`). Only a
  y28ga writes its clips from the events (`record_metadata.c:258`), and there the
  baseline is whether `motion_alarm` exists, which an earlier consumer may have left or
  not created: `Start` takes any state for it, or none if the model file cannot be read.
* **EventFiles** has the queue's limit (a message is dropped when it is full), the
  one `last_alarm` for all kinds of messages, timers, a file that cannot be created,
  detection switched off at any time, and a consumer that ends, also between receiving
  a message and acting on it, and is started again. Three history variables name what
  the code cannot make good: `heard` is false while the last start or stop was lost, to a full
  queue, to `clear_queue` or to a consumer killed with it; `hidden` and `left` say that
  the file of the last start is missing or is that of a consumer that ended.
* **ClipClose** interleaves `open`, `close`, the table of recordings and the writes
  into a finished file, with the lowest free descriptor given out. At most
  `RECORD_FDS` recordings are open at a time, as in the recorder; with more, a clip is
  closed without its tag.

### Uploads: FtpQueue

`clip` is the length of each recording, `receipt` what the receipt says of contents
and destination, `server` what each destination has. A worker is a process with
the scan's variables in `p`; `control` and `work` are the locks `ftppush-control`
and `ftppush`, the second of which the transfer of a killed shell keeps. `undo`
holds the deletions that a loss of power may still undo.

### Services: ServiceGuard, ResetButton, ServiceLifecycle, Supervisor

* **ServiceGuard** has process groups, the reaping of the leader (after which the
  group's number may be another's), and the second between TERM and KILL as an
  arbitrary delay.
* **ResetButton** counts polls; every read of the state files and of the clock may fail.
* **ServiceLifecycle** runs each operation as a stack of scripts with their locks
  and statuses (75 for a busy lock); a daemon is *coming* until its process can be
  seen and *going* until it is gone.
* **Supervisor** has the server, the watchdog, delayed starters, and a port that
  the watchdog reads once.

### Media: FrameRing, SpeakerShare, NightVision

* **FrameRing** numbers frames modulo 65536 and wraps the ring of cells; the
  capture thread guesses the newest frame, walks the headers, confirms and copies.
  The encoder never laps the capture thread by a whole ring, as its size makes sure.
* **SpeakerShare** has `speaker` processes (semaphore, amplifier, FIFO, signals) and
  sinks of the RTSP server's event loop with their delayed switch-off.
* **NightVision** interleaves single loads and stores.

## 3. Runs

Twelve runs: nine that pass and three that show a violation (section 5). Five of
the passing ones gather modules that share no state: their MC module has a
variable `part` that is chosen in the initial state and says which instance
moves, with which constants and faults; all others rest. A property of such a run
is the conjunction of what the modules state, each part under the faults for which
it holds, so that one run answers one question about one area of the system.

| Run | Checks | Shows |
|---|---|---|
| `wifi_safety` | `TypeOK`, `RadioSingleOwner`, `RequestsHonoured` | two concurrent workers of any role, every boot configuration, two requests, calls, kills, daemon deaths or failed saves at any step: one owner, nothing lost or inverted |
| `wifi_live` | `TransitionsEnd`, `RequestsServed` | after two interruptions of any kind, a full tmpfs included, every half-done transition ends and every request is served |
| `motion_delivery` | `NoDoubleStart`, `SignalSpec`, `RecorderFollows`, `ShortMotionKept` | the promises of the delivery with three exits, kills, broken descriptors or replaced queues |
| `motion_detector` | `NotBlinded`, `QuietBeforeStop`, `FileFollows` | the detector against an encoder that does anything, with late passes, failed writes, exits and kills |
| `storage` | `AlwaysRecoverable`, `CommittedStays`, `UpgradeSafe`, `WorkEnds`, `SettingsKept`, `LockSound`, `CredentialsKept` | installer, upgrade, configuration, its requests and the Wi-Fi credentials under power loss, failing storage and kills at every step |
| `histories` | `SnapshotsSound`, `ReaderEnds`, `LevelsTrue`, `EventsTrue`, `AlarmTrue`, `ClipsSound` | the way of a motion into a clip, with killed writers, clock steps, overflow, restarts and a failing card |
| `uploads` | `NothingLost`, `OneWorker`, `StopHonoured`, `ClipsArrive` | the upload queue with failed transfers, changed destinations, kills, power loss and concurrent starts and stops |
| `services` | `GuardSound`, `AskedEnds`, `ButtonSound`, `Singletons`, `ServicesRestored` | nested guards, the button, and detector, recorder and collector under two callers and the watchdog |
| `media` | `StreamSound`, `SpeakerExclusive`, `Freed`, `PairsWhole`, `SettingsTakeEffect`, `StreamsReturn` | capture across both wraps, the shared loudspeaker, night vision load by load, the RTSP server and its watchdog |
| `wifi_marker`, `supervisor_off`, `web_copies` | `MarkerMatchesRadio`, `Supervised`, `CopiesPreserved` (violated) | see section 5 |

What the conjuncts of the gathered properties say is written at their definitions
in the component modules:

| Property | Conjuncts |
|---|---|
| `RequestsHonoured` | `RequestsKept`, `StopHonoured`, `StartIsWanted`, `ButtonHotspotIsOpen` of `WifiRadio` |
| `AlwaysRecoverable` | `StartupMatchesImages`, `BackedUp`, `TornKernelKept`, `TornWhileWritten` (sound power and storage), `BootsWithoutCard`, `NoDeadEnd` of `FlashInstall` |
| `UpgradeSafe` | `UpgradeUndone` (steps that fail), `WantedOnCard` (every fault) of `WebUpgrade` |
| `WorkEnds` | `NoRebootLoop`, `EndsRunning` of `FlashInstall`; `StartsEnd`, `RequestsEnd` of `WebUpgrade`; `LockReturned` of `ConfigWork`; `FallbackFollows` of `FlashConfig`; `RequestConsumed` of `WifiProvision` |
| `SettingsKept` | `UsedIsWhole`, `FallbackWhole`, `GivesWayToWhole` (starts not cut off), `NoSilentDefaults` (cut off or not) of `FlashConfig` |
| `LockSound` | `StagingIsOwn` (two requests, killed or not), `LockRecoverable` (three, not killed) of `ConfigWork` |
| `CredentialsKept` | `AlwaysReached` (card, power cuts), `CredentialsSaved`, `RouterHasCredentials` (page and failing writes too) of `WifiProvision` |
| `SnapshotsSound` | `Coherent`, `MappingHeld`, `Published` of `SharedHistory`; for the map `Published` only |
| `LevelsTrue`, `EventsTrue` | `HoldsTheNewest`, `ClockOrdered` of `LevelRing`; `ClipTellsTheTruth`, `ClipIsComplete`, `Alternates` of `EventRing` |
| `AlarmTrue` | `AlarmShown` (restarts), `HistoryFollows` (none), `AlarmCleared` and `HistoryRestored` (restarts, no classifier messages) of `EventFiles` |
| `ClipsSound` | `Playable`, `WholeOrOriginal`, `OthersUntouched`, `Tagged` of `ClipClose` |
| `NothingLost`, `OneWorker`, `ClipsArrive` | `DeletedWereSent`, `ReceiptsTrue`; `OneWorker`, `StopKept`; arrival and `ReceiptsPruned` of `FtpQueue` |
| `GuardSound`, `ButtonSound` | `OwnGroupOnly`, `StatusTrue`, `GroupEnded` of `ServiceGuard`; `HiddenOnceSettled`, `OneRequestPerHold`, `RequestMeansHold` of `ResetButton` |
| `Singletons`, `ServicesRestored` | `Singletons`, `MotionStaysOff`; `CollectorRestored`, `MotionRestored`, `RecorderRestored` of `ServiceLifecycle` |
| `StreamSound`, `SpeakerExclusive` | `NoTornFrame`, `InOrder`, `Decodable` of `FrameRing`; `OneWriter`, `Audible` of `SpeakerShare` |
| `PairsWhole`, `StreamsReturn` | `PairsWhole`, `AppliedIsTrue` of `NightVision`; `Supervised`, `StreamsReturn` of `Supervisor` |

The initial states of a gathered run are those of the part that moves, with one
initial state of each part that rests, so the parts add up and do not multiply.
Deadlock is not checked there: a bounded number of requests, faults or updates
ends a behaviour, as it does in the code when nobody asks for more.

**Bounds and why they are enough.** The proofs remove the bounds from the safety
properties they cover; elsewhere each bound is the smallest at which the case
happens.

* `Workers`: two slots. The lock admits one worker, so a second one shows every
  race for it and every stale decision; a third waits or leaves like the second.
  `MaxEvents = 2` lets a request meet a kill, two requests meet each other, a save
  meet the button; the watchdog's own steps, and every failing command, are not
  bounded. `CheckLimit` and `Grace` are 1 or 0 so that escalation is reached;
  their size only delays it.
* Delivery: `Cap = 2` is the smallest queue in which a START can wait behind
  another message and the next find it full; `Interval = 2` separates an identity
  check from the passes between checks; `MinMotion = 1` allows the shortest
  motion; three faults let a process and two queues be lost in one run.
* Detector: `Confirm = 2` and `Quiet = 2` make confirmations and the quiet delay
  take several passes; `Stale <= AllKey` keeps the order of the code's 500 ms
  and 2000 ms; `MaxGap = 2` lets a pass oversleep a timeout.
* Storage: three losses of power, so that a recovery can be interrupted and the
  recovery of that too; the code's three attempts; every kernel the helper can find; two updater components, two
  main files and one other, so that a copy can end between two of each kind; four
  interrupted boots or copies; two releases and two rollback slots, so that slots
  run out; one request for an upgrade with one failing step, and two faults of any
  kind; two pairs of credentials, two requests, two cuts of power.
* Histories: two or three words (the first and the last differ), two readers
  of one process, the code's number of attempts, two kills; rings of two entries,
  which wrap at the third; a queue of two messages and two ends of the consumer; two recordings closed by two
  threads beside a file that is only read, with two failures.
* Uploads: two clips of one hour, two destinations, one failure, kill and loss of
  power each in `queue`; two processes with every mode, and the same two clips, in
  `control`; a growing clip beside one that the server always refuses in `live`.
  `queue` and `control` take their sizes from constants, which the proofs leave
  open; `live` fixes them, because its properties are about liveness.
* Services: one guard in another (a third level repeats the second), two callers
  and the watchdog for the exclusion of daemons, one caller and the watchdog for
  progress; a hold of two polls and a settling time of three.
* Media: ten frames with a modulus of 16 and six cells, so that numbers and cells
  wrap at different frames; two clips and two sessions; two writers of the
  night-vision pair; two settings pages.

**Fairness.** Only what the code's own scheduling gives. WifiRadio: the watchdog
loops for ever (`while true` in `wd.sh`, which starts its workers in the
background), and a worker that can take a step takes one, since each command it waits
for is bounded by `service_guard` or a timeout of its own. MotionDelivery:
motiond's loop runs, the service starts it again, the broker reads its queue and
comes back. MotionDetector: the loop runs and is started again. Storage: a camera
with power goes on booting, and a script that was started goes on (`Machine`,
`Boot`, `Syncing`, `Step`, `Start`, `Upgrade`, `Run`). Histories: a reader runs. Uploads: cron starts the
worker again and again. Services: a guard, an operation and the
watchdog's round run on, and a daemon that was forked becomes visible. Media: the
camera loop, writers, pages and clips run; the switch-off of a talkback session
is strongly fair because its timer is re-armed by other packets but the event
loop comes round to it. Nothing makes people act, daemons fail, power go, the scene move
or a server answer.

## 4. Proofs

Eight modules hold proofs. What they prove is about every value of the constants
that satisfies the named assumptions: those of the component modules
(`WorkersAssumption`, `ConfigsAssumption`, `BoundsAssumption`, `DeliveryAssumption`, `HistoryAssumption`)
and those of the MC modules, which are the assumptions of the instances they
make (`FlashConstants`, `LockConstants`, `UpgradeConstants`; `PagesAssumption`,
`RingsAssumption`, `ClosesAssumption`, `FilesAssumption`; `GuardConstants`,
`ButtonConstants`, `LifeConstants`; `FramesAssumption`, `SpeakerAssumption`,
`NightAssumption`; `SettingsConstants`, `WifiConstants`; `QueueConstants`,
`ControlConstants`). TLC evaluates all of them. They say that counts are natural
numbers, that a size is not zero where the code's is not, that sets of processes
and files that the code tells apart are disjoint, that a batch is smaller than
the ring of frames, and that frame numbers do not wrap twice in a behaviour.
What an MC module fixes when it makes an instance (which faults, which kinds, one
request for an upgrade, two requests that may be killed) is part of what the
theorem says.

| Theorem | Statement |
|---|---|
| `WifiRadioProofs!TypeCorrect` | `Spec => []TypeOK` |
| `WifiRadioProofs!RadioSafe` | one owner and a visible hotspot, if no write of the state file fails |
| `WifiRadioProofs!RequestsSafe` | `Spec => RequestsHonoured`, under the same condition |
| `MotionProofs!DeliveryTypeCorrect` | `DeliverySpec => []DeliveryTypeOK` |
| `MotionProofs!StartsAlternate` | `DeliverySpec => []NoDoubleStart` |
| `MotionProofs!DeliveryImplementsSignal` | `DeliverySpec => SignalSpec` |
| `MotionProofs!TypeCorrect` | `Spec => []TypeOK` of `MotionDetector` |
| `MotionProofs!QuietPeriod` | `Spec => [](TypeOK /\ QuietInv)` |
| `MotionProofs!StopsAreQuiet` | `Spec => QuietBeforeStop` |
| `MotionProofs!MapNeverBlinds` | `Spec => []NotBlinded` |
| `StorageProofs!RecoveryIsKept` | `Spec => []AlwaysRecoverable` |
| `StorageProofs!CommitIsKept` | `Spec => CommittedStays` |
| `StorageProofs!LockIsSound` | `Spec => []LockSound` |
| `StorageProofs!UpgradeIsSafe` | `Spec => []UpgradeSafe` |
| `StorageProofs!SettingsAreKept` | `Spec => SettingsKept`, from `SettingsAreWhole`, `OwnersSettingsStayWhole` and `OwnersSettingsStay` |
| `StorageProofs!CredentialsAreKept` | `Spec => CredentialsKept`, from `CameraIsReached`, `CredentialsAreSaved`, `RouterIsReady` |
| `SharedHistoryProofs!CopiesCoherent` | `Coherent`, unless a restart clears the number (the map) |
| `SharedHistoryProofs!SnapshotsPublished` | `Published` and `MappingHeld`, for every kind of restart |
| `HistoriesProofs!SnapshotsAreSound` | `Spec => []SnapshotsSound` |
| `HistoriesProofs!LevelsAreTrue` | `Spec => []LevelsTrue` |
| `HistoriesProofs!EventsAreTrue` | `Spec => []EventsTrue` |
| `HistoriesProofs!AlarmIsTrue` | `Spec => []AlarmTrue` |
| `HistoriesProofs!ClipsAreSound` | `Spec => []ClipsSound` |
| `UploadsProofs!OneWorkerAtATime` | `Spec => []OneWorker` |
| `UploadsProofs!NothingIsLost` | `Spec => []NothingLost` |
| `ServicesProofs!GuardIsSound` | `Spec => []GuardSound` |
| `ServicesProofs!ButtonIsSound` | `Spec => ButtonSound` |
| `ServicesProofs!ServicesAreSingle` | `Spec => []Singletons` |
| `MediaProofs!StreamIsSound` | `Spec => []StreamSound` |
| `MediaProofs!SpeakerIsExclusive` | `Spec => []SpeakerExclusive` |
| `MediaProofs!PairsAreWhole` | `Spec => []PairsWhole` |

`Spec` of an MC module chooses the part that moves. A proof about it has an
invariant per part (*if this part moves, then ...*), one lemma per action of the
component, and a step that says that the other parts leave its variables alone.

**Radio.** That hostapd and a supplicant never run together is not inductive: a
worker about to start one relies on having stopped the other, and on nobody else
having started it since. `LockInv` says exactly the worker past the lock holds
it; `PhaseInv` says, for each position of that worker, what the state file and
the radio are. A kill moves a worker out of every position that `PhaseInv`
constrains, and leaves `HotspotIsVisible`, which is what the next worker starts
from. `IntentInv` does the same for the requests: what a worker under way may
rely on about `pending` and the password. Both need `"tmpfs" \notin Faults`: if
`set_state stopping` fails, `restore_station` returns before it has stopped
hostapd, the state is set to `failed`, and the station scripts then believe the
radio is theirs. That is a real limit of the code, and the reason the condition
is a hypothesis of the theorems.

**Delivery.** `DeliveryInv`: once a connection has been reset, `sent` is the last
message of the live queue (or what the recorder got last), and a START alone is
pending only after a STOP. Then the message chosen next never repeats a START,
and under `Link` every step is a step of `RecorderSignal` or changes nothing. A
dead queue needs no clause: what is sent there reaches nobody, and the next
connection begins with the reset.

**Detector.** `QuietInv`: the quiet period is not older than `calm`, the time
since a reading in force last showed motion or was missing. The difficulty is the
"same frame" answer, which leaves the quiet period running: the invariant has to
say that the frame it refers to is not loud. A loud frame that is still fresh
enough to be in force ended the quiet period when it was read (`Loud => quiet =
-1`), and cannot have been passed over as all-key because `Stale <= AllKey`: its
age bounds the age of the last predicted frame. `BlindInv` is a bound of the kind
*time passed plus time left*: `Left` adds up the timeouts that the map's present
state (held, all keys, gone) can still use and the confirmations after them, and
`blind + Left` never grows past `Limit`, because a way of trusting the map that
has run out is not entered again while motion stays strong.

**Installer.** `FlashGlobal` relates the files that survive a loss of power,
wherever it happens: nothing is replaced before the dispatcher is in place over
a complete backup; an image is staged only under an open journal or a restore
request, so the bootloader writes nothing else; a journal is closed only over the
new images. `FlashAt(pc)` adds what each step of the scripts relies on. The
bootloader may ignore any image and any step may fail, and the invariant says
that the dispatcher's choice then still leads forward or back. The kernel of a y623 is
written after the backup is complete and before the journal opens, so a torn one finds
everything else as it was (`TornKernelKept`); only the step that writes it, a failing
write or a loss of power leaves it torn (`TornInStep`). It is proved once,
for the vendor kind with all faults: every step of the clean and of the sound instance is one
of its steps (`CleanSteps`, `SoundSteps`). `CommitIsKept` follows because a closed
journal leaves no staged image and no step that writes (`CommittedRests`).

**Upgrade.** `Progress` says what the three flags of a request mean
(`old_moved`, `new_moved`, `init_installed` in the script): they are set in this
order, and each after the copy that its undoing needs. With steps that fail,
`Undoable` says that outside of the exchange the tree in place is the one the
bootstrap accepts, with the settings saved last, and that inside it the copies
are; each step of the rollback moves one of them back. With power cuts and
signals no rollback may run, and `Startable` says less: the tree of the bootstrap
is in place, among the copies, or the package's own, unless the bootstrap itself
is torn. `UpgradeInv` is about one request; section 5 has what two do.

**Configuration lock.** `KilledInv`: with two requests, one steals the lock only
from one that is dead, so never from one at work. A third request breaks that
(section 5). `EndedInv`: while nobody is killed, a lock directory has its owner's
PID in it, or an owner on the way to write or remove it.

**Settings.** `NewCamera`: the flash lacks `system.conf` only in a camera that never
ran, whose files are then missing, defaults or torn defaults, so the copy of the
defaults finds no version of the owner; and a sync begins only while the card has
`system.conf`, so it never retires that file from the flash and brings the defaults
back (`OwnersSettingsStay`). `WholeHomes` says more of the instance whose starts are not
cut off: between two copies each home is empty or whole, and the card is bound over `etc`
only when it is whole; so a sync copies whole versions and retires none of the owner's
(`OwnersSettingsStayWhole`). Both are inductive together with the types (`HomesInv`), for any set of keys and
any number of edits and kills.

**Credentials.** `WifiSteps` says what is in the partition at each step of
`configure_wifi.sh`: the copy on the card before the first write; the SSID blank until
the key is blank too, and then written first, so that a partition with writes to come
is never whole; the credentials asked for before the settings turn to the router.
`Served` is about the card with power cuts: a request stays there until it is served, so
a start that was cut off is repeated before the network comes up. It does not hold
with failing writes or with the page as the source (section 5).

**Uploads.** `ControlInv`: a worker past its first step holds `ftppush`, and before its
main loop `ftppush-control` too; hence a starter clears the stop file only when no worker
runs, and a stop that found one stands until that one ends. `QueueInv` relates card,
receipts and server. `CardInv`: a receipt names a length and a destination at which the
clip is whole, and what was deleted is whole at one. `WorkerInv` says what the worker
at each step knows of its clip: it sends only what no receipt covers, so the copy that
a transfer tears is one that nothing relies on; it writes the receipt only for the length
that it has sent and checked again; it deletes only behind that receipt. A change of
destination between two scans, a failed transfer, a kill and a loss of power that
brings a deleted clip back all keep it.

**Shared pages.** In `SharedHistoryProofs` the invariant `IInv` says that an even
number stands over a whole snapshot and that words a reader has copied under a
number that still stands are those of the file. A writer makes the number odd
before its first word, so a copy with a word of another update no longer meets its
number. A restart that keeps the number repairs an odd one; one that begins a new
file has another inode; the one that clears it is excluded from `Coherent`.

**Levels, alarm files, clips.** `RingInv` describes the ring by a log of all
readings: what it holds is the log's end. `AlarmInv` follows the last start or stop
through the queue to the file and the history: while it has not been lost it is the last
one in the queue (`LastWord`), and once the queue holds none a consumer has acted on it
(`ShownInv`). Without classifier messages, `PlainInv` adds that a file is either the one
that the running consumer's next stop removes, or left by a consumer that ended. `ClipInv` gives for each step of a closing thread which boxes of its
recording are whole, and that its descriptor is its own as long as it is in
the table.

**Events.** `LogInv`: the rows of the ring, its baseline first, are in the order of time;
each differs in state from the one before; and each is what the detector said from its
time on until that of the next, except the baseline while it is a stale sample
(`Stale`): then only the first transition, or the eviction of the sample, ends the error. When the ring is full, the oldest transition becomes the
baseline and the rows move up by one, which is why it is stated of rows and not of
cells. What a clip says of a moment is then the row in force there, and that there is a
last row not after it follows from the well-foundedness of `<` on the naturals
(`WFMin`, applied to the distance from the end): no induction is needed.

**Services.** `GuardInv` gives for each state of a guard what runs in the group of
its worker, and that its number is the worker's until the leader is reaped.
`ButtonInv` says that what the broker knows of a press is what the samples say and that
it knows nothing before it has settled. `LifeInv` begins with the nesting of the
locks (`ControlInv`: every script past its first step holds its lock, and a
stack takes locks in one order); then two starters of one daemon cannot both be
between their look and their fork. `Singletons` promises nothing of the part
with daemons that are slow to start except that detection stays off; there the
settings keep detection on.

**Media.** `StreamInv`: the batch that the capture thread has checked lies between the oldest frame
the encoder may overwrite next and the newest it has finished, and the queue is a
run of it. `SpeakerInv`: a free semaphore has no holder, nobody shares a taken one,
and who plays has the amplifier on. `NightInv`: a pair under an even number was
published as a pair, and the copy of a reader whose number still stands is one.

**Only model-checked.** Every invariant and every action property that a passing
run checks is a theorem. What is left to TLC is liveness,
because the prover has no rules for fairness: `WorkEnds`, `ReaderEnds`, `AskedEnds`,
`ServicesRestored`, `Freed`, `SettingsTakeEffect`, `StreamsReturn`, `TransitionsEnd`,
`RequestsServed`, `RecorderFollows`, `ShortMotionKept`, `FileFollows`, `StopHonoured`,
`ClipsArrive`. Induction theorems that take an operator cannot be instantiated by the
installed provers, so the models avoid recursive definitions; a *least number with a
property* can be had from `WFMin`, and finite sets of indices take the place of filtered
sequences.

## 5. Where code and documents disagree

Three runs show a violation:

* **`wifi_marker`.** `check_wifi` reads the maintenance marker, looks at the
  association for seconds and then writes the marker without the lock
  (`wd.sh:371`). If *Return to Primary WiFi* ran in between, the marker comes back
  and primary recovery is off although the primary profile runs. `README.md:136`
  promises that the recovery network ends with that button.
* **`supervisor_off`.** `service.sh rtsp stop` kills `wd.sh`, and the settings page
  does not start the server when RTSP is switched off: no supervisor is left until
  the next boot, although `wd.sh:474` and `docs/HOTSPOT.md:112` say that recovery does
  not depend on the streaming setting.
* **`web_copies`.** `rollback` of `fw_upgrade.sh` removes `$ROLLBACK_INIT`, which
  names the first slot until another one has been chosen. A request that dies
  before that (no archive staged, another upgrade running) removes the bootstrap
  copy of an earlier upgrade from the same version, which the comment at
  `fw_upgrade.sh:145` promises to preserve.

More were met while modelling. Each is a property of a component module that its
passing instance either does not check or checks without the fault named here; an
instance with that fault violates it.

| Module, property | With | What happens, and what is said |
|---|---|---|
| `WifiRadio` `StartsAreReplayed` | a kill | a start whose worker was killed is rolled back and dropped; `docs/HOTSPOT.md:114` says it is replayed |
| `MotionDelivery` `NoMotionAbandoned` | a queue replaced between identity checks | a short motion announced only to the unlinked queue is not announced again (`motion_delivery.h:67`); `docs/MOTION_TUNING.md:94` rules that out |
| `MotionDetector` `NotStoppedByKeys` | key frames only | they count as quiet and end a motion when the quiet delay is at most two seconds; `motion_mask.h:114`, `docs/MOTION_MASKING.md:66` |
| `FlashInstall` `VerifiedStarts` | clean kind, power lost at `install.sh:250` | `CLEAN_INSTALL` is never removed and the dispatcher prepares again and refuses; `install.sh:148`, `docs/FLASH_CORE.md:251` |
| `FlashInstall` `FailedBeforeStaging` | a failing step at `install.sh:274` | the journal stays and the camera does not start without the card; `RECOVERY.txt:12` says it does |
| `FlashInstall` `AutomaticRestoreStarts` | clean kind, three ignored attempts | `clean.conf` on the card names the new release and the restored dispatcher stops; `scripts/flash-core/README.txt:48` |
| `FlashInstall` `ToolsIntact` | power lost at `install.sh:206` | a torn copy of an updater component is later restored over the original; `dispatcher.sh.in:41` |
| `FlashConfig` `WholeSomewhere`, `GivesWayToWhole` | first fill of a card cut off | the half-filled card counts as initialised and the sync retires the rest from the flash; `docs/FLASH_CORE.md:77` |
| `ConfigWork` `StagingIsOwn` | three requests, a dead owner | the slower of two removes the faster one's lock and staging; `config_work.sh:23` |
| `ConfigWork` `LockRecoverable` | a kill before the PID is written | nobody may remove the lock until reboot; `config_work.sh:23` |
| `ConfigWork` `StagingIsOwn` | TERM after load.sh's own cleanup (`late`), three requests | the second cleanup removes the lock of the next owner |
| `WebUpgrade` `UpgradeUndone` | two requests and a failing step | the exit trap of the refused request removes the manifest, the staged and the saved bootstrap and the lock of the running one, whose rollback then leaves the new bootstrap with the old tree (`fw_upgrade.sh:92,98`) |
| `WebUpgrade` `UpgradeUndone` | a signal | the trap reads `$?` of the last command, which is 0, and does not roll back (`fw_upgrade.sh:105`) |
| `WebUpgrade` `UpgradeUndone` | `EditsAlways` | settings saved between the copy of `etc` and the exchange of the trees are lost; `docs/OPTIMIZATIONS.md:405` |
| `WifiProvision` `AlwaysReached` | failing writes, or the page as the source | the file is rejected, or the page reports an error, although the old credentials are gone; `bootstrap.sh.in:72` and `docs/HOTSPOT.md:60` say saved settings remain |
| `SharedHistory` `Coherent` | `Restart = "zero"` | a generation comes back after a restart of the encoder and a mixed copy is accepted; `motion_mask.h:78` |
| `LevelRing` `ClockOrdered` | a clock step just after the start | the first tick does not see it; `motion_metadata_levels.c:95` |
| `EventFiles` `AlarmCleared` without `~left` | a restart during motion | the stop matches nothing and the alarm stays until the next motion is recorded (`ipc2file.c:390`); `docs/MOTION_METADATA.md:18` |
| `EventFiles` `HistoryFollows` | the same | the sample that the next consumer takes is then motion that has ended; `docs/MOTION_METADATA.md:161`, "Rows marked `sample` establish state observed at consumer startup" |
| `EventFiles` `AlarmShown` without `heard` | a restart, or a full queue | a start that waits in the queue is cleared by the next consumer (`ipc2file.c:111`), or never enters it, and its motion is not shown; `docs/MOTION_METADATA.md:18` |
| `EventFiles` `AlarmCleared` | a classifier message during motion | the one `last_alarm` is replaced and the alarm stays; `docs/REFERENCE.md:388` |
| `FtpQueue` `DeletedWereSent` | `Growing` | a clip that is appended to after its check is deleted (`ftppush_queue.sh:61`); `:43` |
| `FtpQueue` `CopiesDistinct` | `Tree = FALSE`, two hours | clips of the same minute and second overwrite each other at the server; `ftppush_queue.sh:27` |
| `FtpQueue` `ReceiptsTrue` | `MidScan` | receipts name the destination of the scan's start, clips go to the current one; `docs/OPTIMIZATIONS.md:594` |
| `ResetButton` `HiddenOnceArmed` | a clock that fails in the settling time | the armed marker is published before the time is over, and pressed samples still reach the vendor (`reset_hotspot.c:106`); `docs/HOTSPOT.md:81,102` |
| `ServiceGuard` `AskedEnds` | `Nested` | the outer guard kills the inner one before that has killed its worker; `docs/SERVICE_SERIALIZATION.md:61` |
| `ServiceLifecycle` `Singletons` | `Slow` | a second recorder is started while the first is not visible yet; `service.sh:523` |
| `ServiceLifecycle` `MotionRecorded` | recording of motion only, a killed recorder | nobody restarts it while motiond lives; `docs/OPTIMIZATIONS.md:337` |
| `ServiceLifecycle` `OwnershipKept` | a busy recorder lock | the owner file is removed although the recorder runs on; `docs/SERVICE_SERIALIZATION.md:56` |
| `ServiceLifecycle` `CollectorFirst` | ONVIF stopped during a start | the recorder begins without its collector; `docs/MOTION_METADATA.md:15` |
| `Supervisor` `Rebuilt` | two saves and the watchdog's own restart | stop and start end with 75, and the watchdog looks at the old port for ever; `set_configs.sh:282` |
| `SpeakerShare` `Freed` | a restart of rmm | SIGPIPE ends `speaker` without its cleanup; `docs/LIVENESS_AUDIT.md:75` |
| `NightVision` `SettingsTakeEffect` | a writer killed inside an update | the generation stays odd and every later setting fails; `docs/NIGHTVISION.md:16` |

## 6. What is not modelled

* Parts that only translate a command line into one vendor message, format
  telemetry, patch a vendor binary or build images: they keep no state that two
  actors share.
* The vendor's processes, live555, busybox and the other third-party programs,
  except as the environment of the modelled parts. The repository contains an
  unpacked build tree of rsync (`src/rsync/_build`), which is most of its lines of
  C; it is not this firmware's logic and is left out, so the share of all lines
  that the map covers is small although the concurrent core is modelled.
* The other checks of `wd.sh`, and the boot sequence of `system.sh` except as the
  initial states of the parts it starts.
* Text formats (system.conf, telemetry, JSON of the pages), block arithmetic of
  the mask, checksums beyond their outcome, and real time below a sample interval,
  poll or watchdog pass.
* The repair of a torn kernel. The installer and the upgrade overwrite the boot partition
  of a y623 in place; power that goes there, or a flash that fails twice, leaves a kernel
  that does not start, which the models show (`TornKernelKept` of `FlashInstall`, the mode
  `"dead"` of `WebUpgrade`) and nothing in the code can undo: `RECOVERY.txt:41` "cannot
  guarantee repair of interrupted bootloader/kernel writes", and "UART may be needed".
* Storage below a file operation: `mv` within a filesystem is atomic and lasts,
  and writes to the provisioning partition reach the flash in order. The FAT of the card
  and the write cache of `mtdblock` can break that; the code's `sync` calls narrow the
  window and nothing in it can close it.

## 7. Plan

The modules of section 2, the runs of section 3 and the proofs of section 4 are done. What
would say most next:

1. The parts of section 6 that have state of their own: the preroll of the recorder
   and the boot sequence of `system.sh`.
2. Safety lemmas under the liveness properties: that the measure each of them rests on
   (steps left of a transition, the backoff of the delivery, restarts left) does not grow
   without a new request or fault. Such bounds are action properties and can be proved.
3. The refinement of `LevelRing` and `EventRing` by `SharedHistory`: an update as one step
   against one word at a time.
