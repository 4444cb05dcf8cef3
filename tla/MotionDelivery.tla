--------------------------- MODULE MotionDelivery ---------------------------
(***************************************************************************)
(* Delivery of START and STOP from motiond to the recorder, through the    *)
(* message queue of the vendor's broker (motion_delivery.h and the loop of *)
(* motiond.c around it).                                                   *)
(*                                                                         *)
(* The detector must never wait for the broker, so what cannot be sent now *)
(* is remembered: the latest state, a START that has not been sent, and    *)
(* the STOP that every new connection begins with.  The broker may drain   *)
(* slowly, exit, or unlink and recreate its queue; motiond then goes on    *)
(* writing to a queue that nobody reads until its next identity check.     *)
(* One pass of the detector loop is one unit of time.                      *)
(***************************************************************************)
EXTENDS Naturals, Sequences

CONSTANTS
  Cap,          (* mq_maxmsg of the broker's queue                             *)
  Interval,     (* passes in the 1000 ms between identity checks and reopens   *)
  MinMotion,    (* passes between the first and the last of a motion: the quiet *)
                (* delay of the detector                                        *)
  ShutdownTries,(* attempts of the shutdown loop, 5 in motiond.c               *)
  MaxBreaks     (* bound on exits, kills, broken descriptors and replacements  *)

ASSUME DeliveryAssumption ==
  /\ Cap \in Nat \ {0} /\ Interval \in Nat \ {0}
  /\ ShutdownTries \in Nat \ {0} /\ MaxBreaks \in Nat /\ MinMotion \in Nat

VARIABLES
  phase,     (* "run", "stop" during the shutdown loop, "down" without process *)
  turn,      (* where the pass is: detect, check, open, send, ticked           *)
  tries,     (* sends left in this tick                                        *)
  left,      (* shutdown attempts left                                         *)
  lasted,    (* passes since the motion began, up to MinMotion                 *)
  wanted,    (* the detector's state, as the message that announces it         *)
  sent,      (* the last message that mq_send took                             *)
  todo,      (* reset_pending ("reset") and start_pending ("start")            *)
  conn,      (* the open queue: "live", "dead" (unlinked since) or "none"      *)
  checkIn,   (* passes until check_after                                       *)
  retryIn,   (* passes until retry_after                                       *)
  broker,    (* "up" while the queue's name exists                             *)
  queue,     (* what the broker has not read yet                               *)
  rec,       (* the last message the recorder got                              *)
  owed,      (* "owed" from the beginning of a motion that does not continue a *)
             (* sent one until a START for it is in a queue somebody reads     *)
  breaks

delivery     == <<wanted, sent, todo, conn, checkIn, retryIn>>
side         == <<broker, queue, rec>>
deliveryVars == <<phase, turn, tries, left, lasted, delivery, side, owed, breaks>>

Msgs == {"START", "STOP"}

(* motion_delivery_init                                                    *)
DeliveryInit ==
  /\ phase = "run" /\ turn = "detect" /\ tries = 0 /\ left = 0 /\ lasted = 0
  /\ wanted = "STOP" /\ sent = "STOP" /\ todo = {"reset"}
  /\ conn = "none" /\ checkIn = 0 /\ retryIn = 0
  /\ broker \in {"up", "down"} /\ queue = <<>>
  /\ rec \in Msgs                    (* what an earlier motiond left behind *)
  /\ owed = "none" /\ breaks = 0

Break == breaks < MaxBreaks /\ breaks' = breaks + 1

(* motion_delivery_pending                                                 *)
Pending == conn = "none" \/ todo # {} \/ sent # wanted

(* Mutant: a START that could not be sent is forgotten with the motion.    *)
WantForgets(m) ==
  /\ wanted' = m
  /\ todo' = IF m = "START" /\ sent = "STOP" THEN todo \cup {"start"} ELSE todo \ {"start"}

(* motion_delivery_want                                                    *)
Want(m) ==
  /\ wanted' = m
  /\ todo' = IF m = "START" /\ sent = "STOP" THEN todo \cup {"start"} ELSE todo

Fewer(n) == IF n = 0 THEN 0 ELSE n - 1
TimePasses == checkIn' = Fewer(checkIn) /\ retryIn' = Fewer(retryIn)

-----------------------------------------------------------------------------
(* The detector loop.                                                      *)

(* A sample that changes nothing ...                                       *)
NoTransition ==
  /\ phase = "run" /\ turn = "detect"
  /\ turn' = "check"
  /\ lasted' = IF lasted < MinMotion THEN lasted + 1 ELSE lasted
  /\ TimePasses
  /\ UNCHANGED <<phase, tries, left, wanted, sent, todo, conn, side, owed, breaks>>

(* ... and one that begins or ends a motion.                               *)
Transition ==
  /\ phase = "run" /\ turn = "detect"
  /\ \E m \in Msgs \ {wanted} :
       /\ m = "STOP" => lasted = MinMotion
       /\ Want(m)
       /\ owed' = IF m = "START" /\ sent = "STOP" THEN "owed" ELSE owed
  /\ turn' = "check" /\ lasted' = 0
  /\ TimePasses
  /\ UNCHANGED <<phase, tries, left, sent, conn, side, breaks>>

(* Mutant: the identity of the open queue is never checked.                *)
CheckNever ==
  /\ turn = "check"
  /\ turn' = "open"
  /\ UNCHANGED <<lasted, phase, tries, left, delivery, side, owed, breaks>>

(* motion_delivery_tick: the name must still lead to the open queue.       *)
Check ==
  /\ turn = "check"
  /\ \/ /\ conn # "none" /\ checkIn = 0
        /\ conn' = IF conn = "live" THEN "live" ELSE "none"
        /\ checkIn' = Interval
     \/ /\ conn = "none" \/ checkIn > 0
        /\ UNCHANGED <<conn, checkIn>>
  /\ turn' = "open"
  /\ UNCHANGED <<lasted, phase, tries, left, wanted, sent, todo, retryIn, side, owed, breaks>>

OpenTooSoon ==
  /\ turn = "open" /\ conn = "none" /\ retryIn > 0
  /\ turn' = "ticked"
  /\ UNCHANGED <<lasted, phase, tries, left, delivery, side, owed, breaks>>

(* mq_open fails without the name, and for reasons of its own.             *)
OpenFails ==
  /\ turn = "open" /\ conn = "none" /\ retryIn = 0
  /\ \/ broker = "down" /\ UNCHANGED breaks
     \/ Break
  /\ retryIn' = Interval
  /\ turn' = "ticked"
  /\ UNCHANGED <<lasted, phase, tries, left, wanted, sent, todo, conn, checkIn, side, owed>>

(* Mutant: the first message of a connection is whatever comes next.       *)
OpenWithoutReset ==
  /\ turn = "open"
  /\ \/ /\ conn = "none" /\ retryIn = 0 /\ broker = "up"
        /\ conn' = "live" /\ checkIn' = Interval
        /\ todo' = todo \cup (IF wanted = "START" THEN {"start"} ELSE {})
     \/ /\ conn # "none"
        /\ UNCHANGED <<conn, checkIn, todo>>
  /\ tries' = 2 /\ turn' = "send"
  /\ UNCHANGED <<lasted, phase, left, wanted, sent, retryIn, side, owed, breaks>>

Open ==
  /\ turn = "open"
  /\ \/ /\ conn = "none" /\ retryIn = 0 /\ broker = "up"
        /\ conn' = "live" /\ checkIn' = Interval
        /\ todo' = todo \cup {"reset"} \cup (IF wanted = "START" THEN {"start"} ELSE {})
     \/ /\ conn # "none"
        /\ UNCHANGED <<conn, checkIn, todo>>
  /\ tries' = 2 /\ turn' = "send"
  /\ UNCHANGED <<lasted, phase, left, wanted, sent, retryIn, side, owed, breaks>>

(* Mutant: START is preferred to the reset of a new connection.            *)
NextMsgStartFirst == IF "start" \in todo THEN "START" ELSE IF "reset" \in todo THEN "STOP" ELSE wanted

(* The message the code picks for the next mq_send.                        *)
NextMsg == IF "reset" \in todo THEN "STOP" ELSE IF "start" \in todo THEN "START" ELSE wanted

(* mq_send took the message: the bookkeeping after it.                     *)
Sent ==
  /\ sent' = NextMsg
  /\ todo' = IF "reset" \in todo THEN todo \ {"reset"}
             ELSE IF NextMsg = "START" THEN todo \ {"start"} ELSE todo
  /\ tries' = tries - 1
  /\ UNCHANGED <<turn, wanted, conn, checkIn, retryIn>>

MaySend == turn = "send" /\ tries > 0 /\ Pending

SendLive ==
  /\ MaySend /\ conn = "live" /\ Len(queue) < Cap
  /\ queue' = Append(queue, NextMsg)
  /\ owed' = IF NextMsg = "START" THEN "none" ELSE owed
  /\ Sent
  /\ UNCHANGED <<lasted, phase, left, broker, rec, breaks>>

(* Nobody reads this queue any more; it still takes messages.              *)
SendDead ==
  /\ MaySend /\ conn = "dead"
  /\ Sent
  /\ UNCHANGED <<lasted, phase, left, side, owed, breaks>>

(* EAGAIN: a full queue ends the tick and keeps everything pending.  A     *)
(* nonblocking mq_send does not wait and so meets no EINTR.                *)
SendFull ==
  /\ MaySend
  /\ conn = "dead" \/ (conn = "live" /\ Len(queue) = Cap)
  /\ turn' = "ticked"
  /\ UNCHANGED <<lasted, phase, tries, left, delivery, side, owed, breaks>>

(* Any other error closes the descriptor and waits a second.               *)
SendBreaks ==
  /\ MaySend /\ Break
  /\ conn' = "none" /\ retryIn' = Interval
  /\ turn' = "ticked"
  /\ UNCHANGED <<lasted, phase, tries, left, wanted, sent, todo, checkIn, side, owed>>

SendDone ==
  /\ turn = "send" /\ (tries = 0 \/ ~Pending)
  /\ turn' = "ticked"
  /\ UNCHANGED <<lasted, phase, tries, left, delivery, side, owed, breaks>>

EndOfPass ==
  /\ phase = "run" /\ turn = "ticked"
  /\ turn' = "detect"
  /\ UNCHANGED <<lasted, phase, tries, left, delivery, side, owed, breaks>>

-----------------------------------------------------------------------------
(* The end of the process and the next one.                                *)

(* motion_delivery_close and exit.                                         *)
Closed == phase' = "down" /\ turn' = "detect" /\ conn' = "none"

(* SIGTERM is seen at the top of the loop.                                 *)
BeginShutdown ==
  /\ phase = "run" /\ turn = "detect" /\ Break
  /\ Want("STOP")
  /\ phase' = "stop" /\ left' = ShutdownTries /\ turn' = "check"
  /\ TimePasses
  /\ UNCHANGED <<lasted, tries, sent, conn, side, owed>>

(* Mutant: the attempts are not limited.                                   *)
RetryShutdownForever ==
  /\ phase = "stop" /\ turn = "ticked" /\ Pending
  /\ left' = left - 1 /\ turn' = "check"
  /\ TimePasses
  /\ UNCHANGED <<lasted, phase, tries, wanted, sent, todo, conn, side, owed, breaks>>

(* Another attempt after 100 ms, while something is pending.               *)
RetryShutdown ==
  /\ phase = "stop" /\ turn = "ticked" /\ Pending /\ left > 1
  /\ left' = left - 1 /\ turn' = "check"
  /\ TimePasses
  /\ UNCHANGED <<lasted, phase, tries, wanted, sent, todo, conn, side, owed, breaks>>

EndShutdown ==
  /\ phase = "stop" /\ turn = "ticked" /\ (left = 1 \/ ~Pending)
  /\ Closed
  /\ UNCHANGED <<lasted, tries, left, wanted, sent, todo, checkIn, retryIn, side, owed, breaks>>

DeliveryKill ==
  /\ phase # "down" /\ Break
  /\ Closed
  /\ UNCHANGED <<lasted, tries, left, wanted, sent, todo, checkIn, retryIn, side, owed>>

(* The watchdog starts motiond again.                                      *)
DeliveryRestart ==
  /\ phase = "down"
  /\ phase' = "run" /\ turn' = "detect"
  /\ wanted' = "STOP" /\ sent' = "STOP" /\ todo' = {"reset"}
  /\ conn' = "none" /\ checkIn' = 0 /\ retryIn' = 0
  /\ owed' = "none"
  /\ UNCHANGED <<lasted, tries, left, side, breaks>>

-----------------------------------------------------------------------------
(* The broker and, behind it, the recorder.                                *)

Receive ==
  /\ queue # <<>>
  /\ rec' = Head(queue) /\ queue' = Tail(queue)
  /\ UNCHANGED <<lasted, phase, turn, tries, left, delivery, broker, owed, breaks>>

BrokerExit ==
  /\ broker = "up" /\ Break
  /\ broker' = "down" /\ queue' = <<>>
  /\ conn' = IF conn = "live" THEN "dead" ELSE conn
  /\ UNCHANGED <<lasted, phase, turn, tries, left, wanted, sent, todo, checkIn, retryIn>>
  /\ UNCHANGED <<rec, owed>>

BrokerStart ==
  /\ broker = "down"
  /\ broker' = "up"
  /\ UNCHANGED <<lasted, phase, turn, tries, left, delivery, queue, rec, owed, breaks>>

-----------------------------------------------------------------------------
Tick == \/ Check \/ OpenTooSoon \/ OpenFails \/ Open
        \/ SendLive \/ SendDead \/ SendFull \/ SendBreaks \/ SendDone

Motiond == \/ NoTransition \/ Transition \/ Tick
           \/ EndOfPass \/ RetryShutdown \/ EndShutdown

Broker == Receive \/ BrokerStart

DeliveryNext == Motiond \/ BeginShutdown \/ DeliveryKill \/ DeliveryRestart \/ Broker \/ BrokerExit

DeliverySpec == DeliveryInit /\ [][DeliveryNext]_deliveryVars

(* The loop runs, the broker reads and comes back, and the service starts  *)
(* motiond again; nothing makes the detector see a motion.                 *)
Fairness == /\ WF_deliveryVars(Motiond) /\ WF_deliveryVars(DeliveryRestart)
            /\ WF_deliveryVars(Receive) /\ WF_deliveryVars(BrokerStart)

FairDelivery == DeliverySpec /\ Fairness

-----------------------------------------------------------------------------
(* Type correctness.                                                       *)
DeliveryTypeOK ==
  /\ phase \in {"run", "stop", "down"} /\ turn \in {"detect", "check", "open", "send", "ticked"}
  /\ tries \in 0..2 /\ left \in 0..ShutdownTries /\ lasted \in 0..MinMotion
  /\ wanted \in Msgs /\ sent \in Msgs /\ todo \subseteq {"reset", "start"}
  /\ conn \in {"live", "dead", "none"}
  /\ checkIn \in 0..Interval /\ retryIn \in 0..Interval
  /\ broker \in {"up", "down"} /\ queue \in Seq(Msgs) /\ rec \in Msgs
  /\ owed \in {"owed", "none"} /\ breaks \in 0..MaxBreaks

(* The recorder is never told to start twice: whatever is lost with a      *)
(* queue, a process or a connection, what it has got and what is waiting   *)
(* for it never hold two STARTs in a row.                                  *)
NoDoubleStart ==
  /\ queue # <<>> => ~(rec = "START" /\ queue[1] = "START")
  /\ \A i \in 1..(Len(queue) - 1) : ~(queue[i] = "START" /\ queue[i + 1] = "START")

(* The last message the recorder has got or will get from the queue.       *)
LastMsg == IF queue = <<>> THEN rec ELSE queue[Len(queue)]

(* What makes it inductive: after the reset of a connection, sent is the   *)
(* last message of the live queue, and a START is pending only after a     *)
(* STOP.                                                                   *)
DeliveryInv ==
  /\ NoDoubleStart
  /\ conn # "none" /\ todo = {"start"} => sent = "STOP"
  /\ conn = "live" /\ "reset" \notin todo => LastMsg = sent

(* A connection never announces motion before it has reset the recorder,   *)
(* and then alternates (motion_delivery.h:11-15).                          *)
Link == IF conn = "none" \/ "reset" \in todo THEN "fresh" ELSE sent
Signal == INSTANCE RecorderSignal WITH link <- Link
SignalSpec == Signal!Spec

(* Once the detector settles, so does the recorder, whatever exits, kills  *)
(* and full queues came before.                                            *)
RecorderFollows == \A m \in Msgs : <>[](wanted = m) => <>[](rec = m)

(* A motion that ends while its START cannot be sent still gets one, unless *)
(* the process ends (docs/MOTION_TUNING.md:89).                            *)
ShortMotionKept == "start" \in todo ~> (sent = "START" \/ phase # "run")

(* When nothing is pending on a queue that somebody reads, the START of    *)
(* every motion so far was put where somebody reads it                     *)
(* (docs/MOTION_TUNING.md:94).                                             *)
NoMotionAbandoned == conn = "live" /\ ~Pending => owed = "none"
=============================================================================
