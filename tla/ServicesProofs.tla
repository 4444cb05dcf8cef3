--------------------------- MODULE ServicesProofs ---------------------------
(***************************************************************************)
(* Proofs about MCServices: what a guard leaves of its worker's group and  *)
(* reports of it (GuardSound), what the vendor sees of the reset button    *)
(* and what a hold of it asks for (ButtonSound), and that no interleaving  *)
(* of callers duplicates a daemon or revives detection that was reported   *)
(* off (Singletons).                                                       *)
(***************************************************************************)
EXTENDS MCServices, Integers, Sequences, FiniteSets, TLAPS

-----------------------------------------------------------------------------
(* The guard.  The two settings differ only in who may be signalled from   *)
(* outside, so the invariant is one for both.                              *)
GStates == {"off", "fork", "watch", "expired", "kill", "reap", "done", "dead"}
Leaders == {"none", "fork", "run", "zombie", "reaped"}
Helpers == {"none", "run", "dead"}
Results == {"none", "own", "signal", "124", "128"}

GuardTypes ==
    /\ g \in [Inner!Guards -> GStates]
    /\ leader \in [Inner!Guards -> Leaders]
    /\ helper \in [Inner!Guards -> Helpers]
    /\ status \in [Inner!Guards -> Results]
    /\ stopped \subseteq Inner!Guards /\ joined \subseteq Inner!Guards /\ ok \subseteq Inner!Guards
    /\ asked \subseteq (Inner!Guards \X {"leader", "helper"})
    /\ stray \in BOOLEAN

\* What is known of guard x, its worker and the worker's group.
OneGuard(x) ==
    /\ g[x] = "off" => leader[x] = "none"
    /\ g[x] \in {"watch", "expired", "kill", "reap", "done"} => x \in joined /\ leader[x] # "none"
    /\ leader[x] = "run" => x \in joined
    /\ leader[x] = "reaped" => g[x] = "done"
    /\ leader[x] \in {"none", "fork"} => helper[x] = "none"
    /\ g[x] = "reap" => leader[x] \notin {"fork", "run"} /\ helper[x] # "run"
    /\ g[x] = "done" => leader[x] = "reaped"
    /\ status[x] # "none" => g[x] = "done"
    /\ status[x] = "own" => x \in ok
    /\ status[x] \in {"124", "128"} => helper[x] # "run"

\* The inner guard runs only once the outer guard's worker does.
Order == g["outer"] # "off" /\ leader["outer"] \in {"none", "fork"} => g["inner"] = "off"

GuardInv == GuardTypes /\ (\A x \in Inner!Guards : OneGuard(x)) /\ Order /\ ~stray

USE DEF Inner!Guards, Alone!Guards

LEMMA GuardFork ==
  ASSUME GuardInv, NEW x \in Inner!Guards, Inner!Fork(x)
  PROVE  GuardInv'
<1>1. GuardTypes' BY DEF GuardInv, GuardTypes, GStates, Leaders, Helpers, Results, Inner!Fork
<1>2. (\A y \in Inner!Guards : OneGuard(y))'
  BY DEF GuardInv, GuardTypes, GStates, Leaders, Helpers, Results, OneGuard, Order, Inner!Fork
<1>3. Order' BY DEF GuardInv, GuardTypes, OneGuard, Order, Inner!Fork
<1>4. (~stray)' BY DEF GuardInv, GuardTypes, OneGuard, Inner!Fork
<1> QED BY <1>1, <1>2, <1>3, <1>4 DEF GuardInv

LEMMA GuardAdopt ==
  ASSUME GuardInv, NEW x \in Inner!Guards, Inner!Adopt(x)
  PROVE  GuardInv'
<1>1. GuardTypes' BY DEF GuardInv, GuardTypes, GStates, Leaders, Helpers, Results, Inner!Adopt
<1>2. (\A y \in Inner!Guards : OneGuard(y))'
  BY DEF GuardInv, GuardTypes, GStates, Leaders, Helpers, Results, OneGuard, Order, Inner!Adopt
<1>3. Order' BY DEF GuardInv, GuardTypes, OneGuard, Order, Inner!Adopt
<1>4. (~stray)' BY DEF GuardInv, GuardTypes, OneGuard, Inner!Adopt
<1> QED BY <1>1, <1>2, <1>3, <1>4 DEF GuardInv

LEMMA GuardCollect ==
  ASSUME GuardInv, NEW x \in Inner!Guards, Inner!Collect(x)
  PROVE  GuardInv'
<1>1. GuardTypes' BY DEF GuardInv, GuardTypes, GStates, Leaders, Helpers, Results, Inner!Collect
<1>2. (\A y \in Inner!Guards : OneGuard(y))'
  BY DEF GuardInv, GuardTypes, GStates, Leaders, Helpers, Results, OneGuard, Order, Inner!Collect
<1>3. Order' BY DEF GuardInv, GuardTypes, OneGuard, Order, Inner!Collect
<1>4. (~stray)' BY DEF GuardInv, GuardTypes, OneGuard, Inner!Collect
<1> QED BY <1>1, <1>2, <1>3, <1>4 DEF GuardInv

LEMMA GuardStop ==
  ASSUME GuardInv, NEW x \in Inner!Guards, Inner!Stop(x)
  PROVE  GuardInv'
<1>1. GuardTypes' BY DEF GuardInv, GuardTypes, GStates, Leaders, Helpers, Results, Inner!Stop
<1>2. (\A y \in Inner!Guards : OneGuard(y))'
  BY DEF GuardInv, GuardTypes, GStates, Leaders, Helpers, Results, OneGuard, Order, Inner!Stop
<1>3. Order' BY DEF GuardInv, GuardTypes, OneGuard, Order, Inner!Stop
<1>4. (~stray)' BY DEF GuardInv, GuardTypes, OneGuard, Inner!Stop
<1> QED BY <1>1, <1>2, <1>3, <1>4 DEF GuardInv

LEMMA GuardTerminate ==
  ASSUME GuardInv, NEW x \in Inner!Guards, Inner!Terminate(x)
  PROVE  GuardInv'
<1>a. Inner!InGroup(x) \subseteq Inner!Guards \X {"leader", "helper"} BY DEF Inner!InGroup, Inner!Alive
<1>b. asked' \subseteq asked \cup Inner!InGroup(x) BY DEF Inner!Terminate, Inner!SendTerm
<1>c. Inner!FreeAgain(x) \in BOOLEAN BY DEF Inner!FreeAgain
<1>1. GuardTypes'
  <2>1. (asked \subseteq (Inner!Guards \X {"leader", "helper"}))' BY <1>a, <1>b DEF GuardInv, GuardTypes
  <2>2. stray' \in BOOLEAN BY <1>c DEF Inner!Terminate, Inner!SendTerm, GuardInv, GuardTypes
  <2>3. stopped' \subseteq Inner!Guards BY DEF Inner!Terminate, Inner!SendTerm, Inner!GuardsIn, GuardInv, GuardTypes
  <2> QED BY <2>1, <2>2, <2>3 DEF GuardInv, GuardTypes, GStates, Inner!Terminate
<1>2. (\A y \in Inner!Guards : OneGuard(y))'
  BY DEF GuardInv, GuardTypes, GStates, Leaders, Helpers, Results, OneGuard, Order, Inner!Terminate, Inner!SendTerm,
         Inner!FreeAgain, Inner!InGroup, Inner!GuardsIn, Inner!Alive
<1>3. Order' BY DEF GuardInv, GuardTypes, OneGuard, Order, Inner!Terminate, Inner!SendTerm, Inner!FreeAgain,
  Inner!InGroup, Inner!GuardsIn, Inner!Alive
<1>4. (~stray)' BY DEF GuardInv, GuardTypes, OneGuard, Inner!Terminate, Inner!SendTerm, Inner!FreeAgain,
  Inner!InGroup, Inner!GuardsIn, Inner!Alive
<1> QED BY <1>1, <1>2, <1>3, <1>4 DEF GuardInv

LEMMA GuardKill ==
  ASSUME GuardInv, NEW x \in Inner!Guards, Inner!Kill(x)
  PROVE  GuardInv'
<1>1. GuardTypes' BY DEF GuardInv, GuardTypes, GStates, Leaders, Helpers, Results, Inner!Kill, Inner!SendKill,
  Inner!FreeAgain, Inner!InGroup, Inner!GuardsIn, Inner!Alive
<1>2. (\A y \in Inner!Guards : OneGuard(y))'
  BY DEF GuardInv, GuardTypes, GStates, Leaders, Helpers, Results, OneGuard, Order, Inner!Kill, Inner!SendKill,
         Inner!FreeAgain, Inner!InGroup, Inner!GuardsIn, Inner!Alive
<1>3. Order' BY DEF GuardInv, GuardTypes, OneGuard, Order, Inner!Kill, Inner!SendKill, Inner!FreeAgain, Inner!InGroup,
  Inner!GuardsIn, Inner!Alive
<1>4. (~stray)' BY DEF GuardInv, GuardTypes, OneGuard, Inner!Kill, Inner!SendKill, Inner!FreeAgain, Inner!InGroup,
  Inner!GuardsIn, Inner!Alive
<1> QED BY <1>1, <1>2, <1>3, <1>4 DEF GuardInv

LEMMA GuardReap ==
  ASSUME GuardInv, NEW x \in Inner!Guards, Inner!Reap(x)
  PROVE  GuardInv'
<1>1. GuardTypes' BY DEF GuardInv, GuardTypes, GStates, Leaders, Helpers, Results, Inner!Reap
<1>2. (\A y \in Inner!Guards : OneGuard(y))'
  BY DEF GuardInv, GuardTypes, GStates, Leaders, Helpers, Results, OneGuard, Order, Inner!Reap
<1>3. Order' BY DEF GuardInv, GuardTypes, OneGuard, Order, Inner!Reap
<1>4. (~stray)' BY DEF GuardInv, GuardTypes, OneGuard, Inner!Reap
<1> QED BY <1>1, <1>2, <1>3, <1>4 DEF GuardInv

LEMMA GuardExpire ==
  ASSUME GuardInv, NEW x \in Inner!Guards, Inner!Expire(x)
  PROVE  GuardInv'
<1>1. GuardTypes' BY DEF GuardInv, GuardTypes, GStates, Leaders, Helpers, Results, Inner!Expire
<1>2. (\A y \in Inner!Guards : OneGuard(y))'
  BY DEF GuardInv, GuardTypes, GStates, Leaders, Helpers, Results, OneGuard, Order, Inner!Expire
<1>3. Order' BY DEF GuardInv, GuardTypes, OneGuard, Order, Inner!Expire
<1>4. (~stray)' BY DEF GuardInv, GuardTypes, OneGuard, Inner!Expire
<1> QED BY <1>1, <1>2, <1>3, <1>4 DEF GuardInv

LEMMA GuardExec ==
  ASSUME GuardInv, NEW x \in Inner!Guards, Inner!Exec(x)
  PROVE  GuardInv'
<1>1. GuardTypes' BY DEF GuardInv, GuardTypes, GStates, Leaders, Helpers, Results, Inner!Exec
<1>2. (\A y \in Inner!Guards : OneGuard(y))'
  BY DEF GuardInv, GuardTypes, GStates, Leaders, Helpers, Results, OneGuard, Order, Inner!Exec
<1>3. Order' BY DEF GuardInv, GuardTypes, OneGuard, Order, Inner!Exec
<1>4. (~stray)' BY DEF GuardInv, GuardTypes, OneGuard, Inner!Exec
<1> QED BY <1>1, <1>2, <1>3, <1>4 DEF GuardInv

LEMMA GuardBackground ==
  ASSUME GuardInv, NEW x \in Inner!Guards, Inner!Background(x)
  PROVE  GuardInv'
<1>1. GuardTypes' BY DEF GuardInv, GuardTypes, GStates, Leaders, Helpers, Results, Inner!Background
<1>2. (\A y \in Inner!Guards : OneGuard(y))'
  BY DEF GuardInv, GuardTypes, GStates, Leaders, Helpers, Results, OneGuard, Order, Inner!Background
<1>3. Order' BY DEF GuardInv, GuardTypes, OneGuard, Order, Inner!Background
<1>4. (~stray)' BY DEF GuardInv, GuardTypes, OneGuard, Inner!Background
<1> QED BY <1>1, <1>2, <1>3, <1>4 DEF GuardInv

LEMMA GuardFinish ==
  ASSUME GuardInv, NEW x \in Inner!Guards, Inner!Finish(x)
  PROVE  GuardInv'
<1>1. GuardTypes' BY DEF GuardInv, GuardTypes, GStates, Leaders, Helpers, Results, Inner!Finish
<1>2. (\A y \in Inner!Guards : OneGuard(y))'
  BY DEF GuardInv, GuardTypes, GStates, Leaders, Helpers, Results, OneGuard, Order, Inner!Finish
<1>3. Order' BY DEF GuardInv, GuardTypes, OneGuard, Order, Inner!Finish
<1>4. (~stray)' BY DEF GuardInv, GuardTypes, OneGuard, Inner!Finish
<1> QED BY <1>1, <1>2, <1>3, <1>4 DEF GuardInv

LEMMA GuardObey ==
  ASSUME GuardInv, NEW x \in Inner!Guards, NEW p \in {"leader", "helper"}, Inner!Obey(x, p)
  PROVE  GuardInv'
<1>1. GuardTypes' BY DEF GuardInv, GuardTypes, Leaders, Helpers, Inner!Obey
<1>2. (\A y \in Inner!Guards : OneGuard(y))'
  BY DEF GuardInv, GuardTypes, Leaders, Helpers, OneGuard, Inner!Obey, Inner!Alive
<1>3. Order' BY DEF GuardInv, GuardTypes, OneGuard, Order, Inner!Obey, Inner!Alive
<1>4. (~stray)' BY DEF GuardInv, Inner!Obey
<1> QED BY <1>1, <1>2, <1>3, <1>4 DEF GuardInv

\* A signal only marks the guard; whoever may send it.
LEMMA GuardSignal ==
  ASSUME GuardInv, stopped' \subseteq Inner!Guards,
         UNCHANGED <<g, leader, helper, joined, asked, ok, status, stray>>
  PROVE  GuardInv'
BY DEF GuardInv, GuardTypes, OneGuard, Order

LEMMA GuardInitial == Inner!Init \/ Alone!Init => GuardInv
BY DEF Inner!Init, Alone!Init, Inner!Top, Alone!Top, GuardInv, GuardTypes, OneGuard, Order,
       GStates, Leaders, Helpers, Results

LEMMA InnerSteps == ASSUME GuardInv, Inner!Next PROVE GuardInv'
<1> PICK x \in Inner!Guards :
      \/ Inner!Guard(x) \/ Inner!Expire(x) \/ Inner!Signal(x) \/ Inner!Exec(x) \/ Inner!Background(x)
      \/ Inner!Finish(x) \/ \E p \in {"leader", "helper"} : Inner!Obey(x, p)
  BY DEF Inner!Next
<1>1. CASE Inner!Guard(x)
  BY <1>1, GuardFork, GuardAdopt, GuardCollect, GuardStop, GuardTerminate, GuardKill, GuardReap DEF Inner!Guard
<1>2. CASE Inner!Signal(x)
  <2>1. stopped' \subseteq Inner!Guards BY <1>2 DEF Inner!Signal, GuardInv, GuardTypes
  <2> QED BY <1>2, <2>1, GuardSignal DEF Inner!Signal
<1>3. CASE \E p \in {"leader", "helper"} : Inner!Obey(x, p) BY <1>3, GuardObey
<1> QED BY <1>1, <1>2, <1>3, GuardExpire, GuardExec, GuardBackground, GuardFinish

\* Apart from the signal, what the lone guard does is what the inner one does.
LEMMA AloneIsInner ==
  ASSUME NEW x \in Inner!Guards
  PROVE  /\ Alone!Guard(x) => Inner!Guard(x)
         /\ Alone!Expire(x) => Inner!Expire(x)
         /\ Alone!Exec(x) => Inner!Exec(x)
         /\ Alone!Background(x) => Inner!Background(x)
         /\ Alone!Finish(x) => Inner!Finish(x)
         /\ \A p \in {"leader", "helper"} : Alone!Obey(x, p) => Inner!Obey(x, p)
<1>1. Alone!Fork(x) => Inner!Fork(x) BY DEF Alone!Fork, Inner!Fork
<1>2. Alone!Adopt(x) => Inner!Adopt(x) BY DEF Alone!Adopt, Inner!Adopt
<1>3. Alone!Collect(x) => Inner!Collect(x) BY DEF Alone!Collect, Inner!Collect
<1>4. Alone!Stop(x) => Inner!Stop(x) BY DEF Alone!Stop, Inner!Stop
<1>5. Alone!Terminate(x) => Inner!Terminate(x)
  BY DEF Alone!Terminate, Inner!Terminate, Alone!SendTerm, Inner!SendTerm, Alone!FreeAgain, Inner!FreeAgain,
         Alone!InGroup, Inner!InGroup, Alone!GuardsIn, Inner!GuardsIn, Alone!Alive, Inner!Alive
<1>6. Alone!Kill(x) => Inner!Kill(x)
  BY DEF Alone!Kill, Inner!Kill, Alone!SendKill, Inner!SendKill, Alone!FreeAgain, Inner!FreeAgain,
         Alone!InGroup, Inner!InGroup, Alone!GuardsIn, Inner!GuardsIn, Alone!Alive, Inner!Alive
<1>7. Alone!Reap(x) => Inner!Reap(x) BY DEF Alone!Reap, Inner!Reap
<1>8. Alone!Guard(x) => Inner!Guard(x)
  BY <1>1, <1>2, <1>3, <1>4, <1>5, <1>6, <1>7 DEF Alone!Guard, Inner!Guard
<1> QED BY <1>8 DEF Alone!Expire, Inner!Expire, Alone!Exec, Inner!Exec, Alone!Background, Inner!Background,
                    Alone!Finish, Inner!Finish, Alone!Obey, Inner!Obey, Alone!Alive, Inner!Alive

LEMMA AloneSteps == ASSUME GuardInv, Alone!Next PROVE GuardInv'
<1> PICK x \in Inner!Guards :
      \/ Alone!Guard(x) \/ Alone!Expire(x) \/ Alone!Signal(x) \/ Alone!Exec(x) \/ Alone!Background(x)
      \/ Alone!Finish(x) \/ \E p \in {"leader", "helper"} : Alone!Obey(x, p)
  BY DEF Alone!Next
<1>1. CASE Alone!Signal(x)
  <2>1. stopped' \subseteq Inner!Guards BY <1>1 DEF Alone!Signal, GuardInv, GuardTypes
  <2> QED BY <1>1, <2>1, GuardSignal DEF Alone!Signal
<1>2. CASE ~Alone!Signal(x)
  <2>1. Inner!Next BY <1>2, AloneIsInner DEF Inner!Next
  <2> QED BY <2>1, InnerSteps
<1> QED BY <1>1, <1>2

LEMMA GuardRests == ASSUME GuardInv, UNCHANGED guard PROVE GuardInv'
BY DEF guard, GuardInv, GuardTypes, OneGuard, Order

(***************************************************************************)
(* service_guard.c in any interleaving of guards, workers, deadlines and   *)
(* signals, nested or alone: signals go to the guard's own group only, a   *)
(* status of the worker is reported only if the worker ended by itself,    *)
(* and nothing of a group that was given up survives the guard's return.   *)
(***************************************************************************)
THEOREM GuardIsSound == Spec => []GuardSound
<1>1. Init => GuardInv BY GuardInitial DEF Init
<1>2. GuardInv /\ [Next]_vars => GuardInv'
  <2> SUFFICES ASSUME GuardInv, [Next]_vars PROVE GuardInv' OBVIOUS
  <2> QED BY InnerSteps, AloneSteps, GuardRests DEF Next, vars
<1>3. GuardInv => GuardSound
  BY DEF GuardInv, GuardTypes, OneGuard, GuardSound, Inner!OwnGroupOnly, Inner!StatusTrue, Inner!GroupEnded,
         Inner!Alive, Leaders, Helpers, Results
<1> QED BY <1>1, <1>2, <1>3, PTL DEF Spec

-----------------------------------------------------------------------------
(* The button.                                                             *)
ButtonTypes ==
    /\ now \in Nat /\ accept \in Nat /\ low \in Nat /\ steady \in Nat /\ asks \in Nat
    /\ down \in BOOLEAN /\ ready \in BOOLEAN /\ released \in BOOLEAN
    /\ armed \in BOOLEAN /\ request \in BOOLEAN /\ long \in BOOLEAN
    /\ press \in [since: Nat, tracking: BOOLEAN, fired: BOOLEAN]

\* What the broker knows of a press is what the samples say, and it knows
\* nothing before the settling time is over and a release was seen.
ButtonInv ==
    /\ ButtonTypes
    /\ now > 0
    /\ accept # 0 => ready
    /\ armed => accept # 0
    /\ released => accept # 0 /\ accept <= now
    /\ press.tracking \/ press.fired \/ long \/ request => released
    /\ press.tracking <=> steady # 0
    /\ press.tracking => press.since = steady
    /\ steady <= now
    /\ press.fired <=> long
    /\ asks = IF long THEN 1 ELSE 0
    /\ request => long

LEMMA ButtonInitial == ASSUME Button!Init PROVE ButtonInv
<1>1. /\ press = [since |-> 0, tracking |-> FALSE, fired |-> FALSE]
      /\ down \in BOOLEAN /\ ready = FALSE /\ released = FALSE /\ armed = FALSE /\ request = FALSE /\ long = FALSE
      /\ now = 1 /\ accept = 0 /\ low = 0 /\ steady = 0 /\ asks = 0
  BY DEF Button!Init
<1>2. ButtonTypes BY <1>1 DEF ButtonTypes
<1> QED BY <1>1, <1>2 DEF ButtonInv

LEMMA ButtonPoll ==
  ASSUME ButtonInv, NEW level \in {"up", "down", "error"}, NEW timed \in BOOLEAN, NEW written \in BOOLEAN,
         Button!AnyPoll(level, timed, written)
  PROVE  ButtonInv' /\ (armed /\ accept <= now => low' <= low)
<1> USE ButtonConstants DEF Button!ButtonAssumption
<1> DEFINE F == Button!Filtering(timed)
<1>a. /\ now' = now + 1 /\ down' = down /\ ready' \in {ready, TRUE}
      /\ accept' = IF ready' /\ accept = 0 /\ timed THEN now + Settle ELSE accept
  BY DEF Button!AnyPoll, Button!Poll
<1>b. ButtonTypes /\ now > 0 /\ (accept # 0 => ready) BY DEF ButtonInv
<1>c. Hold \in Nat /\ Settle \in Nat /\ Hold > 0 OBVIOUS
<1>d. ready \in BOOLEAN /\ down \in BOOLEAN BY <1>b DEF ButtonTypes
<1>e. ready' \in BOOLEAN /\ (ready => ready') BY <1>a, <1>d
<1>1. /\ now \in Nat /\ now > 0 /\ now' = now + 1 /\ accept \in Nat /\ low \in Nat /\ steady \in Nat
      /\ down' = down /\ down \in BOOLEAN /\ ready \in BOOLEAN /\ ready' \in BOOLEAN
      /\ Hold \in Nat /\ Settle \in Nat /\ Hold > 0
  BY <1>a, <1>b, <1>c, <1>d, <1>e DEF ButtonTypes
<1>2. /\ accept' = IF ready' /\ accept = 0 /\ timed THEN now + Settle ELSE accept
      /\ (ready => ready') /\ (accept # 0 => ready)
  BY <1>a, <1>b, <1>e
<1>3. accept' \in Nat /\ (accept' # 0 => ready') /\ (accept # 0 => accept' = accept) BY <1>1, <1>2
<1>4. F <=> ready' /\ accept' # 0 /\ (timed => now >= accept') BY DEF Button!Filtering
<1>5. released => F BY <1>1, <1>2, <1>3, <1>4 DEF ButtonInv
<1>6. armed /\ accept <= now => F BY <1>1, <1>2, <1>3, <1>4 DEF ButtonInv
<1>7. low' = CASE Button!Shown(level, timed) = "up" -> 0 [] Button!Shown(level, timed) = "down" -> low + 1 [] OTHER -> low
  BY DEF Button!AnyPoll, Button!Poll, Button!Vendor
<1>8. low' \in Nat /\ (F => low' <= low)
  <2>1. CASE F BY <2>1, <1>1, <1>7 DEF Button!Shown
  <2>2. CASE ~F BY <2>2, <1>1, <1>7 DEF Button!Shown
  <2> QED BY <2>1, <2>2
<1>9. /\ steady' = IF level # "down" \/ ~timed \/ ~F \/ ~released THEN 0 ELSE IF steady = 0 THEN now ELSE steady
      /\ long' = IF level = "up" /\ timed THEN FALSE ELSE long \/ (steady' # 0 /\ now - steady' >= Hold)
  BY DEF Button!AnyPoll, Button!Poll, Button!Witness
<1>10. steady' \in Nat /\ steady' <= now' BY <1>1, <1>9 DEF ButtonInv
<1>11. press.since \in Nat /\ press.tracking \in BOOLEAN /\ press.fired \in BOOLEAN BY DEF ButtonInv, ButtonTypes
<1>12. /\ press = [since |-> press.since, tracking |-> press.tracking, fired |-> press.fired]
       /\ asks \in Nat /\ released \in BOOLEAN /\ armed \in BOOLEAN /\ request \in BOOLEAN /\ long \in BOOLEAN
  BY DEF ButtonInv, ButtonTypes
<1>13. CASE ~F
  <2>1. UNCHANGED <<released, press, armed, request, asks>> BY <1>13 DEF Button!AnyPoll, Button!Poll
  <2>2. ~released BY <1>13, <1>5
  <2>3. ~press.tracking /\ ~press.fired /\ ~long /\ ~request BY <2>2 DEF ButtonInv
  <2>4. steady' = 0 /\ long' = FALSE BY <1>13, <1>9, <2>3
  <2>a. released' \in BOOLEAN /\ armed' \in BOOLEAN /\ request' \in BOOLEAN /\ long' \in BOOLEAN BY <1>12, <2>1, <2>4
  <2>b. press' \in [since: Nat, tracking: BOOLEAN, fired: BOOLEAN] /\ asks' \in Nat BY <1>b, <2>1 DEF ButtonTypes
  <2>5. ButtonTypes' BY <1>1, <1>3, <1>8, <2>4, <2>a, <2>b DEF ButtonTypes
  <2>6. ButtonInv' BY <1>1, <1>2, <1>3, <2>1, <2>2, <2>3, <2>4, <2>5 DEF ButtonInv
  <2> QED BY <2>6, <1>6, <1>13
<1>14. CASE F /\ timed /\ released
  <2>1. Button!Answer(level, written) /\ released' = released /\ armed' \in BOOLEAN
    BY <1>14, <1>12 DEF Button!AnyPoll, Button!Poll, Button!Track
  <2>2. accept # 0 /\ accept' = accept /\ accept' <= now' BY <1>14, <1>1, <1>3 DEF ButtonInv
  <2>3. ButtonInv'
    <3>1. CASE level = "down"
      <4> DEFINE s == IF press.tracking THEN press.since ELSE now
      <4>1. press' = [since |-> s, tracking |-> TRUE, fired |-> press.fired \/ now - s >= Hold]
        BY <2>1, <3>1 DEF Button!Answer, Button!Update
      <4>2. s \in Nat /\ s = steady' /\ steady' # 0 BY <1>1, <1>9, <1>11, <1>14, <3>1 DEF ButtonInv
      <4>3. long' = (long \/ now - steady' >= Hold) BY <1>9, <4>2, <3>1
      <4>4. press'.since = s /\ press'.tracking = TRUE /\ press'.fired = (press.fired \/ now - s >= Hold) BY <4>1
      <4>5. Button!Fires(level, now) <=> ~press.fired /\ press'.fired
        BY <3>1, <2>1 DEF Button!Fires, Button!Answer
      <4>6. /\ asks' = IF ~press.fired /\ press'.fired THEN asks + 1 ELSE asks
            /\ request' = (request \/ (~press.fired /\ press'.fired /\ written))
        BY <2>1, <3>1, <4>5 DEF Button!Answer
      <4>7. (press.fired <=> long) /\ asks = (IF long THEN 1 ELSE 0) /\ (request => long) BY DEF ButtonInv
      <4>8. press'.fired <=> long' BY <4>2, <4>3, <4>4, <4>7
      <4>9. asks' = (IF long' THEN 1 ELSE 0)
        <5>1. CASE long BY <5>1, <4>3, <4>6, <4>7
        <5>2. CASE ~long /\ long' BY <5>2, <4>6, <4>7, <4>8
        <5>3. CASE ~long' BY <5>3, <4>3, <4>6, <4>7, <4>8
        <5> QED BY <5>1, <5>2, <5>3
      <4>10. request' \in BOOLEAN /\ (request' => long') BY <4>3, <4>6, <4>7, <4>8, <1>12
      <4>11. press' \in [since: Nat, tracking: BOOLEAN, fired: BOOLEAN] BY <4>1, <4>2, <1>11
      <4>12. long' \in BOOLEAN BY <1>12, <4>3
      <4>13. ButtonTypes' BY <1>1, <1>3, <1>8, <1>10, <1>12, <2>1, <4>9, <4>10, <4>11, <4>12 DEF ButtonTypes
      <4> QED BY <1>1, <1>3, <1>10, <1>14, <2>1, <2>2, <4>2, <4>4, <4>8, <4>9, <4>10, <4>13 DEF ButtonInv
    <3>2. CASE level = "up"
      <4>1. press' = [press EXCEPT !.tracking = FALSE, !.fired = FALSE] /\ asks' = 0 /\ request' = FALSE
        BY <2>1, <3>2 DEF Button!Answer, Button!Update
      <4>2. press' = [since |-> press.since, tracking |-> FALSE, fired |-> FALSE] BY <4>1, <1>12
      <4>3. steady' = 0 /\ long' = FALSE BY <1>9, <1>14, <3>2
      <4>a. released' \in BOOLEAN /\ request' \in BOOLEAN /\ long' \in BOOLEAN /\ asks' \in Nat
        BY <1>12, <2>1, <4>1, <4>3
      <4>b. press' \in [since: Nat, tracking: BOOLEAN, fired: BOOLEAN] BY <1>11, <4>2
      <4>4. ButtonTypes' BY <1>1, <1>3, <1>8, <2>1, <4>3, <4>a, <4>b DEF ButtonTypes
      <4> QED BY <1>1, <1>3, <1>14, <2>1, <2>2, <4>1, <4>2, <4>3, <4>4 DEF ButtonInv
    <3>3. CASE level = "error"
      <4>1. /\ press' = [press EXCEPT !.tracking = FALSE] /\ asks' = asks
            /\ request' = request
        BY <2>1, <3>3, <1>12 DEF Button!Answer, Button!Update, Button!Fires
      <4>2. press' = [since |-> press.since, tracking |-> FALSE, fired |-> press.fired] BY <4>1, <1>12
      <4>3. steady' = 0 /\ long' = long BY <1>9, <1>12, <1>14, <3>3
      <4>a. released' \in BOOLEAN /\ request' \in BOOLEAN /\ long' \in BOOLEAN /\ asks' \in Nat
        BY <1>12, <2>1, <4>1, <4>3
      <4>b. press' \in [since: Nat, tracking: BOOLEAN, fired: BOOLEAN] BY <1>11, <4>2
      <4>4. ButtonTypes' BY <1>1, <1>3, <1>8, <2>1, <4>3, <4>a, <4>b DEF ButtonTypes
      <4> QED BY <1>1, <1>3, <1>14, <2>1, <2>2, <4>1, <4>2, <4>3, <4>4 DEF ButtonInv
    <3> QED BY <3>1, <3>2, <3>3
  <2> QED BY <2>3, <1>8, <1>14
<1>15. CASE F /\ ~(timed /\ released)
  <2>1. /\ Button!Interrupt /\ released' = (released \/ (timed /\ level = "up")) /\ armed' \in BOOLEAN
    BY <1>15, <1>12 DEF Button!AnyPoll, Button!Poll, Button!Track
  <2>2. press' = [since |-> press.since, tracking |-> FALSE, fired |-> press.fired] /\ UNCHANGED <<request, asks>>
    BY <2>1, <1>12 DEF Button!Interrupt
  <2>3. steady' = 0 BY <1>9, <1>15
  <2>4. long' = long
    <3>1. CASE released BY <3>1, <1>9, <1>12, <1>15, <2>3
    <3>2. CASE ~released
      <4>1. long = FALSE BY <3>2, <1>12 DEF ButtonInv
      <4> QED BY <4>1, <1>9, <2>3
    <3> QED BY <3>1, <3>2
  <2>5. released' \in BOOLEAN /\ (released' => accept' # 0 /\ accept' <= now')
    BY <1>1, <1>2, <1>3, <1>4, <1>12, <1>15, <2>1 DEF ButtonInv
  <2>6. ButtonTypes' BY <1>1, <1>3, <1>8, <1>11, <1>12, <2>1, <2>2, <2>3, <2>4, <2>5 DEF ButtonTypes
  <2>7. accept' # 0 BY <1>4, <1>15
  <2>8. ButtonInv' BY <1>1, <1>3, <1>12, <2>1, <2>2, <2>3, <2>4, <2>5, <2>6, <2>7 DEF ButtonInv
  <2> QED BY <2>8, <1>8, <1>15
<1> QED BY <1>13, <1>14, <1>15

LEMMA ButtonMove == ASSUME ButtonInv, Button!Move PROVE ButtonInv' /\ low' = low
<1>1. /\ UNCHANGED <<now, ready, accept, released, press, armed, request, low, steady, long, asks>>
      /\ down' = ~down
  BY DEF Button!Move, Button!code
<1>2. ButtonTypes' BY <1>1 DEF ButtonInv, ButtonTypes
<1> QED BY <1>1, <1>2 DEF ButtonInv

LEMMA ButtonRestart == ASSUME ButtonInv, Button!Restart PROVE ButtonInv' /\ low' <= low
<1>1. /\ press' = [since |-> 0, tracking |-> FALSE, fired |-> FALSE]
      /\ ready' = FALSE /\ released' = FALSE /\ armed' = FALSE /\ request' = FALSE /\ long' = FALSE
      /\ UNCHANGED <<now, down>> /\ accept' = 0 /\ low' = 0 /\ steady' = 0 /\ asks' = 0
  BY DEF Button!Restart
<1>2. now \in Nat /\ now > 0 /\ down \in BOOLEAN /\ low \in Nat BY DEF ButtonInv, ButtonTypes
<1>3. ButtonTypes' BY <1>1, <1>2 DEF ButtonTypes
<1> QED BY <1>1, <1>2, <1>3 DEF ButtonInv

LEMMA ButtonRests == ASSUME ButtonInv, UNCHANGED button PROVE ButtonInv' /\ low' <= low
<1>1. UNCHANGED <<now, down, ready, accept, released, press, armed, request, low, steady, long, asks>> BY DEF button
<1>2. ButtonTypes' BY <1>1 DEF ButtonInv, ButtonTypes
<1>3. low' <= low BY <1>1 DEF ButtonInv, ButtonTypes
<1> QED BY <1>1, <1>2, <1>3 DEF ButtonInv

LEMMA ButtonSteps ==
  ASSUME ButtonInv, [Next]_vars
  PROVE  ButtonInv' /\ (armed /\ accept <= now => low' <= low)
<1>1. CASE Button!Next
  <2>1. CASE Button!Move
    <3>1. low \in Nat BY DEF ButtonInv, ButtonTypes
    <3> QED BY <2>1, <3>1, ButtonMove
  <2>2. CASE Button!Restart BY <2>2, ButtonRestart
  <2>3. CASE \E level \in {"up", "down", "error"}, timed, written \in BOOLEAN : Button!AnyPoll(level, timed, written)
    BY <2>3, ButtonPoll
  <2> QED BY <1>1, <2>1, <2>2, <2>3 DEF Button!Next
<1>2. CASE UNCHANGED button BY <1>2, ButtonRests
<1> QED BY <1>1, <1>2 DEF Next, vars

(***************************************************************************)
(* reset_hotspot.c for every hold and settling time, with failing reads,   *)
(* clocks and writes and restarts of the broker: an armed and settled hook *)
(* never passes a pressed sample on, and a whole hold, and nothing else,   *)
(* asks for the hotspot, once.                                             *)
(***************************************************************************)
THEOREM ButtonIsSound == Spec => ButtonSound
<1>1. Init => ButtonInv BY ButtonInitial DEF Init
<1>2. ButtonInv /\ [Next]_vars => ButtonInv' BY ButtonSteps
<1>3. ButtonInv /\ ButtonInv' /\ [Next]_vars =>
        [(armed /\ accept <= now => low' <= low) /\ (Button!OneRequestPerHold /\ Button!RequestMeansHold)']_vars
  <2> SUFFICES ASSUME ButtonInv, ButtonInv', [Next]_vars
               PROVE  (armed /\ accept <= now => low' <= low) /\ (Button!OneRequestPerHold /\ Button!RequestMeansHold)'
    OBVIOUS
  <2>1. (Button!OneRequestPerHold /\ Button!RequestMeansHold)'
    BY DEF ButtonInv, Button!OneRequestPerHold, Button!RequestMeansHold
  <2> QED BY <2>1, ButtonSteps
<1> QED BY <1>1, <1>2, <1>3, PTL DEF Spec, ButtonSound

-----------------------------------------------------------------------------
(* The services.  Control: a process is past the lock of every operation   *)
(* on its stack except, perhaps, the innermost one, and the operations are *)
(* nested in the order of their locks, so that their locks differ.         *)
Ops     == {"events", "unused", "rec", "recstop", "motion", "motionstop"}
Steps   == {"lock", "go", "start", "check", "kill", "count", "spawned", "wait", "config", "record", "again",
            "single", "disown", "disownstart", "disowned", "disownedstart", "detector", "observe"}
Frame   == Ops \X Steps
Locks   == {"motion", "record", "events"}
Daemons == {"motiond", "mp4record", "ipc2file"}

LockOf(op) == IF op \in {"motion", "motionstop"} THEN "motion"
              ELSE IF op \in {"rec", "recstop"} THEN "record" ELSE "events"
Level(op)  == IF op \in {"motion", "motionstop"} THEN 3 ELSE IF op \in {"rec", "recstop"} THEN 2 ELSE 1

Threads == DOMAIN stack

\* What s, the stack of process p, may be.
Nested(s) ==
    /\ s \in Seq(Frame)
    /\ \A i \in 1..Len(s) : i > 1 => s[i][2] # "lock"
    /\ \A i, j \in 1..Len(s) : i < j => Level(s[i][1]) < Level(s[j][1])
HeldBy(p, s) == \A i \in 1..Len(s) : s[i][2] # "lock" => lock[LockOf(s[i][1])] = p

ControlInv ==
    /\ stack = [p \in Threads |-> stack[p]] /\ "none" \notin Threads
    /\ lock \in [Locks -> Threads \cup {"none"}]
    /\ \A p \in Threads : Nested(stack[p]) /\ HeldBy(p, stack[p])

(* Daemons: a new one is started only when there is none, and until it is  *)
(* visible its starter is under way with the lock.                         *)
Total(d) == coming[d] + up[d] + going[d]
Tops     == {stack[p][1] : p \in {q \in Threads : stack[q] # <<>>}}
Frames   == UNION {{stack[p][i] : i \in 1..Len(stack[p])} : p \in Threads}

Starting == {"record", "again", "single", "disownstart", "disownedstart", "detector", "observe"}
Cleared  == {"motion", "motionstop"} \X (Steps \ {"lock", "go", "observe"})

LifeTypes ==
    /\ coming \in [Daemons -> Nat] /\ up \in [Daemons -> Nat] /\ going \in [Daemons -> Nat]
    /\ cfg \in [motion: BOOLEAN, save: BOOLEAN, rec: BOOLEAN]
    /\ off \in BOOLEAN

RecorderInv ==
    /\ Total("mp4record") <= 1
    /\ coming["mp4record"] > 0 => <<"rec", "spawned">> \in Tops

CollectorInv ==
    /\ coming["ipc2file"] = 0 /\ up["ipc2file"] <= 1
    /\ <<"events", "start">> \in Tops => up["ipc2file"] = 0

DetectorInv ==
    /\ Total("motiond") <= 1
    /\ coming["motiond"] > 0 => <<"motion", "observe">> \in Tops
    /\ Frames \cap Cleared # {} => Total("motiond") = 0

OffInv ==
    off => /\ cfg.motion = FALSE
           /\ Total("motiond") = 0
           /\ \A s \in Starting : <<"motion", s>> \notin Frames

LifeInv == ControlInv /\ LifeTypes /\ RecorderInv /\ CollectorInv /\ DetectorInv /\ OffInv

Callers == IF part \in {"killed", "changed"} THEN Many ELSE One

ServicesInv == IF part = "late" THEN cfg.motion = TRUE /\ off = FALSE ELSE LifeInv /\ Threads = Callers \cup {wd}

\* How a stack changes.
LEMMA Joined ==
  ASSUME NEW S, NEW a \in Seq(S), NEW b \in Seq(S)
  PROVE  a \o b \in Seq(S) /\ Len(a \o b) = Len(a) + Len(b)
OBVIOUS

LEMMA Pushed ==
  ASSUME NEW s \in Seq(Frame), s # <<>>, NEW a \in Frame, NEW b \in Frame
  PROVE  \A t : t = <<a, b>> \o Tail(s) =>
           /\ t \in Seq(Frame) /\ t # <<>> /\ Len(t) = Len(s) + 1
           /\ t[1] = a /\ t[2] = b
           /\ \A i \in 3..Len(t) : t[i] = s[i - 1]
<1> TAKE t
<1> HAVE t = <<a, b>> \o Tail(s)
<1>1. Len(s) \in Nat /\ Len(s) >= 1 OBVIOUS
<1>2. Tail(s) \in Seq(Frame) /\ Len(Tail(s)) = Len(s) - 1 /\ \A i \in 1..Len(s) - 1 : Tail(s)[i] = s[i + 1] OBVIOUS
<1> DEFINE e == <<a, b>>
<1>3. e \in Seq(Frame) /\ Len(e) = 2 /\ e[1] = a /\ e[2] = b OBVIOUS
<1>4. t = e \o Tail(s) OBVIOUS
<1> HIDE DEF e
<1>a. t \in Seq(Frame) /\ Len(t) = Len(e) + Len(Tail(s)) BY <1>2, <1>3, <1>4, Joined
<1>5. t \in Seq(Frame) /\ Len(t) = Len(s) + 1 BY <1>1, <1>2, <1>3, <1>a
<1>6. t[1] = e[1] /\ t[2] = e[2] BY <1>1, <1>2, <1>3, <1>4
<1>7. \A i \in 3..Len(t) : t[i] = s[i - 1]
  <2> TAKE i \in 3..Len(t)
  <2>1. t[i] = Tail(s)[i - 2] BY <1>2, <1>3, <1>4, <1>5
  <2>2. i - 2 \in 1..Len(s) - 1 /\ i - 2 + 1 = i - 1 BY <1>1, <1>5
  <2> QED BY <1>2, <2>1, <2>2
<1> QED BY <1>3, <1>5, <1>6, <1>7, <1>1

LEMMA Moved ==
  ASSUME NEW s \in Seq(Frame), s # <<>>, NEW e \in Frame
  PROVE  \A t : t = [s EXCEPT ![1] = e] =>
           /\ t \in Seq(Frame) /\ t # <<>> /\ Len(t) = Len(s) /\ t[1] = e
           /\ \A i \in 2..Len(s) : t[i] = s[i]
<1>1. Len(s) \in Nat /\ Len(s) >= 1 OBVIOUS
<1> QED BY <1>1

LEMMA Popped ==
  ASSUME NEW s \in Seq(Frame), s # <<>>, NEW t, t = Tail(s)
  PROVE  t \in Seq(Frame) /\ Len(t) = Len(s) - 1 /\ \A i \in 1..Len(t) : t[i] = s[i + 1]
OBVIOUS

\* A process moves; the locks of the others stay.
LEMMA OneMoves ==
  ASSUME ControlInv, NEW p \in Threads, NEW t, Nested(t), stack' = [stack EXCEPT ![p] = t],
         lock' \in [Locks -> Threads \cup {"none"}],
         \A l \in Locks : lock[l] \notin {p, "none"} => lock'[l] = lock[l],
         \A i \in 1..Len(t) : t[i][2] # "lock" => lock'[LockOf(t[i][1])] = p
  PROVE  ControlInv'
<1>1. Threads' = Threads /\ stack'[p] = t /\ \A q \in Threads : q # p => stack'[q] = stack[q]
  BY DEF ControlInv, Threads
<1>2. stack' = [q \in Threads' |-> stack'[q]] BY <1>1 DEF ControlInv, Threads
<1>3. ASSUME NEW q \in Threads PROVE Nested(stack'[q]) /\ HeldBy(q, stack[q])'
  <2>1. CASE q = p BY <2>1, <1>1 DEF HeldBy
  <2>2. CASE q # p
    <3>1. Nested(stack[q]) /\ HeldBy(q, stack[q]) /\ stack'[q] = stack[q] BY <1>1, <2>2 DEF ControlInv
    <3>2. q # "none" BY DEF ControlInv
    <3>3. \A op : LockOf(op) \in Locks BY DEF LockOf, Locks
    <3>4. ASSUME NEW i \in 1..Len(stack[q]), stack[q][i][2] # "lock" PROVE lock'[LockOf(stack[q][i][1])] = q
      BY <3>1, <3>2, <3>3, <3>4, <2>2 DEF HeldBy
    <3> QED BY <3>1, <3>4 DEF HeldBy
  <2> QED BY <2>1, <2>2
<1>4. "none" \notin Threads' BY <1>1 DEF ControlInv
<1>5. lock' \in [Locks -> Threads' \cup {"none"}] BY <1>1
<1>6. (\A q \in Threads : Nested(stack[q]) /\ HeldBy(q, stack[q]))' BY <1>1, <1>3
<1> QED BY <1>2, <1>4, <1>5, <1>6 DEF ControlInv

\* Two operations past the same lock are one.
LEMMA Exclusive ==
  ASSUME ControlInv, NEW p \in Threads, NEW q \in Threads,
         NEW i \in 1..Len(stack[p]), NEW j \in 1..Len(stack[q]),
         stack[p][i][2] # "lock", stack[q][j][2] # "lock", LockOf(stack[p][i][1]) = LockOf(stack[q][j][1])
  PROVE  p = q /\ i = j
<1>1. lock[LockOf(stack[p][i][1])] = p /\ lock[LockOf(stack[q][j][1])] = q BY DEF ControlInv, HeldBy
<1>2. p = q BY <1>1
<1>3. Nested(stack[p]) BY DEF ControlInv
<1>4. Level(stack[p][i][1]) = Level(stack[q][j][1]) BY DEF LockOf, Level
<1>5. \A x : Level(x) \in Nat BY DEF Level
<1>6. ~(i < j) /\ ~(j < i)
  <2>1. ASSUME i < j PROVE FALSE
    <3>1. Level(stack[p][i][1]) < Level(stack[p][j][1]) BY <1>2, <1>3, <2>1 DEF Nested
    <3> QED BY <3>1, <1>2, <1>4, <1>5
  <2>2. ASSUME j < i PROVE FALSE
    <3>1. Level(stack[p][j][1]) < Level(stack[p][i][1]) BY <1>2, <1>3, <2>2 DEF Nested
    <3> QED BY <3>1, <1>2, <1>4, <1>5
  <2> QED BY <2>1, <2>2
<1> QED BY <1>2, <1>6

\* What is known of an operation of p at f, past its lock.
LEMMA AtTop ==
  ASSUME ControlInv, NEW p \in Threads, NEW f, stack[p] # <<>>, stack[p][1] = f
  PROVE  /\ stack[p] \in Seq(Frame) /\ Len(stack[p]) \in Nat /\ Len(stack[p]) >= 1 /\ Head(stack[p]) = f
         /\ f \in Frame /\ f = <<f[1], f[2]>> /\ f[1] \in Ops /\ f[2] \in Steps
         /\ f \in Tops /\ f \in Frames
         /\ f[2] # "lock" => lock[LockOf(f[1])] = p
<1>1. Nested(stack[p]) /\ HeldBy(p, stack[p]) BY DEF ControlInv
<1>2. stack[p] \in Seq(Frame) BY <1>1 DEF Nested
<1>3. Len(stack[p]) \in Nat /\ Len(stack[p]) >= 1 /\ Head(stack[p]) = f /\ f \in Frame BY <1>2
<1>4. f = <<f[1], f[2]>> /\ f[1] \in Ops /\ f[2] \in Steps BY <1>3 DEF Frame
<1>5. f \in Tops BY DEF Tops
<1>6. 1 \in 1..Len(stack[p]) BY <1>3
<1>7. f \in Frames BY <1>6 DEF Frames
<1>8. f[2] # "lock" => lock[LockOf(f[1])] = p BY <1>1, <1>6 DEF HeldBy
<1> QED BY <1>2, <1>3, <1>4, <1>5, <1>7, <1>8

LEMMA Alone1 ==
  ASSUME ControlInv, NEW p \in Threads, NEW f, stack[p] # <<>>, stack[p][1] = f, f[2] # "lock"
  PROVE  \A h \in Frames : h[2] # "lock" /\ LockOf(h[1]) = LockOf(f[1]) => h = f
<1> TAKE h \in Frames
<1> HAVE h[2] # "lock" /\ LockOf(h[1]) = LockOf(f[1])
<1>a. PICK q \in Threads : \E j \in 1..Len(stack[q]) : h = stack[q][j] BY DEF Frames
<1>1. PICK j \in 1..Len(stack[q]) : h = stack[q][j] BY <1>a
<1>2. 1 \in 1..Len(stack[p]) BY AtTop
<1> QED BY <1>1, <1>2, Exclusive

\* Frames and tops after a move of p to the stack t.
MovesTo(p, t) ==
    /\ \A h \in Frames' : (h \in Frames /\ \E q \in Threads \ {p} : \E j \in 1..Len(stack[q]) : h = stack[q][j])
                          \/ \E i \in 1..Len(t) : h = t[i]
    /\ \A h \in Tops' : h \in Tops \/ (t # <<>> /\ h = t[1])
    /\ \A h \in Tops : h \in Tops' \/ (stack[p] # <<>> /\ h = stack[p][1])
    /\ t # <<>> => t[1] \in Tops'

LEMMA FramesMove ==
  ASSUME ControlInv, NEW p \in Threads, NEW t, stack' = [stack EXCEPT ![p] = t]
  PROVE  MovesTo(p, t)
<1>1. Threads' = Threads /\ stack'[p] = t /\ \A q \in Threads : q # p => stack'[q] = stack[q]
  BY DEF ControlInv, Threads
<1>2. ASSUME NEW h \in Frames'
      PROVE  (h \in Frames /\ \E q \in Threads \ {p} : \E j \in 1..Len(stack[q]) : h = stack[q][j])
             \/ \E i \in 1..Len(t) : h = t[i]
  <2>a. PICK q \in Threads : \E j \in 1..Len(stack'[q]) : h = stack'[q][j] BY <1>1 DEF Frames
  <2>1. PICK j \in 1..Len(stack'[q]) : h = stack'[q][j] BY <2>a
  <2>2. CASE q = p BY <2>1, <2>2, <1>1
  <2>3. CASE q # p
    <3>1. q \in Threads \ {p} /\ j \in 1..Len(stack[q]) /\ h = stack[q][j] BY <2>1, <2>3, <1>1
    <3>2. h \in Frames BY <3>1 DEF Frames
    <3> QED BY <3>1, <3>2
  <2> QED BY <2>2, <2>3
<1>3. ASSUME NEW h \in Tops' PROVE h \in Tops \/ (t # <<>> /\ h = t[1])
  <2>1. PICK q \in Threads : stack'[q] # <<>> /\ h = stack'[q][1] BY <1>1 DEF Tops
  <2>2. CASE q = p BY <2>1, <2>2, <1>1
  <2>3. CASE q # p BY <2>1, <2>3, <1>1 DEF Tops
  <2> QED BY <2>2, <2>3
<1>4. ASSUME NEW h \in Tops PROVE h \in Tops' \/ (stack[p] # <<>> /\ h = stack[p][1])
  <2>1. PICK q \in Threads : stack[q] # <<>> /\ h = stack[q][1] BY DEF Tops
  <2>2. CASE q = p BY <2>1, <2>2
  <2>3. CASE q # p
    <3>1. q \in Threads' /\ stack'[q] # <<>> /\ h = stack'[q][1] BY <2>1, <2>3, <1>1
    <3> QED BY <3>1 DEF Tops
  <2> QED BY <2>2, <2>3
<1>5. t # <<>> => t[1] \in Tops'
  <2>1. p \in Threads' /\ stack'[p] = t BY <1>1
  <2> QED BY <2>1 DEF Tops
<1> QED BY <1>2, <1>3, <1>4, <1>5 DEF MovesTo

LEMMA Ranks ==
  /\ \A x : Level(x) \in Nat /\ LockOf(x) \in Locks
  /\ \A x, y : LockOf(x) = LockOf(y) <=> Level(x) = Level(y)
BY DEF Level, LockOf, Locks

\* The same operation goes on.
LEMMA GotoMove ==
  ASSUME ControlInv, NEW p \in Threads, NEW f, stack[p] # <<>>, stack[p][1] = f, f[2] # "lock",
         NEW step \in Steps, step # "lock",
         stack' = [stack EXCEPT ![p][1] = <<@[1], step>>], lock' = lock
  PROVE  /\ ControlInv'
         /\ Frames' \subseteq Frames \cup {<<f[1], step>>} /\ Tops' \subseteq Tops \cup {<<f[1], step>>}
         /\ <<f[1], step>> \in Tops' /\ Tops \ {f} \subseteq Tops'
         /\ \A h \in Frames' : h[2] # "lock" /\ LockOf(h[1]) = LockOf(f[1]) => h = <<f[1], step>>
<1>0. PICK g1 : g1 = <<f[1], step>> OBVIOUS
<1>1. PICK s : s = stack[p] OBVIOUS
<1>2. PICK t : t = [s EXCEPT ![1] = <<s[1][1], step>>] OBVIOUS
<1>3. stack' = [stack EXCEPT ![p] = t] BY <1>1, <1>2
<1>m. MovesTo(p, t) BY <1>3, FramesMove
<1>4. Nested(s) /\ HeldBy(p, s) /\ s \in Seq(Frame) BY <1>1 DEF ControlInv, Nested
<1>b. /\ t \in Seq(Frame) /\ t # <<>> /\ Len(t) = Len(s) /\ t[1] = g1
      /\ \A i \in 2..Len(s) : t[i] = s[i]
  <2>1. s # <<>> /\ t = [s EXCEPT ![1] = g1] BY <1>0, <1>1, <1>2
  <2>2. g1 \in Frame BY <1>0, AtTop DEF Frame
  <2> QED BY <2>1, <2>2, <1>4, Moved
<1>5. /\ t \in Seq(Frame) /\ t # <<>> /\ Len(t) = Len(s) /\ t[1] = g1 /\ g1[1] = f[1] /\ g1[2] = step
      /\ \A i \in 2..Len(s) : t[i] = s[i]
  BY <1>0, <1>1, <1>b
<1>6. Len(s) \in Nat /\ Len(s) >= 1 BY <1>1, AtTop
<1>7. \A i \in 1..Len(t) : t[i][1] = s[i][1] /\ (i > 1 => t[i] = s[i]) BY <1>1, <1>5, <1>6
<1>8. Nested(t) BY <1>4, <1>5, <1>6, <1>7 DEF Nested
<1>9. \A i \in 1..Len(t) : t[i][2] # "lock" => lock'[LockOf(t[i][1])] = p
  <2> SUFFICES ASSUME NEW i \in 1..Len(t), t[i][2] # "lock" PROVE lock[LockOf(t[i][1])] = p OBVIOUS
  <2>1. CASE i = 1 BY <2>1, <1>5, AtTop
  <2>2. CASE i > 1 BY <2>2, <1>4, <1>5, <1>7 DEF HeldBy
  <2> QED BY <2>1, <2>2, <1>5, <1>6
<1>10. ControlInv' BY <1>3, <1>8, <1>9, OneMoves DEF ControlInv
<1>11. ASSUME NEW h \in Frames' PROVE h \in Frames \cup {g1}
  <2>1. CASE h \in Frames BY <2>1
  <2>2. CASE \E i \in 1..Len(t) : h = t[i]
    <3>1. PICK i \in 1..Len(t) : h = t[i] BY <2>2
    <3>2. CASE i = 1 BY <3>1, <3>2, <1>5
    <3>3. CASE i > 1 BY <3>1, <3>3, <1>1, <1>5, <1>7 DEF Frames
    <3> QED BY <3>2, <3>3, <1>5, <1>6
  <2> QED BY <2>1, <2>2, <1>1, <1>m DEF MovesTo
<1>12. ASSUME NEW h \in Frames', h[2] # "lock", LockOf(h[1]) = LockOf(f[1]) PROVE h = g1
  <2>0. 1 \in 1..Len(stack[p]) BY <1>1, <1>6
  <2>1. ASSUME NEW q \in Threads \ {p}, NEW j \in 1..Len(stack[q]), h = stack[q][j] PROVE FALSE
    BY <2>0, <2>1, <1>12, Exclusive
  <2>2. ASSUME NEW i \in 1..Len(t), h = t[i] PROVE h = g1
    <3>1. CASE i = 1 BY <3>1, <2>2, <1>5
    <3>2. CASE i > 1
      <4>1. i \in 1..Len(stack[p]) /\ h = stack[p][i] BY <3>2, <2>2, <1>1, <1>5, <1>7
      <4>2. 1 = i BY <4>1, <2>0, <1>12, Exclusive
      <4> QED BY <4>2, <3>2
    <3> QED BY <3>1, <3>2, <1>5, <1>6
  <2> QED BY <2>1, <2>2, <1>1, <1>m DEF MovesTo
<1>13. Tops' \subseteq Tops \cup {g1} /\ g1 \in Tops' /\ Tops \ {f} \subseteq Tops' BY <1>1, <1>5, <1>m DEF MovesTo
<1> QED BY <1>0, <1>10, <1>11, <1>12, <1>13

\* An operation calls another one, of a lower lock.
LEMMA CallMove ==
  ASSUME ControlInv, NEW p \in Threads, NEW f, stack[p] # <<>>, stack[p][1] = f, f[2] # "lock",
         NEW op \in Ops, NEW step \in Steps, step # "lock", Level(op) < Level(f[1]),
         stack' = [stack EXCEPT ![p] = <<<<op, "lock">>, <<Head(@)[1], step>>>> \o Tail(@)], lock' = lock
  PROVE  /\ ControlInv'
         /\ Frames' \subseteq Frames \cup {<<op, "lock">>, <<f[1], step>>}
         /\ Tops' \subseteq Tops \cup {<<op, "lock">>}
         /\ Tops \ {f} \subseteq Tops'
<1>1. PICK s : s = stack[p] OBVIOUS
<1>2. PICK t : t = <<<<op, "lock">>, <<Head(s)[1], step>>>> \o Tail(s) OBVIOUS
<1>3. stack' = [stack EXCEPT ![p] = t] BY <1>1, <1>2
<1>m. MovesTo(p, t) BY <1>3, FramesMove
<1>4. Nested(s) /\ HeldBy(p, s) /\ s \in Seq(Frame) BY <1>1 DEF ControlInv, Nested
<1>5. /\ t \in Seq(Frame) /\ t # <<>> /\ Len(t) = Len(s) + 1 /\ t[1] = <<op, "lock">> /\ t[2] = <<f[1], step>>
      /\ \A i \in 3..Len(t) : t[i] = s[i - 1]
  <2>1. PICK a : a = <<op, "lock">> OBVIOUS
  <2>2. PICK b : b = <<f[1], step>> OBVIOUS
  <2>3. a \in Frame /\ b \in Frame BY <2>1, <2>2, AtTop DEF Frame, Steps
  <2>4. s # <<>> /\ t = <<a, b>> \o Tail(s) BY <1>1, <1>2, <2>1, <2>2, AtTop
  <2>5. /\ t \in Seq(Frame) /\ t # <<>> /\ Len(t) = Len(s) + 1 /\ t[1] = a /\ t[2] = b
        /\ \A i \in 3..Len(t) : t[i] = s[i - 1]
    BY <2>3, <2>4, <1>4, Pushed
  <2> QED BY <2>1, <2>2, <2>5
<1>6. Len(s) \in Nat /\ Len(s) >= 1 BY <1>1, AtTop
<1>a. t[1][1] = op /\ t[1][2] = "lock" /\ t[2][1] = f[1] /\ t[2][2] = step BY <1>5
<1>7. \A i \in 2..Len(t) : i - 1 \in 1..Len(s) /\ t[i][1] = s[i - 1][1] /\ (i > 2 => t[i] = s[i - 1])
  <2> TAKE i \in 2..Len(t)
  <2>1. i - 1 \in 1..Len(s) BY <1>5, <1>6
  <2>2. CASE i = 2 BY <2>1, <2>2, <1>a, <1>1
  <2>3. CASE i > 2 BY <2>1, <2>3, <1>5
  <2> QED BY <2>2, <2>3
<1>8. Nested(t)
  <2>1. ASSUME NEW i \in 1..Len(t), i > 1 PROVE t[i][2] # "lock"
    <3>1. CASE i = 2 BY <3>1, <1>a
    <3>2. CASE i > 2
      <4>1. i - 1 \in 1..Len(s) /\ i - 1 > 1 /\ t[i] = s[i - 1] BY <3>2, <1>7
      <4> QED BY <4>1, <1>4 DEF Nested
    <3> QED BY <3>1, <3>2, <2>1
  <2>2. ASSUME NEW i \in 1..Len(t), NEW j \in 1..Len(t), i < j PROVE Level(t[i][1]) < Level(t[j][1])
    <3>1. j - 1 \in 1..Len(s) /\ t[j][1] = s[j - 1][1] /\ Level(s[j - 1][1]) \in Nat BY <2>2, <1>7, Ranks
    <3>2. CASE i > 1
      <4>1. i - 1 \in 1..Len(s) /\ t[i][1] = s[i - 1][1] /\ i - 1 < j - 1 BY <3>2, <2>2, <1>7
      <4> QED BY <3>1, <4>1, <1>4 DEF Nested
    <3>3. CASE i = 1
      <4>1. Level(op) \in Nat /\ Level(s[1][1]) \in Nat /\ Level(op) < Level(s[1][1]) /\ 1 \in 1..Len(s)
        BY Ranks, <1>1, <1>6
      <4>2. CASE j = 2 BY <3>1, <3>3, <4>1, <4>2, <1>a
      <4>3. CASE j > 2
        <5>1. Level(s[1][1]) < Level(s[j - 1][1]) BY <3>1, <4>1, <4>3, <1>4 DEF Nested
        <5> QED BY <5>1, <4>1, <3>1, <3>3, <1>a
      <4> QED BY <4>2, <4>3, <2>2, <3>3
    <3> QED BY <3>2, <3>3, <2>2
  <2> QED BY <2>1, <2>2, <1>5 DEF Nested
<1>9. \A i \in 1..Len(t) : t[i][2] # "lock" => lock'[LockOf(t[i][1])] = p
  <2> SUFFICES ASSUME NEW i \in 1..Len(t), t[i][2] # "lock" PROVE lock[LockOf(t[i][1])] = p OBVIOUS
  <2>1. CASE i = 1 BY <2>1, <1>a
  <2>2. CASE i = 2 BY <2>2, <1>a, AtTop
  <2>3. CASE i > 2
    <3>1. i - 1 \in 1..Len(s) /\ t[i] = s[i - 1] BY <2>3, <1>7
    <3> QED BY <3>1, <1>4 DEF HeldBy
  <2> QED BY <2>1, <2>2, <2>3
<1>10. ControlInv' BY <1>3, <1>8, <1>9, OneMoves DEF ControlInv
<1>11. ASSUME NEW h \in Frames' PROVE h \in Frames \cup {<<op, "lock">>, <<f[1], step>>}
  <2>1. CASE h \in Frames BY <2>1
  <2>2. CASE \E i \in 1..Len(t) : h = t[i]
    <3>1. PICK i \in 1..Len(t) : h = t[i] BY <2>2
    <3>2. CASE i = 1 BY <3>1, <3>2, <1>5
    <3>3. CASE i = 2 BY <3>1, <3>3, <1>5
    <3>4. CASE i > 2
      <4>1. PICK j \in 1..Len(stack[p]) : h = stack[p][j] BY <3>1, <3>4, <1>1, <1>7
      <4> QED BY <4>1 DEF Frames
    <3> QED BY <3>2, <3>3, <3>4
  <2> QED BY <2>1, <2>2, <1>1, <1>m DEF MovesTo
<1>13. Tops' \subseteq Tops \cup {<<op, "lock">>} /\ Tops \ {f} \subseteq Tops' BY <1>1, <1>5, <1>m DEF MovesTo
<1> QED BY <1>10, <1>11, <1>13

Released(p, op) == IF lock[LockOf(op)] = p THEN [lock EXCEPT ![LockOf(op)] = "none"] ELSE lock

\* An operation ends and gives its lock back, if it has it.
LEMMA ReturnMove ==
  ASSUME ControlInv, NEW p \in Threads, NEW f, stack[p] # <<>>, stack[p][1] = f,
         stack' = [stack EXCEPT ![p] = Tail(@)],
         lock' = Released(p, f[1])
  PROVE  /\ ControlInv'
         /\ Frames' \subseteq Frames
         /\ Tops' \subseteq Tops \cup {h \in Frames : Level(h[1]) > 1}
         /\ Tops \ {f} \subseteq Tops'
         /\ f[2] # "lock" => \A h \in Frames' : h[2] = "lock" \/ LockOf(h[1]) # LockOf(f[1])
<1>1. PICK s : s = stack[p] OBVIOUS
<1>2. PICK t : t = Tail(s) OBVIOUS
<1>3. stack' = [stack EXCEPT ![p] = t] BY <1>1, <1>2
<1>m. MovesTo(p, t) BY <1>3, FramesMove
<1>4. Nested(s) /\ HeldBy(p, s) /\ s \in Seq(Frame) BY <1>1 DEF ControlInv, Nested
<1>5. t \in Seq(Frame) /\ Len(t) = Len(s) - 1 /\ \A i \in 1..Len(t) : t[i] = s[i + 1] BY <1>1, <1>2, <1>4, Popped
<1>6. Len(s) \in Nat /\ Len(s) >= 1 /\ s[1] = f /\ 1 \in 1..Len(s) BY <1>1, AtTop
<1>7. \A i \in 1..Len(t) : i + 1 \in 1..Len(s) /\ i + 1 > 1 /\ t[i] = s[i + 1] BY <1>5, <1>6
<1>8. Nested(t)
  <2>1. ASSUME NEW i \in 1..Len(t), i > 1 PROVE t[i][2] # "lock" BY <1>4, <1>7 DEF Nested
  <2>2. ASSUME NEW i \in 1..Len(t), NEW j \in 1..Len(t), i < j PROVE Level(t[i][1]) < Level(t[j][1])
    <3>1. i + 1 < j + 1 BY <2>2
    <3> QED BY <3>1, <1>4, <1>7 DEF Nested
  <2> QED BY <2>1, <2>2, <1>5 DEF Nested
<1>a. ASSUME NEW i \in 1..Len(t) PROVE Level(t[i][1]) > Level(f[1]) /\ LockOf(t[i][1]) # LockOf(f[1])
  <2>1. Level(s[1][1]) < Level(s[i + 1][1]) BY <1>4, <1>6, <1>7 DEF Nested
  <2> QED BY <2>1, <1>6, <1>7, Ranks
<1>9. \A i \in 1..Len(t) : t[i][2] # "lock" => lock'[LockOf(t[i][1])] = p
  <2> SUFFICES ASSUME NEW i \in 1..Len(t), t[i][2] # "lock" PROVE lock'[LockOf(t[i][1])] = p OBVIOUS
  <2>1. lock[LockOf(t[i][1])] = p BY <1>4, <1>7 DEF HeldBy
  <2>2. LockOf(t[i][1]) \in Locks /\ LockOf(t[i][1]) # LockOf(f[1]) BY <1>a, Ranks
  <2> QED BY <2>1, <2>2 DEF ControlInv, Released
<1>10. ControlInv'
  <2>1. lock' \in [Locks -> Threads \cup {"none"}] BY Ranks DEF ControlInv, Released
  <2>2. \A l \in Locks : lock[l] \notin {p, "none"} => lock'[l] = lock[l] BY DEF ControlInv, Released
  <2> QED BY <2>1, <2>2, <1>3, <1>8, <1>9, OneMoves
<1>11. ASSUME NEW h \in Frames' PROVE h \in Frames
  <2>2. CASE \E i \in 1..Len(t) : h = t[i]
    <3>1. PICK i \in 1..Len(t) : h = t[i] BY <2>2
    <3>2. i + 1 \in 1..Len(stack[p]) /\ h = stack[p][i + 1] BY <3>1, <1>1, <1>7
    <3> QED BY <3>2 DEF Frames
  <2> QED BY <2>2, <1>1, <1>m DEF MovesTo
<1>12. ASSUME f[2] # "lock", NEW h \in Frames', h[2] # "lock", LockOf(h[1]) = LockOf(f[1]) PROVE FALSE
  <2>1. ASSUME NEW q \in Threads \ {p}, NEW j \in 1..Len(stack[q]), h = stack[q][j] PROVE FALSE
    BY <2>1, <1>1, <1>6, <1>12, Exclusive
  <2>2. ASSUME NEW i \in 1..Len(t), h = t[i] PROVE FALSE BY <2>2, <1>12, <1>a
  <2> QED BY <2>1, <2>2, <1>1, <1>m DEF MovesTo
<1>13. ASSUME NEW h \in Tops' PROVE h \in Tops \cup {x \in Frames : Level(x[1]) > 1}
  <2>1. CASE h \in Tops BY <2>1
  <2>2. CASE t # <<>> /\ h = t[1]
    <3>1. 1 \in 1..Len(t) BY <2>2, <1>5
    <3>2. h = stack[p][2] /\ 2 \in 1..Len(stack[p]) BY <3>1, <2>2, <1>1, <1>7
    <3>3. h \in Frames BY <3>2 DEF Frames
    <3>4. Level(h[1]) > Level(f[1]) BY <3>1, <2>2, <1>a
    <3>5. Level(f[1]) \in Nat /\ Level(f[1]) >= 1 /\ Level(h[1]) \in Nat BY DEF Level
    <3> QED BY <3>3, <3>4, <3>5
  <2> QED BY <2>1, <2>2, <1>1, <1>m DEF MovesTo
<1>14. Tops \ {f} \subseteq Tops' BY <1>1, <1>m DEF MovesTo
<1> QED BY <1>10, <1>11, <1>12, <1>13, <1>14

\* An operation gets its lock.
LEMMA TakeMove ==
  ASSUME ControlInv, NEW p \in Threads, NEW f, stack[p] # <<>>, stack[p][1] = f, f[2] = "lock",
         lock[LockOf(f[1])] = "none", lock' = [lock EXCEPT ![LockOf(f[1])] = p],
         stack' = [stack EXCEPT ![p][1] = <<@[1], "go">>]
  PROVE  /\ ControlInv'
         /\ Frames' \subseteq Frames \cup {<<f[1], "go">>} /\ Tops' \subseteq Tops \cup {<<f[1], "go">>}
         /\ Tops \ {f} \subseteq Tops'
<1>0. PICK g1 : g1 = <<f[1], "go">> OBVIOUS
<1>1. PICK s : s = stack[p] OBVIOUS
<1>2. PICK t : t = [s EXCEPT ![1] = g1] OBVIOUS
<1>3. stack' = [stack EXCEPT ![p] = t] BY <1>0, <1>1, <1>2
<1>m. MovesTo(p, t) BY <1>3, FramesMove
<1>4. Nested(s) /\ HeldBy(p, s) /\ s \in Seq(Frame) BY <1>1 DEF ControlInv, Nested
<1>5. t \in Seq(Frame) /\ t # <<>> /\ Len(t) = Len(s) /\ t[1] = g1 /\ \A i \in 2..Len(s) : t[i] = s[i]
  <2>1. s # <<>> /\ t = [s EXCEPT ![1] = g1] BY <1>0, <1>1, <1>2
  <2>2. g1 \in Frame BY <1>0, AtTop DEF Frame, Steps
  <2>3. \A x : x = [s EXCEPT ![1] = g1] =>
          /\ x \in Seq(Frame) /\ x # <<>> /\ Len(x) = Len(s) /\ x[1] = g1
          /\ \A i \in 2..Len(s) : x[i] = s[i]
    <3> HIDE <1>2
    <3> QED BY <2>1, <2>2, <1>4, Moved
  <2> QED BY <2>1, <2>3
<1>6. Len(s) \in Nat /\ Len(s) >= 1 BY <1>1, AtTop
<1>7. \A i \in 1..Len(t) : t[i][1] = s[i][1] /\ (i > 1 => t[i] = s[i]) BY <1>0, <1>1, <1>5, <1>6
<1>8. Nested(t) BY <1>4, <1>5, <1>6, <1>7 DEF Nested
<1>9. \A i \in 1..Len(t) : t[i][2] # "lock" => lock'[LockOf(t[i][1])] = p
  <2> SUFFICES ASSUME NEW i \in 1..Len(t), t[i][2] # "lock" PROVE lock'[LockOf(t[i][1])] = p OBVIOUS
  <2>1. \A x : LockOf(x) \in Locks BY Ranks
  <2>2. lock'[LockOf(f[1])] = p BY <2>1 DEF ControlInv
  <2>3. CASE i = 1 BY <2>3, <2>2, <1>0, <1>5
  <2>4. CASE i > 1
    <3>1. lock[LockOf(t[i][1])] = p BY <2>4, <1>4, <1>5, <1>7 DEF HeldBy
    <3>2. LockOf(t[i][1]) # LockOf(f[1]) BY <3>1 DEF ControlInv
    <3> QED BY <3>1, <3>2, <2>1 DEF ControlInv
  <2> QED BY <2>3, <2>4, <1>5, <1>6
<1>10. ControlInv'
  <2>1. lock' \in [Locks -> Threads \cup {"none"}] BY Ranks DEF ControlInv
  <2>2. \A l \in Locks : lock[l] \notin {p, "none"} => lock'[l] = lock[l] BY DEF ControlInv
  <2> QED BY <2>1, <2>2, <1>3, <1>8, <1>9, OneMoves
<1>11. ASSUME NEW h \in Frames' PROVE h \in Frames \cup {g1}
  <2>1. CASE h \in Frames BY <2>1
  <2>2. CASE \E i \in 1..Len(t) : h = t[i]
    <3>1. PICK i \in 1..Len(t) : h = t[i] BY <2>2
    <3>2. CASE i = 1 BY <3>1, <3>2, <1>5
    <3>3. CASE i > 1 BY <3>1, <3>3, <1>1, <1>5, <1>7 DEF Frames
    <3> QED BY <3>2, <3>3, <1>5, <1>6
  <2> QED BY <2>1, <2>2, <1>m DEF MovesTo
<1>12. Tops' \subseteq Tops \cup {g1} /\ Tops \ {f} \subseteq Tops' BY <1>5, <1>m DEF MovesTo
<1> QED BY <1>0, <1>10, <1>11, <1>12

\* A process is started.
LEMMA BeginMove ==
  ASSUME ControlInv, NEW p \in Threads, stack[p] = <<>>, NEW op \in Ops,
         stack' = [stack EXCEPT ![p] = <<<<op, "lock">>>>], lock' = lock
  PROVE  /\ ControlInv'
         /\ Frames' \subseteq Frames \cup {<<op, "lock">>} /\ Tops' \subseteq Tops \cup {<<op, "lock">>}
         /\ Tops \subseteq Tops'
<1>0. PICK f : f = <<op, "lock">> OBVIOUS
<1>1. PICK t : t = <<f>> OBVIOUS
<1>2. MovesTo(p, t) BY <1>0, <1>1, FramesMove
<1>3. f \in Frame /\ f[2] = "lock" BY <1>0 DEF Frame, Steps
<1>4. t \in Seq(Frame) /\ Len(t) = 1 /\ t[1] = f /\ t # <<>> BY <1>1, <1>3
<1>5. Nested(t) BY <1>4 DEF Nested
<1>6. ControlInv' BY <1>0, <1>1, <1>3, <1>4, <1>5, OneMoves DEF ControlInv
<1> QED BY <1>0, <1>2, <1>4, <1>6 DEF MovesTo

\* A process is killed.
LEMMA KillMove ==
  ASSUME ControlInv, NEW p \in Threads, NEW f, stack[p] # <<>>, stack[p][1] = f,
         stack' = [stack EXCEPT ![p] = <<>>],
         lock' = [l \in Locks |-> IF lock[l] = p THEN "none" ELSE lock[l]]
  PROVE  ControlInv' /\ Frames' \subseteq Frames /\ Tops' \subseteq Tops /\ Tops \ {f} \subseteq Tops'
<1>1. PICK t : t = <<>> OBVIOUS
<1>2. MovesTo(p, t) BY <1>1, FramesMove
<1>4. t \in Seq(Frame) /\ Len(t) = 0 BY <1>1
<1>5. Nested(t) BY <1>4 DEF Nested
<1>6. lock' \in [Locks -> Threads \cup {"none"}] BY DEF ControlInv
<1>7. \A l \in Locks : lock[l] \notin {p, "none"} => lock'[l] = lock[l] OBVIOUS
<1>a. \A i \in 1..Len(t) : t[i][2] # "lock" => lock'[LockOf(t[i][1])] = p BY <1>4
<1>b. stack' = [stack EXCEPT ![p] = t] BY <1>1
<1>8. ControlInv' BY <1>5, <1>6, <1>7, <1>a, <1>b, OneMoves
<1> QED BY <1>1, <1>2, <1>4, <1>8 DEF MovesTo

\* A step that leaves the daemons alone, of a process whose innermost operation was at f.
LEMMA QuietStep ==
  ASSUME LifeInv, ControlInv', UNCHANGED <<coming, up, going, cfg, off>>, NEW f, Tops \ {f} \subseteq Tops',
         f = <<"rec", "spawned">> => coming["mp4record"] = 0,
         f = <<"motion", "observe">> => coming["motiond"] = 0,
         <<"events", "start">> \in Tops' => <<"events", "start">> \in Tops,
         \A h \in Frames' : h \in Cleared => h \in Frames \/ Total("motiond") = 0,
         \A s \in Starting : off /\ <<"motion", s>> \in Frames' => <<"motion", s>> \in Frames
  PROVE  LifeInv'
<1>1. LifeTypes' BY DEF LifeInv, LifeTypes
<1>2. coming["mp4record"] \in Nat /\ coming["motiond"] \in Nat BY DEF LifeInv, LifeTypes, Daemons
<1>3. RecorderInv' BY <1>2 DEF LifeInv, RecorderInv, Total
<1>4. CollectorInv' BY DEF LifeInv, CollectorInv
<1>5. DetectorInv' BY <1>2 DEF LifeInv, DetectorInv, Total
<1>6. OffInv' BY DEF LifeInv, OffInv, Total
<1> QED BY <1>1, <1>3, <1>4, <1>5, <1>6 DEF LifeInv

LEMMA HeadIs == ASSUME ControlInv, NEW p \in Threads, stack[p] # <<>> PROVE Head(stack[p]) = stack[p][1]
<1>1. stack[p] \in Seq(Frame) BY DEF ControlInv, Nested
<1> QED BY <1>1

LEMMA GotoQuiet ==
  ASSUME LifeInv, NEW p \in Threads, NEW f, stack[p] # <<>>, stack[p][1] = f, f[2] # "lock",
         NEW step \in Steps, step # "lock", stack' = [stack EXCEPT ![p][1] = <<@[1], step>>], lock' = lock,
         UNCHANGED <<coming, up, going, cfg, off>>,
         f # <<"rec", "spawned">>, f # <<"motion", "observe">>, <<f[1], step>> # <<"events", "start">>,
         <<f[1], step>> \in Cleared => f \in Cleared,
         off /\ f[1] = "motion" /\ step \in Starting => f[2] \in Starting
  PROVE  LifeInv'
<1>0. PICK g1 : g1 = <<f[1], step>> OBVIOUS
<1>c. ControlInv BY DEF LifeInv
<1>1. /\ ControlInv'
      /\ Frames' \subseteq Frames \cup {g1} /\ Tops' \subseteq Tops \cup {g1} /\ Tops \ {f} \subseteq Tops'
  <2>1. /\ ControlInv' /\ Frames' \subseteq Frames \cup {<<f[1], step>>}
        /\ Tops' \subseteq Tops \cup {<<f[1], step>>} /\ Tops \ {f} \subseteq Tops'
    BY <1>c, GotoMove
  <2> QED BY <2>1, <1>0
<1>2. f \in Frames /\ f = <<f[1], f[2]>> BY AtTop DEF LifeInv
<1>3. \A h \in Frames' : h \in Cleared => h \in Frames \/ Total("motiond") = 0
  BY <1>0, <1>1, <1>2 DEF LifeInv, DetectorInv
<1>4. \A s \in Starting : off /\ <<"motion", s>> \in Frames' => <<"motion", s>> \in Frames
  <2> SUFFICES ASSUME NEW s \in Starting, off, <<"motion", s>> \in Frames', <<"motion", s>> \notin Frames PROVE FALSE
    OBVIOUS
  <2>1. <<"motion", s>> = g1 BY <1>1
  <2>2. f[1] = "motion" /\ step = s BY <2>1, <1>0
  <2>3. f = <<"motion", f[2]>> /\ f[2] \in Starting BY <2>2, <1>2
  <2> QED BY <2>3, <1>2 DEF LifeInv, OffInv
<1>5. <<"events", "start">> \in Tops' => <<"events", "start">> \in Tops BY <1>0, <1>1
<1> QED BY <1>1, <1>3, <1>4, <1>5, QuietStep

LEMMA CallQuiet ==
  ASSUME LifeInv, NEW p \in Threads, NEW f, stack[p] # <<>>, stack[p][1] = f, f[2] # "lock",
         NEW op \in Ops, NEW step \in Steps, step # "lock", Level(op) < Level(f[1]),
         stack' = [stack EXCEPT ![p] = <<<<op, "lock">>, <<Head(@)[1], step>>>> \o Tail(@)], lock' = lock,
         UNCHANGED <<coming, up, going, cfg, off>>,
         f # <<"rec", "spawned">>, f # <<"motion", "observe">>,
         <<f[1], step>> \in Cleared => f \in Cleared,
         off /\ f[1] = "motion" /\ step \in Starting => f[2] \in Starting
  PROVE  LifeInv'
<1>0. PICK g1 : g1 = <<f[1], step>> OBVIOUS
<1>a. PICK g2 : g2 = <<op, "lock">> OBVIOUS
<1>c. ControlInv BY DEF LifeInv
<1>d. /\ ControlInv'
      /\ Frames' \subseteq Frames \cup {<<op, "lock">>, <<f[1], step>>} /\ Tops' \subseteq Tops \cup {<<op, "lock">>}
      /\ Tops \ {f} \subseteq Tops'
  BY <1>c, CallMove
<1>1. /\ ControlInv'
      /\ Frames' \subseteq Frames \cup {g1, g2} /\ Tops' \subseteq Tops \cup {g2} /\ Tops \ {f} \subseteq Tops'
  BY <1>0, <1>a, <1>d
<1>2. f \in Frames /\ f = <<f[1], f[2]>> BY AtTop DEF LifeInv
<1>b. g2 \notin Cleared /\ g2 # <<"events", "start">> /\ \A s \in Starting : <<"motion", s>> # g2
  BY <1>a DEF Cleared, Starting
<1>3. \A h \in Frames' : h \in Cleared => h \in Frames \/ Total("motiond") = 0
  BY <1>0, <1>1, <1>2, <1>b DEF LifeInv, DetectorInv
<1>4. \A s \in Starting : off /\ <<"motion", s>> \in Frames' => <<"motion", s>> \in Frames
  <2> SUFFICES ASSUME NEW s \in Starting, off, <<"motion", s>> \in Frames', <<"motion", s>> \notin Frames PROVE FALSE
    OBVIOUS
  <2>1. <<"motion", s>> = g1 BY <1>1, <1>b
  <2>2. f[1] = "motion" /\ step = s BY <2>1, <1>0
  <2>3. f = <<"motion", f[2]>> /\ f[2] \in Starting BY <2>2, <1>2
  <2> QED BY <2>3, <1>2 DEF LifeInv, OffInv
<1>5. <<"events", "start">> \in Tops' => <<"events", "start">> \in Tops BY <1>b, <1>1
<1> QED BY <1>1, <1>3, <1>4, <1>5, QuietStep

LEMMA ReturnQuiet ==
  ASSUME LifeInv, NEW p \in Threads, NEW f, stack[p] # <<>>, stack[p][1] = f,
         stack' = [stack EXCEPT ![p] = Tail(@)],
         lock' = Released(p, f[1]),
         UNCHANGED <<coming, up, going, cfg, off>>,
         f = <<"rec", "spawned">> => coming["mp4record"] = 0,
         f = <<"motion", "observe">> => coming["motiond"] = 0
  PROVE  LifeInv'
<1>1. /\ ControlInv'
      /\ Frames' \subseteq Frames /\ Tops' \subseteq Tops \cup {h \in Frames : Level(h[1]) > 1}
      /\ Tops \ {f} \subseteq Tops'
  BY ReturnMove DEF LifeInv
<1>2. Level("events") = 1 BY DEF Level
<1>3. <<"events", "start">> \in Tops' => <<"events", "start">> \in Tops BY <1>1, <1>2
<1> QED BY <1>1, <1>3, QuietStep

-----------------------------------------------------------------------------
(* The operations that leave the daemons alone.                            *)
Fragile == {<<"rec", "spawned">>, <<"motion", "observe">>}

\* An operation may go from s to step.
Passes(op, s, step) ==
    /\ op \in Ops /\ s \in Steps \ {"lock"} /\ step \in Steps \ {"lock"}
    /\ <<op, s>> \notin Fragile /\ <<op, step>> # <<"events", "start">>
    /\ <<op, step>> \in Cleared => <<op, s>> \in Cleared
    /\ off /\ op = "motion" /\ step \in Starting => s \in Starting

LEMMA Going ==
  ASSUME LifeInv, NEW p \in Threads, NEW op, NEW s, NEW step, Passes(op, s, step),
         stack[p] # <<>>, Head(stack[p]) = <<op, s>>,
         stack' = [stack EXCEPT ![p][1] = <<@[1], step>>], UNCHANGED <<lock, coming, up, going, cfg, off>>
  PROVE  LifeInv'
<1>1. PICK f : f = <<op, s>> OBVIOUS
<1>2. f[1] = op /\ f[2] = s /\ stack[p][1] = f BY <1>1, HeadIs DEF LifeInv
<1>3. /\ f[2] # "lock" /\ step \in Steps /\ step # "lock"
      /\ f # <<"rec", "spawned">> /\ f # <<"motion", "observe">> /\ <<f[1], step>> # <<"events", "start">>
      /\ <<f[1], step>> \in Cleared => f \in Cleared
      /\ off /\ f[1] = "motion" /\ step \in Starting => f[2] \in Starting
  BY <1>1, <1>2 DEF Passes, Fragile
<1>4. lock' = lock /\ UNCHANGED <<coming, up, going, cfg, off>> OBVIOUS
<1> QED BY <1>2, <1>3, <1>4, GotoQuiet

LEMMA Calling ==
  ASSUME LifeInv, NEW p \in Threads, NEW op, NEW s, NEW step, Passes(op, s, step),
         NEW o \in Ops, Level(o) < Level(op),
         stack[p] # <<>>, Head(stack[p]) = <<op, s>>,
         stack' = [stack EXCEPT ![p] = <<<<o, "lock">>, <<Head(@)[1], step>>>> \o Tail(@)],
         UNCHANGED <<lock, coming, up, going, cfg, off>>
  PROVE  LifeInv'
<1>1. PICK f : f = <<op, s>> OBVIOUS
<1>2. f[1] = op /\ f[2] = s /\ stack[p][1] = f BY <1>1, HeadIs DEF LifeInv
<1>3. /\ f[2] # "lock" /\ step \in Steps /\ step # "lock" /\ Level(o) < Level(f[1])
      /\ f # <<"rec", "spawned">> /\ f # <<"motion", "observe">>
      /\ <<f[1], step>> \in Cleared => f \in Cleared
      /\ off /\ f[1] = "motion" /\ step \in Starting => f[2] \in Starting
  BY <1>1, <1>2 DEF Passes, Fragile
<1>4. lock' = lock /\ UNCHANGED <<coming, up, going, cfg, off>> OBVIOUS
<1> QED BY <1>2, <1>3, <1>4, CallQuiet

LEMMA SameLock ==
  ASSUME NEW C, NEW P, NEW F, NEW M, NEW X, NEW op \in Ops
  PROVE  Life(C, P, F, FALSE, M, X)!LockOf(op) = LockOf(op)
BY DEF Life!LockOf, LockOf, Ops

LEMMA Returning ==
  ASSUME NEW C, NEW P, NEW F, NEW M, NEW X, LifeInv, NEW p \in Threads, stack[p] # <<>>, NEW status1,
         Life(C, P, F, FALSE, M, X)!Return(p, status1), UNCHANGED <<coming, up, going, cfg, off>>,
         Head(stack[p]) = <<"rec", "spawned">> => coming["mp4record"] = 0,
         Head(stack[p]) = <<"motion", "observe">> => coming["motiond"] = 0
  PROVE  LifeInv'
<1>1. ControlInv BY DEF LifeInv
<1>2. PICK f : f = stack[p][1] OBVIOUS
<1>3. Head(stack[p]) = f BY <1>1, <1>2, HeadIs
<1>4. stack' = [stack EXCEPT ![p] = Tail(@)] /\ lock' = Released(p, f[1])
  <2>1. lock' = Life(C, P, F, FALSE, M, X)!Release(p, f[1]) /\ stack' = [stack EXCEPT ![p] = Tail(@)]
    BY <1>3 DEF Life!Return
  <2>2. f[1] \in Ops BY <1>1, <1>2, AtTop
  <2>3. Life(C, P, F, FALSE, M, X)!LockOf(f[1]) = LockOf(f[1]) BY <2>2, SameLock
  <2> QED BY <2>1, <2>3 DEF Life!Release, Released
<1>5. (f = <<"rec", "spawned">> => coming["mp4record"] = 0) /\ (f = <<"motion", "observe">> => coming["motiond"] = 0)
  BY <1>3
<1> QED BY <1>2, <1>4, <1>5, ReturnQuiet

LEMMA TakeLockStep ==
  ASSUME NEW C, NEW P, NEW F, NEW M, NEW X, LifeInv, NEW p \in Threads, NEW op \in Ops,
         Life(C, P, F, FALSE, M, X)!TakeLock(p, op)
  PROVE  LifeInv'
<1>1. /\ stack[p] # <<>> /\ Head(stack[p]) = <<op, "lock">> /\ UNCHANGED <<coming, up, going, cfg, off>>
  BY DEF Life!TakeLock, Life!At, Life!daemons, Life!outer
<1>2. ControlInv BY DEF LifeInv
<1>3. Life(C, P, F, FALSE, M, X)!LockOf(op) = LockOf(op) BY SameLock
<1>4. CASE lock[LockOf(op)] = "none"
  <2>1. PICK f : f = <<op, "lock">> OBVIOUS
  <2>2. stack[p][1] = f /\ f[1] = op /\ f[2] = "lock" BY <1>1, <1>2, <2>1, HeadIs
  <2>3. lock' = [lock EXCEPT ![LockOf(op)] = p] /\ stack' = [stack EXCEPT ![p][1] = <<@[1], "go">>]
    BY <1>3, <1>4 DEF Life!TakeLock, Life!Goto
  <2>4. lock[LockOf(f[1])] = "none" /\ lock' = [lock EXCEPT ![LockOf(f[1])] = p] BY <1>4, <2>2, <2>3
  <2>5. /\ ControlInv' /\ Frames' \subseteq Frames \cup {<<f[1], "go">>} /\ Tops' \subseteq Tops \cup {<<f[1], "go">>}
        /\ Tops \ {f} \subseteq Tops'
    BY <1>1, <1>2, <2>2, <2>3, <2>4, TakeMove
  <2>6. PICK g1 : g1 = <<f[1], "go">> OBVIOUS
  <2>7. g1 \notin Cleared /\ g1 # <<"events", "start">> /\ (\A s \in Starting : <<"motion", s>> # g1)
    BY <2>6 DEF Cleared, Starting
  <2>8. f # <<"rec", "spawned">> /\ f # <<"motion", "observe">> BY <2>1
  <2>9. Frames' \subseteq Frames \cup {g1} /\ Tops' \subseteq Tops \cup {g1} BY <2>5, <2>6
  <2>10. \A h \in Frames' : h \in Cleared => h \in Frames BY <2>7, <2>9
  <2>11. \A s \in Starting : off /\ <<"motion", s>> \in Frames' => <<"motion", s>> \in Frames BY <2>7, <2>9
  <2>12. <<"events", "start">> \in Tops' => <<"events", "start">> \in Tops BY <2>7, <2>9
  <2> QED BY <1>1, <2>5, <2>8, <2>10, <2>11, <2>12, QuietStep
<1>5. CASE lock[LockOf(op)] # "none"
  <2>1. Life(C, P, F, FALSE, M, X)!Return(p, "busy") BY <1>3, <1>5 DEF Life!TakeLock
  <2>2. Head(stack[p]) # <<"rec", "spawned">> /\ Head(stack[p]) # <<"motion", "observe">> BY <1>1
  <2> QED BY <1>1, <2>1, <2>2, Returning
<1> QED BY <1>4, <1>5

LEMMA EventsCheckStep ==
  ASSUME NEW C, NEW P, NEW F, NEW M, NEW X, LifeInv, NEW p \in Threads, Life(C, P, F, FALSE, M, X)!EventsCheck(p)
  PROVE  LifeInv'
<1>1. PICK status1 : Life(C, P, F, FALSE, M, X)!Return(p, status1) BY DEF Life!EventsCheck
<1>2. stack[p] # <<>> /\ Head(stack[p]) = <<"events", "check">> /\ UNCHANGED <<coming, up, going, cfg, off>>
  BY DEF Life!EventsCheck, Life!At, Life!daemons, Life!outer
<1>3. Head(stack[p]) # <<"rec", "spawned">> /\ Head(stack[p]) # <<"motion", "observe">> BY <1>2
<1> QED BY <1>1, <1>2, <1>3, Returning

LEMMA UnusedGoStep ==
  ASSUME NEW C, NEW P, NEW F, NEW M, NEW X, LifeInv, NEW p \in Threads, Life(C, P, F, FALSE, M, X)!UnusedGo(p)
  PROVE  LifeInv'
<1>1. stack[p] # <<>> /\ Head(stack[p]) = <<"unused", "go">> /\ UNCHANGED <<coming, up, going, cfg, off>>
  BY DEF Life!UnusedGo, Life!At, Life!daemons, Life!outer
<1>2. \/ Life(C, P, F, FALSE, M, X)!Return(p, "ok")
      \/ stack' = [stack EXCEPT ![p][1] = <<@[1], "kill">>] /\ UNCHANGED lock
  BY DEF Life!UnusedGo, Life!Goto
<1>3. Head(stack[p]) # <<"rec", "spawned">> /\ Head(stack[p]) # <<"motion", "observe">> BY <1>1
<1>4. Passes("unused", "go", "kill") BY DEF Passes, Ops, Steps, Fragile, Cleared
<1> QED BY <1>1, <1>2, <1>3, <1>4, Returning, Going

LEMMA RecGoStep ==
  ASSUME NEW C, NEW P, NEW F, NEW M, NEW X, LifeInv, NEW p \in Threads, Life(C, P, F, FALSE, M, X)!RecGo(p)
  PROVE  LifeInv'
<1>1. stack[p] # <<>> /\ Head(stack[p]) = <<"rec", "go">> /\ UNCHANGED <<lock, coming, up, going, cfg, off>>
  BY DEF Life!RecGo, Life!At, Life!daemons, Life!outer
<1>2. stack' = [stack EXCEPT ![p] = <<<<"events", "lock">>, <<Head(@)[1], "count">>>> \o Tail(@)]
  BY DEF Life!RecGo, Life!Call
<1>3. Passes("rec", "go", "count") BY DEF Passes, Ops, Steps, Fragile, Cleared
<1>4. "events" \in Ops BY DEF Ops
<1>5. Level("events") < Level("rec") BY DEF Level
<1> QED BY <1>1, <1>2, <1>3, <1>4, <1>5, Calling

LEMMA MotionConfigStep ==
  ASSUME NEW C, NEW P, NEW F, NEW M, NEW X, LifeInv, NEW p \in Threads, Life(C, P, F, FALSE, M, X)!MotionConfig(p)
  PROVE  LifeInv'
<1>1. stack[p] # <<>> /\ Head(stack[p]) = <<"motion", "config">> /\ UNCHANGED <<lock, coming, up, going, cfg, off>>
  BY DEF Life!MotionConfig, Life!At, Life!daemons, Life!outer
<1>2. CASE cfg.motion
  <2>1. stack' = [stack EXCEPT ![p] = <<<<"events", "lock">>, <<Head(@)[1], "record">>>> \o Tail(@)]
    BY <1>2 DEF Life!MotionConfig, Life!Call
  <2>2. ~off BY <1>2 DEF LifeInv, OffInv
  <2>3. Passes("motion", "config", "record") BY <2>2 DEF Passes, Ops, Steps, Fragile, Cleared
  <2>4. "events" \in Ops BY DEF Ops
  <2>5. Level("events") < Level("motion") BY DEF Level
  <2> QED BY <1>1, <2>1, <2>3, <2>4, <2>5, Calling
<1>3. CASE ~cfg.motion
  <2>1. stack' = [stack EXCEPT ![p][1] = <<@[1], "disown">>] BY <1>3 DEF Life!MotionConfig, Life!Goto
  <2>2. Passes("motion", "config", "disown") BY DEF Passes, Ops, Steps, Fragile, Cleared, Starting
  <2> QED BY <1>1, <2>1, <2>2, Going
<1> QED BY <1>2, <1>3

\* The steps of start_motion between the collector's start and the detector's.
LEMMA Preparing ==
  /\ \A s \in {"disownstart", "again", "single", "detector"} : Passes("motion", "record", s)
  /\ \A s \in {"single", "detector"} : Passes("motion", "again", s)
  /\ Passes("motion", "single", "detector") /\ Passes("motion", "disownedstart", "detector")
  /\ Passes("motion", "disownstart", "disownedstart") /\ Passes("motion", "disown", "disowned")
  /\ Passes("motionstop", "disown", "disowned")
  /\ "rec" \in Ops /\ "recstop" \in Ops
BY DEF Passes, Ops, Steps, Fragile, Cleared, Starting

LEMMA Lower == /\ Level("rec") < Level("motion") /\ Level("recstop") < Level("motion")
               /\ Level("recstop") < Level("motionstop")
BY DEF Level

LEMMA MotionRecordStep ==
  ASSUME NEW C, NEW P, NEW F, NEW M, NEW X, LifeInv, NEW p \in Threads, Life(C, P, F, FALSE, M, X)!MotionRecord(p)
  PROVE  LifeInv'
<1>1. stack[p] # <<>> /\ Head(stack[p]) = <<"motion", "record">> /\ UNCHANGED <<coming, up, going, cfg, off>>
  BY DEF Life!MotionRecord, Life!At, Life!daemons, Life!outer
<1>2. Head(stack[p]) # <<"rec", "spawned">> /\ Head(stack[p]) # <<"motion", "observe">> BY <1>1
<1>3. CASE Life(C, P, F, FALSE, M, X)!Return(p, "fail") BY <1>1, <1>2, <1>3, Returning
<1>4. CASE Life(C, P, F, FALSE, M, X)!Goto(p, "disownstart") /\ UNCHANGED lock
  BY <1>1, <1>4, Preparing, Going DEF Life!Goto
<1>5. CASE Life(C, P, F, FALSE, M, X)!Goto(p, "detector") /\ UNCHANGED lock
  BY <1>1, <1>5, Preparing, Going DEF Life!Goto
<1>6. CASE Life(C, P, F, FALSE, M, X)!Call(p, "recstop", "again") /\ UNCHANGED lock
  BY <1>1, <1>6, Preparing, Lower, Calling DEF Life!Call
<1>7. CASE Life(C, P, F, FALSE, M, X)!Call(p, "rec", "single") /\ UNCHANGED lock
  BY <1>1, <1>7, Preparing, Lower, Calling DEF Life!Call
<1> QED BY <1>3, <1>4, <1>5, <1>6, <1>7 DEF Life!MotionRecord

LEMMA MotionAgainStep ==
  ASSUME NEW C, NEW P, NEW F, NEW M, NEW X, LifeInv, NEW p \in Threads, Life(C, P, F, FALSE, M, X)!MotionAgain(p)
  PROVE  LifeInv'
<1>1. stack[p] # <<>> /\ Head(stack[p]) = <<"motion", "again">> /\ UNCHANGED <<coming, up, going, cfg, off>>
  BY DEF Life!MotionAgain, Life!At, Life!daemons, Life!outer
<1>2. Head(stack[p]) # <<"rec", "spawned">> /\ Head(stack[p]) # <<"motion", "observe">> BY <1>1
<1>3. CASE Life(C, P, F, FALSE, M, X)!Return(p, "fail") BY <1>1, <1>2, <1>3, Returning
<1>5. CASE Life(C, P, F, FALSE, M, X)!Goto(p, "detector") /\ UNCHANGED lock
  BY <1>1, <1>5, Preparing, Going DEF Life!Goto
<1>7. CASE Life(C, P, F, FALSE, M, X)!Call(p, "rec", "single") /\ UNCHANGED lock
  BY <1>1, <1>7, Preparing, Lower, Calling DEF Life!Call
<1> QED BY <1>3, <1>5, <1>7 DEF Life!MotionAgain

LEMMA MotionSingleStep ==
  ASSUME NEW C, NEW P, NEW F, NEW M, NEW X, LifeInv, NEW p \in Threads, Life(C, P, F, FALSE, M, X)!MotionSingle(p)
  PROVE  LifeInv'
<1>1. stack[p] # <<>> /\ Head(stack[p]) = <<"motion", "single">> /\ UNCHANGED <<coming, up, going, cfg, off>>
  BY DEF Life!MotionSingle, Life!At, Life!daemons, Life!outer
<1>2. Head(stack[p]) # <<"rec", "spawned">> /\ Head(stack[p]) # <<"motion", "observe">> BY <1>1
<1>3. CASE Life(C, P, F, FALSE, M, X)!Return(p, "fail") BY <1>1, <1>2, <1>3, Returning
<1>5. CASE Life(C, P, F, FALSE, M, X)!Goto(p, "detector") /\ UNCHANGED lock
  BY <1>1, <1>5, Preparing, Going DEF Life!Goto
<1> QED BY <1>3, <1>5 DEF Life!MotionSingle

LEMMA DisownStep ==
  ASSUME NEW C, NEW P, NEW F, NEW M, NEW X, LifeInv, NEW p \in Threads, Life(C, P, F, FALSE, M, X)!Disown(p)
  PROVE  LifeInv'
<1>0. stack[p] # <<>> /\ UNCHANGED <<lock, coming, up, going, cfg, off>>
  BY DEF Life!Disown, Life!At, Life!daemons, Life!outer
<1>1. ASSUME NEW op \in {"motion", "motionstop"}, NEW s, NEW step, Passes(op, s, step), Head(stack[p]) = <<op, s>>,
             \/ Life(C, P, F, FALSE, M, X)!Call(p, "recstop", step)
             \/ Life(C, P, F, FALSE, M, X)!Goto(p, step)
      PROVE  LifeInv'
  <2>1. Level("recstop") < Level(op) BY Lower
  <2>2. CASE Life(C, P, F, FALSE, M, X)!Call(p, "recstop", step)
    BY <1>0, <1>1, <2>1, <2>2, Preparing, Calling DEF Life!Call
  <2>3. CASE Life(C, P, F, FALSE, M, X)!Goto(p, step) BY <1>0, <1>1, <2>3, Going DEF Life!Goto
  <2> QED BY <2>2, <2>3, <1>1
<1>2. CASE Head(stack[p]) = <<"motion", "disown">>
  <2>1. Head(stack[p])[2] # "disownstart" BY <1>2
  <2>2. Life(C, P, F, FALSE, M, X)!Call(p, "recstop", "disowned") \/ Life(C, P, F, FALSE, M, X)!Goto(p, "disowned")
    BY <2>1 DEF Life!Disown
  <2> QED BY <1>1, <1>2, <2>2, Preparing
<1>3. CASE Head(stack[p]) = <<"motion", "disownstart">>
  <2>1. Head(stack[p])[2] = "disownstart" BY <1>3
  <2>2. \/ Life(C, P, F, FALSE, M, X)!Call(p, "recstop", "disownedstart")
        \/ Life(C, P, F, FALSE, M, X)!Goto(p, "disownedstart")
    BY <2>1 DEF Life!Disown
  <2> QED BY <1>1, <1>3, <2>2, Preparing
<1>4. CASE Head(stack[p]) = <<"motionstop", "disown">>
  <2>1. Head(stack[p])[2] # "disownstart" BY <1>4
  <2>2. Life(C, P, F, FALSE, M, X)!Call(p, "recstop", "disowned") \/ Life(C, P, F, FALSE, M, X)!Goto(p, "disowned")
    BY <2>1 DEF Life!Disown
  <2> QED BY <1>1, <1>4, <2>2, Preparing
<1> QED BY <1>2, <1>3, <1>4 DEF Life!Disown, Life!At

-----------------------------------------------------------------------------
(* The operations that start and stop daemons.                             *)
LEMMA TopsInFrames == ASSUME ControlInv' PROVE Tops' \subseteq Frames'
<1> SUFFICES ASSUME NEW h \in Tops' PROVE h \in Frames' OBVIOUS
<1>1. PICK q \in Threads' : stack'[q] # <<>> /\ h = stack'[q][1] BY DEF Tops
<1>2. stack'[q] \in Seq(Frame) BY <1>1 DEF ControlInv, Nested
<1>3. 1 \in 1..Len(stack'[q]) BY <1>1, <1>2
<1> QED BY <1>1, <1>3 DEF Frames

\* What a move of p, whose innermost operation is at <<op, s>>, leaves and shows.
Shown(op, s) ==
    /\ <<op, s>> \in Tops /\ <<op, s>> \in Frames
    /\ \A h \in Frames : h[2] # "lock" /\ LockOf(h[1]) = LockOf(op) => h = <<op, s>>

OnTo(op, s, step) ==
    /\ Frames' \subseteq Frames \cup {<<op, step>>} /\ Tops' \subseteq Tops \cup {<<op, step>>}
    /\ <<op, step>> \in Tops' /\ Tops \ {<<op, s>>} \subseteq Tops'
    /\ \A h \in Frames' : h[2] # "lock" /\ LockOf(h[1]) = LockOf(op) => h = <<op, step>>

LEMMA Going1 ==
  ASSUME ControlInv, NEW p \in Threads, NEW op, NEW s, s # "lock", stack[p] # <<>>, Head(stack[p]) = <<op, s>>
  PROVE  Shown(op, s)
<1>1. PICK f : f = <<op, s>> OBVIOUS
<1>2. f[1] = op /\ f[2] = s /\ stack[p][1] = f BY <1>1, HeadIs
<1>3. f \in Tops /\ f \in Frames BY <1>2, AtTop
<1>4. \A h \in Frames : h[2] # "lock" /\ LockOf(h[1]) = LockOf(f[1]) => h = f BY <1>2, Alone1
<1> QED BY <1>1, <1>2, <1>3, <1>4 DEF Shown

LEMMA Going2 ==
  ASSUME ControlInv, NEW p \in Threads, NEW op, NEW s, s # "lock", stack[p] # <<>>, Head(stack[p]) = <<op, s>>,
         NEW step \in Steps, step # "lock", stack' = [stack EXCEPT ![p][1] = <<@[1], step>>], lock' = lock
  PROVE  ControlInv' /\ OnTo(op, s, step)
<1>1. PICK f : f = <<op, s>> OBVIOUS
<1>2. f[1] = op /\ f[2] = s /\ stack[p][1] = f BY <1>1, HeadIs
<1>3. /\ ControlInv'
      /\ Frames' \subseteq Frames \cup {<<f[1], step>>} /\ Tops' \subseteq Tops \cup {<<f[1], step>>}
      /\ <<f[1], step>> \in Tops' /\ Tops \ {f} \subseteq Tops'
      /\ \A h \in Frames' : h[2] # "lock" /\ LockOf(h[1]) = LockOf(f[1]) => h = <<f[1], step>>
  BY <1>2, GotoMove
<1> QED BY <1>1, <1>2, <1>3 DEF OnTo

\* Return, as the lemmas above need it.
Back(op, s) == /\ Frames' \subseteq Frames /\ Tops' \subseteq Tops \cup {h \in Frames : Level(h[1]) > 1}
               /\ Tops \ {<<op, s>>} \subseteq Tops'

LEMMA Going3 ==
  ASSUME NEW C, NEW P, NEW F, NEW M, NEW X, ControlInv, NEW p \in Threads, NEW op, NEW s, stack[p] # <<>>,
         Head(stack[p]) = <<op, s>>, NEW status1, Life(C, P, F, FALSE, M, X)!Return(p, status1)
  PROVE  ControlInv' /\ Back(op, s)
<1>2. PICK f : f = <<op, s>> OBVIOUS
<1>3. f[1] = op /\ f[2] = s /\ stack[p][1] = f BY <1>2, HeadIs
<1>4. stack' = [stack EXCEPT ![p] = Tail(@)] /\ lock' = Released(p, f[1])
  <2>1. lock' = Life(C, P, F, FALSE, M, X)!Release(p, f[1]) /\ stack' = [stack EXCEPT ![p] = Tail(@)]
    BY <1>2 DEF Life!Return
  <2>2. f[1] \in Ops BY <1>3, AtTop
  <2>3. Life(C, P, F, FALSE, M, X)!LockOf(f[1]) = LockOf(f[1]) BY <2>2, SameLock
  <2> QED BY <2>1, <2>3 DEF Life!Release, Released
<1>5. /\ ControlInv'
      /\ Frames' \subseteq Frames /\ Tops' \subseteq Tops \cup {h \in Frames : Level(h[1]) > 1}
      /\ Tops \ {f} \subseteq Tops'
  BY <1>3, <1>4, ReturnMove
<1> QED BY <1>2, <1>5 DEF Back

\* Parts of the invariant that a step does not touch.
LEMMA RecorderKept ==
  ASSUME LifeInv, NEW f, Tops \ {f} \subseteq Tops', f # <<"rec", "spawned">>,
         coming'["mp4record"] = coming["mp4record"], up'["mp4record"] = up["mp4record"],
         going'["mp4record"] = going["mp4record"]
  PROVE  RecorderInv'
BY DEF LifeInv, RecorderInv, Total

LEMMA CollectorKept ==
  ASSUME LifeInv, coming'["ipc2file"] = coming["ipc2file"], up'["ipc2file"] = up["ipc2file"],
         <<"events", "start">> \in Tops' => <<"events", "start">> \in Tops
  PROVE  CollectorInv'
BY DEF LifeInv, CollectorInv

LEMMA DetectorKept ==
  ASSUME LifeInv, NEW f, Tops \ {f} \subseteq Tops', f # <<"motion", "observe">>, UNCHANGED <<cfg, off>>,
         coming'["motiond"] = coming["motiond"], up'["motiond"] = up["motiond"], going'["motiond"] = going["motiond"],
         \A h \in Frames' : h \in Frames \/ (h \notin Cleared /\ \A s \in Starting : h # <<"motion", s>>)
  PROVE  DetectorInv' /\ OffInv'
<1>1. DetectorInv' BY DEF LifeInv, DetectorInv, Total
<1>2. OffInv' BY DEF LifeInv, OffInv, Total
<1> QED BY <1>1, <1>2

LEMMA Counts ==
  ASSUME LifeInv
  PROVE  \A d \in Daemons : /\ coming[d] \in Nat /\ up[d] \in Nat /\ going[d] \in Nat
BY DEF LifeInv, LifeTypes

LEMMA EventsGoStep ==
  ASSUME NEW C, NEW P, NEW F, NEW M, NEW X, LifeInv, NEW p \in Threads, Life(C, P, F, FALSE, M, X)!EventsGo(p)
  PROVE  LifeInv'
<1>1. stack[p] # <<>> /\ Head(stack[p]) = <<"events", "go">> /\ UNCHANGED <<cfg, off>>
  BY DEF Life!EventsGo, Life!At, Life!outer
<1>2. Head(stack[p]) # <<"rec", "spawned">> /\ Head(stack[p]) # <<"motion", "observe">> BY <1>1
<1>3. CASE Life(C, P, F, FALSE, M, X)!Return(p, "ok") /\ UNCHANGED <<coming, up, going>>
  BY <1>1, <1>2, <1>3, Returning
<1>4. CASE /\ up' = [up EXCEPT !["ipc2file"] = 0] /\ going' = [going EXCEPT !["ipc2file"] = 0]
           /\ stack' = [stack EXCEPT ![p][1] = <<@[1], "start">>] /\ UNCHANGED <<coming, lock>>
  <2>1. ControlInv' /\ OnTo("events", "go", "start")
    <3>1. "start" \in Steps /\ ControlInv BY DEF Steps, LifeInv
    <3> QED BY <1>1, <1>4, <3>1, Going2
  <2>2. LifeTypes' BY <1>1, <1>4 DEF LifeInv, LifeTypes, Daemons
  <2>3. /\ \A d \in {"mp4record", "motiond"} : coming'[d] = coming[d] /\ up'[d] = up[d] /\ going'[d] = going[d]
        /\ up'["ipc2file"] = 0 /\ coming' = coming
    BY <1>4 DEF LifeInv, LifeTypes, Daemons
  <2>4. RecorderInv' BY <2>1, <2>3, RecorderKept DEF OnTo
  <2>5. CollectorInv' BY <2>3 DEF LifeInv, CollectorInv
  <2>6. \A h \in Frames' : h \in Frames \/ (h \notin Cleared /\ \A s \in Starting : h # <<"motion", s>>)
    BY <2>1 DEF OnTo, Cleared
  <2>7. DetectorInv' /\ OffInv' BY <1>1, <2>1, <2>3, <2>6, DetectorKept DEF OnTo
  <2> QED BY <2>1, <2>2, <2>4, <2>5, <2>7 DEF LifeInv
<1> QED BY <1>3, <1>4 DEF Life!EventsGo, Life!Goto, Life!daemons

LEMMA EventsStartStep ==
  ASSUME NEW C, NEW P, NEW F, NEW M, NEW X, LifeInv, NEW p \in Threads, Life(C, P, F, FALSE, M, X)!EventsStart(p)
  PROVE  LifeInv'
<1>1. /\ stack[p] # <<>> /\ Head(stack[p]) = <<"events", "start">> /\ UNCHANGED <<cfg, off, coming, going, lock>>
      /\ up' = [up EXCEPT !["ipc2file"] = @ + 1] /\ stack' = [stack EXCEPT ![p][1] = <<@[1], "check">>]
  BY DEF Life!EventsStart, Life!At, Life!Goto, Life!outer
<1>2. ControlInv' /\ OnTo("events", "start", "check") /\ Shown("events", "start")
  <2>1. "check" \in Steps /\ ControlInv BY DEF Steps, LifeInv
  <2> QED BY <1>1, <2>1, Going1, Going2
<1>3. LifeTypes' BY <1>1 DEF LifeInv, LifeTypes, Daemons
<1>4. up["ipc2file"] = 0 BY <1>2 DEF Shown, LifeInv, CollectorInv
<1>5. /\ \A d \in {"mp4record", "motiond"} : coming'[d] = coming[d] /\ up'[d] = up[d] /\ going'[d] = going[d]
      /\ up'["ipc2file"] = 1 /\ coming' = coming
  BY <1>1, <1>4 DEF LifeInv, LifeTypes, Daemons
<1>6. <<"events", "start">> \notin Tops'
  <2>1. Tops' \subseteq Frames' BY <1>2, TopsInFrames
  <2>2. <<"events", "start">> \notin Frames' BY <1>2 DEF OnTo
  <2> QED BY <2>1, <2>2
<1>7. RecorderInv' BY <1>2, <1>5, RecorderKept DEF OnTo
<1>8. CollectorInv' BY <1>5, <1>6 DEF LifeInv, CollectorInv
<1>9. \A h \in Frames' : h \in Frames \/ (h \notin Cleared /\ \A s \in Starting : h # <<"motion", s>>)
  BY <1>2 DEF OnTo, Cleared
<1>10. DetectorInv' /\ OffInv' BY <1>1, <1>2, <1>5, <1>9, DetectorKept DEF OnTo
<1> QED BY <1>2, <1>3, <1>7, <1>8, <1>10 DEF LifeInv

LEMMA UnusedKillStep ==
  ASSUME NEW C, NEW P, NEW F, NEW M, NEW X, LifeInv, NEW p \in Threads, Life(C, P, F, FALSE, M, X)!UnusedKill(p)
  PROVE  LifeInv'
<1>1. /\ stack[p] # <<>> /\ Head(stack[p]) = <<"unused", "kill">> /\ UNCHANGED <<cfg, off, coming>>
      /\ going' = [going EXCEPT !["ipc2file"] = @ + up["ipc2file"]] /\ up' = [up EXCEPT !["ipc2file"] = 0]
      /\ Life(C, P, F, FALSE, M, X)!Return(p, "ok")
  BY DEF Life!UnusedKill, Life!At, Life!Terminate, Life!outer
<1>2. ControlInv' /\ Back("unused", "kill") BY <1>1, Going3 DEF LifeInv
<1>3. LifeTypes' BY <1>1 DEF LifeInv, LifeTypes, Daemons
<1>5. /\ \A d \in {"mp4record", "motiond"} : coming'[d] = coming[d] /\ up'[d] = up[d] /\ going'[d] = going[d]
      /\ up'["ipc2file"] = 0 /\ coming' = coming
  BY <1>1 DEF LifeInv, LifeTypes, Daemons
<1>7. RecorderInv' BY <1>2, <1>5, RecorderKept DEF Back
<1>8. CollectorInv' BY <1>5 DEF LifeInv, CollectorInv
<1>9. \A h \in Frames' : h \in Frames \/ (h \notin Cleared /\ \A s \in Starting : h # <<"motion", s>>)
  BY <1>2 DEF Back
<1>10. DetectorInv' /\ OffInv' BY <1>1, <1>2, <1>5, <1>9, DetectorKept DEF Back
<1> QED BY <1>2, <1>3, <1>7, <1>8, <1>10 DEF LifeInv

\* A spawned recorder excludes every other operation on the recorder.
LEMMA NoneSpawned ==
  ASSUME LifeInv, NEW op \in {"rec", "recstop"}, NEW s, Shown(op, s), s # "lock", <<op, s>> # <<"rec", "spawned">>
  PROVE  coming["mp4record"] = 0
<1>1. <<"rec", "spawned">> \notin Frames
  <2>1. LockOf("rec") = LockOf(op) BY DEF LockOf
  <2> QED BY <2>1 DEF Shown
<1>2. <<"rec", "spawned">> \notin Tops
  <2> SUFFICES ASSUME <<"rec", "spawned">> \in Tops PROVE FALSE OBVIOUS
  <2>1. PICK q \in Threads : stack[q] # <<>> /\ <<"rec", "spawned">> = stack[q][1] BY DEF Tops
  <2>2. <<"rec", "spawned">> \in Frames BY <2>1, AtTop DEF LifeInv
  <2> QED BY <2>2, <1>1
<1>3. coming["mp4record"] \in Nat BY Counts DEF Daemons
<1> QED BY <1>2, <1>3 DEF LifeInv, RecorderInv

LEMMA NoneObserved ==
  ASSUME LifeInv, NEW op \in {"motion", "motionstop"}, NEW s, Shown(op, s), s # "lock",
         <<op, s>> # <<"motion", "observe">>
  PROVE  coming["motiond"] = 0
<1>1. <<"motion", "observe">> \notin Frames
  <2>1. LockOf("motion") = LockOf(op) BY DEF LockOf
  <2> QED BY <2>1 DEF Shown
<1>2. <<"motion", "observe">> \notin Tops
  <2> SUFFICES ASSUME <<"motion", "observe">> \in Tops PROVE FALSE OBVIOUS
  <2>1. PICK q \in Threads : stack[q] # <<>> /\ <<"motion", "observe">> = stack[q][1] BY DEF Tops
  <2>2. <<"motion", "observe">> \in Frames BY <2>1, AtTop DEF LifeInv
  <2> QED BY <2>2, <1>1
<1>3. coming["motiond"] \in Nat BY Counts DEF Daemons
<1> QED BY <1>2, <1>3 DEF LifeInv, DetectorInv

LEMMA RecCountStep ==
  ASSUME NEW C, NEW P, NEW F, NEW M, NEW X, LifeInv, NEW p \in Threads, Life(C, P, F, FALSE, M, X)!RecCount(p)
  PROVE  LifeInv'
<1>1. stack[p] # <<>> /\ Head(stack[p]) = <<"rec", "count">> /\ UNCHANGED <<cfg, off, up, going>>
  BY DEF Life!RecCount, Life!At, Life!outer
<1>2. Head(stack[p]) # <<"rec", "spawned">> /\ Head(stack[p]) # <<"motion", "observe">> BY <1>1
<1>3. CASE Life(C, P, F, FALSE, M, X)!Return(p, "fail") /\ UNCHANGED coming BY <1>1, <1>2, <1>3, Returning
<1>4. CASE Life(C, P, F, FALSE, M, X)!Goto(p, "wait") /\ UNCHANGED <<coming, lock>>
  <2>1. Passes("rec", "count", "wait") BY DEF Passes, Ops, Steps, Fragile, Cleared
  <2> QED BY <1>1, <1>4, <2>1, Going DEF Life!Goto
<1>5. CASE /\ up["mp4record"] + going["mp4record"] = 0 /\ coming' = [coming EXCEPT !["mp4record"] = @ + 1]
           /\ stack' = [stack EXCEPT ![p][1] = <<@[1], "spawned">>] /\ UNCHANGED lock
  <2>1. ControlInv' /\ OnTo("rec", "count", "spawned") /\ Shown("rec", "count")
    <3>1. "spawned" \in Steps /\ ControlInv BY DEF Steps, LifeInv
    <3> QED BY <1>1, <1>5, <3>1, Going1, Going2
  <2>2. coming["mp4record"] = 0 BY <2>1, NoneSpawned
  <2>3. LifeTypes' BY <1>1, <1>5 DEF LifeInv, LifeTypes, Daemons
  <2>4. /\ \A d \in {"ipc2file", "motiond"} : coming'[d] = coming[d] /\ up'[d] = up[d] /\ going'[d] = going[d]
        /\ coming'["mp4record"] = 1
    BY <1>1, <1>5, <2>2 DEF LifeInv, LifeTypes, Daemons
  <2>a. Total("mp4record")' = 1 BY <1>1, <1>5, <2>4, Counts DEF Total, Daemons
  <2>5. RecorderInv' BY <2>a, <2>1 DEF RecorderInv, OnTo
  <2>6. <<"events", "start">> \in Tops' => <<"events", "start">> \in Tops BY <2>1 DEF OnTo
  <2>7. CollectorInv' BY <2>4, <2>6, CollectorKept
  <2>8. \A h \in Frames' : h \in Frames \/ (h \notin Cleared /\ \A s \in Starting : h # <<"motion", s>>)
    BY <2>1 DEF OnTo, Cleared
  <2>9. DetectorInv' /\ OffInv' BY <1>1, <2>1, <2>4, <2>8, DetectorKept DEF OnTo
  <2> QED BY <2>1, <2>3, <2>5, <2>7, <2>9 DEF LifeInv
<1> QED BY <1>3, <1>4, <1>5 DEF Life!RecCount, Life!Goto, Life!Count

LEMMA RecWaitStep ==
  ASSUME NEW C, NEW P, NEW F, NEW M, NEW X, LifeInv, NEW p \in Threads, Life(C, P, F, FALSE, M, X)!RecWait(p)
  PROVE  LifeInv'
<1>1. /\ stack[p] # <<>> /\ Head(stack[p]) \in {<<"rec", "spawned">>, <<"rec", "wait">>}
      /\ UNCHANGED <<cfg, off, coming, up, going>>
  BY DEF Life!RecWait, Life!At, Life!Await, Life!daemons
<1>2. PICK status1 : Life(C, P, F, FALSE, M, X)!Return(p, status1) BY DEF Life!RecWait
<1>3. coming["mp4record"] = 0 \/ up["mp4record"] + going["mp4record"] > 0 BY DEF Life!RecWait, Life!Await, Life!Count
<1>4. coming["mp4record"] = 0 BY <1>3, Counts DEF LifeInv, RecorderInv, Total, Daemons
<1>5. Head(stack[p]) # <<"motion", "observe">> BY <1>1
<1> QED BY <1>1, <1>2, <1>4, <1>5, Returning

LEMMA RecStopGoStep ==
  ASSUME NEW C, NEW P, NEW F, NEW M, NEW X, LifeInv, NEW p \in Threads, Life(C, P, F, FALSE, M, X)!RecStopGo(p)
  PROVE  LifeInv'
<1>1. /\ stack[p] # <<>> /\ Head(stack[p]) = <<"recstop", "go">> /\ UNCHANGED <<cfg, off, coming, lock>>
      /\ going' = [going EXCEPT !["mp4record"] = @ + up["mp4record"]] /\ up' = [up EXCEPT !["mp4record"] = 0]
      /\ stack' = [stack EXCEPT ![p][1] = <<@[1], "wait">>]
  BY DEF Life!RecStopGo, Life!At, Life!Terminate, Life!Goto, Life!outer
<1>2. ControlInv' /\ OnTo("recstop", "go", "wait")
  <2>1. "wait" \in Steps /\ ControlInv BY DEF Steps, LifeInv
  <2> QED BY <1>1, <2>1, Going2
<1>3. LifeTypes' BY <1>1 DEF LifeInv, LifeTypes, Daemons
<1>4. /\ \A d \in {"ipc2file", "motiond"} : coming'[d] = coming[d] /\ up'[d] = up[d] /\ going'[d] = going[d]
      /\ up'["mp4record"] = 0 /\ going'["mp4record"] = going["mp4record"] + up["mp4record"] /\ coming' = coming
  BY <1>1 DEF LifeInv, LifeTypes, Daemons
<1>5. RecorderInv'
  <2>1. Total("mp4record")' <= 1 BY <1>4, Counts DEF LifeInv, RecorderInv, Total, Daemons
  <2>2. <<"rec", "spawned">> \in Tops => <<"rec", "spawned">> \in Tops' BY <1>2 DEF OnTo
  <2> QED BY <1>4, <2>1, <2>2 DEF LifeInv, RecorderInv
<1>6. <<"events", "start">> \in Tops' => <<"events", "start">> \in Tops BY <1>2 DEF OnTo
<1>7. CollectorInv' BY <1>4, <1>6, CollectorKept
<1>8. \A h \in Frames' : h \in Frames \/ (h \notin Cleared /\ \A s \in Starting : h # <<"motion", s>>)
  BY <1>2 DEF OnTo, Cleared
<1>9. DetectorInv' /\ OffInv' BY <1>1, <1>2, <1>4, <1>8, DetectorKept DEF OnTo
<1> QED BY <1>2, <1>3, <1>5, <1>7, <1>9 DEF LifeInv

LEMMA RecStopWaitStep ==
  ASSUME NEW C, NEW P, NEW F, NEW M, NEW X, LifeInv, NEW p \in Threads, Life(C, P, F, FALSE, M, X)!RecStopWait(p)
  PROVE  LifeInv'
<1>1. /\ stack[p] # <<>> /\ Head(stack[p]) = <<"recstop", "wait">> /\ UNCHANGED <<cfg, off, coming, up, going>>
  BY DEF Life!RecStopWait, Life!At, Life!Await, Life!daemons
<1>2. PICK status1 : Life(C, P, F, FALSE, M, X)!Return(p, status1) BY DEF Life!RecStopWait
<1>3. Head(stack[p]) # <<"rec", "spawned">> /\ Head(stack[p]) # <<"motion", "observe">> BY <1>1
<1> QED BY <1>1, <1>2, <1>3, Returning

\* stop_motiond under the lock of motion detection leaves no detector.
LEMMA DetectorsKilled ==
  ASSUME LifeInv, NEW p \in Threads, NEW op \in {"motion", "motionstop"}, NEW step \in {"config", "disown"},
         stack[p] # <<>>, Head(stack[p]) = <<op, "go">>, UNCHANGED <<cfg, off, coming, lock>>,
         up' = [up EXCEPT !["motiond"] = 0], going' = [going EXCEPT !["motiond"] = 0],
         stack' = [stack EXCEPT ![p][1] = <<@[1], step>>]
  PROVE  LifeInv'
<1>2. ControlInv' /\ OnTo(op, "go", step) /\ Shown(op, "go")
  <2>1. step \in Steps /\ step # "lock" /\ ControlInv BY DEF Steps, LifeInv
  <2> QED BY <2>1, Going1, Going2
<1>3. LifeTypes' BY DEF LifeInv, LifeTypes, Daemons
<1>4. /\ \A d \in {"ipc2file", "mp4record"} : coming'[d] = coming[d] /\ up'[d] = up[d] /\ going'[d] = going[d]
      /\ up'["motiond"] = 0 /\ going'["motiond"] = 0 /\ coming' = coming
  BY DEF LifeInv, LifeTypes, Daemons
<1>5. <<op, "go">> # <<"rec", "spawned">> /\ <<op, "go">> # <<"motion", "observe">> /\ <<op, step>> # <<"events", "start">>
  OBVIOUS
<1>6. coming["motiond"] = 0 BY <1>2, <1>5, NoneObserved
<1>7. RecorderInv' BY <1>2, <1>4, <1>5, RecorderKept DEF OnTo
<1>8. CollectorInv' BY <1>2, <1>4, <1>5, CollectorKept DEF OnTo
<1>9. Total("motiond")' = 0 BY <1>4, <1>6 DEF Total
<1>10. DetectorInv' BY <1>4, <1>6, <1>9 DEF DetectorInv
<1>11. \A s \in Starting : <<"motion", s>> \in Frames' => <<"motion", s>> \in Frames BY <1>2 DEF OnTo, Starting
<1>12. OffInv' BY <1>9, <1>11 DEF LifeInv, OffInv
<1> QED BY <1>2, <1>3, <1>7, <1>8, <1>10, <1>12 DEF LifeInv

LEMMA MotionGoStep ==
  ASSUME NEW C, NEW P, NEW F, NEW M, NEW X, LifeInv, NEW p \in Threads,
         Life(C, P, F, FALSE, M, X)!MotionGo(p) \/ Life(C, P, F, FALSE, M, X)!MotionStopGo(p)
  PROVE  LifeInv'
<1>1. CASE Life(C, P, F, FALSE, M, X)!MotionGo(p)
  <2>1. /\ stack[p] # <<>> /\ Head(stack[p]) = <<"motion", "go">> /\ UNCHANGED <<cfg, off, coming, lock>>
        /\ up' = [up EXCEPT !["motiond"] = 0] /\ going' = [going EXCEPT !["motiond"] = 0]
        /\ stack' = [stack EXCEPT ![p][1] = <<@[1], "config">>]
    BY <1>1 DEF Life!MotionGo, Life!At, Life!KillDetectors, Life!Goto, Life!outer
  <2> QED BY <2>1, DetectorsKilled
<1>2. CASE Life(C, P, F, FALSE, M, X)!MotionStopGo(p)
  <2>1. /\ stack[p] # <<>> /\ Head(stack[p]) = <<"motionstop", "go">> /\ UNCHANGED <<cfg, off, coming, lock>>
        /\ up' = [up EXCEPT !["motiond"] = 0] /\ going' = [going EXCEPT !["motiond"] = 0]
        /\ stack' = [stack EXCEPT ![p][1] = <<@[1], "disown">>]
    BY <1>2 DEF Life!MotionStopGo, Life!At, Life!KillDetectors, Life!Goto, Life!outer
  <2> QED BY <2>1, DetectorsKilled
<1> QED BY <1>1, <1>2

LEMMA MotionDetectorStep ==
  ASSUME NEW C, NEW P, NEW F, NEW M, NEW X, LifeInv, NEW p \in Threads, Life(C, P, F, FALSE, M, X)!MotionDetector(p)
  PROVE  LifeInv'
<1>1. /\ stack[p] # <<>> /\ Head(stack[p]) = <<"motion", "detector">> /\ UNCHANGED <<cfg, off, up, going, lock>>
      /\ coming' = [coming EXCEPT !["motiond"] = @ + 1] /\ stack' = [stack EXCEPT ![p][1] = <<@[1], "observe">>]
  BY DEF Life!MotionDetector, Life!At, Life!Goto, Life!outer
<1>2. ControlInv' /\ OnTo("motion", "detector", "observe") /\ Shown("motion", "detector")
  <2>1. "observe" \in Steps /\ ControlInv BY DEF Steps, LifeInv
  <2> QED BY <1>1, <2>1, Going1, Going2
<1>3. LifeTypes' BY <1>1 DEF LifeInv, LifeTypes, Daemons
<1>4. Total("motiond") = 0
  <2>1. <<"motion", "detector">> \in Cleared BY DEF Cleared, Steps
  <2> QED BY <1>2, <2>1 DEF LifeInv, DetectorInv, Shown
<1>5. ~off BY <1>2 DEF LifeInv, OffInv, Shown, Starting
<1>6. /\ \A d \in {"ipc2file", "mp4record"} : coming'[d] = coming[d] /\ up'[d] = up[d] /\ going'[d] = going[d]
      /\ coming'["motiond"] = coming["motiond"] + 1
  BY <1>1 DEF LifeInv, LifeTypes, Daemons
<1>7. RecorderInv' BY <1>2, <1>6, RecorderKept DEF OnTo
<1>8. <<"events", "start">> \in Tops' => <<"events", "start">> \in Tops BY <1>2 DEF OnTo
<1>9. CollectorInv' BY <1>6, <1>8, CollectorKept
<1>10. Total("motiond")' = 1 BY <1>1, <1>4, <1>6, Counts DEF Total, Daemons
<1>11. Frames' \cap Cleared = {}
  <2> SUFFICES ASSUME NEW h \in Frames', h \in Cleared PROVE FALSE OBVIOUS
  <2>1. h[2] # "lock" /\ LockOf(h[1]) = LockOf("motion") /\ h # <<"motion", "observe">> BY DEF Cleared, LockOf
  <2> QED BY <2>1, <1>2 DEF OnTo
<1>12. DetectorInv' BY <1>2, <1>10, <1>11 DEF DetectorInv, OnTo
<1>13. OffInv' BY <1>1, <1>5 DEF OffInv
<1> QED BY <1>2, <1>3, <1>7, <1>9, <1>12, <1>13 DEF LifeInv

LEMMA MotionObserveStep ==
  ASSUME NEW C, NEW P, NEW F, NEW M, NEW X, LifeInv, NEW p \in Threads, Life(C, P, F, FALSE, M, X)!MotionObserve(p)
  PROVE  LifeInv'
<1>1. /\ stack[p] # <<>> /\ Head(stack[p]) = <<"motion", "observe">> /\ UNCHANGED <<cfg, off, coming, up, going>>
  BY DEF Life!MotionObserve, Life!At, Life!Await, Life!daemons
<1>2. PICK status1 : Life(C, P, F, FALSE, M, X)!Return(p, status1) BY DEF Life!MotionObserve
<1>3. coming["motiond"] = 0 \/ up["motiond"] + going["motiond"] > 0 BY DEF Life!MotionObserve, Life!Await, Life!Count
<1>4. coming["motiond"] = 0 BY <1>3, Counts DEF LifeInv, DetectorInv, Total, Daemons
<1>5. Head(stack[p]) # <<"rec", "spawned">> BY <1>1
<1> QED BY <1>1, <1>2, <1>4, <1>5, Returning

LEMMA DisownedStep ==
  ASSUME NEW C, NEW P, NEW F, NEW M, NEW X, LifeInv, NEW p \in Threads, Life(C, P, F, FALSE, M, X)!Disowned(p)
  PROVE  LifeInv'
<1>0. stack[p] # <<>> /\ UNCHANGED <<coming, up, going, cfg>> BY DEF Life!Disowned, Life!At, Life!daemons
<1>1. CASE Head(stack[p]) = <<"motion", "disownedstart">> /\ Life(C, P, F, FALSE, M, X)!Goto(p, "detector")
           /\ UNCHANGED <<lock, off>>
  BY <1>0, <1>1, Preparing, Going DEF Life!Goto
<1>2. CASE Head(stack[p]) = <<"motionstop", "disowned">> /\ Life(C, P, F, FALSE, M, X)!Return(p, "ok")
           /\ UNCHANGED off
  <2>1. Head(stack[p]) # <<"rec", "spawned">> /\ Head(stack[p]) # <<"motion", "observe">> BY <1>2
  <2> QED BY <1>0, <1>2, <2>1, Returning
<1>3. CASE Head(stack[p]) = <<"motion", "disowned">> /\ Life(C, P, F, FALSE, M, X)!Return(p, "ok")
           /\ off' = (off \/ ~cfg.motion)
  <2>1. ControlInv' /\ Back("motion", "disowned") /\ Shown("motion", "disowned")
    <3>1. ControlInv BY DEF LifeInv
    <3> QED BY <1>0, <1>3, <3>1, Going1, Going3
  <2>2. Total("motiond") = 0
    <3>1. <<"motion", "disowned">> \in Cleared BY DEF Cleared, Steps
    <3> QED BY <2>1, <3>1 DEF LifeInv, DetectorInv, Shown
  <2>3. LifeTypes'
    <3>1. off' \in BOOLEAN BY <1>3
    <3> QED BY <1>0, <3>1 DEF LifeInv, LifeTypes
  <2>4. RecorderInv' BY <1>0, <2>1, RecorderKept DEF Back
  <2>5. <<"events", "start">> \in Tops' => <<"events", "start">> \in Tops
    <3>1. Level("events") = 1 BY DEF Level
    <3> QED BY <2>1, <3>1 DEF Back
  <2>6. CollectorInv' BY <1>0, <2>5, CollectorKept
  <2>7. <<"motion", "observe">> \in Tops => <<"motion", "observe">> \in Tops' BY <2>1 DEF Back
  <2>8. DetectorInv' BY <1>0, <2>1, <2>2, <2>7 DEF LifeInv, DetectorInv, Total, Back
  <2>9. ASSUME NEW s \in Starting PROVE <<"motion", s>> \notin Frames'
    <3>1. s # "lock" /\ s # "disowned" BY DEF Starting
    <3>2. <<"motion", s>> \notin Frames BY <2>1, <3>1 DEF Shown
    <3> QED BY <2>1, <3>2 DEF Back
  <2>10. off' => cfg.motion = FALSE
    <3>1. cfg.motion \in BOOLEAN BY DEF LifeInv, LifeTypes
    <3>2. off => cfg.motion = FALSE BY DEF LifeInv, OffInv
    <3> QED BY <1>3, <3>1, <3>2
  <2>11. OffInv' BY <1>0, <2>2, <2>9, <2>10 DEF OffInv, Total
  <2> QED BY <2>1, <2>3, <2>4, <2>6, <2>8, <2>11 DEF LifeInv
<1> QED BY <1>1, <1>2, <1>3 DEF Life!Disowned, Life!At

-----------------------------------------------------------------------------
(* Callers, the watchdog, daemons and faults.                              *)
\* An operation begins; a new configuration ends what was reported off.
LEMMA Beginning ==
  ASSUME LifeInv, NEW p \in Threads, stack[p] = <<>>, NEW op \in Ops,
         stack' = [stack EXCEPT ![p] = <<<<op, "lock">>>>], UNCHANGED <<lock, coming, up, going>>,
         cfg' \in [motion: BOOLEAN, save: BOOLEAN, rec: BOOLEAN], off' \in BOOLEAN, off' => off /\ cfg' = cfg
  PROVE  LifeInv'
<1>1. /\ ControlInv'
      /\ Frames' \subseteq Frames \cup {<<op, "lock">>} /\ Tops' \subseteq Tops \cup {<<op, "lock">>}
      /\ Tops \subseteq Tops'
  <2>1. lock' = lock /\ ControlInv BY DEF LifeInv
  <2> QED BY <2>1, BeginMove
<1>2. PICK f : f = <<op, "lock">> OBVIOUS
<1>3. f \notin Cleared /\ f # <<"events", "start">> /\ \A s \in Starting : <<"motion", s>> # f
  BY <1>2 DEF Cleared, Starting
<1>4. Frames' \subseteq Frames \cup {f} /\ Tops' \subseteq Tops \cup {f} BY <1>1, <1>2
<1>5. LifeTypes' BY DEF LifeInv, LifeTypes
<1>6. RecorderInv' BY <1>1 DEF LifeInv, RecorderInv, Total
<1>7. CollectorInv' BY <1>3, <1>4 DEF LifeInv, CollectorInv
<1>8. DetectorInv' BY <1>1, <1>3, <1>4 DEF LifeInv, DetectorInv, Total
<1>9. OffInv' BY <1>3, <1>4 DEF LifeInv, OffInv, Total
<1> QED BY <1>1, <1>5, <1>6, <1>7, <1>8, <1>9 DEF LifeInv

LEMMA AskStep ==
  ASSUME NEW C, NEW P, NEW F, NEW M, NEW X, LifeInv, NEW c \in Threads, NEW op \in Ops,
         F \subseteq [motion: BOOLEAN, save: BOOLEAN, rec: BOOLEAN], Life(C, P, F, FALSE, M, X)!Ask(c, op)
  PROVE  LifeInv'
<1>1. /\ stack[c] = <<>> /\ stack' = [stack EXCEPT ![c] = <<<<op, "lock">>>>] /\ UNCHANGED <<lock, coming, up, going>>
  BY DEF Life!Ask, Life!daemons
<1>2. off \in BOOLEAN /\ cfg \in [motion: BOOLEAN, save: BOOLEAN, rec: BOOLEAN] BY DEF LifeInv, LifeTypes
<1>3. CASE op = "motion"
  <2>1. PICK new \in F : cfg' = new /\ off' = (off /\ new = cfg) BY <1>3 DEF Life!Ask
  <2>2. cfg' \in [motion: BOOLEAN, save: BOOLEAN, rec: BOOLEAN] BY <2>1
  <2>3. off' \in BOOLEAN /\ (off' => off /\ cfg' = cfg) BY <2>1
  <2> QED BY <1>1, <2>2, <2>3, Beginning
<1>4. CASE op # "motion"
  <2>1. cfg' = cfg /\ off' = off BY <1>4 DEF Life!Ask
  <2> QED BY <1>1, <1>2, <2>1, Beginning
<1> QED BY <1>3, <1>4

\* Daemons appear, end and are killed: there are no more of them.
LEMMA Fewer ==
  ASSUME LifeInv, UNCHANGED <<stack, lock, cfg, off>>,
         coming' \in [Daemons -> Nat], up' \in [Daemons -> Nat], going' \in [Daemons -> Nat],
         \A d \in Daemons : coming'[d] <= coming[d] /\ Total(d)' <= Total(d) /\ up'[d] <= up[d] + coming[d]
  PROVE  LifeInv'
<1>1. ControlInv' /\ Threads' = Threads /\ Tops' = Tops /\ Frames' = Frames
  BY DEF LifeInv, ControlInv, Threads, Nested, HeldBy, Tops, Frames
<1>2. LifeTypes' BY DEF LifeInv, LifeTypes
<1>3. \A d \in Daemons : /\ coming[d] \in Nat /\ up[d] \in Nat /\ going[d] \in Nat BY Counts
<1>4. \A d \in Daemons : /\ coming'[d] \in Nat /\ up'[d] \in Nat /\ going'[d] \in Nat OBVIOUS
<1>5. \A d \in Daemons : Total(d) \in Nat /\ Total(d)' \in Nat BY <1>3, <1>4 DEF Total
<1>6. RecorderInv' BY <1>1, <1>3, <1>4, <1>5 DEF LifeInv, RecorderInv, Daemons
<1>7. CollectorInv' BY <1>1, <1>3, <1>4 DEF LifeInv, CollectorInv, Daemons
<1>8. DetectorInv' BY <1>1, <1>3, <1>4, <1>5 DEF LifeInv, DetectorInv, Daemons
<1>9. OffInv' BY <1>1, <1>5 DEF LifeInv, OffInv, Daemons
<1> QED BY <1>1, <1>2, <1>6, <1>7, <1>8, <1>9 DEF LifeInv

\* A step that leaves the processes and the daemons alone.
LEMMA Resting ==
  ASSUME LifeInv, UNCHANGED <<stack, lock, coming, up, going, cfg, off>>
  PROVE  LifeInv'
<1>1. coming' \in [Daemons -> Nat] /\ up' \in [Daemons -> Nat] /\ going' \in [Daemons -> Nat] BY DEF LifeInv, LifeTypes
<1>2. \A d \in Daemons : coming'[d] <= coming[d] /\ Total(d)' <= Total(d) /\ up'[d] <= up[d] + coming[d]
  BY Counts DEF Total
<1> QED BY <1>1, <1>2, Fewer

LEMMA CheckStep ==
  ASSUME NEW C, NEW P, NEW F, NEW M, NEW X, LifeInv, wd \in Threads, Life(C, P, F, FALSE, M, X)!Check
  PROVE  LifeInv'
<1>1. UNCHANGED <<lock, coming, up, going, cfg, off>> /\ stack[wd] = <<>>
  BY DEF Life!Check, Life!CheckMotion, Life!CheckAux, Life!daemons
<1>2. \/ UNCHANGED stack
      \/ \E op \in {"motion", "rec", "events"} : stack' = [stack EXCEPT ![wd] = <<<<op, "lock">>>>]
  BY DEF Life!Check, Life!CheckMotion, Life!CheckAux, Life!Begin
<1>3. CASE UNCHANGED stack BY <1>1, <1>3, Resting
<1>4. CASE \E op \in {"motion", "rec", "events"} : stack' = [stack EXCEPT ![wd] = <<<<op, "lock">>>>]
  <2>1. PICK op \in {"motion", "rec", "events"} : stack' = [stack EXCEPT ![wd] = <<<<op, "lock">>>>] BY <1>4
  <2>2. op \in Ops BY DEF Ops
  <2>3. /\ cfg' \in [motion: BOOLEAN, save: BOOLEAN, rec: BOOLEAN] /\ off' \in BOOLEAN
        /\ off' => off /\ cfg' = cfg
    BY <1>1 DEF LifeInv, LifeTypes
  <2> QED BY <1>1, <2>1, <2>2, <2>3, Beginning
<1> QED BY <1>2, <1>3, <1>4

LEMMA DaemonStep ==
  ASSUME NEW C, NEW P, NEW F, NEW M, NEW X, LifeInv, NEW d \in Daemons,
         \/ Life(C, P, F, FALSE, M, X)!Appear(d) \/ Life(C, P, F, FALSE, M, X)!Vanish(d)
         \/ Life(C, P, F, FALSE, M, X)!OomKill(d)
  PROVE  LifeInv'
<1>0. coming \in [Daemons -> Nat] /\ up \in [Daemons -> Nat] /\ going \in [Daemons -> Nat] BY DEF LifeInv, LifeTypes
<1>1. CASE Life(C, P, F, FALSE, M, X)!Appear(d)
  <2>1. /\ coming[d] > 0 /\ coming' = [coming EXCEPT ![d] = @ - 1] /\ up' = [up EXCEPT ![d] = @ + 1] /\ going' = going
        /\ UNCHANGED <<stack, lock, cfg, off>>
    BY <1>1 DEF Life!Appear
  <2>2. coming' \in [Daemons -> Nat] /\ up' \in [Daemons -> Nat] /\ going' \in [Daemons -> Nat] BY <1>0, <2>1
  <2>3. \A e \in Daemons : coming'[e] <= coming[e] /\ Total(e)' <= Total(e) /\ up'[e] <= up[e] + coming[e]
    BY <1>0, <2>1 DEF Total
  <2> QED BY <2>1, <2>2, <2>3, Fewer
<1>2. CASE Life(C, P, F, FALSE, M, X)!Vanish(d)
  <2>1. /\ going[d] > 0 /\ going' = [going EXCEPT ![d] = @ - 1] /\ up' = up /\ coming' = coming
        /\ UNCHANGED <<stack, lock, cfg, off>>
    BY <1>2 DEF Life!Vanish
  <2>2. coming' \in [Daemons -> Nat] /\ up' \in [Daemons -> Nat] /\ going' \in [Daemons -> Nat] BY <1>0, <2>1
  <2>3. \A e \in Daemons : coming'[e] <= coming[e] /\ Total(e)' <= Total(e) /\ up'[e] <= up[e] + coming[e]
    BY <1>0, <2>1 DEF Total
  <2> QED BY <2>1, <2>2, <2>3, Fewer
<1>3. CASE Life(C, P, F, FALSE, M, X)!OomKill(d)
  <2>1. /\ up[d] > 0 /\ up' = [up EXCEPT ![d] = @ - 1] /\ going' = going /\ coming' = coming
        /\ UNCHANGED <<stack, lock, cfg, off>>
    BY <1>3 DEF Life!OomKill
  <2>2. coming' \in [Daemons -> Nat] /\ up' \in [Daemons -> Nat] /\ going' \in [Daemons -> Nat] BY <1>0, <2>1
  <2>3. \A e \in Daemons : coming'[e] <= coming[e] /\ Total(e)' <= Total(e) /\ up'[e] <= up[e] + coming[e]
    BY <1>0, <2>1 DEF Total
  <2> QED BY <2>1, <2>2, <2>3, Fewer
<1> QED BY <1>1, <1>2, <1>3

LEMMA GuardKillStep ==
  ASSUME NEW C, NEW P, NEW F, NEW M, NEW X, LifeInv, NEW p \in Threads, Life(C, P, F, FALSE, M, X)!GuardKill(p)
  PROVE  LifeInv'
<1> DEFINE victims == Life(C, P, F, FALSE, M, X)!Spawned(p)
<1>0. coming \in [Daemons -> Nat] /\ up \in [Daemons -> Nat] /\ going \in [Daemons -> Nat] BY DEF LifeInv, LifeTypes
<1>1. /\ stack[p] # <<>> /\ UNCHANGED <<cfg, off>> /\ stack' = [stack EXCEPT ![p] = <<>>]
      /\ lock' = [l \in Locks |-> IF lock[l] = p THEN "none" ELSE lock[l]]
      /\ coming' = [d \in Daemons |-> IF d \in victims THEN 0 ELSE coming[d]]
      /\ going' = [d \in Daemons |-> IF d \in victims THEN up[d] + going[d] ELSE going[d]]
      /\ up' = [d \in Daemons |-> IF d \in victims THEN 0 ELSE up[d]]
  BY DEF Life!GuardKill, Life!Locks, Locks, Life!Daemons, Daemons, Life!Count
<1>2. PICK f : f = stack[p][1] OBVIOUS
<1>3. Head(stack[p]) = f BY <1>2, <1>1, HeadIs DEF LifeInv
<1>4. ("mp4record" \in victims <=> f = <<"rec", "spawned">>) /\ ("motiond" \in victims <=> f = <<"motion", "observe">>)
  <2>1. victims = IF f = <<"rec", "spawned">> THEN {"mp4record"}
                  ELSE IF f = <<"motion", "observe">> THEN {"motiond"} ELSE {}
    BY <1>1, <1>3, Zenon DEF Life!Spawned
  <2>2. <<"rec", "spawned">> # <<"motion", "observe">> OBVIOUS
  <2> HIDE DEF victims
  <2> QED BY <2>1, <2>2
<1> HIDE DEF victims
<1>5. ControlInv' /\ Frames' \subseteq Frames /\ Tops' \subseteq Tops /\ Tops \ {f} \subseteq Tops'
  <2>1. ControlInv BY DEF LifeInv
  <2> QED BY <1>1, <1>2, <2>1, KillMove
<1>6. coming' \in [Daemons -> Nat] /\ up' \in [Daemons -> Nat] /\ going' \in [Daemons -> Nat] BY <1>0, <1>1
<1>7. \A d \in Daemons : coming'[d] <= coming[d] /\ Total(d)' <= Total(d) /\ up'[d] <= up[d] BY <1>0, <1>1 DEF Total
<1>8. \A d \in Daemons : Total(d) \in Nat /\ Total(d)' \in Nat BY <1>0, <1>6 DEF Total
<1>9. LifeTypes' BY <1>1, <1>6 DEF LifeInv, LifeTypes
<1>10. RecorderInv'
  <2>1. Total("mp4record")' <= 1 BY <1>7, <1>8 DEF LifeInv, RecorderInv, Daemons
  <2>2. ASSUME coming'["mp4record"] > 0 PROVE <<"rec", "spawned">> \in Tops'
    <3>1. "mp4record" \notin victims BY <1>1, <2>2 DEF Daemons
    <3>2. coming["mp4record"] > 0 BY <1>1, <2>2, <3>1 DEF Daemons
    <3> QED BY <1>4, <1>5, <3>1, <3>2 DEF LifeInv, RecorderInv
  <2> QED BY <2>1, <2>2 DEF RecorderInv
<1>11. CollectorInv' BY <1>0, <1>5, <1>6, <1>7 DEF LifeInv, CollectorInv, Daemons
<1>12. DetectorInv'
  <2>1. Total("motiond")' <= 1 BY <1>7, <1>8 DEF LifeInv, DetectorInv, Daemons
  <2>2. ASSUME coming'["motiond"] > 0 PROVE <<"motion", "observe">> \in Tops'
    <3>1. "motiond" \notin victims BY <1>1, <2>2 DEF Daemons
    <3>2. coming["motiond"] > 0 BY <1>1, <2>2, <3>1 DEF Daemons
    <3> QED BY <1>4, <1>5, <3>1, <3>2 DEF LifeInv, DetectorInv
  <2>3. Frames' \cap Cleared # {} => Total("motiond")' = 0 BY <1>5, <1>7, <1>8 DEF LifeInv, DetectorInv, Daemons
  <2> QED BY <2>1, <2>2, <2>3 DEF DetectorInv
<1>13. OffInv' BY <1>1, <1>5, <1>7, <1>8 DEF LifeInv, OffInv, Daemons
<1> QED BY <1>5, <1>9, <1>10, <1>11, <1>12, <1>13 DEF LifeInv

-----------------------------------------------------------------------------
(* The whole of a part whose daemons appear in time.                       *)
LEMMA ProcessStep ==
  ASSUME NEW C, NEW P, NEW F, NEW M, NEW X, LifeInv, NEW p \in Threads, Life(C, P, F, FALSE, M, X)!Step(p)
  PROVE  LifeInv'
<1>1. ASSUME NEW op \in Ops, Life(C, P, F, FALSE, M, X)!TakeLock(p, op) PROVE LifeInv' BY <1>1, TakeLockStep
<1>2. CASE Life(C, P, F, FALSE, M, X)!EventsGo(p) BY <1>2, EventsGoStep
<1>3. CASE Life(C, P, F, FALSE, M, X)!EventsStart(p) BY <1>3, EventsStartStep
<1>4. CASE Life(C, P, F, FALSE, M, X)!EventsCheck(p) BY <1>4, EventsCheckStep
<1>5. CASE Life(C, P, F, FALSE, M, X)!UnusedGo(p) BY <1>5, UnusedGoStep
<1>6. CASE Life(C, P, F, FALSE, M, X)!UnusedKill(p) BY <1>6, UnusedKillStep
<1>7. CASE Life(C, P, F, FALSE, M, X)!RecGo(p) BY <1>7, RecGoStep
<1>8. CASE Life(C, P, F, FALSE, M, X)!RecCount(p) BY <1>8, RecCountStep
<1>9. CASE Life(C, P, F, FALSE, M, X)!RecWait(p) BY <1>9, RecWaitStep
<1>10. CASE Life(C, P, F, FALSE, M, X)!RecStopGo(p) BY <1>10, RecStopGoStep
<1>11. CASE Life(C, P, F, FALSE, M, X)!RecStopWait(p) BY <1>11, RecStopWaitStep
<1>12. CASE Life(C, P, F, FALSE, M, X)!MotionGo(p) \/ Life(C, P, F, FALSE, M, X)!MotionStopGo(p) BY <1>12, MotionGoStep
<1>13. CASE Life(C, P, F, FALSE, M, X)!MotionConfig(p) BY <1>13, MotionConfigStep
<1>14. CASE Life(C, P, F, FALSE, M, X)!MotionRecord(p) BY <1>14, MotionRecordStep
<1>15. CASE Life(C, P, F, FALSE, M, X)!MotionAgain(p) BY <1>15, MotionAgainStep
<1>16. CASE Life(C, P, F, FALSE, M, X)!MotionSingle(p) BY <1>16, MotionSingleStep
<1>17. CASE Life(C, P, F, FALSE, M, X)!Disown(p) BY <1>17, DisownStep
<1>18. CASE Life(C, P, F, FALSE, M, X)!Disowned(p) BY <1>18, DisownedStep
<1>19. CASE Life(C, P, F, FALSE, M, X)!MotionDetector(p) BY <1>19, MotionDetectorStep
<1>20. CASE Life(C, P, F, FALSE, M, X)!MotionObserve(p) BY <1>20, MotionObserveStep
<1>21. Ops = Life(C, P, F, FALSE, M, X)!Ops BY DEF Ops, Life!Ops
<1> QED BY <1>1, <1>2, <1>3, <1>4, <1>5, <1>6, <1>7, <1>8, <1>9, <1>10, <1>11, <1>12, <1>13, <1>14, <1>15, <1>16,
           <1>17, <1>18, <1>19, <1>20, <1>21 DEF Life!Step

LEMMA PartStep ==
  ASSUME NEW C, NEW P, P \subseteq Ops, NEW F, F \subseteq [motion: BOOLEAN, save: BOOLEAN, rec: BOOLEAN], NEW M, NEW X,
         LifeInv, Threads = C \cup {wd}, Life(C, P, F, FALSE, M, X)!Next
  PROVE  LifeInv'
<1>1. ASSUME NEW p \in C \cup {wd}, Life(C, P, F, FALSE, M, X)!Step(p) PROVE LifeInv' BY <1>1, ProcessStep
<1>2. ASSUME NEW p \in C \cup {wd}, Life(C, P, F, FALSE, M, X)!GuardKill(p) PROVE LifeInv' BY <1>2, GuardKillStep
<1>3. ASSUME NEW c \in C, NEW op \in P, Life(C, P, F, FALSE, M, X)!Ask(c, op) PROVE LifeInv'
  <2>1. c \in Threads /\ op \in Ops BY <1>3
  <2> QED BY <1>3, <2>1, AskStep
<1>4. CASE Life(C, P, F, FALSE, M, X)!Check
  <2>1. wd \in Threads OBVIOUS
  <2> QED BY <1>4, <2>1, CheckStep
<1>5. ASSUME NEW d \in Daemons,
             \/ Life(C, P, F, FALSE, M, X)!Appear(d) \/ Life(C, P, F, FALSE, M, X)!Vanish(d)
             \/ Life(C, P, F, FALSE, M, X)!OomKill(d)
      PROVE  LifeInv'
  BY <1>5, DaemonStep
<1>6. Daemons = Life(C, P, F, FALSE, M, X)!Daemons BY DEF Daemons, Life!Daemons
<1>7. C \cup {wd} = Life(C, P, F, FALSE, M, X)!Procs BY DEF Life!Procs
<1> QED BY <1>1, <1>2, <1>3, <1>4, <1>5, <1>6, <1>7 DEF Life!Next

\* The processes of a part stay the same.
LEMMA ThreadsStay ==
  ASSUME NEW C, NEW P, NEW F, NEW S, NEW M, NEW X, Life(C, P, F, S, M, X)!Next
  PROVE  Threads' = Threads
<1>a. ASSUME NEW p, NEW step, Life(C, P, F, S, M, X)!Goto(p, step) PROVE Threads' = Threads
  BY <1>a DEF Life!Goto, Threads
<1>b. ASSUME NEW p, NEW op, NEW step, Life(C, P, F, S, M, X)!Call(p, op, step) PROVE Threads' = Threads
  BY <1>b DEF Life!Call, Threads
<1>c. ASSUME NEW p, NEW status1, Life(C, P, F, S, M, X)!Return(p, status1) PROVE Threads' = Threads
  BY <1>c DEF Life!Return, Threads
<1>d. ASSUME UNCHANGED stack PROVE Threads' = Threads BY <1>d DEF Threads
<1>e. ASSUME NEW p, NEW t, stack' = [stack EXCEPT ![p] = t] PROVE Threads' = Threads BY <1>e DEF Threads
<1>1. ASSUME NEW p, NEW op, Life(C, P, F, S, M, X)!TakeLock(p, op) PROVE Threads' = Threads
  BY <1>1, <1>a, <1>c DEF Life!TakeLock
<1>2. ASSUME NEW p, Life(C, P, F, S, M, X)!EventsGo(p) PROVE Threads' = Threads BY <1>2, <1>a, <1>c DEF Life!EventsGo
<1>3. ASSUME NEW p, Life(C, P, F, S, M, X)!EventsStart(p) PROVE Threads' = Threads BY <1>3, <1>a DEF Life!EventsStart
<1>4. ASSUME NEW p, Life(C, P, F, S, M, X)!EventsCheck(p) PROVE Threads' = Threads BY <1>4, <1>c DEF Life!EventsCheck
<1>5. ASSUME NEW p, Life(C, P, F, S, M, X)!UnusedGo(p) PROVE Threads' = Threads BY <1>5, <1>a, <1>c DEF Life!UnusedGo
<1>6. ASSUME NEW p, Life(C, P, F, S, M, X)!UnusedKill(p) PROVE Threads' = Threads BY <1>6, <1>c DEF Life!UnusedKill
<1>7. ASSUME NEW p, Life(C, P, F, S, M, X)!RecGo(p) PROVE Threads' = Threads BY <1>7, <1>b DEF Life!RecGo
<1>8. ASSUME NEW p, Life(C, P, F, S, M, X)!RecCount(p) PROVE Threads' = Threads BY <1>8, <1>a, <1>c DEF Life!RecCount
<1>9. ASSUME NEW p, Life(C, P, F, S, M, X)!RecWait(p) PROVE Threads' = Threads BY <1>9, <1>c DEF Life!RecWait
<1>10. ASSUME NEW p, Life(C, P, F, S, M, X)!RecStopGo(p) PROVE Threads' = Threads BY <1>10, <1>a DEF Life!RecStopGo
<1>11. ASSUME NEW p, Life(C, P, F, S, M, X)!RecStopWait(p) PROVE Threads' = Threads BY <1>11, <1>c DEF Life!RecStopWait
<1>12. ASSUME NEW p, Life(C, P, F, S, M, X)!MotionGo(p) PROVE Threads' = Threads BY <1>12, <1>a DEF Life!MotionGo
<1>13. ASSUME NEW p, Life(C, P, F, S, M, X)!MotionConfig(p) PROVE Threads' = Threads
  BY <1>13, <1>a, <1>b DEF Life!MotionConfig
<1>14. ASSUME NEW p, Life(C, P, F, S, M, X)!MotionRecord(p) PROVE Threads' = Threads
  BY <1>14, <1>a, <1>b, <1>c DEF Life!MotionRecord
<1>15. ASSUME NEW p, Life(C, P, F, S, M, X)!MotionAgain(p) PROVE Threads' = Threads
  BY <1>15, <1>a, <1>b, <1>c DEF Life!MotionAgain
<1>16. ASSUME NEW p, Life(C, P, F, S, M, X)!MotionSingle(p) PROVE Threads' = Threads
  BY <1>16, <1>a, <1>c DEF Life!MotionSingle
<1>17. ASSUME NEW p, Life(C, P, F, S, M, X)!Disown(p) PROVE Threads' = Threads BY <1>17, <1>a, <1>b DEF Life!Disown
<1>18. ASSUME NEW p, Life(C, P, F, S, M, X)!Disowned(p) PROVE Threads' = Threads BY <1>18, <1>a, <1>c DEF Life!Disowned
<1>19. ASSUME NEW p, Life(C, P, F, S, M, X)!MotionDetector(p) PROVE Threads' = Threads
  BY <1>19, <1>a DEF Life!MotionDetector
<1>20. ASSUME NEW p, Life(C, P, F, S, M, X)!MotionObserve(p) PROVE Threads' = Threads
  BY <1>20, <1>c DEF Life!MotionObserve
<1>21. ASSUME NEW p, Life(C, P, F, S, M, X)!MotionStopGo(p) PROVE Threads' = Threads
  BY <1>21, <1>a DEF Life!MotionStopGo
<1>22. ASSUME NEW p, Life(C, P, F, S, M, X)!Step(p) PROVE Threads' = Threads
  BY <1>22, <1>1, <1>2, <1>3, <1>4, <1>5, <1>6, <1>7, <1>8, <1>9, <1>10, <1>11, <1>12, <1>13, <1>14, <1>15, <1>16,
     <1>17, <1>18, <1>19, <1>20, <1>21 DEF Life!Step
<1>23. ASSUME NEW p, Life(C, P, F, S, M, X)!GuardKill(p) PROVE Threads' = Threads BY <1>23, <1>e DEF Life!GuardKill
<1>24. ASSUME NEW p, NEW op, Life(C, P, F, S, M, X)!Ask(p, op) PROVE Threads' = Threads BY <1>24, <1>e DEF Life!Ask
<1>25. ASSUME Life(C, P, F, S, M, X)!Check PROVE Threads' = Threads
  BY <1>25, <1>d, <1>e DEF Life!Check, Life!CheckMotion, Life!CheckAux, Life!Begin
<1>26. ASSUME NEW d, \/ Life(C, P, F, S, M, X)!Appear(d) \/ Life(C, P, F, S, M, X)!Vanish(d)
                     \/ Life(C, P, F, S, M, X)!OomKill(d)
       PROVE  Threads' = Threads
  BY <1>26, <1>d DEF Life!Appear, Life!Vanish, Life!OomKill
<1> QED BY <1>22, <1>23, <1>24, <1>25, <1>26 DEF Life!Next

\* With one configuration that wants detection, nothing reports it off.
LEMMA LateStep ==
  ASSUME NEW C, NEW P, NEW F, \A c \in F : c.motion = TRUE, NEW S, NEW M, NEW X,
         Life(C, P, F, S, M, X)!Next, cfg.motion = TRUE, off = FALSE
  PROVE  cfg'.motion = TRUE /\ off' = FALSE
<1>0. ASSUME UNCHANGED <<cfg, off>> PROVE cfg'.motion = TRUE /\ off' = FALSE BY <1>0
<1>1. ASSUME NEW p, Life(C, P, F, S, M, X)!Step(p), ~Life(C, P, F, S, M, X)!Disowned(p) PROVE UNCHANGED <<cfg, off>>
  <2>1. ASSUME NEW op, Life(C, P, F, S, M, X)!TakeLock(p, op) PROVE UNCHANGED <<cfg, off>>
    BY <2>1 DEF Life!TakeLock, Life!outer
  <2>2. CASE \/ Life(C, P, F, S, M, X)!EventsGo(p) \/ Life(C, P, F, S, M, X)!EventsStart(p)
             \/ Life(C, P, F, S, M, X)!EventsCheck(p) \/ Life(C, P, F, S, M, X)!UnusedGo(p)
             \/ Life(C, P, F, S, M, X)!UnusedKill(p) \/ Life(C, P, F, S, M, X)!RecGo(p)
    BY <2>2 DEF Life!EventsGo, Life!EventsStart, Life!EventsCheck, Life!UnusedGo, Life!UnusedKill, Life!RecGo,
           Life!outer
  <2>3. CASE \/ Life(C, P, F, S, M, X)!RecCount(p) \/ Life(C, P, F, S, M, X)!RecWait(p)
             \/ Life(C, P, F, S, M, X)!RecStopGo(p) \/ Life(C, P, F, S, M, X)!RecStopWait(p)
             \/ Life(C, P, F, S, M, X)!MotionGo(p) \/ Life(C, P, F, S, M, X)!MotionConfig(p)
    BY <2>3 DEF Life!RecCount, Life!RecWait, Life!RecStopGo, Life!RecStopWait, Life!MotionGo, Life!MotionConfig,
                Life!Await, Life!outer
  <2>4. CASE \/ Life(C, P, F, S, M, X)!MotionRecord(p) \/ Life(C, P, F, S, M, X)!MotionAgain(p)
             \/ Life(C, P, F, S, M, X)!MotionSingle(p) \/ Life(C, P, F, S, M, X)!Disown(p)
    BY <2>4 DEF Life!MotionRecord, Life!MotionAgain, Life!MotionSingle, Life!Disown, Life!outer
  <2>5. CASE \/ Life(C, P, F, S, M, X)!MotionDetector(p) \/ Life(C, P, F, S, M, X)!MotionObserve(p)
             \/ Life(C, P, F, S, M, X)!MotionStopGo(p)
    BY <2>5 DEF Life!MotionDetector, Life!MotionObserve, Life!MotionStopGo, Life!Await, Life!outer
  <2> QED BY <1>1, <2>1, <2>2, <2>3, <2>4, <2>5 DEF Life!Step
<1>2. ASSUME NEW p, Life(C, P, F, S, M, X)!Disowned(p) PROVE cfg'.motion = TRUE /\ off' = FALSE
  <2>1. cfg' = cfg /\ (off' = off \/ off' = (off \/ ~cfg.motion)) BY <1>2 DEF Life!Disowned
  <2> QED BY <2>1
<1>3. ASSUME NEW p, Life(C, P, F, S, M, X)!GuardKill(p) PROVE UNCHANGED <<cfg, off>> BY <1>3 DEF Life!GuardKill
<1>4. ASSUME NEW p, NEW op, Life(C, P, F, S, M, X)!Ask(p, op) PROVE cfg'.motion = TRUE /\ off' = FALSE
  <2>1. CASE UNCHANGED <<cfg, off>> BY <2>1
  <2>2. CASE \E new \in F : cfg' = new /\ off' = (off /\ new = cfg)
    <3>1. PICK new \in F : cfg' = new /\ off' = (off /\ new = cfg) BY <2>2
    <3> QED BY <3>1
  <2> QED BY <1>4, <2>1, <2>2 DEF Life!Ask
<1>5. ASSUME Life(C, P, F, S, M, X)!Check PROVE UNCHANGED <<cfg, off>>
  BY <1>5 DEF Life!Check, Life!CheckMotion, Life!CheckAux
<1>6. ASSUME NEW d, \/ Life(C, P, F, S, M, X)!Appear(d) \/ Life(C, P, F, S, M, X)!Vanish(d)
                    \/ Life(C, P, F, S, M, X)!OomKill(d)
      PROVE  UNCHANGED <<cfg, off>>
  BY <1>6 DEF Life!Appear, Life!Vanish, Life!OomKill
<1> QED BY <1>0, <1>1, <1>2, <1>3, <1>4, <1>5, <1>6 DEF Life!Next

LEMMA ModesTyped ==
  /\ AllModes \subseteq [motion: BOOLEAN, save: BOOLEAN, rec: BOOLEAN]
  /\ ClipsOnly \subseteq [motion: BOOLEAN, save: BOOLEAN, rec: BOOLEAN]
  /\ \A c \in ClipsOnly : c.motion = TRUE
  /\ AllOps \subseteq Ops /\ Controls \subseteq Ops
BY DEF AllModes, ClipsOnly, Settings, AllOps, Controls, Ops

\* At first nothing runs and nobody is under way.
LEMMA LifeStarts ==
  ASSUME NEW C, "none" \notin C \cup {wd}, NEW P, NEW F, F \subseteq [motion: BOOLEAN, save: BOOLEAN, rec: BOOLEAN],
         NEW M, NEW X, Life(C, P, F, FALSE, M, X)!Init
  PROVE  LifeInv /\ Threads = C \cup {wd} /\ off = FALSE
<1>1. /\ cfg \in F /\ coming = [d \in Daemons |-> 0] /\ up = coming /\ going = coming /\ off = FALSE
      /\ lock = [l \in Locks |-> "none"] /\ stack = [p \in C \cup {wd} |-> <<>>]
  BY DEF Life!Init, Life!Daemons, Life!Locks, Life!Procs, Daemons, Locks
<1>2. Threads = C \cup {wd} /\ \A p \in Threads : stack[p] = <<>> BY <1>1 DEF Threads
<1>3. Nested(<<>>) BY DEF Nested
<1>4. \A p \in Threads : HeldBy(p, <<>>) BY DEF HeldBy
<1>5. ControlInv BY <1>1, <1>2, <1>3, <1>4 DEF ControlInv
<1>6. LifeTypes BY <1>1 DEF LifeTypes
<1>7. Tops = {} BY <1>2 DEF Tops
<1>8. Frames = {} BY <1>2 DEF Frames
<1>9. \A d \in Daemons : coming[d] = 0 /\ up[d] = 0 /\ going[d] = 0 /\ Total(d) = 0 BY <1>1 DEF Total
<1>10. RecorderInv /\ CollectorInv /\ DetectorInv BY <1>7, <1>8, <1>9 DEF RecorderInv, CollectorInv, DetectorInv,
  Daemons
<1>11. OffInv BY <1>1 DEF OffInv
<1> QED BY <1>1, <1>2, <1>5, <1>6, <1>10, <1>11 DEF LifeInv

\* Nobody else touches the services.
LEMMA LifeRests == ASSUME ServicesInv, UNCHANGED <<life, part>> PROVE ServicesInv'
<1>1. UNCHANGED <<stack, lock, coming, up, going, cfg, off, part>> BY DEF life
<1>2. CASE part = "late" BY <1>1, <1>2 DEF ServicesInv
<1>3. CASE part # "late"
  <2>1. LifeInv /\ Threads = Callers \cup {wd} BY <1>3 DEF ServicesInv
  <2>2. LifeInv' BY <1>1, <2>1, Resting
  <2>3. Threads' = Threads /\ Callers' = Callers /\ part' # "late" BY <1>1, <1>3 DEF Threads, Callers
  <2> QED BY <2>1, <2>2, <2>3 DEF ServicesInv
<1> QED BY <1>2, <1>3

LEMMA ServicesStep ==
  ASSUME ServicesInv, Services, UNCHANGED part
  PROVE  ServicesInv'
<1>1. ASSUME NEW C, NEW P, P \subseteq Ops, NEW F, F \subseteq [motion: BOOLEAN, save: BOOLEAN, rec: BOOLEAN],
             NEW M, NEW X, part # "late", Callers = C, Life(C, P, F, FALSE, M, X)!Next
      PROVE  ServicesInv'
  <2>1. LifeInv /\ Threads = C \cup {wd} BY <1>1 DEF ServicesInv
  <2>2. LifeInv' BY <1>1, <2>1, PartStep
  <2>3. Threads' = Threads BY <1>1, ThreadsStay
  <2>4. Callers' = C /\ part' # "late" BY <1>1 DEF Callers
  <2> QED BY <2>1, <2>2, <2>3, <2>4 DEF ServicesInv
<1>2. CASE part = "killed" /\ Life(Many, Controls, ClipsOnly, FALSE, ManyOps, MaxKills)!Next
  <2>1. part # "late" /\ Callers = Many BY <1>2 DEF Callers
  <2> QED BY <1>1, <1>2, <2>1, ModesTyped
<1>3. CASE part = "changed" /\ Life(Many, AllOps, AllModes, FALSE, ManyOps, 0)!Next
  <2>1. part # "late" /\ Callers = Many BY <1>3 DEF Callers
  <2> QED BY <1>1, <1>3, <2>1, ModesTyped
<1>4. CASE part = "both" /\ Life(One, AllOps, AllModes, FALSE, FewOps, MaxKills)!Next
  <2>1. part # "late" /\ Callers = One BY <1>4 DEF Callers
  <2> QED BY <1>1, <1>4, <2>1, ModesTyped
<1>5. CASE part = "late" /\ Life(One, {"motion", "recstop"}, ClipsOnly, TRUE, ManyOps, MaxKills)!Next
  <2>1. cfg.motion = TRUE /\ off = FALSE BY <1>5 DEF ServicesInv
  <2>2. cfg'.motion = TRUE /\ off' = FALSE BY <1>5, <2>1, LateStep, ModesTyped
  <2> QED BY <1>5, <2>2 DEF ServicesInv
<1> QED BY <1>2, <1>3, <1>4, <1>5 DEF Services

(* For any number of callers beside the watchdog, any number of operations *)
(* they ask for, of kills of workers and daemons and of changes of the     *)
(* settings: there is one recorder, one collector and one detector, and    *)
(* detection that was reported off stays off (service.sh:523,              *)
(* motion_service.sh:244, :416).                                           *)
THEOREM ServicesAreSingle == Spec => []Singletons
<1>1. Init => ServicesInv
  <2> SUFFICES ASSUME Init PROVE ServicesInv OBVIOUS
  <2>1. "none" \notin Many \cup {wd} /\ "none" \notin One \cup {wd}
    BY LifeConstants DEF Life!LifecycleAssumption, Life!Procs
  <2>2. LifeInv /\ Threads = Callers \cup {wd} /\ off = FALSE
    <3>1. CASE part \in {"killed", "changed"} /\ Life(Many, AllOps, AllModes, FALSE, ManyOps, MaxKills)!Init
      <4>1. LifeInv /\ Threads = Many \cup {wd} /\ off = FALSE BY <2>1, <3>1, ModesTyped, LifeStarts
      <4> QED BY <3>1, <4>1 DEF Callers
    <3>2. CASE part \notin {"killed", "changed"} /\ Life(One, AllOps, AllModes, FALSE, FewOps, MaxKills)!Init
      <4>1. LifeInv /\ Threads = One \cup {wd} /\ off = FALSE BY <2>1, <3>2, ModesTyped, LifeStarts
      <4> QED BY <3>2, <4>1 DEF Callers
    <3> QED BY <3>1, <3>2 DEF Init
  <2>3. part = "late" => cfg.motion = TRUE BY ModesTyped DEF Init
  <2> QED BY <2>2, <2>3 DEF ServicesInv
<1>2. ServicesInv /\ [Next]_vars => ServicesInv'
  <2> SUFFICES ASSUME ServicesInv, [Next]_vars PROVE ServicesInv' OBVIOUS
  <2>1. CASE UNCHANGED <<life, part>> BY <2>1, LifeRests
  <2>2. CASE Services /\ UNCHANGED part BY <2>2, ServicesStep
  <2> QED BY <2>1, <2>2 DEF Next, vars
<1>3. ServicesInv => Singletons
  <2> SUFFICES ASSUME ServicesInv PROVE Singletons OBVIOUS
  <2>1. CASE part = "late" BY <2>1 DEF ServicesInv, Singletons, Life!MotionStaysOff
  <2>2. CASE part # "late"
    <3>1. LifeInv BY <2>2 DEF ServicesInv
    <3>2. \A d \in Daemons : coming[d] \in Nat /\ up[d] \in Nat /\ going[d] \in Nat BY <3>1, Counts
    <3>3. Life(One, AllOps, AllModes, FALSE, FewOps, MaxKills)!Singletons
      BY <3>1, <3>2 DEF Life!Singletons, Life!Count, LifeInv, RecorderInv, CollectorInv, DetectorInv, Total, Daemons
    <3>4. Life(One, AllOps, AllModes, FALSE, FewOps, MaxKills)!MotionStaysOff
      BY <3>1, <3>2 DEF Life!MotionStaysOff, Life!Count, LifeInv, OffInv, Total, Daemons
    <3> QED BY <3>3, <3>4 DEF Singletons
  <2> QED BY <2>1, <2>2
<1> QED BY <1>1, <1>2, <1>3, PTL DEF Spec
=============================================================================
