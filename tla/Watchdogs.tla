----------------------------- MODULE Watchdogs -----------------------------
(***************************************************************************)
(* The watchdogs of a session (internal/session/keepalive.go): the loop    *)
(* that sends PINGs and the four watches that close the session with a     *)
(* RestartError, each on a ticker of its own, against the timestamps that  *)
(* WriteCtx and handleDataIn leave.                                        *)
(*                                                                         *)
(* Time is discrete; its unit is the 100 ms below which no watch samples.  *)
(* A timestamp is kept as its age, up to the last threshold it is compared *)
(* with.  Never is the timestamp 0.  A watch that fires ends the model:    *)
(* how the session closes is module Session's.                             *)
(*                                                                         *)
(* A name that ends in an underscore and a word is a faulty variant of the *)
(* definition that follows it; no action uses one.                         *)
(***************************************************************************)
EXTENDS Integers, FiniteSetsExt

CONSTANTS
  PingInterval, PingRestart,               (* pushed, or the defaults      *)
  WarmupFast, ThresholdFast, FastWindow,   (* dataActivityWatch at first   *)
  WarmupSteady, ThresholdSteady,           (* ... and later                *)
  CheckPeriod,                             (* dataActivityCheckPeriod      *)
  HardResetThreshold, HardResetPeriod,
  WakeGap, WakePeriod,
  L4,               (* protocols with timestamps of their own              *)
  ServerInterval,   (* the server sends something at least this often      *)
  SleepLengths      (* how long the host may sleep                         *)

ASSUME WatchdogsAssumption ==
  /\ {PingInterval, PingRestart, WarmupFast, ThresholdFast, FastWindow, WarmupSteady,
      ThresholdSteady, CheckPeriod, HardResetThreshold, HardResetPeriod, WakeGap,
      WakePeriod, ServerInterval} \subseteq Nat \ {0}
  /\ WarmupFast <= WarmupSteady /\ ThresholdFast <= ThresholdSteady
  /\ SleepLengths \subseteq Nat

Never == -1
Watches == {"keepaliveLoop", "pingRestartWatch", "dataActivityWatch", "hardResetWatch",
            "wakeDetectorWatch"}

VARIABLES
  lastInbound, lastDataInbound, lastUserOutbound,   (* ages of timestamps  *)
  lastDataInboundL4, lastUserOutboundL4,   (* one age for each protocol    *)
  lastPingSent,        (* of keepaliveLoop                                 *)
  lastTick,            (* of wakeDetectorWatch                             *)
  age,                 (* since the start of dataActivityWatch             *)
  statsHardResetIn,
  due,                 (* due[w]: time until w's ticker fires              *)
  closeErr,
  alive,               (* the server is there                              *)
  lastServerSent,      (* age of its last packet                           *)
  lastSent, lastTry,   (* history: ages of the last packet to go out and   *)
                       (* of the last attempt to send one                  *)
  slept,               (* history: for how long the host has slept         *)
  userSent,            (* history: the user has sent something             *)
  waiting              (* history: for how long w has had a reason to fire *)

stampVars == <<lastInbound, lastDataInbound, lastUserOutbound, lastDataInboundL4,
               lastUserOutboundL4>>
loopVars == <<lastPingSent, lastTick, age, due>>
historyVars == <<lastSent, lastTry, slept, userSent, waiting>>
vars == <<stampVars, loopVars, statsHardResetIn, closeErr, alive,
          lastServerSent, historyVars>>

(* A quarter of the interval, between the unit of time and a limit. *)
Quarter(interval, limit) == Min({Max({interval \div 4, 1}), limit})
Period == [w \in Watches |->
  CASE w = "keepaliveLoop" -> Quarter(PingInterval, PingInterval)
    [] w = "pingRestartWatch" -> Quarter(PingRestart, 10)
    [] w = "dataActivityWatch" -> Quarter(ThresholdFast, CheckPeriod)
    [] w = "hardResetWatch" -> HardResetPeriod
    [] w = "wakeDetectorWatch" -> WakePeriod]

(* The age from which dataActivityWatch goes by the steady values only. *)
Grown == Max({FastWindow, WarmupSteady, ThresholdSteady})

(* DialWithTransport seeds the aggregate timestamps, not those per L4. *)
Init ==
  /\ lastInbound = 0 /\ lastDataInbound = 0 /\ lastUserOutbound = 0
  /\ lastDataInboundL4 = [l \in L4 |-> Never]
  /\ lastUserOutboundL4 = [l \in L4 |-> Never]
  /\ lastPingSent = 0 /\ lastTick = 0 /\ age = 0
  /\ statsHardResetIn = 0
  /\ due = Period
  /\ closeErr = "nil"
  /\ alive = TRUE /\ lastServerSent = 0
  /\ lastSent = 0 /\ lastTry = 0 /\ slept = 0 /\ userSent = FALSE
  /\ waiting = [w \in Watches |-> 0]

-----------------------------------------------------------------------------
(* The watches, each at a tick *)

Ticks(w) ==
  /\ closeErr = "nil"
  /\ due[w] = 0
  /\ due' = [due EXCEPT ![w] = Period[w]]
  /\ UNCHANGED <<stampVars, age, statsHardResetIn, alive, lastServerSent,
                 slept, userSent, waiting>>

(* keepaliveLoop: a PING is due when neither user data nor a PING has gone *)
(* out for PingInterval.  One that cannot be written is tried again at the *)
(* next tick.                                                              *)
PingDue == Min({lastUserOutbound, lastPingSent}) >= PingInterval

KeepaliveTick_Optimistic ==
  /\ Ticks("keepaliveLoop")
  /\ IF PingDue
     THEN lastTry' = 0 /\ lastPingSent' = 0 /\ (lastSent' = 0 \/ UNCHANGED lastSent)
     ELSE UNCHANGED <<lastSent, lastTry, lastPingSent>>
  /\ UNCHANGED <<lastTick, closeErr>>
KeepaliveTick ==
  /\ Ticks("keepaliveLoop")
  /\ IF PingDue
     THEN /\ lastTry' = 0
          /\ \/ lastPingSent' = 0 /\ lastSent' = 0
             \/ UNCHANGED <<lastPingSent, lastSent>>
     ELSE UNCHANGED <<lastSent, lastTry, lastPingSent>>
  /\ UNCHANGED <<lastTick, closeErr>>

PingRestartTick ==
  /\ Ticks("pingRestartWatch")
  /\ IF lastInbound >= PingRestart THEN closeErr' = "ping-restart timeout"
     ELSE UNCHANGED closeErr
  /\ UNCHANGED <<lastTick, lastSent, lastTry, lastPingSent>>

(* checkStallWithFloor: the age of the session stands in for an answer     *)
(* that never came.                                                        *)
checkStallWithFloor(threshold, out, in) ==
  /\ out # Never /\ out < threshold
  /\ (IF in # Never THEN in ELSE age) >= threshold

(* decideActivityStall *)
decideActivityStall(threshold) ==
  \/ \E l \in L4 : checkStallWithFloor(threshold, lastUserOutboundL4[l], lastDataInboundL4[l])
  \/ lastUserOutbound < threshold /\ lastDataInbound >= threshold

DataActivityTick ==
  LET fast == age < FastWindow
      warmup == IF fast THEN WarmupFast ELSE WarmupSteady
      threshold == IF fast THEN ThresholdFast ELSE ThresholdSteady
  IN /\ Ticks("dataActivityWatch")
     /\ IF age >= warmup /\ decideActivityStall(threshold)
        THEN closeErr' = "data-activity stuck"
        ELSE UNCHANGED closeErr
     /\ UNCHANGED <<lastTick, lastSent, lastTry, lastPingSent>>

HardResetTick ==
  /\ Ticks("hardResetWatch")
  /\ IF statsHardResetIn >= HardResetThreshold THEN closeErr' = "server hard-reset"
     ELSE UNCHANGED closeErr
  /\ UNCHANGED <<lastTick, lastSent, lastTry, lastPingSent>>

WakeDetectorTick ==
  /\ Ticks("wakeDetectorWatch")
  /\ lastTick' = 0
  /\ IF lastTick >= WakeGap THEN closeErr' = "wake from sleep" ELSE UNCHANGED closeErr
  /\ UNCHANGED <<lastSent, lastTry, lastPingSent>>

WatchTicks ==
  \/ KeepaliveTick \/ PingRestartTick \/ DataActivityTick \/ HardResetTick
  \/ WakeDetectorTick

-----------------------------------------------------------------------------
(* Packets *)

(* WriteCtx; l is the protocol, or something sniffL4 does not know. *)
UserSends(l) ==
  /\ closeErr = "nil"
  /\ lastUserOutbound' = 0
  /\ lastUserOutboundL4' = [k \in L4 |-> IF k = l THEN 0 ELSE lastUserOutboundL4[k]]
  /\ lastSent' = 0 /\ lastTry' = 0 /\ userSent' = TRUE
  /\ UNCHANGED <<lastInbound, lastDataInbound, lastDataInboundL4, loopVars,
                 statsHardResetIn, closeErr, alive, lastServerSent, slept, waiting>>

(* handleDataIn, for a packet of user data ... *)
DataArrives(l) ==
  /\ closeErr = "nil" /\ alive
  /\ lastInbound' = 0 /\ lastDataInbound' = 0
  /\ lastDataInboundL4' = [k \in L4 |-> IF k = l THEN 0 ELSE lastDataInboundL4[k]]
  /\ lastServerSent' = 0
  /\ UNCHANGED <<lastUserOutbound, lastUserOutboundL4, loopVars, statsHardResetIn,
                 closeErr, alive, historyVars>>

(* ... and for a PING. *)
PingArrives_NotSeen ==
  /\ closeErr = "nil" /\ alive
  /\ lastServerSent' = 0
  /\ UNCHANGED <<stampVars, loopVars, statsHardResetIn, closeErr, alive,
                 historyVars>>
PingArrives ==
  /\ closeErr = "nil" /\ alive
  /\ lastInbound' = 0
  /\ lastServerSent' = 0
  /\ UNCHANGED <<lastDataInbound, lastUserOutbound, lastDataInboundL4,
                 lastUserOutboundL4, loopVars, statsHardResetIn, closeErr, alive,
                 historyVars>>

(* handleControlIn: a HARD_RESET of a server that has lost the session. *)
HardResetArrives ==
  /\ closeErr = "nil"
  /\ statsHardResetIn < HardResetThreshold
  /\ statsHardResetIn' = statsHardResetIn + 1
  /\ UNCHANGED <<stampVars, loopVars, closeErr, alive, lastServerSent,
                 historyVars>>

ServerDies ==
  /\ alive
  /\ alive' = FALSE
  /\ UNCHANGED <<stampVars, loopVars, statsHardResetIn, closeErr, lastServerSent,
                 historyVars>>

-----------------------------------------------------------------------------
(* Time *)

Older(a, d, most) == IF a = Never THEN Never ELSE Min({a + d, most})

(* What each watch is to notice. *)
Reason(w) ==
  \/ w = "pingRestartWatch" /\ lastInbound >= PingRestart
  \/ w = "dataActivityWatch" /\ age = Grown
     /\ lastUserOutbound < ThresholdSteady /\ lastDataInbound >= ThresholdSteady
  \/ w = "hardResetWatch" /\ statsHardResetIn >= HardResetThreshold
  \/ w = "wakeDetectorWatch" /\ slept >= WakeGap

Waits(d) ==
  waiting' = [w \in Watches |-> IF Reason(w) /\ Reason(w)' THEN waiting[w] + d ELSE 0]

(* Wall-clock time passes; nobody is late for a tick, and a server that is *)
(* there does not miss its own PINGs.                                      *)
Wall(d) ==
  /\ lastInbound' = Older(lastInbound, d, PingRestart)
  /\ lastDataInbound' = Older(lastDataInbound, d, ThresholdSteady)
  /\ lastUserOutbound' = Older(lastUserOutbound, d, Max({ThresholdSteady, PingInterval}))
  /\ lastDataInboundL4' = [l \in L4 |-> Older(lastDataInboundL4[l], d, ThresholdSteady)]
  /\ lastUserOutboundL4' = [l \in L4 |-> Older(lastUserOutboundL4[l], d, ThresholdSteady)]
  /\ lastServerSent' = Older(lastServerSent, d, ServerInterval)
  /\ lastSent' = Older(lastSent, d, 2 * PingInterval)
  /\ lastTry' = Older(lastTry, d, 2 * PingInterval)

TimePasses ==
  /\ closeErr = "nil"
  /\ \A w \in Watches : due[w] > 0
  /\ alive => lastServerSent < ServerInterval
  /\ Wall(1)
  /\ lastTick' = Older(lastTick, 1, WakeGap)
  /\ lastPingSent' = Older(lastPingSent, 1, PingInterval)
  /\ age' = Older(age, 1, Grown)
  /\ due' = [w \in Watches |-> due[w] - 1]
  /\ UNCHANGED <<statsHardResetIn, closeErr, alive, slept, userSent>>
  /\ Waits(1)

(* The host sleeps.  The monotonic clock, which tickers, lastPingSent and  *)
(* the age of the session go by, may stop meanwhile.                       *)
WakeClock_Monotonic(d, stops) == IF stops THEN lastTick ELSE Older(lastTick, d, WakeGap)
WakeClock(d, stops) == Older(lastTick, d, WakeGap)

Sleep(d) ==
  /\ closeErr = "nil" /\ slept = 0
  /\ slept' = d
  /\ Wall(d)
  /\ \E stops \in BOOLEAN :
       /\ lastTick' = WakeClock(d, stops)
       /\ lastPingSent' = IF stops THEN lastPingSent ELSE Older(lastPingSent, d, PingInterval)
       /\ age' = IF stops THEN age ELSE Older(age, d, Grown)
       /\ due' = IF stops THEN due ELSE [w \in Watches |-> Max({due[w] - d, 0})]
  /\ UNCHANGED <<statsHardResetIn, closeErr, alive, userSent>>
  /\ Waits(0)

Next ==
  \/ WatchTicks
  \/ \E l \in L4 \cup {"other"} : UserSends(l) \/ DataArrives(l)
  \/ PingArrives \/ HardResetArrives \/ ServerDies
  \/ TimePasses
  \/ \E d \in SleepLengths : Sleep(d)

Spec == Init /\ [][Next]_vars

-----------------------------------------------------------------------------
(* Properties *)

(* Whatever a watch is there for ends the session within one period of its *)
(* ticker: silence of the server, user data that is not answered, a server *)
(* that has forgotten the session, and a host that has slept, also where   *)
(* the monotonic clock stops meanwhile.                                    *)
NoticedInTime == \A w \in Watches : waiting[w] <= Period[w] \/ closeErr # "nil"

(* A session that works is kept.  A server that keeps to its interval,     *)
(* which is shorter than PingRestart, is never taken for dead; and while   *)
(* nobody sends, the session is not restarted for want of an answer: "no   *)
(* outbound -> no expectation of inbound" (keepalive.go:294-295).          *)
HealthySessionKept ==
  /\ alive /\ slept = 0 => closeErr # "ping-restart timeout"
  /\ ~userSent => closeErr # "data-activity stuck"

(* The server hears of the client in time: something is sent, or at least  *)
(* tried, at most a quarter of PingInterval late, and a PING that could    *)
(* not be written is tried again after another quarter (keepaliveLoop).    *)
PingsFlow ==
  LET quarter == Max({PingInterval \div 4, 1})
  IN slept = 0 =>
       /\ lastTry < PingInterval + quarter
       /\ lastSent >= PingInterval + quarter => lastTry <= quarter

=============================================================================
