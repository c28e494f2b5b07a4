--------------------------- MODULE LifecycleProofs ---------------------------
(***************************************************************************)
(* What ends a session by itself and how one comes up: the watchdogs, for  *)
(* every choice of intervals, thresholds and protocols and for a host that *)
(* may sleep for any time, and the Dial that starts them.                  *)
(***************************************************************************)
EXTENDS Lifecycle, TLAPS

(* The provers every leaf may use, and how long the first may take. *)
USE SMTT(20), Zenon

-----------------------------------------------------------------------------
(* Ages and periods *)

(* The smaller of two integers ... *)
LEMMA MinOfTwo ==
  ASSUME NEW a \in Int, NEW b \in Int
  PROVE  Min({a, b}) = IF a <= b THEN a ELSE b
<1> DEFINE m == IF a <= b THEN a ELSE b
<1>1. m \in {a, b} /\ \A y \in {a, b} : m <= y
  OBVIOUS
<1>2. \A x \in {a, b} : (\A y \in {a, b} : x <= y) => x = m
  OBVIOUS
<1> HIDE DEF m
<1>3. (CHOOSE x \in {a, b} : \A y \in {a, b} : x <= y) = m
  BY <1>1, <1>2
<1> QED BY <1>3 DEF Min, m

(* ... and the larger one. *)
LEMMA MaxOfTwo ==
  ASSUME NEW a \in Int, NEW b \in Int
  PROVE  Max({a, b}) = IF a >= b THEN a ELSE b
<1> DEFINE m == IF a >= b THEN a ELSE b
<1>1. m \in {a, b} /\ \A y \in {a, b} : m >= y
  OBVIOUS
<1>2. \A x \in {a, b} : (\A y \in {a, b} : x >= y) => x = m
  OBVIOUS
<1> HIDE DEF m
<1>3. (CHOOSE x \in {a, b} : \A y \in {a, b} : x >= y) = m
  BY <1>1, <1>2
<1> QED BY <1>3 DEF Max, m

(* The constants are positive. *)
LEMMA Constants ==
  /\ PingInterval \in Nat /\ PingInterval > 0
  /\ PingRestart \in Nat /\ PingRestart > 0
  /\ ThresholdFast \in Nat /\ ThresholdFast > 0
  /\ ThresholdSteady \in Nat /\ ThresholdSteady > 0
  /\ FastWindow \in Nat /\ WarmupSteady \in Nat /\ WarmupFast \in Nat
  /\ CheckPeriod \in Nat /\ CheckPeriod > 0
  /\ HardResetThreshold \in Nat /\ HardResetThreshold > 0
  /\ HardResetPeriod \in Nat /\ WakePeriod \in Nat
  /\ WakeGap \in Nat /\ WakeGap > 0
  /\ ServerInterval \in Nat /\ ServerInterval > 0
BY WatchdogsAssumption

(* An age that is not Never grows by the time that passes, up to the last  *)
(* threshold it is compared with.                                          *)
LEMMA OlderFacts ==
  ASSUME NEW a \in Nat, NEW d \in Nat, NEW most \in Nat
  PROVE  Older(a, d, most) = IF a + d <= most THEN a + d ELSE most
BY MinOfTwo DEF Older, Never

(* The session has grown when it has reached each of the three times. *)
LEMMA GrownFacts == Grown \in Nat /\ Grown >= FastWindow /\ Grown >= WarmupSteady
<1> DEFINE S == {FastWindow, WarmupSteady, ThresholdSteady}
<1>1. \E x \in S : \A y \in S : x >= y
  BY Constants
<1>2. Max(S) \in S /\ \A y \in S : Max(S) >= y
  BY <1>1 DEF Max
<1> QED BY <1>2, Constants DEF Grown

(* The keepalive loop samples every quarter of PingInterval, but never     *)
(* more often than the unit of time allows.                                *)
LEMMA QuarterFacts ==
  /\ Max({PingInterval \div 4, 1}) \in 1 .. PingInterval
  /\ Period["keepaliveLoop"] = Max({PingInterval \div 4, 1})
<1>1. PingInterval \div 4 \in Nat /\ PingInterval \div 4 <= PingInterval
  BY Constants
<1>2. Max({PingInterval \div 4, 1}) \in 1 .. PingInterval
  BY <1>1, Constants, MaxOfTwo
<1>3. Quarter(PingInterval, PingInterval) = Max({PingInterval \div 4, 1})
  <2> DEFINE quarter == Max({PingInterval \div 4, 1})
  <2>1. quarter \in Int /\ PingInterval \in Int /\ quarter <= PingInterval
    BY <1>2, Constants
  <2> HIDE DEF quarter
  <2>2. Min({quarter, PingInterval}) = quarter
    BY <2>1, MinOfTwo
  <2> QED BY <2>2 DEF Quarter, quarter
<1> QED BY <1>2, <1>3 DEF Period, Watches

(* Periods do not change. *)
LEMMA PeriodConstant == Period' = Period
BY Zenon DEF Period, Quarter

(* Every watch has a period. *)
LEMMA PeriodType == Period \in [Watches -> Nat]
<1>1. ASSUME NEW i \in Nat, NEW limit \in Nat PROVE Quarter(i, limit) \in Nat
  <2>1. i \div 4 \in Nat
    OBVIOUS
  <2>2. Max({i \div 4, 1}) \in Nat
    BY <2>1, MaxOfTwo
  <2> DEFINE quarter == Max({i \div 4, 1})
  <2> HIDE DEF quarter
  <2>3. quarter \in Nat => Min({quarter, limit}) \in Nat
    BY MinOfTwo
  <2> QED BY <2>2, <2>3 DEF Quarter, quarter
<1> QED BY <1>1, Constants DEF Period, Watches
-----------------------------------------------------------------------------
(* The invariant *)

UserOutboundMax == Max({ThresholdSteady, PingInterval})

TypeInv ==
  /\ lastInbound \in Nat /\ lastDataInbound \in 0 .. ThresholdSteady
  /\ lastUserOutbound \in 0 .. UserOutboundMax
  /\ lastUserOutboundL4 \in [L4 -> Int]
  /\ lastPingSent \in 0 .. PingInterval
  /\ lastTick \in 0 .. WakeGap /\ age \in Nat /\ statsHardResetIn \in Nat
  /\ due \in [Watches -> Nat] /\ \A w \in Watches : due[w] <= Period[w]
  /\ lastServerSent \in 0 .. ServerInterval
  /\ lastSent \in 0 .. 2 * PingInterval /\ lastTry \in 0 .. 2 * PingInterval
  /\ slept \in Nat /\ waiting \in [Watches -> Nat]

(* What w has waited with has just gone: a packet has come, and it takes   *)
(* time for another reason to arise.                                       *)
Relieved(w) ==
  \/ w = "pingRestartWatch" /\ lastInbound = 0
  \/ w = "dataActivityWatch" /\ lastDataInbound = 0

(* A watch that has had a reason for some time has its next tick within    *)
(* what is left of one period, and finds the reason then.                  *)
InTime(w) ==
  /\ waiting[w] <= Period[w]
  /\ \/ Relieved(w)
     \/ waiting[w] + due[w] <= Period[w] /\ (waiting[w] > 0 => Reason(w))

(* The reason of the wake detector is in its clock, which a sleep moves    *)
(* however it is counted.                                                  *)
WatchInv ==
  /\ \A w \in Watches : InTime(w)
  /\ slept >= WakeGap => lastTick = WakeGap

(* Whatever the server sends is seen; and as long as the user has sent     *)
(* nothing, data that came in is not older than the start, from which the  *)
(* age of the user's last packet counts.                                   *)
HealthInv ==
  /\ alive /\ slept = 0 => lastInbound <= lastServerSent
  /\ ~userSent =>
       /\ lastDataInbound <= lastUserOutbound
       /\ \A l \in L4 : lastUserOutboundL4[l] = Never

(* While the host is awake, what keepaliveLoop goes by tells when the last *)
(* packet went out; and since the last of its ticks either something has   *)
(* been tried or the PING was not due then.                                *)
SinceTick == Period["keepaliveLoop"] - due["keepaliveLoop"]
PingInv ==
  slept = 0 =>
    /\ Min({lastUserOutbound, lastPingSent}) = Min({lastSent, PingInterval})
    /\ lastTry <= lastSent
    /\ lastTry <= SinceTick \/ lastSent < PingInterval + SinceTick

WatchdogsInv ==
  /\ TypeInv
  /\ closeErr = "nil" => WatchInv /\ HealthInv
  /\ PingInv

(* The limits of the ages are numbers. *)
LEMMA UserOutboundMaxFacts ==
  /\ UserOutboundMax \in Nat /\ UserOutboundMax >= ThresholdSteady
  /\ UserOutboundMax >= PingInterval
BY Constants, MaxOfTwo DEF UserOutboundMax

(* The sum of two ages, cut off. *)
Aged(a, d, most) == IF a + d <= most THEN a + d ELSE most

(* What the passing of wall-clock time makes of the timestamps. *)
LEMMA WallFacts ==
  ASSUME TypeInv, NEW d \in Nat, Wall(d)
  PROVE  /\ lastInbound' = Aged(lastInbound, d, PingRestart)
         /\ lastDataInbound' = Aged(lastDataInbound, d, ThresholdSteady)
         /\ lastUserOutbound' = Aged(lastUserOutbound, d, UserOutboundMax)
         /\ lastServerSent' = Aged(lastServerSent, d, ServerInterval)
         /\ lastSent' = Aged(lastSent, d, 2 * PingInterval)
         /\ lastTry' = Aged(lastTry, d, 2 * PingInterval)
<1>1. ASSUME NEW a \in Nat, NEW most \in Nat
      PROVE  Older(a, d, most) = Aged(a, d, most)
  BY <1>1, OlderFacts DEF Aged
<1>2. 2 * PingInterval \in Nat
  BY Constants
<1> QED BY <1>1, <1>2, Constants, UserOutboundMaxFacts DEF TypeInv, Wall, UserOutboundMax

(* Timestamps stay within their limits as wall-clock time passes. *)
LEMMA WallTypes ==
  ASSUME TypeInv, NEW d \in Nat, Wall(d)
  PROVE  /\ lastInbound' \in Nat /\ lastDataInbound' \in 0 .. ThresholdSteady
         /\ lastUserOutbound' \in 0 .. UserOutboundMax
         /\ lastUserOutboundL4' \in [L4 -> Int]
         /\ lastServerSent' \in 0 .. ServerInterval
         /\ lastSent' \in 0 .. 2 * PingInterval /\ lastTry' \in 0 .. 2 * PingInterval
<1>1. ASSUME NEW a \in Nat, NEW most \in Nat
      PROVE  Aged(a, d, most) \in 0 .. most
  BY DEF Aged
<1>2. 2 * PingInterval \in Nat
  BY Constants
<1>3. ASSUME NEW l \in L4 PROVE Older(lastUserOutboundL4[l], d, ThresholdSteady) \in Int
  <2>1. lastUserOutboundL4[l] \in Int
    BY DEF TypeInv
  <2>2. CASE lastUserOutboundL4[l] = Never
    BY <2>2 DEF Older, Never
  <2>3. CASE lastUserOutboundL4[l] # Never
    BY <2>1, <2>3, MinOfTwo, Constants DEF Older
  <2> QED BY <2>2, <2>3
<1>4. lastUserOutboundL4' \in [L4 -> Int]
  BY <1>3 DEF Wall
<1>5. /\ lastInbound \in Nat /\ lastDataInbound \in Nat /\ lastUserOutbound \in Nat
      /\ lastServerSent \in Nat /\ lastSent \in Nat /\ lastTry \in Nat
  BY DEF TypeInv
<1>6. /\ lastInbound' \in 0 .. PingRestart /\ lastDataInbound' \in 0 .. ThresholdSteady
      /\ lastUserOutbound' \in 0 .. UserOutboundMax
      /\ lastServerSent' \in 0 .. ServerInterval
  BY <1>1, <1>5, WallFacts, Constants, UserOutboundMaxFacts
<1>7. lastSent' \in 0 .. 2 * PingInterval /\ lastTry' \in 0 .. 2 * PingInterval
  <2> DEFINE most == 2 * PingInterval
  <2>1. most \in Nat
    BY <1>2
  <2>2. lastSent' = Aged(lastSent, d, most) /\ lastTry' = Aged(lastTry, d, most)
    BY WallFacts
  <2> HIDE DEF most
  <2>3. lastSent' \in 0 .. most /\ lastTry' \in 0 .. most
    BY <1>1, <1>5, <2>1, <2>2
  <2> QED BY <2>3 DEF most
<1> QED BY <1>4, <1>6, <1>7, Constants

(* The watches start sound. *)
LEMMA InvInit == Init => WatchdogsInv
<1> SUFFICES ASSUME Init PROVE WatchdogsInv
  OBVIOUS
<1>1. TypeInv
  BY Constants, UserOutboundMaxFacts, PeriodType DEF Init, TypeInv, Never
<1>2. WatchInv
  BY Constants, PeriodType DEF Init, WatchInv, InTime
<1>3. HealthInv
  BY DEF Init, HealthInv
<1>4. PingInv
  BY QuarterFacts, Constants, MinOfTwo DEF Init, PingInv, SinceTick, Watches
<1> QED BY <1>1, <1>2, <1>3, <1>4 DEF WatchdogsInv
-----------------------------------------------------------------------------
(* Types *)

(* A tick leaves its watch a whole period. *)
LEMMA TickDue ==
  ASSUME TypeInv, NEW w \in Watches, Ticks(w)
  PROVE  /\ due' \in [Watches -> Nat] /\ \A v \in Watches : due'[v] <= Period[v]
         /\ due'[w] = Period[w] /\ \A v \in Watches \ {w} : due'[v] = due[v]
<1>1. due \in [Watches -> Nat] /\ \A v \in Watches : due[v] <= Period[v]
  BY DEF TypeInv
<1>2. Period[w] \in Nat /\ \A v \in Watches : Period[v] <= Period[v]
  BY PeriodType
<1>3. due' = [due EXCEPT ![w] = Period[w]]
  BY DEF Ticks
<1> QED BY <1>1, <1>2, <1>3

(* Timers run down and not below zero, and waiting is counted in units. *)
LEMMA TimeDue ==
  ASSUME TypeInv, \A w \in Watches : due[w] > 0, due' = [w \in Watches |-> due[w] - 1]
  PROVE  /\ due' \in [Watches -> Nat] /\ \A w \in Watches : due'[w] <= Period[w]
         /\ \A w \in Watches : due'[w] = due[w] - 1
BY PeriodType DEF TypeInv

LEMMA SleepDue ==
  ASSUME TypeInv, NEW d \in Nat,
         \/ due' = due
         \/ due' = [w \in Watches |-> Max({due[w] - d, 0})]
  PROVE  /\ due' \in [Watches -> Nat]
         /\ \A w \in Watches : due'[w] <= due[w] /\ due'[w] <= Period[w]
<1>1. ASSUME NEW w \in Watches
      PROVE  Max({due[w] - d, 0}) \in Nat /\ Max({due[w] - d, 0}) <= due[w]
  <2>1. due[w] \in Nat /\ due[w] - d \in Int
    BY DEF TypeInv
  <2> QED BY <2>1, MaxOfTwo
<1>2. due \in [Watches -> Nat] /\ \A w \in Watches : due[w] <= Period[w]
  BY DEF TypeInv
<1>3. CASE due' = due
  BY <1>2, <1>3
<1>4. CASE due' = [w \in Watches |-> Max({due[w] - d, 0})]
  <2>1. due' \in [Watches -> Nat] /\ \A w \in Watches : due'[w] <= due[w]
    BY <1>1, <1>4
  <2> QED BY <1>2, <2>1, PeriodType
<1> QED BY <1>3, <1>4

(* Waiting is a time. *)
LEMMA WaitsType ==
  ASSUME TypeInv, NEW d \in Nat, Waits(d)
  PROVE  waiting' \in [Watches -> Nat]
BY DEF TypeInv, Waits

(* What no watch and no packet touches stays in its domain. *)
LEMMA TypeStep == TypeInv /\ [Next]_vars => TypeInv'
<1> SUFFICES ASSUME TypeInv, [Next]_vars PROVE TypeInv'
  OBVIOUS
<1>1. ASSUME KeepaliveTick PROVE TypeInv'
  <2>1. "keepaliveLoop" \in Watches
    BY DEF Watches
  <2>2. Ticks("keepaliveLoop")
    BY <1>1 DEF KeepaliveTick
  <2>3. 0 \in 0 .. 2 * PingInterval /\ 0 \in 0 .. PingInterval
    BY Constants
  <2>4. /\ lastSent' \in {0, lastSent} /\ lastTry' \in {0, lastTry}
        /\ lastPingSent' \in {0, lastPingSent} /\ lastTick' = lastTick
    BY <1>1 DEF KeepaliveTick
  <2> QED BY <2>1, <2>2, <2>3, <2>4, TickDue DEF TypeInv, Ticks, stampVars
<1>2. ASSUME NEW w \in Watches, Ticks(w), lastTick' \in {0, lastTick},
             UNCHANGED <<lastSent, lastTry, lastPingSent>>
      PROVE  TypeInv'
  <2>1. lastTick' \in 0 .. WakeGap
    BY <1>2, Constants DEF TypeInv
  <2> QED BY <1>2, <2>1, TickDue DEF TypeInv, Ticks, stampVars
<1>3. ASSUME PingRestartTick PROVE TypeInv'
  BY <1>2, <1>3 DEF PingRestartTick, Watches
<1>4. ASSUME DataActivityTick PROVE TypeInv'
  BY <1>2, <1>4 DEF DataActivityTick, Watches
<1>5. ASSUME HardResetTick PROVE TypeInv'
  BY <1>2, <1>5 DEF HardResetTick, Watches
<1>6. ASSUME WakeDetectorTick PROVE TypeInv'
  BY <1>2, <1>6 DEF WakeDetectorTick, Watches
<1>7. ASSUME NEW l, UserSends(l) PROVE TypeInv'
  <2>1. 0 \in 0 .. 2 * PingInterval /\ 0 \in 0 .. UserOutboundMax
    BY Constants, UserOutboundMaxFacts
  <2>2. lastUserOutboundL4' \in [L4 -> Int]
    BY <1>7 DEF UserSends, TypeInv
  <2> QED BY <1>7, <2>1, <2>2 DEF UserSends, TypeInv, loopVars
<1>8. ASSUME NEW l, DataArrives(l) PROVE TypeInv'
  BY <1>8, Constants DEF DataArrives, TypeInv, loopVars, historyVars
<1>9. ASSUME PingArrives PROVE TypeInv'
  BY <1>9, Constants DEF PingArrives, TypeInv, loopVars, historyVars
<1>10. ASSUME HardResetArrives PROVE TypeInv'
  BY <1>10, Constants DEF HardResetArrives, TypeInv, stampVars, loopVars, historyVars
<1>11. ASSUME ServerDies PROVE TypeInv'
  BY <1>11 DEF ServerDies, TypeInv, stampVars, loopVars, historyVars
<1>12. ASSUME NEW a \in Nat, NEW d \in Nat, NEW most \in Nat
       PROVE  Older(a, d, most) \in 0 .. most
  BY <1>12, OlderFacts
<1>13. ASSUME TimePasses PROVE TypeInv'
  <2>1. Wall(1) /\ Waits(1)
    BY <1>13 DEF TimePasses
  <2>2. due' \in [Watches -> Nat] /\ \A w \in Watches : due'[w] <= Period[w]
    BY <1>13, TimeDue DEF TimePasses
  <2>3. waiting' \in [Watches -> Nat]
    BY <2>1, WaitsType
  <2>4. lastTick' \in 0 .. WakeGap /\ lastPingSent' \in 0 .. PingInterval /\ age' \in Nat
    BY <1>12, <1>13, Constants, GrownFacts DEF TimePasses, TypeInv
  <2>5. slept' \in Nat /\ statsHardResetIn' \in Nat
    BY <1>13 DEF TimePasses, TypeInv
  <2> QED BY <2>1, <2>2, <2>3, <2>4, <2>5, WallTypes DEF TypeInv
<1>14. ASSUME NEW d \in SleepLengths, Sleep(d) PROVE TypeInv'
  <2>1. d \in Nat /\ Wall(d) /\ Waits(0)
    BY <1>14, WatchdogsAssumption DEF Sleep
  <2>2. due' \in [Watches -> Nat] /\ \A w \in Watches : due'[w] <= Period[w]
    BY <1>14, <2>1, SleepDue DEF Sleep
  <2>3. waiting' \in [Watches -> Nat]
    BY <2>1, WaitsType
  <2>4. lastTick' \in 0 .. WakeGap /\ lastPingSent' \in 0 .. PingInterval /\ age' \in Nat
    <3>1. lastTick \in Nat /\ lastPingSent \in Nat /\ age \in Nat
      BY DEF TypeInv
    <3>2. lastPingSent \in 0 .. PingInterval
      BY DEF TypeInv
    <3>3. /\ Older(lastTick, d, WakeGap) \in 0 .. WakeGap
          /\ Older(lastPingSent, d, PingInterval) \in 0 .. PingInterval
          /\ Older(age, d, Grown) \in 0 .. Grown
      BY <1>12, <2>1, <3>1, Constants, GrownFacts, Zenon
    <3>4. Older(age, d, Grown) \in Nat
      BY <3>3, GrownFacts
    <3> QED BY <1>14, <3>1, <3>2, <3>3, <3>4 DEF Sleep, WakeClock
  <2>5. slept' \in Nat /\ statsHardResetIn' \in Nat
    BY <1>14, <2>1 DEF Sleep, TypeInv
  <2> QED BY <2>1, <2>2, <2>3, <2>4, <2>5, WallTypes DEF TypeInv
<1>15. ASSUME UNCHANGED vars PROVE TypeInv'
  BY <1>15 DEF vars, TypeInv, stampVars, loopVars, historyVars
<1> QED BY <1>1, <1>3, <1>4, <1>5, <1>6, <1>7, <1>8, <1>9, <1>10, <1>11, <1>13, <1>14, <1>15
        DEF Next, WatchTicks
-----------------------------------------------------------------------------
(* The watches *)

(* A watch that keeps its timer keeps what it waits with, or is relieved. *)
LEMMA InTimeFrame ==
  ASSUME NEW w \in Watches, InTime(w), due'[w] = due[w], waiting'[w] = waiting[w],
         Relieved(w) => Relieved(w)', Reason(w) => Reason(w)' \/ Relieved(w)'
  PROVE  InTime(w)'
<1>1. Period' = Period
  BY PeriodConstant
<1> QED BY <1>1 DEF InTime

(* A watch that has been relieved has nothing to fire for. *)
LEMMA RelievedHasNoReason ==
  ASSUME NEW w \in Watches, Relieved(w)
  PROVE  ~Reason(w)
BY Constants DEF Relieved, Reason

(* A tick that finds no reason ends no wait too late. *)
LEMMA TickInTime ==
  ASSUME TypeInv, WatchInv, NEW w \in Watches, Ticks(w), ~Reason(w)
  PROVE  \A v \in Watches : InTime(v)'
<1>1. UNCHANGED <<lastInbound, lastDataInbound, lastUserOutbound, age, statsHardResetIn,
                  slept, waiting>>
  BY DEF Ticks, stampVars
<1>2. ASSUME NEW v \in Watches, v # w PROVE InTime(v)'
  <2>1. InTime(v) /\ due'[v] = due[v] /\ waiting'[v] = waiting[v]
    BY <1>1, <1>2, TickDue DEF WatchInv
  <2>2. (Relieved(v) => Relieved(v)') /\ (Reason(v) => Reason(v)')
    BY <1>1 DEF Relieved, Reason
  <2> QED BY <2>1, <2>2, InTimeFrame
<1>3. InTime(w)'
  <2>1. InTime(w) /\ waiting[w] \in Nat /\ Period[w] \in Nat /\ due'[w] = Period[w]
    BY TickDue, PeriodType DEF WatchInv, TypeInv
  <2>2. Period' = Period
    BY PeriodConstant
  <2>3. Relieved(w) \/ waiting[w] = 0
    <3>1. waiting[w] > 0 \/ waiting[w] = 0
      BY <2>1
    <3> QED BY <2>1, <3>1 DEF InTime
  <2>4. waiting'[w] = waiting[w] /\ (Relieved(w) => Relieved(w)')
    BY <1>1 DEF Relieved
  <2> QED BY <2>1, <2>2, <2>3, <2>4 DEF InTime
<1> QED BY <1>2, <1>3

(* No watch passes over its reason: the tick that finds it ends the        *)
(* session.  For dataActivityWatch that is the one with the steady values. *)
LEMMA ReasonsFire ==
  ASSUME TypeInv, slept >= WakeGap => lastTick = WakeGap, closeErr' = "nil"
  PROVE  /\ KeepaliveTick => ~Reason("keepaliveLoop")
         /\ PingRestartTick => ~Reason("pingRestartWatch")
         /\ DataActivityTick => ~Reason("dataActivityWatch")
         /\ HardResetTick => ~Reason("hardResetWatch")
         /\ WakeDetectorTick => ~Reason("wakeDetectorWatch") /\ slept < WakeGap
<1>1. KeepaliveTick => ~Reason("keepaliveLoop")
  BY DEF Reason
<1>2. PingRestartTick => ~Reason("pingRestartWatch")
  BY DEF PingRestartTick, Reason
<1>3. DataActivityTick => ~Reason("dataActivityWatch")
  <2> SUFFICES ASSUME DataActivityTick, Reason("dataActivityWatch") PROVE FALSE
    OBVIOUS
  <2>1. /\ age = Grown /\ lastUserOutbound < ThresholdSteady
        /\ lastDataInbound >= ThresholdSteady
    BY DEF Reason
  <2>2. ~(age < FastWindow) /\ age >= WarmupSteady
    BY <2>1, GrownFacts, Constants
  <2>3. decideActivityStall(ThresholdSteady)
    BY <2>1 DEF decideActivityStall
  <2> QED BY <2>2, <2>3 DEF DataActivityTick
<1>4. HardResetTick => ~Reason("hardResetWatch")
  BY DEF HardResetTick, Reason
<1>5. WakeDetectorTick => slept < WakeGap
  <2>1. WakeDetectorTick => ~(lastTick >= WakeGap)
    BY DEF WakeDetectorTick
  <2> QED BY <2>1, Constants DEF TypeInv
<1>6. WakeDetectorTick => ~Reason("wakeDetectorWatch")
  BY <1>5, Constants DEF Reason, TypeInv
<1> QED BY <1>1, <1>2, <1>3, <1>4, <1>5, <1>6
(* As time passes a reason that stays is waited with, and one that goes is *)
(* forgotten; timers run at least as fast.                                 *)
LEMMA WaitsInTime ==
  ASSUME TypeInv, TypeInv', WatchInv, NEW d \in Nat, Waits(d),
         \A w \in Watches : due'[w] + d <= due[w]
  PROVE  \A w \in Watches : InTime(w)'
<1> SUFFICES ASSUME NEW w \in Watches PROVE InTime(w)'
  OBVIOUS
<1>1. /\ waiting[w] \in Nat /\ Period[w] \in Nat /\ due[w] \in Nat /\ due'[w] \in Nat
      /\ due'[w] + d <= due[w] /\ due[w] <= Period[w]
  BY PeriodType DEF TypeInv
<1>2. Period' = Period
  BY PeriodConstant
<1>3. waiting'[w] = IF Reason(w) /\ Reason(w)' THEN waiting[w] + d ELSE 0
  BY DEF Waits
<1>4. CASE Reason(w) /\ Reason(w)'
  <2>1. waiting[w] + due[w] <= Period[w]
    BY <1>4, RelievedHasNoReason DEF WatchInv, InTime
  <2>2. waiting'[w] + due'[w] <= Period[w] /\ waiting'[w] <= Period[w]
    BY <1>1, <1>3, <1>4, <2>1
  <2> QED BY <1>2, <1>4, <2>2 DEF InTime
<1>5. CASE ~(Reason(w) /\ Reason(w)')
  <2>1. waiting'[w] = 0
    BY <1>3, <1>5
  <2>2. waiting'[w] + due'[w] <= Period[w] /\ waiting'[w] <= Period[w] /\ ~(waiting'[w] > 0)
    BY <1>1, <2>1
  <2> QED BY <1>2, <2>2 DEF InTime
<1> QED BY <1>4, <1>5

(* A packet relieves a watch or leaves it its reason; no action but a      *)
(* sleep and the wake detector's tick moves the detector's clock back.     *)
LEMMA WatchStep ==
  TypeInv /\ TypeInv' /\ (closeErr = "nil" => WatchInv) /\ [Next]_vars
  => (closeErr' = "nil" => WatchInv')
<1> SUFFICES ASSUME TypeInv, TypeInv', closeErr = "nil" => WatchInv, [Next]_vars,
                    closeErr' = "nil"
             PROVE  WatchInv'
  OBVIOUS
<1>1. ASSUME NEW w \in Watches, WatchInv, Ticks(w), ~Reason(w),
             lastTick' = lastTick \/ slept < WakeGap
      PROVE  WatchInv'
  <2>1. \A v \in Watches : InTime(v)'
    BY <1>1, TickInTime
  <2>2. slept' = slept /\ slept \in Nat
    BY <1>1 DEF Ticks, TypeInv
  <2> QED BY <1>1, <2>1, <2>2, Constants DEF WatchInv
<1>2. ASSUME WatchTicks PROVE WatchInv'
  <2>1. WatchInv
    BY <1>2 DEF WatchTicks, KeepaliveTick, PingRestartTick, DataActivityTick, HardResetTick,
              WakeDetectorTick, Ticks
  <2>2. slept >= WakeGap => lastTick = WakeGap
    BY <2>1 DEF WatchInv
  <2>3. CASE KeepaliveTick
    BY <1>1, <2>1, <2>2, <2>3, ReasonsFire DEF KeepaliveTick, Watches
  <2>4. CASE PingRestartTick
    BY <1>1, <2>1, <2>2, <2>4, ReasonsFire DEF PingRestartTick, Watches
  <2>5. CASE DataActivityTick
    BY <1>1, <2>1, <2>2, <2>5, ReasonsFire DEF DataActivityTick, Watches
  <2>6. CASE HardResetTick
    BY <1>1, <2>1, <2>2, <2>6, ReasonsFire DEF HardResetTick, Watches
  <2>7. CASE WakeDetectorTick
    BY <1>1, <2>1, <2>2, <2>7, ReasonsFire DEF WakeDetectorTick, Watches
  <2> QED BY <1>2, <2>3, <2>4, <2>5, <2>6, <2>7 DEF WatchTicks
<1>3. ASSUME WatchInv, UNCHANGED <<due, waiting, slept, lastTick, age>>,
             lastInbound' \in {0, lastInbound}, lastDataInbound' \in {0, lastDataInbound},
             lastUserOutbound' \in {0, lastUserOutbound},
             statsHardResetIn' >= statsHardResetIn
      PROVE  WatchInv'
  <2>1. ASSUME NEW w \in Watches PROVE InTime(w)'
    <3>1. InTime(w) /\ due'[w] = due[w] /\ waiting'[w] = waiting[w]
      BY <1>3 DEF WatchInv
    <3>2. Relieved(w) => Relieved(w)'
      BY <1>3 DEF Relieved
    <3>3. Reason(w) => Reason(w)' \/ Relieved(w)'
      BY <1>3, Constants DEF Reason, Relieved, TypeInv
    <3> QED BY <3>1, <3>2, <3>3, InTimeFrame
  <2>2. slept' >= WakeGap => lastTick' = WakeGap
    BY <1>3 DEF WatchInv
  <2> QED BY <2>1, <2>2 DEF WatchInv
<1>4. ASSUME NEW l, UserSends(l) PROVE WatchInv'
  BY <1>3, <1>4 DEF UserSends, loopVars, TypeInv
<1>5. ASSUME NEW l, DataArrives(l) PROVE WatchInv'
  BY <1>3, <1>5 DEF DataArrives, loopVars, historyVars, TypeInv
<1>6. ASSUME PingArrives PROVE WatchInv'
  BY <1>3, <1>6 DEF PingArrives, loopVars, historyVars, TypeInv
<1>7. ASSUME HardResetArrives PROVE WatchInv'
  BY <1>3, <1>7 DEF HardResetArrives, stampVars, loopVars, historyVars, TypeInv
<1>8. ASSUME ServerDies PROVE WatchInv'
  BY <1>3, <1>8 DEF ServerDies, stampVars, loopVars, historyVars, TypeInv
<1>9. ASSUME TimePasses PROVE WatchInv'
  <2>1. WatchInv /\ Waits(1) /\ slept' = slept
    BY <1>9 DEF TimePasses
  <2>2. \A w \in Watches : due'[w] + 1 <= due[w]
    BY <1>9, TimeDue DEF TimePasses, TypeInv
  <2>3. \A w \in Watches : InTime(w)'
    BY <2>1, <2>2, WaitsInTime
  <2>4. lastTick = WakeGap => lastTick' = WakeGap
    BY <1>9, OlderFacts, Constants DEF TimePasses
  <2> QED BY <2>1, <2>3, <2>4 DEF WatchInv
<1>10. ASSUME NEW d \in SleepLengths, Sleep(d) PROVE WatchInv'
  <2>1. WatchInv /\ Waits(0) /\ slept' = d /\ d \in Nat
    BY <1>10, WatchdogsAssumption DEF Sleep
  <2>2. \A w \in Watches : due'[w] + 0 <= due[w]
    <3>1. due' = due \/ due' = [w \in Watches |-> Max({due[w] - d, 0})]
      BY <1>10 DEF Sleep
    <3>2. due' \in [Watches -> Nat] /\ \A w \in Watches : due'[w] <= due[w]
      BY <2>1, <3>1, SleepDue
    <3> QED BY <3>2
  <2>3. \A w \in Watches : InTime(w)'
    BY <2>1, <2>2, WaitsInTime
  <2>4. d >= WakeGap => lastTick' = WakeGap
    BY <1>10, <2>1, OlderFacts, Constants DEF Sleep, WakeClock, TypeInv
  <2> QED BY <2>1, <2>3, <2>4 DEF WatchInv
<1>11. ASSUME UNCHANGED vars PROVE WatchInv'
  BY <1>3, <1>11 DEF vars, stampVars, loopVars, historyVars, TypeInv
<1> QED BY <1>2, <1>4, <1>5, <1>6, <1>7, <1>8, <1>9, <1>10, <1>11 DEF Next
-----------------------------------------------------------------------------
(* Sessions that work *)

(* HealthInv relates ages that grow together: the limits only cut off the  *)
(* older one first.                                                        *)
LEMMA HealthStep ==
  TypeInv /\ (closeErr = "nil" => HealthInv) /\ [Next]_vars
  => (closeErr' = "nil" => HealthInv')
<1> SUFFICES ASSUME TypeInv, closeErr = "nil" => HealthInv, [Next]_vars, closeErr' = "nil"
             PROVE  HealthInv'
  OBVIOUS
<1>1. ASSUME HealthInv,
             UNCHANGED <<lastInbound, lastServerSent, lastDataInbound, lastUserOutbound,
                         lastUserOutboundL4, slept, userSent>>,
             alive' => alive
      PROVE  HealthInv'
  BY <1>1 DEF HealthInv
<1>2. ASSUME WatchTicks PROVE HealthInv'
  BY <1>1, <1>2 DEF WatchTicks, KeepaliveTick, PingRestartTick, DataActivityTick,
                    HardResetTick, WakeDetectorTick, Ticks, stampVars
<1>3. ASSUME NEW l, UserSends(l) PROVE HealthInv'
  BY <1>3 DEF UserSends, HealthInv
<1>4. ASSUME NEW l, DataArrives(l) PROVE HealthInv'
  BY <1>4 DEF DataArrives, HealthInv, historyVars, TypeInv
<1>5. ASSUME PingArrives PROVE HealthInv'
  BY <1>5 DEF PingArrives, HealthInv, historyVars
<1>6. ASSUME HardResetArrives PROVE HealthInv'
  BY <1>1, <1>6 DEF HardResetArrives, stampVars, historyVars
<1>7. ASSUME ServerDies PROVE HealthInv'
  BY <1>1, <1>7 DEF ServerDies, stampVars, historyVars
<1>8. ASSUME NEW d \in Nat, HealthInv, Wall(d), UNCHANGED <<userSent, alive>>,
             slept' = 0 => slept = 0,
             alive /\ slept' = 0 => d = 0 \/ (d = 1 /\ lastServerSent < ServerInterval)
      PROVE  HealthInv'
  <2>1. ASSUME alive, slept' = 0 PROVE lastInbound' <= lastServerSent'
    <3>1. lastInbound <= lastServerSent
      BY <1>8, <2>1 DEF HealthInv
    <3>2. lastInbound \in Nat /\ lastServerSent \in 0 .. ServerInterval
      BY DEF TypeInv
    <3>3. /\ lastInbound' = Aged(lastInbound, d, PingRestart)
          /\ lastServerSent' = Aged(lastServerSent, d, ServerInterval)
      BY <1>8, WallFacts
    <3> QED BY <1>8, <2>1, <3>1, <3>2, <3>3, Constants DEF Aged
  <2>2. ASSUME ~userSent PROVE lastDataInbound' <= lastUserOutbound'
    <3>1. lastDataInbound <= lastUserOutbound
      BY <1>8, <2>2 DEF HealthInv
    <3>2. lastDataInbound \in Nat /\ lastUserOutbound \in Nat
      BY DEF TypeInv
    <3>3. /\ lastDataInbound' = Aged(lastDataInbound, d, ThresholdSteady)
          /\ lastUserOutbound' = Aged(lastUserOutbound, d, UserOutboundMax)
      BY <1>8, WallFacts
    <3> QED BY <1>8, <3>1, <3>2, <3>3, Constants, UserOutboundMaxFacts DEF Aged
  <2>3. ASSUME ~userSent, NEW l \in L4 PROVE lastUserOutboundL4'[l] = Never
    BY <1>8, <2>3 DEF HealthInv, Wall, Older
  <2> QED BY <1>8, <2>1, <2>2, <2>3 DEF HealthInv
<1>9. ASSUME TimePasses PROVE HealthInv'
  BY <1>8, <1>9 DEF TimePasses
<1>10. ASSUME NEW d \in SleepLengths, Sleep(d) PROVE HealthInv'
  BY <1>8, <1>10, WatchdogsAssumption DEF Sleep
<1>11. ASSUME UNCHANGED vars PROVE HealthInv'
  BY <1>1, <1>11 DEF vars, stampVars, historyVars
<1> QED BY <1>2, <1>3, <1>4, <1>5, <1>6, <1>7, <1>9, <1>10, <1>11 DEF Next

(* A session that works is not closed by pingRestartWatch or by            *)
(* dataActivityWatch, and one that is closed for another reason stays so.  *)
LEMMA KeptStep ==
  ASSUME ServerInterval < PingRestart
  PROVE  TypeInv /\ (closeErr = "nil" => HealthInv) /\ HealthySessionKept /\ [Next]_vars
         => HealthySessionKept'
<1> SUFFICES ASSUME TypeInv, closeErr = "nil" => HealthInv, HealthySessionKept, [Next]_vars
             PROVE  HealthySessionKept'
  OBVIOUS
<1>1. ASSUME closeErr' = closeErr, alive' => alive, slept' = 0 => slept = 0,
             userSent => userSent'
      PROVE  HealthySessionKept'
  BY <1>1 DEF HealthySessionKept
<1>2. ASSUME closeErr' \notin {"ping-restart timeout", "data-activity stuck"}
      PROVE  HealthySessionKept'
  BY <1>2 DEF HealthySessionKept
<1>3. ASSUME KeepaliveTick PROVE HealthySessionKept'
  BY <1>1, <1>3 DEF KeepaliveTick, Ticks
<1>4. ASSUME PingRestartTick PROVE HealthySessionKept'
  <2>1. HealthInv /\ UNCHANGED <<alive, slept, userSent>>
        /\ closeErr = "nil" /\ closeErr' \in {"nil", "ping-restart timeout"}
    BY <1>4 DEF PingRestartTick, Ticks
  <2>2. ASSUME alive, slept = 0 PROVE closeErr' = "nil"
    <3>1. lastInbound <= lastServerSent
      BY <2>1, <2>2 DEF HealthInv
    <3>2. lastInbound \in Nat /\ lastServerSent \in 0 .. ServerInterval
      BY DEF TypeInv
    <3>3. ~(lastInbound >= PingRestart)
      BY <3>1, <3>2, Constants
    <3> QED BY <1>4, <2>1, <3>3 DEF PingRestartTick
  <2> QED BY <2>1, <2>2 DEF HealthySessionKept
<1>5. ASSUME DataActivityTick PROVE HealthySessionKept'
  <2>1. HealthInv /\ UNCHANGED <<alive, slept, userSent>>
        /\ closeErr = "nil" /\ closeErr' \in {"nil", "data-activity stuck"}
    BY <1>5 DEF DataActivityTick, Ticks
  <2>2. ASSUME ~userSent, NEW threshold \in Nat PROVE ~decideActivityStall(threshold)
    <3>1. lastDataInbound <= lastUserOutbound /\ \A l \in L4 : lastUserOutboundL4[l] = Never
      BY <2>1, <2>2 DEF HealthInv
    <3>2. ~(lastUserOutbound < threshold /\ lastDataInbound >= threshold)
      BY <3>1, UserOutboundMaxFacts, Constants DEF TypeInv
    <3>3. ASSUME NEW l \in L4
          PROVE  ~checkStallWithFloor(threshold, lastUserOutboundL4[l], lastDataInboundL4[l])
      BY <3>1 DEF checkStallWithFloor
    <3> QED BY <3>2, <3>3 DEF decideActivityStall
  <2>3. ASSUME ~userSent PROVE closeErr' = "nil"
    BY <1>5, <2>1, <2>2, <2>3, Constants DEF DataActivityTick
  <2> QED BY <2>1, <2>3 DEF HealthySessionKept
<1>6. ASSUME HardResetTick \/ WakeDetectorTick PROVE HealthySessionKept'
  BY <1>2, <1>6 DEF HardResetTick, WakeDetectorTick, Ticks
<1>7. ASSUME NEW l, UserSends(l) \/ DataArrives(l) PROVE HealthySessionKept'
  BY <1>2, <1>7 DEF UserSends, DataArrives
<1>8. ASSUME PingArrives \/ HardResetArrives PROVE HealthySessionKept'
  BY <1>2, <1>8 DEF PingArrives, HardResetArrives
<1>9. ASSUME ServerDies PROVE HealthySessionKept'
  BY <1>1, <1>9 DEF ServerDies, historyVars
<1>10. ASSUME TimePasses \/ \E d \in SleepLengths : Sleep(d) PROVE HealthySessionKept'
  BY <1>2, <1>10 DEF TimePasses, Sleep
<1>11. ASSUME UNCHANGED vars PROVE HealthySessionKept'
  BY <1>1, <1>11 DEF vars, historyVars
<1> QED BY <1>3, <1>4, <1>5, <1>6, <1>7, <1>8, <1>9, <1>10, <1>11 DEF Next, WatchTicks
-----------------------------------------------------------------------------
(* PINGs *)

(* Time since the loop's last tick is at most a quarter of PingInterval. *)
LEMMA SinceTickType ==
  ASSUME TypeInv
  PROVE  SinceTick \in 0 .. Max({PingInterval \div 4, 1})
<1> DEFINE quarter == Max({PingInterval \div 4, 1})
<1>1. quarter \in Nat /\ Period["keepaliveLoop"] = quarter
  BY QuarterFacts, Constants
<1>2. due["keepaliveLoop"] \in Nat /\ due["keepaliveLoop"] <= Period["keepaliveLoop"]
  BY DEF TypeInv, Watches
<1> HIDE DEF quarter
<1>3. SinceTick \in 0 .. quarter
  BY <1>1, <1>2 DEF SinceTick
<1> QED BY <1>3 DEF quarter

(* The loop's clocks and the history agree as a unit of time passes. *)
LEMMA PingTime ==
  ASSUME TypeInv, PingInv, TimePasses
  PROVE  PingInv'
<1> SUFFICES ASSUME slept' = 0 PROVE PingInv'
  BY DEF PingInv
<1>1. /\ Min({lastUserOutbound, lastPingSent}) = Min({lastSent, PingInterval})
      /\ lastTry <= lastSent
      /\ lastTry <= SinceTick \/ lastSent < PingInterval + SinceTick
  BY DEF PingInv, TimePasses
<1>2. SinceTick \in Nat /\ SinceTick' = SinceTick + 1
  <2>1. due["keepaliveLoop"] \in Nat /\ Period["keepaliveLoop"] \in Nat
        /\ due["keepaliveLoop"] <= Period["keepaliveLoop"]
    BY PeriodType DEF TypeInv, Watches
  <2>2. due'["keepaliveLoop"] = due["keepaliveLoop"] - 1
    BY DEF TimePasses, Watches
  <2>3. Period' = Period
    BY PeriodConstant
  <2> QED BY <2>1, <2>2, <2>3 DEF SinceTick
<1> DEFINE most == 2 * PingInterval
<1>3. /\ lastUserOutbound' = Aged(lastUserOutbound, 1, UserOutboundMax)
      /\ lastSent' = Aged(lastSent, 1, most) /\ lastTry' = Aged(lastTry, 1, most)
  BY WallFacts DEF TimePasses
<1>4. lastPingSent' = Aged(lastPingSent, 1, PingInterval)
  BY OlderFacts, Constants DEF TimePasses, TypeInv, Aged
<1>5. /\ lastUserOutbound \in Nat /\ lastPingSent \in Nat /\ lastSent \in Nat
      /\ lastTry \in Nat
  BY DEF TypeInv
<1>6. most \in Nat /\ most >= PingInterval
  BY Constants
<1> HIDE DEF most
<1>7. /\ lastUserOutbound' \in Nat /\ lastPingSent' \in Nat /\ lastSent' \in Nat
      /\ lastTry' \in Nat
  BY <1>3, <1>4, <1>5, <1>6, Constants, UserOutboundMaxFacts DEF Aged
<1>8. Min({lastUserOutbound', lastPingSent'}) = Min({lastSent', PingInterval})
  BY <1>1, <1>3, <1>4, <1>5, <1>6, <1>7, Constants, UserOutboundMaxFacts, MinOfTwo DEF Aged
<1>9. lastTry' <= lastSent'
  BY <1>1, <1>3, <1>5, <1>6 DEF Aged
<1>10. lastTry' <= SinceTick' \/ lastSent' < PingInterval + SinceTick'
  BY <1>1, <1>2, <1>3, <1>5, <1>6, Constants DEF Aged
<1> QED BY <1>8, <1>9, <1>10 DEF PingInv

(* Its own tick either finds no PING due or tries to send one; the packets *)
(* of the user count as well, whatever the loop does.                      *)
LEMMA PingStep == TypeInv /\ PingInv /\ [Next]_vars => PingInv'
<1> SUFFICES ASSUME TypeInv, PingInv, [Next]_vars PROVE PingInv'
  OBVIOUS
<1>1. Period' = Period
  BY PeriodConstant
<1>2. SinceTick \in Nat
  BY SinceTickType, QuarterFacts, Constants
<1>3. ASSUME UNCHANGED <<lastUserOutbound, lastPingSent, lastSent, lastTry, slept>>,
             due'["keepaliveLoop"] = due["keepaliveLoop"]
      PROVE  PingInv'
  BY <1>1, <1>3 DEF PingInv, SinceTick
<1>4. ASSUME KeepaliveTick PROVE PingInv'
  <2> SUFFICES ASSUME slept' = 0 PROVE PingInv'
    BY DEF PingInv
  <2>1. slept = 0 /\ lastUserOutbound' = lastUserOutbound
        /\ due'["keepaliveLoop"] = Period["keepaliveLoop"]
    BY <1>4, TickDue DEF KeepaliveTick, Ticks, stampVars, Watches
  <2>2. SinceTick' = 0
    BY <1>1, <2>1, PeriodType DEF SinceTick, Watches
  <2>3. /\ lastUserOutbound \in Nat /\ lastPingSent \in Nat /\ lastSent \in Nat
        /\ lastTry \in Nat
    BY DEF TypeInv
  <2>4. /\ Min({lastUserOutbound, lastPingSent}) = Min({lastSent, PingInterval})
        /\ lastTry <= lastSent
    BY <2>1 DEF PingInv
  <2>5. CASE ~PingDue
    <3>1. UNCHANGED <<lastSent, lastTry, lastPingSent>>
      BY <1>4, <2>5 DEF KeepaliveTick
    <3>2. lastSent < PingInterval
      BY <2>3, <2>4, <2>5, MinOfTwo, Constants DEF PingDue
    <3> QED BY <2>1, <2>2, <2>3, <2>4, <3>1, <3>2, Constants DEF PingInv
  <2>6. CASE PingDue /\ lastTry' = 0 /\ UNCHANGED <<lastPingSent, lastSent>>
    BY <2>1, <2>2, <2>3, <2>4, <2>6 DEF PingInv
  <2>7. CASE PingDue /\ lastTry' = 0 /\ lastPingSent' = 0 /\ lastSent' = 0
    <3>1. Min({lastUserOutbound, 0}) = 0 /\ Min({0, PingInterval}) = 0
      BY <2>3, MinOfTwo, Constants
    <3> QED BY <2>1, <2>2, <2>7, <3>1 DEF PingInv
  <2> QED BY <1>4, <2>5, <2>6, <2>7 DEF KeepaliveTick
<1>5. ASSUME NEW w \in Watches, w # "keepaliveLoop", Ticks(w),
             UNCHANGED <<lastSent, lastTry, lastPingSent>>
      PROVE  PingInv'
  BY <1>3, <1>5, TickDue DEF Ticks, stampVars, Watches
<1>6. ASSUME PingRestartTick \/ DataActivityTick \/ HardResetTick \/ WakeDetectorTick
      PROVE  PingInv'
  BY <1>5, <1>6 DEF PingRestartTick, DataActivityTick, HardResetTick, WakeDetectorTick,
                    Watches
<1>7. ASSUME NEW l, UserSends(l) PROVE PingInv'
  <2>1. /\ lastUserOutbound' = 0 /\ lastSent' = 0 /\ lastTry' = 0
        /\ lastPingSent' = lastPingSent /\ due' = due
    BY <1>7 DEF UserSends, loopVars
  <2>2. SinceTick' = SinceTick
    BY <1>1, <2>1 DEF SinceTick
  <2>3. Min({0, lastPingSent}) = 0 /\ Min({0, PingInterval}) = 0
    BY MinOfTwo, Constants DEF TypeInv
  <2> QED BY <1>2, <2>1, <2>2, <2>3 DEF PingInv
<1>8. ASSUME NEW l, DataArrives(l) PROVE PingInv'
  BY <1>3, <1>8 DEF DataArrives, loopVars, historyVars
<1>9. ASSUME PingArrives \/ HardResetArrives \/ ServerDies PROVE PingInv'
  BY <1>3, <1>9 DEF PingArrives, HardResetArrives, ServerDies, stampVars, loopVars, historyVars
<1>10. ASSUME TimePasses PROVE PingInv'
  BY <1>10, PingTime
<1>11. ASSUME NEW d \in SleepLengths, Sleep(d) PROVE PingInv'
  <2>1. d \in Nat /\ slept' = d /\ slept = 0 /\ Wall(d)
    BY <1>11, WatchdogsAssumption DEF Sleep
  <2>2. CASE d # 0
    BY <2>1, <2>2 DEF PingInv
  <2>3. CASE d = 0
    <3>1. UNCHANGED <<lastUserOutbound, lastSent, lastTry>>
      <4>1. ASSUME NEW most \in Nat, NEW a \in 0 .. most PROVE Aged(a, 0, most) = a
        BY DEF Aged
      <4>2. 2 * PingInterval \in Nat
        BY Constants
      <4> QED BY <2>1, <2>3, <4>1, <4>2, WallFacts, UserOutboundMaxFacts DEF TypeInv
    <3>2. lastPingSent' = lastPingSent
      BY <1>11, <2>1, <2>3, OlderFacts, Constants DEF Sleep, TypeInv
    <3>3. due'["keepaliveLoop"] = due["keepaliveLoop"]
      <4>1. due["keepaliveLoop"] \in Nat
        BY DEF TypeInv, Watches
      <4>2. Max({due["keepaliveLoop"] - 0, 0}) = due["keepaliveLoop"]
        BY <4>1, MaxOfTwo
      <4> QED BY <1>11, <2>3, <4>2 DEF Sleep, Watches
    <3> QED BY <1>3, <2>1, <2>3, <3>1, <3>2, <3>3
  <2> QED BY <2>2, <2>3
<1>12. ASSUME UNCHANGED vars PROVE PingInv'
  BY <1>3, <1>12 DEF vars, stampVars, loopVars, historyVars
<1> QED BY <1>4, <1>6, <1>7, <1>8, <1>9, <1>10, <1>11, <1>12 DEF Next, WatchTicks
-----------------------------------------------------------------------------
(* Theorems *)

(* The invariant is inductive. *)
LEMMA WatchdogsInvariant == Spec => []WatchdogsInv
<1>1. WatchdogsInv /\ [Next]_vars => WatchdogsInv'
  BY TypeStep, WatchStep, HealthStep, PingStep DEF WatchdogsInv
<1> QED BY <1>1, InvInit, PTL DEF Spec

(* Whatever a watch is there for ends the session within one period of its *)
(* ticker, for all intervals and thresholds, and also after a sleep during *)
(* which the monotonic clock stops (pingRestartWatch, dataActivityWatch,   *)
(* hardResetWatch and wakeDetectorWatch).                                  *)
THEOREM Noticed == Spec => []NoticedInTime
<1>1. WatchdogsInv => NoticedInTime
  BY DEF WatchdogsInv, WatchInv, InTime, NoticedInTime
<1> QED BY <1>1, WatchdogsInvariant, PTL

(* A server that sends something more often than PingRestart is never      *)
(* taken for dead by pingRestartWatch while the host is awake, and         *)
(* dataActivityWatch expects nothing of a server that nobody has sent      *)
(* anything to.                                                            *)
THEOREM HealthyKept ==
  ASSUME ServerInterval < PingRestart
  PROVE  Spec => []HealthySessionKept
<1>1. Init => HealthySessionKept
  BY DEF Init, HealthySessionKept
<1>2. WatchdogsInv /\ HealthySessionKept /\ [Next]_vars => HealthySessionKept'
  BY KeptStep DEF WatchdogsInv
<1> QED BY <1>1, <1>2, WatchdogsInvariant, PTL DEF Spec

(* keepaliveLoop lets at most PingInterval and a quarter pass without an   *)
(* attempt to send something, and when none succeeds it tries again every  *)
(* quarter.                                                                *)
THEOREM PingsGoOut == Spec => []PingsFlow
<1>1. WatchdogsInv => PingsFlow
  <2> SUFFICES ASSUME WatchdogsInv, slept = 0
               PROVE  /\ lastTry < PingInterval + Max({PingInterval \div 4, 1})
                      /\ lastSent >= PingInterval + Max({PingInterval \div 4, 1})
                         => lastTry <= Max({PingInterval \div 4, 1})
    BY DEF PingsFlow
  <2> DEFINE quarter == Max({PingInterval \div 4, 1})
  <2>1. quarter \in Nat /\ SinceTick \in 0 .. quarter
    BY QuarterFacts, SinceTickType, Constants DEF WatchdogsInv
  <2>2. lastTry <= lastSent /\ (lastTry <= SinceTick \/ lastSent < PingInterval + SinceTick)
    BY DEF WatchdogsInv, PingInv
  <2>3. lastTry \in Nat /\ lastSent \in Nat
    BY DEF WatchdogsInv, TypeInv
  <2> HIDE DEF quarter
  <2>4. lastTry < PingInterval + quarter
        /\ (lastSent >= PingInterval + quarter => lastTry <= quarter)
    BY <2>1, <2>2, <2>3, Constants
  <2> QED BY <2>4 DEF quarter
<1> QED BY <1>1, WatchdogsInvariant, PTL

-----------------------------------------------------------------------------
(* How a session comes up. *)

(* Nothing has been started: no worker runs that could report a failure.   *)
Unstarted == layer = "none" /\ running = {} /\ reports = {} /\ closer = "none"

(* Session.shutdown is over. *)
Released == transport = "closed" /\ layer = "closed" /\ shutdown

(* A Dial that fails goes through shutdown, or had started nothing.  Close *)
(* is never called without a reason to reconnect, and whichever of Close   *)
(* and installTLSConn comes second closes the conn.                        *)
DialInv ==
  /\ tlsConn \in {"none", "installed", "closed"}
  /\ pc = "dial" => transport = "none"
  /\ pc \in {"dial", "wrapper"} => Unstarted
  /\ pc = "release" => shutdown
  /\ pc = "wait" => Released
  /\ pc \in {"shutdown", "release", "wait"} => err # "nil"
  /\ pc = "returned" /\ err # "nil" =>
       (transport \in {"none", "closed"} /\ Unstarted) \/ Released
  /\ pc = "workers" \/ (pc = "returned" /\ err = "nil") => tlsConn # "none"
  /\ closer # "none" => closeErr = "restart"
  /\ closed <=> closer \in {"shutdown", "release", "done"}
  /\ closer = "done" =>
       transport = "closed" /\ layer = "closed" /\ tlsConn # "installed"

(* Steps of other goroutines than the one that dials, which start no       *)
(* worker, reopen nothing and keep what has been recorded.                 *)
LEMMA OthersKeepDial ==
  ASSUME DialInv, UNCHANGED <<pc, err, closed, closer, closeErr, tlsConn>>,
         transport' = transport \/ (transport = "open" /\ transport' = "broken"),
         layer' = layer, shutdown' = shutdown, running' \subseteq running,
         running = {} => reports' = reports
  PROVE  DialInv'
BY DEF DialInv, Unstarted, Released

(* Releases closes whatever Close and a Dial that failed are to close. *)
LEMMA ReleasesAll ==
  ASSUME DialInv, Dial!Releases
  PROVE  /\ transport' = "closed" /\ layer' = "closed" /\ shutdown' = shutdown
         /\ tlsConn' \in {"none", "closed"} /\ (tlsConn # "none" => tlsConn' # "none")
<1>1. tlsConn \in {"none", "installed", "closed"}
  BY DEF DialInv
<1> QED BY <1>1 DEF Dial!Releases

(* A step of control.Run stays in the handshake or goes to the shutdown    *)
(* with an error.                                                          *)
LEMMA RunSteps ==
  ASSUME Dial!Run
  PROVE  /\ pc \in {"HardReset", "TLSHandshake", "KeyMethod2Send", "KeyMethod2Recv",
                    "PushRequest", "PushReply", "DataKeys"}
         /\ \/ pc' = "shutdown" /\ err' # "nil"
            \/ pc' \notin {"dial", "wrapper", "release", "wait", "returned", "workers",
                           "shutdown"} /\ err' = err
         /\ layer' = layer \/ layer' = "closed"
         /\ UNCHANGED <<transport, tlsConn, slot, shutdown, running, closed, closeErr,
                        reports, closer>>
<1> USE DEF Dial!StageFails, Dial!Enters, Dial!sessionVars, Dial!closeVars
<1>1. CASE Dial!SendHardReset
  BY <1>1 DEF Dial!SendHardReset, Dial!Writes
<1>2. CASE Dial!TLSHandshake
  BY <1>2 DEF Dial!TLSHandshake, Dial!Receives
<1>3. CASE Dial!TLSRefuses
  BY <1>3 DEF Dial!TLSRefuses, Dial!Receives
<1>4. CASE Dial!HandshakeContextDone
  BY <1>4 DEF Dial!HandshakeContextDone
<1>5. CASE Dial!SendKeyMethod2
  BY <1>5 DEF Dial!SendKeyMethod2, Dial!Writes
<1>6. CASE Dial!ReadKeyMethod2
  BY <1>6 DEF Dial!ReadKeyMethod2, Dial!Receives
<1>7. CASE Dial!SendPushRequest
  BY <1>7 DEF Dial!SendPushRequest, Dial!Writes
<1>8. CASE Dial!ReadPushReply
  BY <1>8 DEF Dial!ReadPushReply, Dial!Receives
<1>9. CASE Dial!DeriveDataKeys
  BY <1>9 DEF Dial!DeriveDataKeys
<1>10. ASSUME NEW stage \in {"TLSHandshake", "KeyMethod2Recv", "PushReply"},
              Dial!ReadFails(stage)
       PROVE  /\ pc \in {"TLSHandshake", "KeyMethod2Recv", "PushReply"}
              /\ pc' = "shutdown" /\ err' # "nil" /\ layer' = layer
              /\ UNCHANGED <<transport, tlsConn, slot, shutdown, running, closed, closeErr,
                             reports, closer>>
  BY <1>10 DEF Dial!ReadFails
<1> QED BY <1>1, <1>2, <1>3, <1>4, <1>5, <1>6, <1>7, <1>8, <1>9, <1>10 DEF Dial!Run
(* Every step keeps DialInv. *)
LEMMA DialStep == DialInv /\ [Dial!Next]_(Dial!vars) => DialInv'
<1> SUFFICES ASSUME DialInv, [Dial!Next]_(Dial!vars) PROVE DialInv'
  OBVIOUS
<1> USE DEF Dial!sessionVars, Dial!closeVars
<1>1. ASSUME Dial!DialFails PROVE DialInv'
  BY <1>1 DEF Dial!DialFails, Dial!Returns, DialInv, Unstarted, Released
<1>2. ASSUME Dial!Dialled PROVE DialInv'
  BY <1>2 DEF Dial!Dialled, DialInv, Unstarted, Released
<1>3. ASSUME Dial!BuildWrapperFails PROVE DialInv'
  BY <1>3 DEF Dial!BuildWrapperFails, Dial!Returns, DialInv, Unstarted, Released
<1>4. ASSUME Dial!StartPumps PROVE DialInv'
  BY <1>4 DEF Dial!StartPumps, Dial!Stages, DialInv, Unstarted, Released
<1>5. ASSUME Dial!Run PROVE DialInv'
  BY <1>5, RunSteps DEF DialInv, Unstarted, Released
<1>6. ASSUME Dial!BuildSlotFails PROVE DialInv'
  BY <1>6 DEF Dial!BuildSlotFails, DialInv, Unstarted, Released
<1>7. ASSUME Dial!InstallSlot PROVE DialInv'
  BY <1>7 DEF Dial!InstallSlot, DialInv, Unstarted, Released
<1>8. ASSUME Dial!InstallTLSConn PROVE DialInv'
  <2>1. CASE closed
    BY <1>8, <2>1 DEF Dial!InstallTLSConn, DialInv, Unstarted, Released
  <2>2. CASE ~closed
    BY <1>8, <2>2 DEF Dial!InstallTLSConn, DialInv, Unstarted, Released
  <2> QED BY <2>1, <2>2
<1>9. ASSUME Dial!StartWorkers PROVE DialInv'
  BY <1>9 DEF Dial!StartWorkers, Dial!Returns, DialInv, Unstarted, Released
<1>10. ASSUME Dial!ShutdownDial PROVE DialInv'
  <2>1. CASE pc = "shutdown" /\ Dial!Cancels /\ pc' = "release"
    BY <1>10, <2>1 DEF Dial!ShutdownDial, Dial!Cancels, DialInv, Unstarted, Released
  <2>2. CASE pc = "release" /\ Dial!Releases /\ pc' = "wait"
    <3>1. UNCHANGED <<err, closed, closeErr, reports, closer>>
      BY <1>10 DEF Dial!ShutdownDial
    <3> QED BY <2>2, <3>1, ReleasesAll DEF DialInv, Released
  <2>3. CASE pc = "wait" /\ pc' = "returned" /\ UNCHANGED Dial!sessionVars
    BY <1>10, <2>3 DEF Dial!ShutdownDial, DialInv, Unstarted, Released
  <2> QED BY <1>10, <2>1, <2>2, <2>3 DEF Dial!ShutdownDial
<1>11. ASSUME Dial!ReadLoopFails PROVE DialInv'
  BY <1>11, OthersKeepDial DEF Dial!ReadLoopFails
<1>12. ASSUME Dial!TickFails PROVE DialInv'
  BY <1>12, OthersKeepDial DEF Dial!TickFails
<1>13. ASSUME Dial!WorkersLeave PROVE DialInv'
  BY <1>13, OthersKeepDial DEF Dial!WorkersLeave
<1>14. ASSUME NEW who \in reports, Dial!Report(who) PROVE DialInv'
  BY <1>14 DEF Dial!Report, DialInv, Unstarted, Released
<1>15. ASSUME Dial!CloseSession PROVE DialInv'
  <2>1. CASE closer = "close" /\ closed' = TRUE /\ closer' = "shutdown"
             /\ UNCHANGED Dial!sessionVars
    BY <1>15, <2>1 DEF Dial!CloseSession, DialInv, Unstarted, Released
  <2>2. CASE closer = "shutdown" /\ Dial!Cancels /\ closer' = "release" /\ UNCHANGED closed
    BY <1>15, <2>2 DEF Dial!CloseSession, Dial!Cancels, DialInv, Unstarted, Released
  <2>3. CASE closer = "release" /\ Dial!Releases /\ closer' = "done" /\ UNCHANGED closed
    <3>1. UNCHANGED <<pc, err, closeErr, reports>>
      BY <1>15 DEF Dial!CloseSession
    <3> QED BY <2>3, <3>1, ReleasesAll DEF DialInv, Unstarted, Released
  <2> QED BY <1>15, <2>1, <2>2, <2>3 DEF Dial!CloseSession
<1>16. ASSUME Dial!TransportBreaks PROVE DialInv'
  BY <1>16, OthersKeepDial, Zenon DEF Dial!TransportBreaks
<1>17. ASSUME Dial!ContextEnds \/ Dial!ServerAnswers \/ Dial!ServerFallsSilent
       PROVE  DialInv'
  BY <1>17, OthersKeepDial DEF Dial!ContextEnds, Dial!ServerAnswers, Dial!ServerFallsSilent
<1>18. ASSUME UNCHANGED Dial!vars PROVE DialInv'
  BY <1>18, OthersKeepDial DEF Dial!vars
<1> QED BY <1>1, <1>2, <1>3, <1>4, <1>5, <1>6, <1>7, <1>8, <1>9, <1>10, <1>11, <1>12,
           <1>13, <1>14, <1>15, <1>16, <1>17, <1>18, Zenon
        DEF Dial!Next, Dial!DialSteps, Dial!WorkerSteps

(* A Dial that fails has released all it opened, at whichever stage and    *)
(* whether or not a Close was under way; one that succeeds while the       *)
(* session dies hands it out with the reason to reconnect, and neither     *)
(* Close nor the end of DialWithTransport misses the conn or the layer.    *)
THEOREM DialCleansUp == Dial!Spec => []DialLeavesNothing
<1>1. Dial!Init => DialInv
  BY DEF Dial!Init, DialInv, Unstarted, Released
<1>2. DialInv => DialLeavesNothing
  BY DEF DialInv, Unstarted, Released, DialLeavesNothing, Dial!DialLeavesNothing
<1> QED BY <1>1, <1>2, DialStep, PTL DEF Dial!Spec
(* What the tracer may be given, and that it is told each stage in turn. *)
Events == {"HardReset", "TLSHandshake", "KeyMethod2Send", "KeyMethod2Recv", "PushRequest",
           "PushReply", "DataKeys", "error", "Complete"}
TraceInv ==
  /\ trace \in Seq(Events) /\ Len(trace) <= 8
  /\ pc \in {"dial", "wrapper"} => trace = << >>
  /\ pc \in {"shutdown", "release", "wait"} => trace # << >>
  /\ Dial!TraceTellsStage

(* The stages, numbered. *)
LEMMA StagesFacts ==
  /\ Len(Dial!Stages) = 7
  /\ Dial!Stages[1] = "HardReset" /\ Dial!Stages[2] = "TLSHandshake"
  /\ Dial!Stages[3] = "KeyMethod2Send" /\ Dial!Stages[4] = "KeyMethod2Recv"
  /\ Dial!Stages[5] = "PushRequest" /\ Dial!Stages[6] = "PushReply"
  /\ Dial!Stages[7] = "DataKeys"
BY DEF Dial!Stages

(* A stage has one number, and no other place of the dial has one. *)
LEMMA StageNumbers ==
  /\ \A i, j \in 1 .. 7 : Dial!Stages[i] = Dial!Stages[j] => i = j
  /\ \A i \in 1 .. 7 :
       /\ Dial!Stages[i] \in Events
       /\ Dial!Stages[i] \notin {"dial", "wrapper", "slot", "conn", "workers", "shutdown",
                                 "release", "wait", "returned"}
<1>1. \A i \in 1 .. 7 : i = 1 \/ i = 2 \/ i = 3 \/ i = 4 \/ i = 5 \/ i = 6 \/ i = 7
  OBVIOUS
<1>2. \A i, j \in 1 .. 7 : Dial!Stages[i] = Dial!Stages[j] => i = j
  BY <1>1, StagesFacts
<1>3. ASSUME NEW i \in 1 .. 7
      PROVE  /\ Dial!Stages[i] \in Events
             /\ Dial!Stages[i] \notin {"dial", "wrapper", "slot", "conn", "workers",
                                       "shutdown", "release", "wait", "returned"}
  BY <1>1, StagesFacts DEF Events
<1> QED BY <1>2, <1>3

(* An event during stage i is the tracer's next. *)
LEMMA NextEvent ==
  ASSUME TraceInv, NEW i \in 1 .. 7, pc = Dial!Stages[i], NEW e \in Events,
         trace' = Append(trace, e)
  PROVE  /\ trace' \in Seq(Events) /\ Len(trace') = i + 1 /\ trace'[i + 1] = e
         /\ \A j \in 1 .. i : trace'[j] = Dial!Stages[j]
<1>1. /\ trace \in Seq(Events) /\ Len(trace) = i /\ trace[i] = Dial!Stages[i]
      /\ \A j \in 1 .. i - 1 : trace[j] = Dial!Stages[j]
  BY StagesFacts DEF TraceInv, Dial!TraceTellsStage
<1>2. \A j \in 1 .. i : trace[j] = Dial!Stages[j]
  BY <1>1
<1> QED BY <1>1, <1>2

(* A stage that is entered is the next one ... *)
LEMMA EntersNext ==
  ASSUME TraceInv, NEW i \in 1 .. 6, pc = Dial!Stages[i], Dial!Enters(Dial!Stages[i + 1])
  PROVE  TraceInv'
<1>1. i \in 1 .. 7 /\ i + 1 \in 1 .. 7 /\ Dial!Stages[i + 1] \in Events
  BY StageNumbers
<1>2. pc' = Dial!Stages[i + 1] /\ trace' = Append(trace, Dial!Stages[i + 1])
  BY DEF Dial!Enters
<1>3. /\ trace' \in Seq(Events) /\ Len(trace') = i + 1
      /\ trace'[i + 1] = Dial!Stages[i + 1]
      /\ \A j \in 1 .. i : trace'[j] = Dial!Stages[j]
  BY <1>1, <1>2, NextEvent, Zenon
<1>4. \A j \in 1 .. 7 : pc' = Dial!Stages[j] => j = i + 1
  BY <1>1, <1>2, StageNumbers
<1>5. pc' \notin {"dial", "wrapper", "slot", "conn", "workers", "shutdown", "release",
                  "wait", "returned"}
  BY <1>1, <1>2, StageNumbers
<1>6. Dial!TraceTellsStage'
  BY <1>1, <1>2, <1>3, <1>4, <1>5, StagesFacts DEF Dial!TraceTellsStage
<1> QED BY <1>3, <1>5, <1>6 DEF TraceInv

(* ... and one that fails is the last. *)
LEMMA FailsLast ==
  ASSUME TraceInv, NEW i \in 1 .. 7, pc = Dial!Stages[i], NEW e, e \notin {"nil", "slot"},
         Dial!StageFails(e)
  PROVE  TraceInv'
<1>1. pc' = "shutdown" /\ err' = e /\ trace' = Append(trace, "error") /\ "error" \in Events
  BY DEF Dial!StageFails, Events
<1>2. /\ trace' \in Seq(Events) /\ Len(trace') = i + 1 /\ trace'[i + 1] = "error"
      /\ \A j \in 1 .. i : trace'[j] = Dial!Stages[j]
  BY <1>1, NextEvent, Zenon
<1>3. \A j \in 1 .. 7 : pc' # Dial!Stages[j]
  BY <1>1, StageNumbers
<1>4. Dial!TraceTellsStage'
  BY <1>1, <1>2, <1>3, StagesFacts DEF Dial!TraceTellsStage
<1>5. trace' # << >> /\ Len(trace') <= 8
  BY <1>2
<1> QED BY <1>1, <1>2, <1>4, <1>5 DEF TraceInv
(* control.Run tells the tracer of every stage that it enters, and of the  *)
(* error or the completion that ends it.                                   *)
LEMMA RunTrace ==
  ASSUME TraceInv, Dial!Run
  PROVE  TraceInv'
<1>1. ASSUME NEW i \in 1 .. 6, NEW msg, Dial!Writes(Dial!Stages[i], msg, Dial!Stages[i + 1])
      PROVE  TraceInv'
  <2>1. pc = Dial!Stages[i] /\ i \in 1 .. 7
    BY <1>1 DEF Dial!Writes
  <2>2. Dial!Enters(Dial!Stages[i + 1]) \/ Dial!StageFails("closed")
    BY <1>1 DEF Dial!Writes
  <2> QED BY <1>1, <2>1, <2>2, EntersNext, FailsLast
<1>2. ASSUME Dial!SendHardReset PROVE TraceInv'
  BY <1>1, <1>2, StagesFacts DEF Dial!SendHardReset
<1>3. ASSUME Dial!SendKeyMethod2 PROVE TraceInv'
  BY <1>1, <1>3, StagesFacts DEF Dial!SendKeyMethod2
<1>4. ASSUME Dial!SendPushRequest PROVE TraceInv'
  BY <1>1, <1>4, StagesFacts DEF Dial!SendPushRequest
<1>5. ASSUME Dial!TLSHandshake \/ Dial!TLSRefuses PROVE TraceInv'
  <2>1. pc = "TLSHandshake" /\ (Dial!Enters("KeyMethod2Send") \/ Dial!StageFails("tls"))
    BY <1>5 DEF Dial!TLSHandshake, Dial!TLSRefuses, Dial!Receives
  <2>2. "TLSHandshake" = Dial!Stages[2] /\ "KeyMethod2Send" = Dial!Stages[2 + 1]
    BY StagesFacts
  <2> QED BY <2>1, <2>2, EntersNext, FailsLast
<1>6. ASSUME Dial!HandshakeContextDone PROVE TraceInv'
  <2>1. pc = Dial!Stages[2] /\ Dial!StageFails("deadline")
    BY <1>6, StagesFacts DEF Dial!HandshakeContextDone
  <2> QED BY <2>1, FailsLast
<1>7. ASSUME Dial!ReadKeyMethod2 PROVE TraceInv'
  <2>1. pc = Dial!Stages[4]
        /\ (Dial!Enters(Dial!Stages[4 + 1]) \/ Dial!StageFails("protocol"))
    BY <1>7, StagesFacts DEF Dial!ReadKeyMethod2, Dial!Receives
  <2> QED BY <2>1, EntersNext, FailsLast
<1>8. ASSUME Dial!ReadPushReply PROVE TraceInv'
  <2>1. pc = Dial!Stages[6]
        /\ \/ Dial!Enters(Dial!Stages[6 + 1])
           \/ Dial!StageFails("ErrAuthFailed") \/ Dial!StageFails("protocol")
    BY <1>8, StagesFacts DEF Dial!ReadPushReply, Dial!Receives
  <2> QED BY <2>1, EntersNext, FailsLast
<1>9. ASSUME NEW stage \in {"TLSHandshake", "KeyMethod2Recv", "PushReply"},
             Dial!ReadFails(stage)
      PROVE  TraceInv'
  <2>1. \E i \in {2, 4, 6} : pc = Dial!Stages[i]
    BY <1>9, StagesFacts DEF Dial!ReadFails
  <2>2. Dial!StageFails("closed")
    BY <1>9 DEF Dial!ReadFails
  <2> QED BY <2>1, <2>2, FailsLast
<1>10. ASSUME Dial!DeriveDataKeys PROVE TraceInv'
  <2>1. pc = Dial!Stages[7]
    BY <1>10, StagesFacts DEF Dial!DeriveDataKeys
  <2>2. CASE Dial!StageFails("keys")
    BY <2>1, <2>2, FailsLast
  <2>3. CASE pc' = "slot" /\ trace' = Append(trace, "Complete") /\ UNCHANGED err
    <3>1. "Complete" \in Events
      BY DEF Events
    <3>2. /\ trace' \in Seq(Events) /\ Len(trace') = 8 /\ trace'[8] = "Complete"
          /\ \A j \in 1 .. 7 : trace'[j] = Dial!Stages[j]
      BY <2>1, <2>3, <3>1, NextEvent
    <3>3. \A j \in 1 .. 7 : pc' # Dial!Stages[j]
      BY <2>3, StageNumbers
    <3>4. Dial!TraceTellsStage'
      BY <2>3, <3>2, <3>3, StagesFacts DEF Dial!TraceTellsStage
    <3> QED BY <2>3, <3>2, <3>4 DEF TraceInv
  <2> QED BY <1>10, <2>2, <2>3 DEF Dial!DeriveDataKeys
<1> QED BY <1>2, <1>3, <1>4, <1>5, <1>6, <1>7, <1>8, <1>9, <1>10 DEF Dial!Run

(* Every step keeps TraceInv; no other goroutine tells the tracer anything. *)
LEMMA TraceStep == TraceInv /\ [Dial!Next]_(Dial!vars) => TraceInv'
<1> SUFFICES ASSUME TraceInv, [Dial!Next]_(Dial!vars) PROVE TraceInv'
  OBVIOUS
<1>1. ASSUME UNCHANGED <<pc, err, trace>> PROVE TraceInv'
  BY <1>1, Zenon DEF TraceInv, Dial!TraceTellsStage
<1>2. ASSUME trace' = trace, pc' \notin {"dial", "shutdown", "release", "wait"},
             \A j \in 1 .. 7 : pc' # Dial!Stages[j],
             pc' = "wrapper" => trace = << >>,
             pc' \in {"slot", "conn", "workers"} => pc \in {"slot", "conn", "workers"},
             pc' = "returned" =>
               trace = << >> \/ (pc = "workers" /\ err' = "nil")
      PROVE  TraceInv'
  BY <1>2, StagesFacts DEF TraceInv, Dial!TraceTellsStage
<1>3. ASSUME Dial!DialFails \/ Dial!Dialled \/ Dial!BuildWrapperFails PROVE TraceInv'
  <2>1. trace' = trace /\ trace = << >> /\ pc' \in {"returned", "wrapper"}
    BY <1>3 DEF TraceInv, Dial!DialFails, Dial!Dialled, Dial!BuildWrapperFails, Dial!Returns
  <2> QED BY <1>2, <2>1, StageNumbers
<1>4. ASSUME Dial!StartPumps PROVE TraceInv'
  <2>1. pc' = Dial!Stages[1] /\ trace' = <<Dial!Stages[1]>>
    BY <1>4 DEF Dial!StartPumps
  <2>2. trace' \in Seq(Events) /\ Len(trace') = 1 /\ trace'[1] = Dial!Stages[1]
    BY <2>1, StageNumbers
  <2>3. \A j \in 1 .. 7 : pc' = Dial!Stages[j] => j = 1
    <3>1. 1 \in 1 .. 7
      OBVIOUS
    <3> QED BY <2>1, <3>1, StageNumbers, Zenon
  <2>4. pc' \notin {"dial", "wrapper", "slot", "conn", "workers", "shutdown", "release",
                    "wait", "returned"}
    BY <2>1, StageNumbers
  <2>5. Dial!TraceTellsStage'
    BY <2>1, <2>2, <2>3, <2>4, StagesFacts DEF Dial!TraceTellsStage
  <2> QED BY <2>2, <2>4, <2>5 DEF TraceInv
<1>5. ASSUME Dial!Run PROVE TraceInv'
  BY <1>5, RunTrace
<1>6. ASSUME Dial!BuildSlotFails PROVE TraceInv'
  <2>1. pc = "slot" /\ pc' = "shutdown" /\ err' = "slot" /\ trace' = trace
    BY <1>6 DEF Dial!BuildSlotFails
  <2>2. \A j \in 1 .. 7 : pc' # Dial!Stages[j]
    BY <2>1, StageNumbers
  <2>3. Len(Dial!Stages) + 1 = 8
    BY StagesFacts
  <2>4. /\ trace \in Seq(Events) /\ Len(trace) = 8 /\ trace[8] = "Complete"
        /\ \A j \in 1 .. 8 - 1 : trace[j] = Dial!Stages[j]
    BY <2>1, <2>3 DEF TraceInv, Dial!TraceTellsStage
  <2>5. Dial!TraceTellsStage'
    BY <2>1, <2>2, <2>4, StagesFacts DEF Dial!TraceTellsStage
  <2>6. trace # << >>
    <3>1. Len(<< >>) = 0
      OBVIOUS
    <3>2. Len(trace) # 0
      <4>1. Len(trace) = 8
        BY <2>4
      <4> QED BY <4>1
    <3> QED BY <3>1, <3>2, Zenon
  <2> QED BY <2>1, <2>4, <2>5, <2>6 DEF TraceInv
<1>7. ASSUME Dial!InstallSlot \/ Dial!InstallTLSConn PROVE TraceInv'
  <2>1. pc \in {"slot", "conn"} /\ pc' \in {"conn", "workers"} /\ trace' = trace
    BY <1>7 DEF Dial!InstallSlot, Dial!InstallTLSConn
  <2> QED BY <1>2, <2>1, StageNumbers
<1>8. ASSUME Dial!StartWorkers PROVE TraceInv'
  <2>1. pc = "workers" /\ pc' = "returned" /\ err' = "nil" /\ trace' = trace
    BY <1>8 DEF Dial!StartWorkers, Dial!Returns
  <2> QED BY <1>2, <2>1, StageNumbers
<1>9. ASSUME Dial!ShutdownDial PROVE TraceInv'
  <2>1. /\ pc \in {"shutdown", "release", "wait"} /\ pc' \in {"release", "wait", "returned"}
        /\ err' = err /\ trace' = trace
    BY <1>9 DEF Dial!ShutdownDial
  <2>2. \A j \in 1 .. 7 : pc' # Dial!Stages[j]
    BY <2>1, StageNumbers
  <2>3. trace # << >> =>
          trace[Len(trace)] = IF err \in {"nil", "slot"} THEN "Complete" ELSE "error"
    BY <2>1 DEF TraceInv, Dial!TraceTellsStage
  <2>4. \A i \in 1 .. Len(trace) - 1 : i <= Len(Dial!Stages) /\ trace[i] = Dial!Stages[i]
    BY DEF TraceInv, Dial!TraceTellsStage
  <2>5. Dial!TraceTellsStage'
    BY <2>1, <2>2, <2>3, <2>4, StagesFacts DEF Dial!TraceTellsStage
  <2> QED BY <2>1, <2>5 DEF TraceInv
<1>10. ASSUME Dial!WorkerSteps \/ Dial!TickFails \/ Dial!CloseSession \/ Dial!ContextEnds
              \/ Dial!TransportBreaks \/ Dial!ServerAnswers \/ Dial!ServerFallsSilent
       PROVE  TraceInv'
  <2>1. UNCHANGED <<pc, err, trace>>
    BY <1>10 DEF Dial!WorkerSteps, Dial!ReadLoopFails, Dial!WorkersLeave, Dial!Report,
                 Dial!TickFails, Dial!CloseSession, Dial!ContextEnds, Dial!TransportBreaks,
                 Dial!ServerAnswers, Dial!ServerFallsSilent
  <2> QED BY <1>1, <2>1, Zenon
<1>11. ASSUME UNCHANGED Dial!vars PROVE TraceInv'
  BY <1>1, <1>11 DEF Dial!vars
<1> QED BY <1>3, <1>4, <1>5, <1>6, <1>7, <1>8, <1>9, <1>10, <1>11
        DEF Dial!Next, Dial!DialSteps

(* The HandshakeTracer hears of every stage of control.Run in its order,   *)
(* of an error once and last, and of completion exactly when no stage has  *)
(* failed.                                                                 *)
THEOREM TracerToldAll == Dial!Spec => []TraceTellsStage
<1>1. Dial!Init => TraceInv
  BY StagesFacts, StageNumbers DEF Dial!Init, TraceInv, Dial!TraceTellsStage
<1>2. TraceInv => TraceTellsStage
  BY DEF TraceInv, TraceTellsStage
<1> QED BY <1>1, <1>2, TraceStep, PTL DEF Dial!Spec

=============================================================================
