---- MODULE RadioTuning ----
(***************************************************************************)
(* What is asked of the radio for a device: ble/ConnectionParameters.js    *)
(* (interval, latency, supervision timeout) and ble/PowerLevelAdjustment.js*)
(* (power).  Each adjusts a base value in a sequence of steps that do not  *)
(* know of each other.  The two classes keep the same record of a device   *)
(* and are told the same events: one record stands for both.               *)
(*                                                                         *)
(* Intervals are in half milliseconds, so that halving and adding a half   *)
(* are exact; timeouts are in milliseconds, power levels in dBm below 0.   *)
(***************************************************************************)
EXTENDS Integers, FiniteSetsExt

CONSTANTS Bytes,      \* sizes of a data transfer
          Batteries,  \* battery levels
          Absent      \* no battery level, no reading

VARIABLES priority,   \* devicePriorities: "medium" when there is none
          rate,       \* bytes of the transfers of the last second
          battery,    \* batteryLevel
          drops,      \* connection drops of the last five minutes
          draining,   \* powerMetrics.batteryDrain > 1.0
          rssi        \* the class of the average of the readings
radioVars == <<priority, rate, battery, drops, draining, rssi>>

Priorities == {"high", "medium", "low"}
Signals == {"poor", "fair", "good", "excellent"}
HighRate == 1000   \* dataRateThresholds.high; bound: what exceeds it counts as it does
LowRate == 100
LowBattery == 20
HighBattery == 100
Unstable == 2      \* bound: more recent drops count as two

TypeOK ==
  /\ priority \in Priorities /\ rate \in 0..HighRate
  /\ battery \in Batteries \cup {Absent} /\ rssi \in Signals \cup {Absent}
  /\ drops \in 0..Unstable /\ draining \in BOOLEAN

Init == priority = "medium" /\ rate = 0 /\ battery = Absent /\ drops = 0 /\ draining = FALSE /\ rssi = Absent

----
(* The recorders of both classes *)

SetPriority(p) == priority' = p /\ UNCHANGED <<rate, battery, drops, draining, rssi>>
RecordDataTransfer(b) ==
  /\ rate' = Min({rate + b, HighRate})
  /\ UNCHANGED <<priority, battery, drops, draining, rssi>>
UpdateDeviceBattery(l) == battery' = l /\ UNCHANGED <<priority, rate, drops, draining, rssi>>
RecordPowerMetrics(d) == draining' = d /\ UNCHANGED <<priority, rate, battery, drops, rssi>>
RecordConnectionDrop ==
  /\ drops' = Min({drops + 1, Unstable})
  /\ UNCHANGED <<priority, rate, battery, draining, rssi>>
\* The new reading may move the average to any class.
RecordRSSI(s) == rssi' = s /\ UNCHANGED <<priority, rate, battery, drops, draining>>

\* Transfers are older than a second, drops older than five minutes.
SecondPasses == rate' = 0 /\ UNCHANGED <<priority, battery, drops, draining, rssi>>
DropsAge == drops' = 0 /\ UNCHANGED <<priority, rate, battery, draining, rssi>>

Next ==
  \/ \E p \in Priorities : SetPriority(p)
  \/ \E b \in Bytes : RecordDataTransfer(b)
  \/ \E l \in Batteries : UpdateDeviceBattery(l)
  \/ \E d \in BOOLEAN : RecordPowerMetrics(d)
  \/ \E s \in Signals : RecordRSSI(s)
  \/ RecordConnectionDrop \/ SecondPasses \/ DropsAge
Spec == Init /\ [][Next]_radioVars

----
(* getOptimizedParameters *)

MinInterval == 40
MaxInterval == 2000
MaxLatency == 10
MinTimeout == 1000
MaxTimeout == 10000

Params(interval, latency, timeout) == [interval |-> interval, latency |-> latency, timeout |-> timeout]
LatencyPlus(p, n) == Min({p.latency + n, MaxLatency})

GetBaseParameters ==
  CASE priority = "high" -> Params(100, 0, 2000)
    [] priority = "low"  -> Params(400, 2, 2000)
    [] OTHER             -> Params(200, 0, 2000)

AdjustForDataRate(p) ==
  IF rate >= HighRate THEN Params(Min({p.interval, 100}), 0, p.timeout)
  ELSE IF rate <= LowRate THEN Params(Max({p.interval, 400}), LatencyPlus(p, 1), p.timeout)
  ELSE p

(* Operators named after a defect are wrong variants of the definition that follows them: Next does not
   use them; they serve to check that the properties notice the defect. *)
\* A full battery: the timeout has no lower limit.
AdjustForBatteryUnfloored(p) ==
  IF battery = Absent THEN p
  ELSE IF battery <= LowBattery
  THEN Params(Max({p.interval * 2, MinInterval}), LatencyPlus(p, 2), Min({p.timeout * 2, MaxTimeout}))
  ELSE IF battery >= HighBattery
  THEN Params(Max({p.interval \div 2, MinInterval}), p.latency, p.interval * 2)
  ELSE p
AdjustForBattery(p) ==
  IF battery = Absent THEN p
  ELSE IF battery <= LowBattery
  THEN Params(Max({p.interval * 2, MinInterval}), LatencyPlus(p, 2), Min({p.timeout * 2, MaxTimeout}))
  ELSE IF battery >= HighBattery
  THEN Params(Max({p.interval \div 2, MinInterval}), p.latency, Max({p.interval * 2, MinTimeout}))
  ELSE p

AdjustForStability(p) ==
  IF drops >= Unstable THEN Params(p.interval, 0, Min({p.timeout * 4, MaxTimeout})) ELSE p

AdjustForPower(p) ==
  IF draining THEN Params(Min({(p.interval * 3) \div 2, MaxInterval}), LatencyPlus(p, 1), p.timeout) ELSE p

\* _validateParameters; the timeout must cover two intervals of every skipped event.
ValidParameters(p) ==
  /\ p.interval \in MinInterval..MaxInterval
  /\ p.latency \in 0..MaxLatency
  /\ p.timeout \in MinTimeout..MaxTimeout
  /\ p.timeout >= p.interval * (p.latency + 1)

Optimized == AdjustForPower(AdjustForStability(AdjustForBattery(AdjustForDataRate(GetBaseParameters))))
Refused == ~ValidParameters(Optimized)

----
(* getOptimizedPowerLevel *)

GetBasePowerLevel == CASE priority = "high" -> 0 [] priority = "low" -> -10 [] OTHER -> -5

PowerForRSSI(l) ==
  CASE rssi = Absent      -> l
    [] rssi = "poor"      -> 0
    [] rssi = "fair"      -> Max({l, -5})
    [] rssi = "good"      -> Max({l, -10})
    [] rssi = "excellent" -> Min({l, -15})
PowerForBattery(l) ==
  IF battery = Absent THEN l ELSE IF battery <= LowBattery THEN Min({l, -15}) ELSE l
PowerForStability(l) == IF drops >= Unstable THEN 0 ELSE l
PowerForDrain(l) == IF draining THEN Min({l, -10}) ELSE l
OptimizedPower == PowerForDrain(PowerForStability(PowerForBattery(PowerForRSSI(GetBasePowerLevel))))

----
(* Whatever was recorded, in whatever order: the steps never add up to      *)
(* parameters the class itself refuses (getOptimizedParameters then throws) *)
(* for a device that is busy or whose link is unstable, nor for one that    *)
(* needs no energy saved; the power level is always one the class accepts,  *)
(* and an unstable link that does not drain the battery has full power.     *)
(* (An idle device with a low battery that drains it is refused: the steps  *)
(* that save energy lengthen interval and latency beyond the timeout.)      *)
TuningServes ==
  /\ Refused => /\ drops < Unstable /\ rate < HighRate
                /\ draining \/ (battery # Absent /\ battery <= LowBattery)
                /\ priority = "low" \/ (rate <= LowRate /\ draining)
  /\ OptimizedPower \in -20..0
  /\ drops = Unstable /\ ~draining => OptimizedPower = 0
====
