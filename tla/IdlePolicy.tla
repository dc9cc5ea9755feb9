------------------------------ MODULE IdlePolicy -----------------------------
(***************************************************************************)
(* The idle assessment an IPC worker answers GetStatus and                 *)
(* GetIdleAssessment with: it reads the sensors, advances the thermal      *)
(* hysteresis the daemon keeps, and evaluates IdlePolicy.  The hysteresis  *)
(* is read under one lock and stored under another, so two workers can     *)
(* overlap.  Temperatures are in thousandths of a degree Celsius,          *)
(* pressures in percent, durations in units of the grace period (300 s).   *)
(***************************************************************************)
EXTENDS Naturals, FiniteSets

CONSTANTS
  Workers,     \* IPC workers
  ZoneReads,   \* what the thermal zones can show: sets of [soc, raw], raw being
               \* the number in the file in thousandths
  Percents,    \* battery readings, NoReading among them
  Pressures,   \* CPU and I/O pressures, NoReading among them
  NoReading

ASSUME IdleAssumption ==
  /\ Percents \subseteq Nat \cup {NoReading}
  /\ Pressures \subseteq Nat \cup {NoReading}

VARIABLES
  thermal_state,   \* the daemon's ThermalHysteresisState
  worker,          \* per worker [at, temp, state]
  hot,             \* history: the last reading outside 40 to 45 was 45 to 50
  readsOverlapped       \* history: two workers were between read and store

idleVars == <<thermal_state, worker, hot, readsOverlapped>>

Milli(n) == 1000 * n
Plausible == 1 .. Milli(120) - 1     \* what counts as a reading
Temperatures == {0} \cup Plausible   \* 0 stands for none

ThermalStates == {"Normal", "Warm", "Hot", "Critical"}
Resting == [at |-> "rest", temp |-> 0, state |-> "Normal"]

IdleInit ==
  /\ thermal_state = "Normal"
  /\ worker = [w \in Workers |-> Resting]
  /\ hot = FALSE /\ readsOverlapped = FALSE

-----------------------------------------------------------------------------

\* The file has millidegrees, tenths or degrees, told apart by their size.
normalize_temp(raw) ==
  IF raw > Milli(1000) THEN raw \div 1000
  ELSE IF raw > Milli(150) THEN raw \div 10
  ELSE raw

Hottest(S) == IF S = {} THEN 0 ELSE CHOOSE t \in S : \A u \in S : u <= t

\* The hottest plausible zone of the SoC, of any other if it has none, 0 if
\* there is nothing to read.
read_thermal(zones) ==
  LET plausible(soc) ==
        {normalize_temp(z.raw) : z \in {x \in zones : x.soc = soc}} \cap Plausible
  IN IF plausible(TRUE) # {} THEN Hottest(plausible(TRUE)) ELSE Hottest(plausible(FALSE))

\* Mutation: no hysteresis, 40 to 45 degrees is Warm from anywhere.
NextWithoutHysteresis(cur, temp) ==
  IF temp >= Milli(50) THEN "Critical"
  ELSE IF temp >= Milli(45) THEN "Hot"
  ELSE IF temp > Milli(40) THEN "Warm"
  ELSE "Normal"

next_state(cur, temp) ==
  IF temp >= Milli(50) THEN "Critical"
  ELSE IF temp >= Milli(45) THEN "Hot"
  ELSE IF temp > Milli(40) THEN IF cur = "Hot" THEN "Hot" ELSE "Warm"
  ELSE "Normal"

\* Where the hysteresis is set, and where it is carried on.
HotReading(temp) == Milli(45) <= temp /\ temp < Milli(50)
Undecided(temp) == temp = 0 \/ (Milli(40) < temp /\ temp < Milli(45))

\* compute_thermal_state up to the end of its read lock.
ReadThermal(w) ==
  /\ worker[w].at = "rest"
  /\ \E zones \in ZoneReads :
       LET temp == read_thermal(zones)
       IN worker' = [worker EXCEPT ![w] =
            [at |-> "store", temp |-> temp,
             state |-> IF temp > 0 THEN next_state(thermal_state, temp) ELSE thermal_state]]
  /\ readsOverlapped' = (readsOverlapped \/ \E v \in Workers : worker[v].at = "store")
  /\ UNCHANGED <<thermal_state, hot>>

-----------------------------------------------------------------------------
\* IdlePolicy::evaluate on the context c and the thermal state th.

ScreenOff(c) == c.screen = "Off"
GraceElapsed(c) == ScreenOff(c) /\ c.offFor # NoReading /\ c.offFor >= 1
CpuHigh(c) == c.cpu # NoReading /\ c.cpu >= 10
IoHigh(c) == c.io # NoReading /\ c.io >= 8
CpuLow(c) == c.cpu = NoReading \/ c.cpu < 5
IoLow(c) == c.io = NoReading \/ c.io < 3
ThermalSafe(c) == c.temp = 0 \/ c.temp < Milli(40)

Points(b, n) == IF b THEN n ELSE 0

Score(c) ==
  Points(ScreenOff(c), 25) + Points(GraceElapsed(c), 10) + Points(c.charging, 15)
  + Points(c.battery >= 70, 10) + Points(c.cpu # NoReading /\ c.cpu < 5, 10)
  + Points(c.io # NoReading /\ c.io < 3, 10) + Points(c.temp # 0 /\ c.temp < Milli(38), 10)
  + Points(~c.active, 10)

DeepEligible(c, th) ==
  /\ c.charging /\ c.battery >= 70
  /\ th = "Normal" /\ ThermalSafe(c)
  /\ CpuLow(c) /\ IoLow(c)

IdleStateOf(c, th) ==
  IF ~ScreenOff(c) \/ c.active \/ th = "Critical" THEN "Active"
  ELSE IF ~GraceElapsed(c) THEN "IdleCandidate"
  ELSE IF DeepEligible(c, th) THEN "DeepIdle" ELSE "Idle"

\* Past the blockers the state is Idle or DeepIdle.
standard_maintenance(c, th) ==
  IF th = "Hot" THEN "Paused"
  ELSE IF \/ th = "Critical" \/ ~GraceElapsed(c) \/ c.active
          \/ c.battery < 20 \/ CpuHigh(c) \/ IoHigh(c)
  THEN "Blocked" ELSE "Allowed"

heavy_maintenance(c, th) ==
  IF th = "Hot" THEN "Paused"
  ELSE IF /\ IdleStateOf(c, th) = "DeepIdle"
          /\ standard_maintenance(c, th) = "Allowed"
          /\ c.charging /\ c.battery >= 70 /\ th = "Normal"
  THEN "Allowed" ELSE "Blocked"

rate_limit(c, th) ==
  CASE th \in {"Critical", "Hot"} -> 0
    [] th = "Warm" -> 300
    [] th = "Normal" -> IF IoHigh(c) THEN 50 ELSE IF CpuHigh(c) THEN 150 ELSE 500

\* The context is read from the sensors while the handler runs.  The screen is
\* read for the activity and once more for the context, and an Unknown screen is
\* neither on nor off; no battery reading counts as half full.
Contexts(temp) ==
  [screen : {"On", "Off", "Unknown"}, active : BOOLEAN, offFor : {NoReading, 0, 1},
   charging : BOOLEAN, temp : {temp}, cpu : Pressures, io : Pressures,
   battery : {IF b = NoReading THEN 50 ELSE b : b \in Percents}]

evaluate(c, th) ==
  [score |-> Score(c), state |-> IdleStateOf(c, th), rate |-> rate_limit(c, th),
   standard |-> standard_maintenance(c, th), heavy |-> heavy_maintenance(c, th)]

\* set_thermal_state; the rest of the handler evaluates one of Contexts and
\* answers, sharing nothing more with other workers.
StoreAndAnswer(w) ==
  /\ worker[w].at = "store"
  /\ thermal_state' = worker[w].state
  /\ hot' = IF HotReading(worker[w].temp) THEN TRUE
            ELSE IF Undecided(worker[w].temp) THEN hot
            ELSE FALSE
  /\ worker' = [worker EXCEPT ![w] = Resting]
  /\ UNCHANGED readsOverlapped

-----------------------------------------------------------------------------

IdleNext == \E w \in Workers : ReadThermal(w) \/ StoreAndAnswer(w)

IdleSpec == IdleInit /\ [][IdleNext]_idleVars

-----------------------------------------------------------------------------

IdleTypeOK ==
  /\ thermal_state \in ThermalStates
  /\ \A w \in Workers : worker[w] \in [at : {"rest", "store"}, temp : Temperatures, state : ThermalStates]

\* Whatever else a worker reads, an assessment that allows maintenance has the
\* screen off for the grace period, nobody active, the battery at 20 % or more, no
\* high pressure, no reading of 45 degrees or more and a rate above zero.  Heavy
\* maintenance is allowed in DeepIdle and only there, never without the standard
\* one, and a full score always gets it.  Unless two workers overlapped, the
\* state is Hot exactly while the last reading that is not between 40 and 45
\* degrees (both excluded) was at least 45 and below 50: a hot device has to cool
\* to 40 degrees, while one that was at 50 or more is merely Warm below 45.
VerdictSafe ==
  /\ \A w \in Workers : worker[w].at = "store" =>
       \A c \in Contexts(worker[w].temp) :
         LET v == evaluate(c, worker[w].state)
         IN /\ v.standard = "Allowed" =>
                 /\ c.screen = "Off" /\ ~c.active /\ c.offFor = 1
                 /\ c.battery >= 20 /\ c.temp < Milli(45) /\ v.rate > 0
                 /\ c.cpu \in {NoReading} \cup 0 .. 9 /\ c.io \in {NoReading} \cup 0 .. 7
            /\ v.heavy = "Allowed" <=> v.state = "DeepIdle"
            /\ v.heavy = "Allowed" => v.standard = "Allowed"
            /\ v.score = 100 => v.heavy = "Allowed"
  /\ ~readsOverlapped => (hot <=> thermal_state = "Hot")
=============================================================================
