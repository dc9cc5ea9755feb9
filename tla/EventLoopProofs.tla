-------------------------- MODULE EventLoopProofs ---------------------------
(***************************************************************************)
(* The event loop for every configuration, interval, backoff and clock.    *)
(*                                                                         *)
(* The argument.  Deadlines bounds every deadline by the clock.  The bound *)
(* on a maintenance deadline is tighter (one interval) while a retry is    *)
(* pending: a retry that succeeds adds an interval to a deadline that may  *)
(* already have been renewed, which is where two intervals come from.      *)
(* Screen accounts for what the loop has not been told yet: unless it is   *)
(* blind, a difference between the display and what the loop believes of   *)
(* it, the reading at hand included, is still queued, to be reported as an *)
(* overflow, or in the batch at hand; and a clean that goes on with the    *)
(* screen known to be on began that way, was overtaken, or is about to be  *)
(* preempted.  Spins counts what each wake-up since the last cause has     *)
(* left to wake the loop again.                                            *)
(***************************************************************************)
EXTENDS EventLoop, TLAPS

Reports == {"UeventBufferOverflow", "DisplayUevent"}

\* The bound every deadline of a state obeys at an instant.
Bounded(s, t) ==
  /\ \E i \in Intervals : s.maintenance <= t + 2 * i
  /\ s.retry # None =>
       /\ s.retry <= t + RetryMax
       /\ \E i \in Intervals : s.maintenance <= t + i

Deadlines ==
  /\ batchNow <= now
  /\ Bounded(st, now)
  /\ pc = "wait" => armed = earliest_deadline(st)

\* What the loop takes the screen to be once the reading at hand is reduced.
Believed == IF pc = "reconcile" /\ seen # "Unknown" THEN seen ELSE st.screen

Screen ==
  /\ \/ blind
     \/ Believed = screen
     \/ pc = "subscribed"
     \/ "DisplayUevent" \in uevents
     \/ enobufs
     \/ pc \in Handling /\ batch \cap Reports # {}
  /\ pc \in {"subscribed", "drain"} => clean = "none"
  /\ clean \in {"claimed", "running"} /\ st.screen = "On" /\ pc # "preempt"
       => startedOn \/ overtaken

\* Why the loop comes to rest: what the wake-ups since the clock or a cause last
\* moved have left that could wake it again.  The first acknowledges an overflow,
\* SIGHUP and the strongest PSI trigger and leaves no deadline before now; the
\* second empties the socket, acknowledges the other trigger and renews a
\* maintenance deadline of this very instant; the third finds at most the
\* screen-off deadline that a reconciliation of the second has set.
Later(d) == d = None \/ d > now

OneWake ==
  /\ pc # "wait" => batchNow = now
  /\ ~enobufs /\ ~hup
  /\ "PsiCritical" \in psi => "PsiCritical" \in batch
  /\ "TimerExpired" \notin batch => st.maintenance >= now /\ Later(st.retry)

TwoWakes ==
  /\ uevents = {} /\ psi \subseteq batch
  /\ st.maintenance >= now /\ Later(st.retry)
  /\ "TimerExpired" \notin batch => st.maintenance > now

ThreeWakes ==
  /\ pc # "reconcile"
  /\ batch \subseteq {"TimerExpired"}
  /\ st.maintenance > now
  /\ "TimerExpired" \notin batch => Later(st.screenOff)

Spins ==
  /\ pc \in {"subscribed", "drain", "wait"} => batch = {}
  /\ pc \in {"subscribed", "drain"} => wakes = 0
  /\ wakes <= 3
  /\ wakes >= 1 => OneWake
  /\ wakes >= 2 => TwoWakes
  /\ wakes >= 3 => ThreeWakes

LInv == TypeOK /\ Deadlines /\ Screen /\ Spins

USE DEF env, kernel, batchVars, cleanVars, history

-----------------------------------------------------------------------------
(***************************************************************************)
(* The pure part.                                                          *)
(***************************************************************************)

\* earliest_deadline is an instant, not after any deadline that is set.
LEMMA EarliestDeadline ==
  ASSUME NEW s \in LoopStates
  PROVE  /\ earliest_deadline(s) \in Nat
         /\ earliest_deadline(s) <= s.maintenance
         /\ s.retry # None => earliest_deadline(s) <= s.retry
  BY LoopAssumption DEF LoopStates, earliest_deadline, Earlier, Instants

\* LoopState::new makes a LoopState.
LEMMA NewStateType ==
  ASSUME NEW ivl \in Intervals, NEW t \in Nat
  PROVE  NewState(ivl, t) \in LoopStates
  BY LoopAssumption DEF NewState, LoopStates, Instants

\* What an expired timer leaves of the state.
LEMMA TimerFacts ==
  ASSUME NEW s \in LoopStates, NEW t \in Nat
  PROVE  /\ TimerReduced(s, t) \in LoopStates
         /\ TimerReduced(s, t).screen = s.screen
         /\ TimerReduced(s, t).maintenance = s.maintenance
         /\ TimerReduced(s, t).retry = s.retry
  BY DEF LoopStates, TimerReduced

\* A reconciled screen: known if sysfs answered, and no deadline is moved.
LEMMA ScreenFacts ==
  ASSUME NEW s \in LoopStates, NEW t \in Nat, NEW v \in {"On", "Off", "Unknown"}
  PROVE  /\ ScreenReduced(s, v, t) \in LoopStates
         /\ ScreenReduced(s, v, t).maintenance = s.maintenance
         /\ ScreenReduced(s, v, t).retry = s.retry
         /\ ScreenReduced(s, v, t).screen = IF v = "Unknown" THEN s.screen ELSE v
  <1>1. CASE v = "On"
    <2>1. ScreenReduced(s, v, t) =
            [s EXCEPT !.screen = "On", !.since = None, !.screenOff = None,
                      !.backoff = RetryInitial]
      BY <1>1 DEF ScreenReduced
    <2>2. RetryInitial \in RetryInitial .. RetryMax
      BY LoopAssumption
    <2> QED
      BY <1>1, <2>1, <2>2, Zenon DEF LoopStates
  <1>2. CASE v = "Off" /\ s.screen # "Off"
    <2>1. ScreenReduced(s, v, t) =
            [s EXCEPT !.screen = "Off", !.since = t, !.screenOff = t + MinScreenOff,
                      !.backoff = RetryInitial]
      BY <1>2 DEF ScreenReduced
    <2>2. t \in Instants /\ t + MinScreenOff \in Instants /\ RetryInitial \in RetryInitial .. RetryMax
      BY LoopAssumption DEF Instants
    <2> QED
      BY <1>2, <2>1, <2>2, Zenon DEF LoopStates
  <1>3. CASE ~(v = "On") /\ ~(v = "Off" /\ s.screen # "Off")
    BY <1>3 DEF ScreenReduced
  <1> QED
    BY <1>1, <1>2, <1>3

\* A reload restarts the interval and forgets the retry.
LEMMA ReloadFacts ==
  ASSUME NEW s \in LoopStates, NEW t \in Nat, NEW ivl \in Intervals
  PROVE  /\ ReloadReduced(s, t, ivl) \in LoopStates
         /\ ReloadReduced(s, t, ivl).maintenance = t + ivl
         /\ ReloadReduced(s, t, ivl).retry = None
         /\ ReloadReduced(s, t, ivl).screen = s.screen
  <1>1. t + ivl \in Instants /\ RetryInitial \in RetryInitial .. RetryMax
    BY LoopAssumption DEF Instants
  <1> QED
    BY <1>1, Zenon DEF LoopStates, ReloadReduced

\* A cycle that ran: the retry is gone and the deadline is at most an interval
\* beyond the later of now and its old value.
LEMMA SuccessFacts ==
  ASSUME NEW s \in LoopStates, NEW t \in Nat, NEW ivl \in Intervals
  PROVE  /\ on_maintenance_success(s, t, ivl) \in LoopStates
         /\ on_maintenance_success(s, t, ivl).screen = s.screen
         /\ on_maintenance_success(s, t, ivl).retry = None
         /\ \/ on_maintenance_success(s, t, ivl).maintenance <= t + ivl
            \/ on_maintenance_success(s, t, ivl).maintenance = s.maintenance + ivl
  <1> DEFINE m == IF s.maintenance + ivl < t THEN t + ivl ELSE s.maintenance + ivl
  <1>1. s.maintenance \in Nat
    BY DEF LoopStates, Instants
  <1>2. m \in Instants /\ RetryInitial \in RetryInitial .. RetryMax
    BY <1>1, LoopAssumption DEF Instants
  <1>3. m <= t + ivl \/ m = s.maintenance + ivl
    BY <1>1, LoopAssumption
  <1>4. on_maintenance_success(s, t, ivl) =
          [s EXCEPT !.maintenance = m, !.retry = None, !.backoff = RetryInitial]
    BY DEF on_maintenance_success, LoopStates
  <1> HIDE DEF m
  <1> QED
    BY <1>2, <1>3, <1>4, Zenon DEF LoopStates

\* A cycle that was postponed: the retry is at most RetryMax away and a deadline
\* that has passed is renewed.
LEMMA PostponedFacts ==
  ASSUME NEW s \in LoopStates, NEW t \in Nat, NEW ivl \in Intervals
  PROVE  /\ on_maintenance_postponed(s, t, ivl) \in LoopStates
         /\ on_maintenance_postponed(s, t, ivl).screen = s.screen
         /\ on_maintenance_postponed(s, t, ivl).retry \in Nat
         /\ on_maintenance_postponed(s, t, ivl).retry <= t + RetryMax
         /\ on_maintenance_postponed(s, t, ivl).maintenance
              = IF s.maintenance <= t THEN t + ivl ELSE s.maintenance
  <1> DEFINE m == IF s.maintenance <= t THEN t + ivl ELSE s.maintenance
             b == IF 2 * s.backoff <= RetryMax THEN 2 * s.backoff ELSE RetryMax
             r == t + s.backoff
  <1>1. s.maintenance \in Nat /\ s.backoff \in RetryInitial .. RetryMax
    BY DEF LoopStates, Instants
  <1>2. m \in Instants
    BY <1>1, LoopAssumption DEF Instants
  <1>3. b \in RetryInitial .. RetryMax
    BY <1>1, LoopAssumption
  <1>4. r \in Nat /\ r <= t + RetryMax /\ r \in Instants
    BY <1>1, LoopAssumption DEF Instants
  <1>5. on_maintenance_postponed(s, t, ivl) =
          [s EXCEPT !.retry = r, !.backoff = b, !.maintenance = m]
    BY DEF on_maintenance_postponed, LoopStates
  <1>6. m = IF s.maintenance <= t THEN t + ivl ELSE s.maintenance
    OBVIOUS
  <1> HIDE DEF m, b, r
  <1> QED
    BY <1>2, <1>3, <1>4, <1>5, <1>6, Zenon DEF LoopStates

\* ReconcileScreen: the reading at hand becomes what the loop believes.
LEMMA ReconcileFacts ==
  ASSUME TypeOK, ReconcileScreen
  PROVE  /\ st' \in LoopStates
         /\ st'.maintenance = st.maintenance
         /\ st'.retry = st.retry
         /\ st'.screen = IF seen = "Unknown" THEN st.screen ELSE seen
  <1>1. st \in LoopStates /\ batchNow \in Nat /\ seen \in {"On", "Off", "Unknown"}
    BY DEF TypeOK
  <1>2. st' = ScreenReduced(st, seen, batchNow)
    BY DEF ReconcileScreen
  <1> QED
    BY <1>1, <1>2, ScreenFacts

-----------------------------------------------------------------------------
(***************************************************************************)
(* Types.                                                                  *)
(***************************************************************************)

\* Reading a batch keeps the types of what it changes.
LEMMA ReadBatchType ==
  ASSUME TypeOK, ReadBatch
  PROVE  /\ batch' \subseteq LoopEvents
         /\ batchNow' \in Nat /\ batchIvl' \in Intervals
         /\ uevents' \subseteq {"DisplayUevent", "OtherUevent"}
         /\ pc' \in {"subscribed", "drain", "wait"} \cup Handling
         /\ enobufs' \in BOOLEAN /\ hup' \in BOOLEAN /\ wakes' \in Nat
         /\ UNCHANGED <<now, permitted, interval, cleanVars, st, seen, armed, socket, psi>>
  <1>1. Ready \subseteq LoopEvents
    BY DEF TypeOK, Ready, PsiLevel, LoopEvents
  <1>2. uevents' \subseteq {"DisplayUevent", "OtherUevent"}
    BY DEF TypeOK, ReadBatch
  <1>3. batch' \subseteq LoopEvents
    BY <1>1 DEF ReadBatch
  <1>4. /\ batchNow' \in Nat /\ batchIvl' \in Intervals /\ wakes' \in Nat
        /\ pc' \in {"subscribed", "drain", "wait"} \cup Handling
    BY DEF TypeOK, ReadBatch, Handling
  <1>5. enobufs' \in BOOLEAN /\ hup' \in BOOLEAN
    BY Zenon DEF ReadBatch
  <1>6. UNCHANGED <<now, permitted, interval, cleanVars, st, seen, armed, socket, psi>>
    BY DEF ReadBatch
  <1> QED
    BY <1>2, <1>3, <1>4, <1>5, <1>6

\* What happens outside the loop keeps the types.
LEMMA EnvironmentType ==
  ASSUME TypeOK, Environment
  PROVE  TypeOK'
  <1>1. CASE Tick
    BY <1>1 DEF TypeOK, Tick
  <1>2. CASE ScreenChanges
    <2>1. screen' \in {"On", "Off"} /\ causes' \in 0 .. MaxCauses
      BY <1>2, LoopAssumption DEF TypeOK, ScreenChanges, Happens
    <2>2. uevents' \subseteq {"DisplayUevent", "OtherUevent"} /\ enobufs' \in BOOLEAN
          /\ blind' \in BOOLEAN
      BY <1>2, Zenon DEF TypeOK, ScreenChanges
    <2> QED
      BY <1>2, <2>1, <2>2 DEF TypeOK, ScreenChanges
  <1>3. CASE SensorsChange
    BY <1>3 DEF TypeOK, SensorsChange
  <1>4. CASE OtherUevent
    BY <1>4, LoopAssumption DEF TypeOK, OtherUevent, Happens
  <1>5. CASE SigHup
    BY <1>5, LoopAssumption DEF TypeOK, SigHup, Happens
  <1>6. ASSUME NEW level \in {"PsiModerate", "PsiCritical"}, PsiFires(level)
        PROVE  TypeOK'
    BY <1>6, LoopAssumption DEF TypeOK, PsiFires, Happens
  <1>7. CASE IpcClean
    <2>1. causes' \in 0 .. MaxCauses /\ clean' \in CleanStates
      BY <1>7, LoopAssumption DEF TypeOK, CleanStates, IpcClean, Happens
    <2>2. startedOn' \in BOOLEAN /\ overtaken' \in BOOLEAN
      BY <1>7, Zenon DEF IpcClean
    <2> QED
      BY <1>7, <2>1, <2>2 DEF TypeOK, IpcClean
  <1>8. CASE CleanEnds
    BY <1>8, Zenon DEF TypeOK, CleanStates, CleanEnds
  <1>9. CASE IpcReload
    BY <1>9, LoopAssumption DEF TypeOK, IpcReload, Happens
  <1>10. CASE WakeLosingUevent
    <2>1. ReadBatch
      BY <1>10 DEF WakeLosingUevent
    <2>2. screen' \in {"On", "Off"} /\ causes' \in 0 .. MaxCauses /\ blind' \in BOOLEAN
      BY <1>10, LoopAssumption DEF TypeOK, WakeLosingUevent, Happens
    <2> QED
      BY <2>1, <2>2, ReadBatchType, Zenon DEF TypeOK
  <1>11. CASE ResetToken
    BY <1>11 DEF TypeOK, CleanStates, ResetToken
  <1> QED
    BY <1>1, <1>2, <1>3, <1>4, <1>5, <1>6, <1>7, <1>8, <1>9, <1>10, <1>11 DEF Environment

\* The timer keeps the types.
LEMMA TimerType ==
  ASSUME TypeOK, HandleTimer
  PROVE  TypeOK'
  <1> DEFINE s == TimerReduced(st, batchNow)
  <1>1. s \in LoopStates
    BY TimerFacts DEF TypeOK
  <1>2. /\ on_maintenance_success(s, batchNow, batchIvl) \in LoopStates
        /\ on_maintenance_postponed(s, batchNow, batchIvl) \in LoopStates
    BY <1>1, SuccessFacts, PostponedFacts DEF TypeOK
  <1>3. st' \in LoopStates /\ clean' \in CleanStates /\ startedOn' \in BOOLEAN /\ overtaken' \in BOOLEAN
    BY <1>1, <1>2, Zenon DEF HandleTimer, TypeOK, CleanStates
  <1> QED
    BY <1>3 DEF TypeOK, HandleTimer, Handled

\* The loop keeps the types.
LEMMA LoopType ==
  ASSUME TypeOK, LoopStep
  PROVE  TypeOK'
  <1>0. \A v \in SysfsReads, t \in Nat : ScreenReduced(st, v, t) \in LoopStates
    <2>1. st \in LoopStates /\ SysfsReads \subseteq {"On", "Off", "Unknown"}
      BY DEF TypeOK, SysfsReads
    <2> QED
      BY <2>1, ScreenFacts
  <1>1. CASE ReadInitialScreen
    <2>1. st' \in LoopStates /\ blind' \in BOOLEAN
      BY <1>0, <1>1 DEF ReadInitialScreen, BlindAfter, TypeOK
    <2> QED
      BY <1>1, <2>1 DEF TypeOK, ReadInitialScreen
  <1>2. CASE DrainQueued
    <2>1. st' \in LoopStates /\ blind' \in BOOLEAN
      BY <1>0, <1>2, Zenon DEF DrainQueued, BlindAfter, TypeOK
    <2>2. armed' \in Instants
      BY <1>2, <2>1, EarliestDeadline DEF DrainQueued, Instants
    <2> QED
      BY <1>2, <2>1, <2>2, Zenon DEF TypeOK, DrainQueued
  <1>3. CASE Wake
    BY <1>3, ReadBatchType, Zenon DEF TypeOK, Wake
  <1>4. CASE HandleReload
    <2>1. st' \in LoopStates
      BY <1>4, ReloadFacts DEF HandleReload, TypeOK
    <2> QED
      BY <1>4, <2>1 DEF TypeOK, HandleReload, Handled, Handling
  <1>5. CASE ReloadConfig
    BY <1>5 DEF TypeOK, ReloadConfig, Handling
  <1>6. ASSUME NEW level \in {"PsiModerate", "PsiCritical"}, HandlePsi(level)
        PROVE  TypeOK'
    BY <1>6 DEF TypeOK, HandlePsi, Handled
  <1>7. ASSUME NEW e \in Reports, ReconcileSysfs(e)
        PROVE  TypeOK'
    <2>1. seen' \in {"On", "Off", "Unknown"} /\ blind' \in BOOLEAN
      BY <1>7 DEF ReconcileSysfs, BlindAfter, SysfsReads, TypeOK
    <2> QED
      BY <1>7, <2>1 DEF TypeOK, ReconcileSysfs, Handled, Handling
  <1>8. CASE IgnoreUevent
    BY <1>8 DEF TypeOK, IgnoreUevent, Handled
  <1>9. CASE Rearm
    <2>1. armed' \in Instants
      BY <1>9, EarliestDeadline DEF Rearm, TypeOK, Instants
    <2> QED
      BY <1>9, <2>1 DEF TypeOK, Rearm
  <1>10. CASE ReconcileScreen
    <2>1. st' \in LoopStates
      BY <1>10, ReconcileFacts
    <2> QED
      BY <1>10, <2>1 DEF TypeOK, ReconcileScreen, Handling
  <1>11. CASE PreemptCleaning
    <2>1. clean' \in CleanStates /\ overtaken' \in BOOLEAN /\ pc' \in Handling
      BY <1>11, Zenon DEF TypeOK, PreemptCleaning, CleanStates, Handling
    <2> QED
      BY <1>11, <2>1 DEF TypeOK, PreemptCleaning
  <1> QED
    BY <1>1, <1>2, <1>3, <1>4, <1>5, <1>6, <1>7, <1>8, <1>9, <1>10, <1>11, TimerType
       DEF LoopStep, Reports

-----------------------------------------------------------------------------
(***************************************************************************)
(* Deadlines.                                                              *)
(***************************************************************************)

\* A step that moves no deadline, nor the clock back, keeps them bounded.
LEMMA BoundedLater ==
  ASSUME NEW s \in LoopStates, NEW r \in LoopStates, NEW t \in Nat, NEW u \in Nat,
         Bounded(s, t), t <= u, r.maintenance = s.maintenance, r.retry = s.retry
  PROVE  Bounded(r, u)
  <1>1. s.maintenance \in Nat /\ (s.retry # None => s.retry \in Nat)
    BY DEF LoopStates, Instants
  <1>2. PICK i \in Intervals : s.maintenance <= t + 2 * i
    BY DEF Bounded
  <1>3. r.maintenance <= u + 2 * i
    BY <1>1, <1>2, LoopAssumption
  <1>4. ASSUME s.retry # None
        PROVE  /\ r.retry <= u + RetryMax
               /\ \E j \in Intervals : r.maintenance <= u + j
    <2>1. PICK j \in Intervals : s.maintenance <= t + j
      BY <1>4 DEF Bounded
    <2>2. r.maintenance <= u + j
      BY <1>1, <2>1, LoopAssumption
    <2>3. r.retry <= u + RetryMax
      BY <1>1, <1>4, LoopAssumption DEF Bounded
    <2> QED
      BY <2>2, <2>3
  <1> QED
    BY <1>3, <1>4 DEF Bounded

\* A cycle that is due, run or postponed at instant t and seen at instant u.
LEMMA BoundedCycle ==
  ASSUME NEW s \in LoopStates, NEW t \in Nat, NEW u \in Nat, NEW ivl \in Intervals,
         Bounded(s, u), t <= u, MaintenanceDue(s, t)
  PROVE  /\ Bounded(on_maintenance_success(s, t, ivl), u)
         /\ Bounded(on_maintenance_postponed(s, t, ivl), u)
  <1> DEFINE ok == on_maintenance_success(s, t, ivl)
             later == on_maintenance_postponed(s, t, ivl)
  <1>1. ivl \in Nat /\ ivl > 0 /\ RetryMax \in Nat /\ Intervals \subseteq Nat
    BY LoopAssumption
  <1>2. s.maintenance \in Nat /\ (s.retry # None => s.retry \in Nat)
    BY DEF LoopStates, Instants
  <1>3. PICK j \in Intervals : s.maintenance <= u + j
    <2>1. CASE s.maintenance <= t
      BY <1>1, <1>2, <2>1
    <2>2. CASE s.retry # None
      BY <2>2 DEF Bounded
    <2> QED
      BY <2>1, <2>2 DEF MaintenanceDue, Due
  <1>4. Bounded(ok, u)
    <2>1. /\ ok \in LoopStates /\ ok.retry = None
          /\ ok.maintenance <= t + ivl \/ ok.maintenance = s.maintenance + ivl
      BY SuccessFacts
    <2>2. ok.maintenance \in Nat
      BY <2>1 DEF LoopStates, Instants
    <2> HIDE DEF ok
    <2>3. ok.maintenance <= u + 2 * ivl \/ ok.maintenance <= u + 2 * j
      BY <1>1, <1>2, <1>3, <2>1, <2>2
    <2> QED
      BY <2>1, <2>3 DEF Bounded
  <1>5. Bounded(later, u)
    <2>1. /\ later \in LoopStates /\ later.retry \in Nat /\ later.retry <= t + RetryMax
          /\ later.maintenance = IF s.maintenance <= t THEN t + ivl ELSE s.maintenance
      BY PostponedFacts
    <2> HIDE DEF later
    <2>2. \E i \in Intervals : later.maintenance <= u + i
      BY <1>1, <1>2, <1>3, <2>1
    <2>3. later.retry <= u + RetryMax
      BY <1>1, <2>1
    <2>4. \E i \in Intervals : later.maintenance <= u + 2 * i
      <3>1. PICK i \in Intervals : later.maintenance <= u + i
        BY <2>2
      <3>2. later.maintenance \in Nat
        BY <1>1, <1>2, <2>1
      <3> QED
        BY <1>1, <3>1, <3>2
    <2> QED
      BY <2>2, <2>3, <2>4 DEF Bounded
  <1> QED
    BY <1>4, <1>5

\* Steps that leave the deadlines and what the timer is armed for alone.
LEMMA DeadlinesQuiet ==
  ASSUME TypeOK, TypeOK', Deadlines, now <= now',
         st'.maintenance = st.maintenance, st'.retry = st.retry,
         batchNow' <= now', pc' = "wait" => armed' = earliest_deadline(st')
  PROVE  Deadlines'
  <1>1. Bounded(st, now)
    BY DEF Deadlines
  <1>2. /\ st \in LoopStates /\ st' \in LoopStates /\ now \in Nat /\ now' \in Nat
    BY DEF TypeOK
  <1>3. Bounded(st', now')
    BY <1>1, <1>2, BoundedLater
  <1>4. Bounded(st, now)'
    BY <1>3 DEF Bounded
  <1> QED
    BY <1>4 DEF Deadlines

\* The deadlines stay bounded and the armed timer stays the earliest of them.
LEMMA DeadlinesNext ==
  ASSUME TypeOK, TypeOK', Deadlines, Next
  PROVE  Deadlines'
  <1>0. /\ now \in Nat /\ batchNow \in Nat /\ batchNow <= now /\ st \in LoopStates
        /\ pc = "wait" => armed = earliest_deadline(st)
    BY DEF TypeOK, Deadlines
  <1>1. CASE Tick
    BY <1>0, <1>1, DeadlinesQuiet DEF Tick
  <1>2. CASE \/ ScreenChanges \/ SensorsChange \/ OtherUevent \/ SigHup
             \/ \E level \in {"PsiModerate", "PsiCritical"} : PsiFires(level)
             \/ IpcClean \/ ResetToken \/ CleanEnds \/ IpcReload
    <2>1. UNCHANGED <<now, st, pc, batchNow, armed>>
      BY <1>2 DEF ScreenChanges, SensorsChange, OtherUevent, SigHup, PsiFires, IpcClean,
                  ResetToken, CleanEnds, IpcReload
    <2> QED
      BY <1>0, <2>1, DeadlinesQuiet
  <1>3. CASE ReadBatch
    BY <1>0, <1>3, DeadlinesQuiet DEF ReadBatch
  <1>4. CASE ReloadConfig \/ IgnoreUevent \/ PreemptCleaning
             \/ (\E level \in {"PsiModerate", "PsiCritical"} : HandlePsi(level))
             \/ \E e \in Reports : ReconcileSysfs(e)
    <2>1. UNCHANGED <<now, st, batchNow>> /\ pc' # "wait"
      BY <1>4 DEF ReloadConfig, IgnoreUevent, PreemptCleaning, HandlePsi, ReconcileSysfs, Handled,
                  Turn
    <2> QED
      BY <1>0, <2>1, DeadlinesQuiet
  <1>5. CASE Rearm
    BY <1>0, <1>5, DeadlinesQuiet DEF Rearm
  <1>6. \A v \in SysfsReads, t \in Nat :
          /\ ScreenReduced(st, v, t).maintenance = st.maintenance
          /\ ScreenReduced(st, v, t).retry = st.retry
    <2>1. SysfsReads \subseteq {"On", "Off", "Unknown"}
      BY DEF SysfsReads, TypeOK
    <2> QED
      BY <1>0, <2>1, ScreenFacts
  <1>7. CASE ReadInitialScreen
    <2>1. st'.maintenance = st.maintenance /\ st'.retry = st.retry
      BY <1>0, <1>6, <1>7 DEF ReadInitialScreen
    <2> QED
      BY <1>0, <1>7, <2>1, DeadlinesQuiet DEF ReadInitialScreen
  <1>8. CASE DrainQueued
    <2>1. st'.maintenance = st.maintenance /\ st'.retry = st.retry
      BY <1>0, <1>6, <1>8 DEF DrainQueued
    <2> QED
      BY <1>0, <1>8, <2>1, DeadlinesQuiet DEF DrainQueued
  <1>9. CASE ReconcileScreen
    <2>1. st'.maintenance = st.maintenance /\ st'.retry = st.retry
      BY <1>0, <1>9, ReconcileFacts
    <2>2. UNCHANGED <<now, batchNow>> /\ pc' # "wait"
      BY <1>9 DEF ReconcileScreen
    <2> QED
      BY <1>0, <2>1, <2>2, DeadlinesQuiet
  <1>10. CASE HandleReload
    <2>0. batchIvl \in Intervals
      BY DEF TypeOK
    <2>1. st'.maintenance = batchNow + batchIvl /\ st'.retry = None
      BY <1>0, <1>10, <2>0, ReloadFacts DEF HandleReload
    <2>2. batchIvl \in Nat /\ st'.maintenance <= now + 2 * batchIvl
      BY <1>0, <2>0, <2>1, LoopAssumption
    <2>3. UNCHANGED <<now, batchNow>> /\ pc' # "wait"
      BY <1>10 DEF HandleReload, Handled
    <2>4. Bounded(st, now)'
      BY <2>0, <2>1, <2>2, <2>3 DEF Bounded
    <2> QED
      BY <1>0, <2>3, <2>4 DEF Deadlines
  <1>11. CASE HandleTimer
    <2> DEFINE s == TimerReduced(st, batchNow)
    <2>1. s \in LoopStates /\ s.maintenance = st.maintenance /\ s.retry = st.retry
      BY <1>0, TimerFacts
    <2>2. Bounded(s, now)
      BY <1>0, <2>1, BoundedLater DEF Deadlines
    <2>3. MaintenanceDue(s, batchNow) =>
            /\ Bounded(on_maintenance_success(s, batchNow, batchIvl), now)
            /\ Bounded(on_maintenance_postponed(s, batchNow, batchIvl), now)
      BY <1>0, <2>1, <2>2, BoundedCycle DEF TypeOK
    <2>4. Bounded(st', now)
      BY <1>11, <2>2, <2>3 DEF HandleTimer
    <2>5. UNCHANGED <<now, batchNow>> /\ pc' # "wait"
      BY <1>11 DEF HandleTimer, Turn, Handled
    <2>6. Bounded(st, now)'
      BY <2>4, <2>5 DEF Bounded
    <2> QED
      BY <1>0, <2>5, <2>6 DEF Deadlines
  <1> QED
    BY <1>1, <1>2, <1>3, <1>4, <1>5, <1>7, <1>8, <1>9, <1>10, <1>11
       DEF Next, LoopStep, Environment, Wake, WakeLosingUevent, Reports

-----------------------------------------------------------------------------
(***************************************************************************)
(* The screen.                                                             *)
(***************************************************************************)

\* What a look at sysfs leaves: the screen is known, or the loop is blind, or it
\* was right already.
LEMMA Reconciled ==
  ASSUME TypeOK, NEW v \in SysfsReads, NEW t \in Nat
  PROVE  BlindAfter(v) \/ ScreenReduced(st, v, t).screen = screen
  <1>1. v \in {"On", "Off", "Unknown"} /\ st \in LoopStates
    BY DEF TypeOK, SysfsReads
  <1>2. ScreenReduced(st, v, t).screen = IF v = "Unknown" THEN st.screen ELSE v
    BY <1>1, ScreenFacts
  <1> QED
    BY <1>1, <1>2 DEF BlindAfter, SysfsReads

\* Every step keeps track of what the loop has not been told.
LEMMA ScreenNext ==
  ASSUME TypeOK, Screen, Next
  PROVE  Screen'
  <1>1. CASE Tick \/ SensorsChange \/ OtherUevent \/ SigHup
             \/ \E level \in {"PsiModerate", "PsiCritical"} : PsiFires(level)
    BY <1>1 DEF Screen, Believed, Tick, SensorsChange, OtherUevent, SigHup, PsiFires
  <1>2. CASE ScreenChanges
    BY <1>2 DEF Screen, Believed, ScreenChanges
  <1>3. CASE IpcClean \/ ResetToken \/ CleanEnds \/ IpcReload
    BY <1>3, Zenon DEF Screen, Believed, IpcClean, ResetToken, CleanEnds, IpcReload
  <1>4. CASE Wake \/ WakeLosingUevent
    <2>0. ReadBatch
      BY <1>4 DEF Wake, WakeLosingUevent
    <2>1. UNCHANGED <<st, cleanVars>> /\ pc = "wait" /\ pc' = "handle" /\ pc' \in Handling
      BY <2>0 DEF ReadBatch, Handling
    <2>2. enobufs \/ "DisplayUevent" \in uevents => batch' \cap Reports # {}
      BY <2>0 DEF ReadBatch, Ready, Reports
    <2>3. Believed = st.screen /\ Believed' = st.screen
      BY <2>1 DEF Believed
    <2>4. CASE UNCHANGED <<screen, blind>>
      BY <2>1, <2>2, <2>3, <2>4 DEF Screen, Handling
    <2>5. CASE blind' = (blind \/ "DisplayUevent" \notin uevents)
      BY <2>1, <2>2, <2>3, <2>5, Zenon DEF Screen
    <2> QED
      BY <1>4, <2>4, <2>5 DEF Wake, WakeLosingUevent
  <1>5. CASE HandleTimer
    <2>1. st'.screen = st.screen
      <3>1. st \in LoopStates /\ batchNow \in Nat /\ batchIvl \in Intervals
        BY DEF TypeOK
      <3> QED
        BY <1>5, <3>1, TimerFacts, SuccessFacts, PostponedFacts DEF HandleTimer
    <2>2. batch' = batch \ {"TimerExpired"} /\ pc = "handle"
          /\ UNCHANGED <<screen, pc, uevents, enobufs, blind>>
      BY <1>5 DEF HandleTimer, Handled, Turn
    <2>3. batch \cap Reports # {} => batch' \cap Reports # {}
      BY <2>2 DEF Reports
    <2>4. clean' \in {"claimed", "running"} /\ st.screen = "On" => startedOn' \/ overtaken'
      <3>1. startedOn' = (st.screen = "On") \/ UNCHANGED cleanVars
        BY <1>5 DEF HandleTimer
      <3> QED
        BY <2>2, <3>1, Zenon DEF Screen
    <2> QED
      BY <2>1, <2>2, <2>3, <2>4 DEF Screen, Believed
  <1>6. CASE HandleReload
    <2>1. st'.screen = st.screen
      BY <1>6, ReloadFacts DEF HandleReload, TypeOK
    <2>2. batch \cap Reports # {} => batch' \cap Reports # {}
      BY <1>6 DEF HandleReload, Handled, Reports
    <2> QED
      BY <1>6, <2>1, <2>2 DEF Screen, Believed, HandleReload, Turn, Handling
  <1>7. CASE ReloadConfig
    BY <1>7 DEF Screen, Believed, ReloadConfig, Handling
  <1>8. ASSUME NEW e \in {"PsiModerate", "PsiCritical", "OtherUevent"},
               Turn(e), Handled(e),
               UNCHANGED <<screen, cleanVars, st, pc, seen, uevents, enobufs, blind>>
        PROVE  Screen'
    <2>1. batch \cap Reports # {} => batch' \cap Reports # {}
      BY <1>8 DEF Handled, Reports
    <2> QED
      BY <1>8, <2>1 DEF Screen, Believed
  <1>9. ASSUME NEW e \in Reports, ReconcileSysfs(e)
        PROVE  Screen'
    <2>1. /\ seen' \in SysfsReads /\ blind' = BlindAfter(seen')
          /\ UNCHANGED <<screen, cleanVars, st>> /\ pc = "handle" /\ pc' = "reconcile"
      BY <1>9 DEF ReconcileSysfs, Turn
    <2>2. blind' \/ Believed' = screen
      BY <2>1 DEF Believed, BlindAfter, SysfsReads
    <2> QED
      BY <2>1, <2>2 DEF Screen
  <1>10. CASE ReadInitialScreen
    <2>1. blind' \/ st'.screen = screen
      BY <1>10, Reconciled DEF ReadInitialScreen, TypeOK
    <2> QED
      BY <1>10, <2>1 DEF Screen, Believed, ReadInitialScreen
  <1>11. CASE DrainQueued
    <2>1. \/ blind' \/ st'.screen = screen
          \/ ~enobufs /\ "DisplayUevent" \notin uevents /\ UNCHANGED st /\ blind' = blind
      BY <1>11, Reconciled DEF DrainQueued, TypeOK
    <2>2. clean' = "none" /\ UNCHANGED screen /\ pc = "drain" /\ pc' = "wait"
      BY <1>11 DEF DrainQueued, Screen
    <2> QED
      BY <2>1, <2>2 DEF Screen, Believed, Handling
  <1>12. CASE Rearm
    BY <1>12 DEF Screen, Believed, Rearm
  <1>13. CASE IgnoreUevent \/ \E level \in {"PsiModerate", "PsiCritical"} : HandlePsi(level)
    BY <1>13, <1>8 DEF IgnoreUevent, HandlePsi
  <1>14. CASE ReconcileScreen
    <2>1. st'.screen = IF seen = "Unknown" THEN st.screen ELSE seen
      BY <1>14, ReconcileFacts
    <2>2. /\ pc = "reconcile" /\ pc' \in Handling /\ pc' # "reconcile"
          /\ UNCHANGED <<screen, cleanVars, batch, uevents, enobufs, blind>>
      BY <1>14 DEF ReconcileScreen, Handling
    <2>3. Believed' = Believed
      BY <2>1, <2>2 DEF Believed
    <2>4. clean \in {"claimed", "running"} /\ st'.screen = "On" /\ pc' # "preempt"
            => startedOn \/ overtaken
      <3> SUFFICES ASSUME clean \in {"claimed", "running"}, st'.screen = "On", pc' # "preempt"
                   PROVE  st.screen = "On"
        BY <2>2 DEF Screen
      <3> QED
        BY <1>14, <2>1 DEF ReconcileScreen, Preempts
    <2> QED
      BY <2>2, <2>3, <2>4 DEF Screen, Handling
  <1>15. CASE PreemptCleaning
    <2>1. /\ pc = "preempt" /\ pc' = "handle" /\ {pc, pc'} \subseteq Handling
          /\ UNCHANGED <<screen, st, batch, seen, uevents, enobufs, blind>>
      BY <1>15 DEF PreemptCleaning, Handling
    <2>2. clean' \in {"claimed", "running"} => overtaken'
      BY <1>15 DEF PreemptCleaning
    <2> QED
      BY <2>1, <2>2 DEF Screen, Believed
  <1> QED
    BY <1>1, <1>2, <1>3, <1>4, <1>5, <1>6, <1>7, <1>9, <1>10, <1>11, <1>12, <1>13, <1>14, <1>15
       DEF Next, LoopStep, Environment, Reports

-----------------------------------------------------------------------------
(***************************************************************************)
(* Wake-ups.                                                               *)
(***************************************************************************)

\* earliest_deadline has passed exactly when one of the deadlines has.
LEMMA EarliestLater ==
  ASSUME NEW s \in LoopStates, NEW t \in Nat
  PROVE  earliest_deadline(s) > t <=>
           /\ s.maintenance > t
           /\ s.retry = None \/ s.retry > t
           /\ s.screenOff = None \/ s.screenOff > t
  BY LoopAssumption DEF LoopStates, earliest_deadline, Earlier, Instants

\* The timer clears a screen-off deadline that has passed.
LEMMA TimerLater ==
  ASSUME NEW s \in LoopStates, NEW t \in Nat
  PROVE  TimerReduced(s, t).screenOff = None \/ TimerReduced(s, t).screenOff > t
  BY LoopAssumption DEF LoopStates, TimerReduced, Due, Instants

\* A cycle that ran leaves no deadline in the past, and none at this instant
\* unless the one it renewed was in the past.
LEMMA SuccessLater ==
  ASSUME NEW s \in LoopStates, NEW t \in Nat, NEW ivl \in Intervals
  PROVE  /\ on_maintenance_success(s, t, ivl).maintenance >= t
         /\ s.maintenance >= t => on_maintenance_success(s, t, ivl).maintenance > t
         /\ on_maintenance_success(s, t, ivl).screenOff = s.screenOff
  <1>1. s.maintenance \in Nat /\ ivl \in Nat /\ ivl > 0
    BY LoopAssumption DEF LoopStates, Instants
  <1>2. /\ on_maintenance_success(s, t, ivl).maintenance =
             IF s.maintenance + ivl < t THEN t + ivl ELSE s.maintenance + ivl
        /\ on_maintenance_success(s, t, ivl).screenOff = s.screenOff
    BY DEF on_maintenance_success, LoopStates
  <1> QED
    BY <1>1, <1>2

\* A postponed cycle leaves every deadline of the attempt in the future.
LEMMA PostponedLater ==
  ASSUME NEW s \in LoopStates, NEW t \in Nat, NEW ivl \in Intervals
  PROVE  /\ on_maintenance_postponed(s, t, ivl).maintenance > t
         /\ on_maintenance_postponed(s, t, ivl).retry > t
         /\ on_maintenance_postponed(s, t, ivl).screenOff = s.screenOff
  <1>1. s.maintenance \in Nat /\ ivl \in Nat /\ ivl > 0 /\ s.backoff \in Nat /\ s.backoff > 0
    BY LoopAssumption DEF LoopStates, Instants
  <1>2. /\ on_maintenance_postponed(s, t, ivl).maintenance =
             IF s.maintenance <= t THEN t + ivl ELSE s.maintenance
        /\ on_maintenance_postponed(s, t, ivl).retry = t + s.backoff
        /\ on_maintenance_postponed(s, t, ivl).screenOff = s.screenOff
    BY DEF on_maintenance_postponed, LoopStates
  <1> QED
    BY <1>1, <1>2

\* What the timer leaves of the deadlines in a batch that is read at this instant.
LEMMA TimerRests ==
  ASSUME TypeOK, HandleTimer, batchNow = now
  PROVE  /\ st'.maintenance >= now /\ Later(st'.retry)
         /\ st.maintenance >= now => st'.maintenance > now
         /\ Later(st'.screenOff)
  <1> DEFINE s == TimerReduced(st, now)
             ok == on_maintenance_success(s, now, batchIvl)
             later == on_maintenance_postponed(s, now, batchIvl)
  <1>0. now \in Nat /\ batchIvl \in Intervals /\ st \in LoopStates
    BY DEF TypeOK
  <1>1. /\ s \in LoopStates /\ s.maintenance = st.maintenance /\ s.retry = st.retry
        /\ s.screenOff = None \/ s.screenOff > now
    BY <1>0, TimerFacts, TimerLater
  <1>2. /\ ok.maintenance >= now /\ (s.maintenance >= now => ok.maintenance > now)
        /\ ok.screenOff = s.screenOff
    BY <1>0, <1>1, SuccessLater
  <1>3. ok.retry = None
    BY <1>0, <1>1, SuccessFacts
  <1>4. later.maintenance > now /\ later.retry > now /\ later.screenOff = s.screenOff
    BY <1>0, <1>1, PostponedLater
  <1>5. later.maintenance \in Nat
    BY <1>0, <1>1, PostponedFacts, Zenon DEF LoopStates, Instants
  <1>6. \/ st' = s /\ ~MaintenanceDue(s, now)
        \/ st' = ok
        \/ st' = later
    BY DEF HandleTimer
  <1> HIDE DEF s, ok, later
  <1>7. CASE st' = s /\ ~MaintenanceDue(s, now)
    <2>1. s.maintenance \in Nat /\ (s.retry # None => s.retry \in Nat)
      BY <1>1 DEF LoopStates, Instants
    <2>2. s.maintenance > now /\ (s.retry = None \/ s.retry > now)
      BY <1>0, <1>7, <2>1 DEF MaintenanceDue, Due
    <2> QED
      BY <1>0, <1>1, <1>7, <2>1, <2>2 DEF Later
  <1>8. CASE st' = ok
    BY <1>1, <1>2, <1>3, <1>8, Zenon DEF Later
  <1>9. CASE st' = later
    <2>1. later.maintenance >= now
      BY <1>0, <1>4, <1>5
    <2> QED
      BY <1>1, <1>4, <1>9, <2>1, Zenon DEF Later
  <1> QED
    BY <1>6, <1>7, <1>8, <1>9

\* What a batch that has been read leaves for the next wake-up.
LEMMA SpinsRead ==
  ASSUME TypeOK, Deadlines, Spins, ReadBatch
  PROVE  Spins'
  <1>0. /\ pc = "wait" /\ pc' = "handle" /\ batch = {} /\ batch' = Ready /\ Ready # {}
        /\ batchNow' = now /\ ~enobufs' /\ ~hup' /\ wakes' = wakes + 1 /\ wakes \in Nat
        /\ UNCHANGED <<now, st, psi>>
        /\ uevents' = IF enobufs THEN uevents ELSE {}
    BY DEF ReadBatch, Spins, TypeOK
  <1>1. "TimerExpired" \notin Ready =>
          st.maintenance > now /\ Later(st.retry) /\ Later(st.screenOff)
    <2>1. st \in LoopStates /\ now \in Nat /\ armed = earliest_deadline(st)
      BY <1>0 DEF TypeOK, Deadlines
    <2>2. "TimerExpired" \notin Ready => earliest_deadline(st) > now
      BY <2>1, EarliestDeadline DEF Ready
    <2> QED
      BY <2>1, <2>2, EarliestLater DEF Later
  <1>2. st.maintenance \in Nat /\ now \in Nat
    BY DEF TypeOK, LoopStates, Instants
  <1>3. OneWake'
    <2>1. "PsiCritical" \in psi => "PsiCritical" \in Ready
      BY DEF Ready, PsiLevel
    <2>2. "TimerExpired" \notin Ready => st.maintenance >= now
      BY <1>1, <1>2
    <2> QED
      BY <1>0, <1>1, <2>1, <2>2, Zenon DEF OneWake, Later
  <1>4. wakes >= 1 => TwoWakes'
    <2> SUFFICES ASSUME wakes >= 1 PROVE TwoWakes'
      OBVIOUS
    <2>1. ~enobufs /\ "PsiCritical" \notin psi /\ st.maintenance >= now /\ Later(st.retry)
      BY <1>0 DEF Spins, OneWake
    <2>2. psi \subseteq Ready
      BY <2>1 DEF Ready, PsiLevel
    <2> QED
      BY <1>0, <1>1, <2>1, <2>2, Zenon DEF TwoWakes, Later
  <1>5. wakes >= 2 => ThreeWakes'
    <2> SUFFICES ASSUME wakes >= 2 PROVE ThreeWakes'
      OBVIOUS
    <2>1. ~enobufs /\ ~hup /\ uevents = {} /\ psi = {} /\ st.maintenance > now
      BY <1>0 DEF Spins, OneWake, TwoWakes
    <2>2. Ready \subseteq {"TimerExpired"}
      BY <2>1 DEF Ready, PsiLevel
    <2> QED
      BY <1>0, <1>1, <2>1, <2>2, Zenon DEF ThreeWakes, Later
  <1>6. wakes <= 2
    <2> SUFFICES ASSUME wakes >= 3 PROVE FALSE
      BY <1>0
    <2>1. ~enobufs /\ ~hup /\ uevents = {} /\ psi = {}
          /\ st.maintenance > now /\ Later(st.retry) /\ Later(st.screenOff)
      BY <1>0 DEF Spins, OneWake, TwoWakes, ThreeWakes
    <2>2. st \in LoopStates /\ armed = earliest_deadline(st)
      BY <1>0 DEF TypeOK, Deadlines
    <2>3. armed > now /\ armed \in Nat
      BY <1>2, <2>1, <2>2, EarliestDeadline, EarliestLater DEF Later
    <2>4. Ready = {}
      BY <1>2, <2>1, <2>3 DEF Ready, PsiLevel
    <2> QED
      BY <1>0, <2>4
  <1>7. /\ wakes' <= 3 /\ (wakes' >= 2 => wakes >= 1) /\ (wakes' >= 3 => wakes >= 2)
    BY <1>0, <1>6
  <1> QED
    BY <1>0, <1>3, <1>4, <1>5, <1>7 DEF Spins

\* An event other than the timer is handled: the deadlines of the attempt, at
\* most, move further away, and a trigger goes with its event.
LEMMA SpinsHandled ==
  ASSUME TypeOK, Spins, NEW e \in LoopEvents \ {"TimerExpired"}, Turn(e), Handled(e),
         UNCHANGED <<now, wakes, uevents, enobufs, hup>>, pc' \in Handling,
         psi' \subseteq psi, e \in {"PsiModerate", "PsiCritical"} => e \notin psi',
         wakes >= 1 => \/ UNCHANGED <<st.maintenance, st.retry>>
                       \/ st'.maintenance > now /\ st'.maintenance \in Nat /\ st'.retry = None
  PROVE  Spins'
  <1>0. /\ pc = "handle" /\ e \in batch /\ batch' = batch \ {e} /\ batchNow' = batchNow
        /\ wakes \in Nat /\ now \in Nat /\ "TimerExpired" \notin batch
    <2>1. "TimerExpired" \in Before(e)
      BY DEF Before, LoopEvents
    <2> QED
      BY <2>1 DEF Turn, Handled, TypeOK
  <1>1. wakes >= 1 => OneWake'
    <2> SUFFICES ASSUME wakes >= 1 PROVE OneWake'
      OBVIOUS
    <2>1. OneWake
      BY DEF Spins
    <2>2. st'.maintenance >= now /\ Later(st'.retry)
      BY <1>0, <2>1 DEF OneWake, Later
    <2> QED
      BY <1>0, <2>1, <2>2 DEF OneWake, Later
  <1>2. wakes >= 2 => TwoWakes'
    <2> SUFFICES ASSUME wakes >= 2 PROVE TwoWakes'
      OBVIOUS
    <2>1. OneWake /\ TwoWakes
      BY <1>0 DEF Spins
    <2>2. st'.maintenance > now /\ st'.maintenance >= now /\ Later(st'.retry)
      BY <1>0, <2>1 DEF TwoWakes, Later
    <2>3. psi' \subseteq batch'
      BY <1>0, <2>1 DEF TwoWakes, TypeOK
    <2> QED
      BY <1>0, <2>1, <2>2, <2>3 DEF TwoWakes, Later
  <1>3. ~(wakes >= 3)
    BY <1>0 DEF Spins, ThreeWakes
  <1> QED
    BY <1>0, <1>1, <1>2, <1>3 DEF Spins, Handling

\* Every step accounts for what it leaves to wake the loop up.
LEMMA SpinsNext ==
  ASSUME TypeOK, TypeOK', Deadlines, Spins, Next
  PROVE  Spins'
  <1>1. CASE \/ Tick \/ ScreenChanges \/ OtherUevent \/ SigHup
             \/ \E level \in {"PsiModerate", "PsiCritical"} : PsiFires(level)
    <2>1. wakes' = 0 /\ UNCHANGED <<pc, batch>>
      BY <1>1 DEF Tick, ScreenChanges, OtherUevent, SigHup, PsiFires
    <2> QED
      BY <2>1 DEF Spins
  <1>2. CASE SensorsChange \/ IpcClean \/ ResetToken \/ CleanEnds \/ IpcReload
    <2>1. UNCHANGED <<now, pc, batch, batchNow, st, wakes, enobufs, hup, psi, uevents>>
      BY <1>2 DEF SensorsChange, IpcClean, ResetToken, CleanEnds, IpcReload
    <2> QED
      BY <2>1 DEF Spins, OneWake, TwoWakes, ThreeWakes, Later
  <1>3. CASE ReadInitialScreen \/ DrainQueued
    <2>1. wakes' = 0 /\ batch' = {}
      BY <1>3 DEF Spins, ReadInitialScreen, DrainQueued
    <2> QED
      BY <2>1 DEF Spins
  <1>4. CASE Wake \/ WakeLosingUevent
    BY <1>4, SpinsRead DEF Wake, WakeLosingUevent
  <1>5. CASE HandleTimer
    <2>0. /\ pc = "handle" /\ "TimerExpired" \in batch /\ batch' = batch \ {"TimerExpired"}
          /\ UNCHANGED <<now, pc, batchNow, wakes, uevents, enobufs, hup, psi>>
      BY <1>5 DEF HandleTimer, Turn, Handled
    <2>1. now \in Nat /\ wakes \in Nat
      BY DEF TypeOK
    <2>2. wakes >= 1 =>
            /\ OneWake
            /\ st'.maintenance >= now /\ Later(st'.retry)
            /\ st.maintenance >= now => st'.maintenance > now
            /\ Later(st'.screenOff)
      <3> SUFFICES ASSUME wakes >= 1
                   PROVE  /\ OneWake
                          /\ st'.maintenance >= now /\ Later(st'.retry)
                          /\ st.maintenance >= now => st'.maintenance > now
                          /\ Later(st'.screenOff)
        OBVIOUS
      <3>1. OneWake /\ batchNow = now
        BY <2>0 DEF Spins, OneWake
      <3> QED
        BY <1>5, <3>1, TimerRests
    <2>3. wakes >= 1 => OneWake'
      BY <2>0, <2>2, Zenon DEF OneWake, Later
    <2>4. wakes >= 2 => wakes >= 1 /\ TwoWakes
      BY <2>1 DEF Spins
    <2>5. wakes >= 2 => TwoWakes'
      BY <2>0, <2>2, <2>4 DEF TwoWakes, Later, TypeOK
    <2>6. wakes >= 3 => wakes >= 2 /\ ThreeWakes
      BY <2>1 DEF Spins
    <2>7. wakes >= 3 => ThreeWakes'
      BY <2>0, <2>2, <2>4, <2>6 DEF TwoWakes, ThreeWakes, Later
    <2> QED
      BY <2>0, <2>3, <2>5, <2>7 DEF Spins
  <1>6. CASE HandleReload
    <2>0. st \in LoopStates /\ batchNow \in Nat /\ batchIvl \in Intervals
      BY DEF TypeOK
    <2>1. st'.maintenance = batchNow + batchIvl /\ st'.retry = None
      BY <1>6, <2>0, ReloadFacts DEF HandleReload
    <2>2. wakes >= 1 => batchNow = now
      BY <1>6 DEF Spins, OneWake, HandleReload, Turn
    <2>3. wakes >= 1 => st'.maintenance > now /\ st'.maintenance \in Nat
      BY <2>1, <2>2, LoopAssumption DEF TypeOK
    <2>4. /\ Turn("Reload") /\ Handled("Reload") /\ pc' \in Handling
          /\ UNCHANGED <<now, wakes, uevents, enobufs, hup, psi>>
      BY <1>6 DEF HandleReload, Handling
    <2> QED
      BY <2>1, <2>3, <2>4, SpinsHandled DEF LoopEvents
  <1>7. CASE ReloadConfig
    <2>1. /\ UNCHANGED <<now, batch, batchNow, st, wakes, enobufs, hup, psi, uevents>>
          /\ pc = "reload" /\ pc' = "handle"
      BY <1>7 DEF ReloadConfig
    <2> QED
      BY <2>1 DEF Spins, OneWake, TwoWakes, ThreeWakes, Later
  <1>8. ASSUME NEW level \in {"PsiModerate", "PsiCritical"}, HandlePsi(level)
        PROVE  Spins'
    <2>1. /\ Turn(level) /\ Handled(level) /\ pc' \in Handling
          /\ psi' = psi \ {level} /\ UNCHANGED <<now, wakes, uevents, enobufs, hup, st>>
      BY <1>8 DEF HandlePsi, Turn, Handling
    <2>2. level \in LoopEvents \ {"TimerExpired"} /\ psi' \subseteq psi /\ level \notin psi'
      BY <1>8, <2>1 DEF LoopEvents
    <2> QED
      BY <2>1, <2>2, SpinsHandled
  <1>9. ASSUME NEW e \in Reports, ReconcileSysfs(e)
        PROVE  Spins'
    <2>1. /\ Turn(e) /\ Handled(e) /\ pc' \in Handling
          /\ UNCHANGED <<now, wakes, uevents, enobufs, hup, psi, st>>
      BY <1>9 DEF ReconcileSysfs, Handling
    <2>2. e \in LoopEvents \ {"TimerExpired"} /\ e \notin {"PsiModerate", "PsiCritical"}
      BY <1>9 DEF LoopEvents, Reports
    <2> QED
      BY <2>1, <2>2, SpinsHandled
  <1>10. CASE IgnoreUevent
    <2>1. /\ Turn("OtherUevent") /\ Handled("OtherUevent") /\ pc' \in Handling
          /\ UNCHANGED <<now, wakes, uevents, enobufs, hup, psi, st>>
      BY <1>10 DEF IgnoreUevent, Turn, Handling
    <2> QED
      BY <2>1, SpinsHandled DEF LoopEvents
  <1>11. CASE Rearm
    <2>1. /\ UNCHANGED <<now, batch, st, wakes, enobufs, hup, psi, uevents>>
          /\ batch = {} /\ pc' = "wait"
      BY <1>11 DEF Rearm
    <2> QED
      BY <2>1 DEF Spins, OneWake, TwoWakes, ThreeWakes, Later
  <1>12. CASE ReconcileScreen
    <2>1. st'.maintenance = st.maintenance /\ st'.retry = st.retry
      BY <1>12, ReconcileFacts
    <2>2. /\ UNCHANGED <<now, batch, batchNow, wakes, enobufs, hup, psi, uevents>>
          /\ pc = "reconcile" /\ pc' \in {"preempt", "handle"}
      BY <1>12 DEF ReconcileScreen
    <2>3. ~(wakes >= 3)
      BY <2>2 DEF Spins, ThreeWakes
    <2> QED
      BY <2>1, <2>2, <2>3 DEF Spins, OneWake, TwoWakes, Later
  <1>13. CASE PreemptCleaning
    <2>1. /\ UNCHANGED <<now, batch, batchNow, st, wakes, enobufs, hup, psi, uevents>>
          /\ pc = "preempt" /\ pc' = "handle"
      BY <1>13 DEF PreemptCleaning
    <2> QED
      BY <2>1 DEF Spins, OneWake, TwoWakes, ThreeWakes, Later
  <1> QED
    BY <1>1, <1>2, <1>3, <1>4, <1>5, <1>6, <1>7, <1>8, <1>9, <1>10, <1>11, <1>12, <1>13
       DEF Next, LoopStep, Environment, Reports

-----------------------------------------------------------------------------

\* The startup state satisfies the invariant.
LEMMA InitLInv == Init => LInv
  <1> SUFFICES ASSUME Init PROVE LInv
    OBVIOUS
  <1>1. st \in LoopStates
    BY NewStateType DEF Init
  <1>2. TypeOK
    <2>1. now \in Nat /\ batchNow \in Nat /\ armed \in Instants /\ wakes \in Nat /\ causes \in 0 .. MaxCauses
      BY LoopAssumption DEF Init, Instants
    <2>2. batch \subseteq LoopEvents /\ uevents \subseteq {"DisplayUevent", "OtherUevent"}
          /\ psi \subseteq {"PsiModerate", "PsiCritical"}
      BY DEF Init
    <2> QED
      BY <1>1, <2>1, <2>2, Zenon DEF Init, TypeOK, CleanStates, Handling
  <1>3. Deadlines
    <2>1. interval \in Intervals /\ interval \in Nat /\ now = 0 /\ batchNow = 0 /\ pc # "wait"
      BY LoopAssumption DEF Init
    <2>2. st.maintenance = interval /\ st.retry = None
      BY <2>1, LoopAssumption DEF Init, NewState
    <2> QED
      BY <2>1, <2>2 DEF Deadlines, Bounded
  <1>4. Screen
    BY DEF Init, Screen, Believed
  <1>5. Spins
    BY DEF Init, Spins
  <1> QED
    BY <1>2, <1>3, <1>4, <1>5 DEF LInv

\* The invariant holds in every reachable state.
THEOREM Invariant == Spec => []LInv
  <1>1. LInv /\ [Next]_vars => LInv'
    <2> SUFFICES ASSUME LInv, [Next]_vars PROVE LInv'
      OBVIOUS
    <2>1. CASE Next
      <3>1. TypeOK'
        BY <2>1, EnvironmentType, LoopType DEF LInv, Next
      <3> QED
        BY <2>1, <3>1, DeadlinesNext, ScreenNext, SpinsNext DEF LInv
    <2>2. CASE UNCHANGED vars
      BY <2>2 DEF vars, LInv, TypeOK, Deadlines, Bounded, Screen, Believed, earliest_deadline, Earlier,
                  Spins, OneWake, TwoWakes, ThreeWakes, Later
    <2> QED
      BY <2>1, <2>2
  <1> QED
    BY <1>1, InitLInv, PTL DEF Spec

\* Every variable keeps its type; the backoff stays between its initial value and
\* its maximum, however often maintenance is postponed.
THEOREM LoopTypes == Spec => []TypeOK
  BY Invariant, PTL DEF LInv

\* earliest_deadline, on_maintenance_success and on_maintenance_postponed never
\* strand the loop: whenever it waits, its timer fires no later than the next
\* attempt, and that attempt is at most two intervals or the longest backoff away.
THEOREM AttemptAlwaysInSight == Spec => []AttemptInSight
  <1>1. LInv => AttemptInSight
    <2> SUFFICES ASSUME LInv, pc = "wait" PROVE AttemptInSight
      BY DEF AttemptInSight
    <2>1. st \in LoopStates /\ armed = earliest_deadline(st) /\ Bounded(st, now)
      BY DEF LInv, TypeOK, Deadlines
    <2>2. armed <= st.maintenance /\ (st.retry # None => armed <= st.retry)
      BY <2>1, EarliestDeadline
    <2> QED
      BY <2>1, <2>2 DEF AttemptInSight, Bounded
  <1> QED
    BY <1>1, Invariant, PTL

\* ReconcileSysfs keeps the loop in step with the display: at rest and not blind
\* it knows what the screen is.
THEOREM ScreenKnown == Spec => []ScreenInSync
  <1>1. LInv => ScreenInSync
    BY DEF LInv, Screen, Believed, ScreenInSync, Quiet, Handling
  <1> QED
    BY <1>1, Invariant, PTL

\* PreemptCleaning: at rest with the screen on, no clean runs that was claimed
\* with the screen not known to be on, except one overtaken by the preemption
\* before it had reset its token; also none the timer of the same batch began.
THEOREM ScreenOnAlwaysPreempts == Spec => []ScreenOnPreempts
  <1>1. LInv => ScreenOnPreempts
    BY DEF LInv, Screen, Believed, ScreenOnPreempts, Quiet, Handling
  <1> QED
    BY <1>1, Invariant, PTL

\* Every source of wake-ups is acknowledged and no deadline that has passed is
\* armed for ever: unless the clock or a cause moves, run_epoll_loop wakes up at
\* most three times, whatever the intervals, backoffs and min_screen_off_secs.
THEOREM NeverSpins == Spec => []NoSpinning
  <1>1. LInv => NoSpinning
    BY DEF LInv, Spins, NoSpinning
  <1> QED
    BY <1>1, Invariant, PTL

=============================================================================
