----------------------------- MODULE EventLoop -----------------------------
(***************************************************************************)
(* LoopState and its I/O driver (src/system/event_loop.rs): the deadlines  *)
(* the loop arms its timerfd with, the screen state it keeps in step with  *)
(* sysfs through kernel uevents, and the PSI triggers it acknowledges.     *)
(*                                                                         *)
(* Time is a clock in seconds; an Instant is a value of the clock.  One    *)
(* batch of epoll_wait is read at one instant, batchNow, and handled event *)
(* by event while time, screen, sensors and other threads go on.           *)
(*                                                                         *)
(* The threads that start, cancel and finish cleans are DaemonControl's    *)
(* subject, and so are signals that end the daemon and IPC connections.    *)
(* uevent_ok is written by the loop and read by nobody; it is left out.    *)
(***************************************************************************)
EXTENDS Integers, FiniteSets

CONSTANTS
  None,            \* Option::None
  Intervals,       \* values of maintenance_interval_secs
  MinScreenOff,    \* min_screen_off_secs
  RequireOff,      \* require_screen_off
  RetryInitial,    \* INITIAL_RETRY_BACKOFF_SECS
  RetryMax,        \* MAX_RETRY_BACKOFF_SECS
  MaxTime,         \* bound on the clock
  MaxCauses        \* bound on what happens to the loop from outside

ASSUME LoopAssumption ==
  /\ None \notin Int
  /\ Intervals \subseteq Nat \ {0}
  /\ MinScreenOff \in Nat
  /\ RequireOff \in BOOLEAN
  /\ RetryInitial \in Nat \ {0}
  /\ RetryMax \in Nat
  /\ RetryInitial <= RetryMax
  /\ MaxTime \in Nat
  /\ MaxCauses \in Nat

VARIABLES
  now,         \* CLOCK_MONOTONIC
  screen,      \* what the display really is
  permitted,   \* charger and temperatures permit maintenance
  interval,    \* maintenance_interval_secs of the configuration in effect
  clean,       \* the clean in progress, if any, and what its token says
  st,          \* LoopState
  pc,          \* where the loop is
  batch,       \* events of the batch still to be handled
  batchNow,    \* the instant the batch was read at
  batchIvl,    \* the interval the batch was read with
  seen,        \* what the reconciliation in progress has read from sysfs
  armed,       \* the instant the timerfd is armed for
  socket,      \* the uevent socket could be opened
  uevents,     \* uevents queued in the netlink socket
  enobufs,     \* the socket has an overflow to report
  hup,         \* SIGHUP is pending
  psi,         \* PSI triggers that are signalled
  causes,      \* what has happened to the loop so far
  blind,       \* history: a change of the screen went by unreported
  startedOn,   \* history: the loop knew the screen to be on when clean began
  overtaken,   \* history: clean was preempted before its token was reset
  wakes        \* history: wake-ups since the clock or a cause last moved

env == <<screen, permitted, causes>>
kernel == <<socket, uevents, enobufs, hup, psi>>
batchVars == <<batch, batchNow, batchIvl, seen>>
cleanVars == <<clean, startedOn, overtaken>>
history == <<blind, wakes>>
vars == <<now, env, interval, cleanVars, st, pc, batchVars, armed, kernel, history>>

-----------------------------------------------------------------------------

\* LoopEvent, with uevents reduced to whether their subsystem is a display or
\* power one, in the order in which the driver queues them.
LoopEvents ==
  {"TimerExpired", "Reload", "PsiModerate", "PsiCritical",
   "UeventBufferOverflow", "DisplayUevent", "OtherUevent"}

Before(e) ==
  CASE e = "TimerExpired" -> {}
    [] e = "Reload" -> {"TimerExpired"}
    [] e \in {"PsiModerate", "PsiCritical"} -> {"TimerExpired", "Reload"}
    [] OTHER -> {"TimerExpired", "Reload", "PsiModerate", "PsiCritical"}

Instants == Nat
LoopStates ==
  [screen : {"On", "Off", "Unknown"},
   since : Instants \cup {None},
   maintenance : Instants,
   screenOff : Instants \cup {None},
   retry : Instants \cup {None},
   backoff : RetryInitial .. RetryMax]

\* A clean is claimed when is_cleaning is set, runs when its token has been
\* reset, and is cancelled when the token was cancelled after that.
CleanStates == {"none", "claimed", "running", "cancelled"}

\* Where the loop is between reading a batch and arming the timer again.
Handling == {"handle", "reload", "reconcile", "preempt"}

TypeOK ==
  /\ now \in Nat
  /\ screen \in {"On", "Off"}
  /\ permitted \in BOOLEAN
  /\ interval \in Intervals
  /\ clean \in CleanStates
  /\ st \in LoopStates
  /\ pc \in {"subscribed", "drain", "wait"} \cup Handling
  /\ batch \subseteq LoopEvents
  /\ batchNow \in Nat
  /\ batchIvl \in Intervals
  /\ seen \in {"On", "Off", "Unknown"}
  /\ armed \in Instants
  /\ socket \in BOOLEAN
  /\ uevents \subseteq {"DisplayUevent", "OtherUevent"}
  /\ enobufs \in BOOLEAN
  /\ hup \in BOOLEAN
  /\ psi \subseteq {"PsiModerate", "PsiCritical"}
  /\ causes \in 0 .. MaxCauses
  /\ blind \in BOOLEAN
  /\ startedOn \in BOOLEAN
  /\ overtaken \in BOOLEAN
  /\ wakes \in Nat

-----------------------------------------------------------------------------
(***************************************************************************)
(* LoopState: the pure part.                                               *)
(***************************************************************************)

\* LoopState::new
NewState(ivl, t) ==
  [screen |-> "Unknown", since |-> None, maintenance |-> t + ivl,
   screenOff |-> None, retry |-> None, backoff |-> RetryInitial]

Due(d, t) == d # None /\ d <= t
Earlier(d, e) == IF e # None /\ e < d THEN e ELSE d

\* Mutation: the retry deadline is forgotten.
earliest_no_retry(s) == Earlier(s.maintenance, s.screenOff)

earliest_deadline(s) == Earlier(Earlier(s.maintenance, s.screenOff), s.retry)

\* reduce, TimerExpired: the new state, and whether RunMaintenance is due.
TimerReduced(s, t) ==
  [s EXCEPT !.screenOff = IF Due(@, t) THEN None ELSE @]
MaintenanceDue(s, t) == s.maintenance <= t \/ Due(s.retry, t)

\* reduce, ReconcileScreen: the new state, and whether to preempt a clean.
ScreenReduced(s, v, t) ==
  CASE v = "On" ->
         [s EXCEPT !.screen = "On", !.since = None, !.screenOff = None,
                   !.backoff = RetryInitial]
    [] v = "Off" /\ s.screen # "Off" ->
         [s EXCEPT !.screen = "Off", !.since = t,
                   !.screenOff = t + MinScreenOff, !.backoff = RetryInitial]
    [] OTHER -> s
Preempts(s, v) == v = "On" /\ s.screen # "On"

\* reduce, Signal(Reload).
ReloadReduced(s, t, ivl) ==
  [s EXCEPT !.maintenance = t + ivl, !.retry = None, !.backoff = RetryInitial]

on_maintenance_success(s, t, ivl) ==
  [s EXCEPT !.maintenance = IF @ + ivl < t THEN t + ivl ELSE @ + ivl,
            !.retry = None, !.backoff = RetryInitial]

on_maintenance_postponed(s, t, ivl) ==
  [s EXCEPT !.retry = t + s.backoff,
            !.backoff = IF 2 * @ <= RetryMax THEN 2 * @ ELSE RetryMax,
            !.maintenance = IF @ <= t THEN t + ivl ELSE @]

-----------------------------------------------------------------------------
(***************************************************************************)
(* What the loop does not control.                                         *)
(***************************************************************************)

Happens == causes < MaxCauses /\ causes' = causes + 1

Tick ==
  /\ now < MaxTime
  /\ now' = now + 1
  /\ wakes' = 0
  /\ UNCHANGED <<env, interval, cleanVars, st, pc, batchVars, armed, kernel, blind>>

\* The display changes and the kernel says so, or finds the socket full.  A
\* daemon that could not open the socket goes on without it and hears nothing.
ScreenChanges ==
  /\ Happens
  /\ screen' = IF screen = "On" THEN "Off" ELSE "On"
  /\ \/ socket /\ uevents' = uevents \cup {"DisplayUevent"} /\ UNCHANGED <<enobufs, blind>>
     \/ socket /\ enobufs' = TRUE /\ UNCHANGED <<uevents, blind>>
     \/ ~socket /\ blind' = TRUE /\ UNCHANGED <<uevents, enobufs>>
  /\ wakes' = 0
  /\ UNCHANGED <<now, permitted, interval, cleanVars, st, pc, batchVars, armed, socket, hup, psi>>

\* get_charger_state and read_thermal, as evaluate_triggers sees them.
SensorsChange ==
  /\ permitted' = ~permitted
  /\ UNCHANGED <<now, screen, causes, interval, cleanVars, st, pc, batchVars, armed, kernel, history>>

\* A uevent of another subsystem, SIGHUP, a PSI trigger.
OtherUevent ==
  /\ Happens
  /\ socket
  /\ "OtherUevent" \notin uevents
  /\ uevents' = uevents \cup {"OtherUevent"}
  /\ wakes' = 0
  /\ UNCHANGED <<now, screen, permitted, interval, cleanVars, st, pc, batchVars, armed, socket,
                 enobufs, hup, psi, blind>>

SigHup ==
  /\ Happens
  /\ ~hup
  /\ hup' = TRUE
  /\ wakes' = 0
  /\ UNCHANGED <<now, screen, permitted, interval, cleanVars, st, pc, batchVars, armed, socket,
                 uevents, enobufs, psi, blind>>

PsiFires(level) ==
  /\ Happens
  /\ level \notin psi
  /\ psi' = psi \cup {level}
  /\ wakes' = 0
  /\ UNCHANGED <<now, screen, permitted, interval, cleanVars, st, pc, batchVars, armed, socket,
                 uevents, enobufs, hup, blind>>

\* An IPC worker serves TriggerClean: is_cleaning is set under the lock.
IpcClean ==
  /\ Happens
  /\ pc \notin {"subscribed", "drain"}
  /\ clean = "none"
  /\ clean' = "claimed"
  /\ startedOn' = (st.screen = "On")
  /\ overtaken' = FALSE
  /\ UNCHANGED <<now, screen, permitted, interval, st, pc, batchVars, armed, kernel, history>>

\* Then, without the lock, it resets the token and spawns the thread that takes
\* the engine mutex.
ResetToken ==
  /\ clean = "claimed"
  /\ clean' = "running"
  /\ UNCHANGED <<now, env, interval, startedOn, overtaken, st, pc, batchVars, armed, kernel, history>>

\* The clean's thread clears is_cleaning.
CleanEnds ==
  /\ clean \in {"running", "cancelled"}
  /\ clean' = "none"
  /\ startedOn' = FALSE
  /\ overtaken' = FALSE
  /\ UNCHANGED <<now, env, interval, st, pc, batchVars, armed, kernel, history>>

\* No thread of a clean has the engine mutex.
EngineFree == clean \in {"none", "claimed"}

\* An IPC worker reloads the configuration: reload_config takes the engine mutex
\* before it stores it.
IpcReload ==
  /\ Happens
  /\ pc \notin {"subscribed", "drain"}
  /\ EngineFree
  /\ interval' \in Intervals
  /\ UNCHANGED <<now, screen, permitted, cleanVars, st, pc, batchVars, armed, kernel, history>>

-----------------------------------------------------------------------------
(***************************************************************************)
(* run_epoll_loop.                                                         *)
(***************************************************************************)

\* get_screen_state: what the display is, or Unknown when no source answers.
\* The loop stays blind when it learns nothing of a change.
SysfsReads == {screen, "Unknown"}
BlindAfter(v) == v = "Unknown" /\ (blind \/ st.screen # screen)

\* Mutation: the state is read before the socket is subscribed to uevents.
SubscribeLate ==
  /\ pc = "subscribed"
  /\ \E v \in SysfsReads :
       /\ st' = ScreenReduced(st, v, now)
       /\ blind' = BlindAfter(v)
  /\ pc' = "drain"
  /\ screen' \in {"On", "Off"}
  /\ UNCHANGED <<now, permitted, causes, interval, cleanVars, batchVars, armed, kernel, wakes>>

\* Startup, with the socket subscribed: the initial reconciliation.
ReadInitialScreen ==
  /\ pc = "subscribed"
  /\ \E v \in SysfsReads :
       /\ st' = ScreenReduced(st, v, now)
       /\ blind' = BlindAfter(v)
  /\ pc' = "drain"
  /\ UNCHANGED <<now, env, interval, cleanVars, batchVars, armed, kernel, wakes>>

\* Startup: the uevents queued meanwhile.  An overflow reads as an empty queue.
DrainQueued ==
  /\ pc = "drain"
  /\ IF ~enobufs /\ "DisplayUevent" \in uevents
       THEN \E v \in SysfsReads :
              /\ st' = ScreenReduced(st, v, now)
              /\ blind' = BlindAfter(v)
       ELSE /\ blind' = (blind \/ enobufs)
            /\ UNCHANGED st
  /\ uevents' = IF enobufs THEN uevents ELSE {}
  /\ enobufs' = FALSE
  /\ armed' = earliest_deadline(st')
  /\ pc' = "wait"
  /\ UNCHANGED <<now, env, interval, cleanVars, batchVars, socket, hup, psi, wakes>>

\* What epoll_wait reports and the driver makes of it: the strongest PSI level,
\* every queued uevent, an overflow when the first read yields nothing.
PsiLevel == IF "PsiCritical" \in psi THEN {"PsiCritical"} ELSE psi
Ready ==
  (IF armed <= now THEN {"TimerExpired"} ELSE {})
    \cup (IF hup THEN {"Reload"} ELSE {})
    \cup PsiLevel
    \cup (IF enobufs THEN {"UeventBufferOverflow"} ELSE uevents)

ReadBatch ==
  /\ pc = "wait"
  /\ Ready # {}
  /\ batch' = Ready
  /\ batchNow' = now
  /\ batchIvl' = interval
  /\ hup' = FALSE
  /\ uevents' = IF enobufs THEN uevents ELSE {}
  /\ enobufs' = FALSE
  /\ wakes' = wakes + 1
  /\ pc' = "handle"
  /\ UNCHANGED <<now, permitted, interval, cleanVars, st, seen, armed, socket, psi>>

Wake == ReadBatch /\ UNCHANGED <<screen, causes, blind>>

\* The socket overflows while read_events drains it: the error ends the drain
\* unnoticed, and the change it stood for shows only if a display event was read.
WakeLosingUevent ==
  /\ Happens
  /\ ~enobufs
  /\ uevents # {}
  /\ ReadBatch
  /\ screen' = IF screen = "On" THEN "Off" ELSE "On"
  /\ blind' = (blind \/ "DisplayUevent" \notin uevents)

Turn(e) == pc = "handle" /\ e \in batch /\ Before(e) \cap batch = {}
Handled(e) == batch' = batch \ {e} /\ UNCHANGED <<batchNow, batchIvl>>

evaluate_triggers ==
  /\ RequireOff => st.since # None /\ now - st.since >= MinScreenOff
  /\ permitted

\* TimerExpired, with RunMaintenance when it is due.  The loop itself claims the
\* clean and resets its token.  The clean an IPC worker starts after is_cleaning
\* was read leaves spawn_maintenance_worker nothing to do; the cycle counts as
\* run all the same.
HandleTimer ==
  /\ Turn("TimerExpired")
  /\ Handled("TimerExpired")
  /\ LET s == TimerReduced(st, batchNow)
     IN  \/ /\ ~MaintenanceDue(s, batchNow)
            /\ st' = s
            /\ UNCHANGED cleanVars
         \/ /\ MaintenanceDue(s, batchNow)
            /\ evaluate_triggers
            /\ st' = on_maintenance_success(s, batchNow, batchIvl)
            /\ \/ /\ clean = "none"
                  /\ clean' = "running"
                  /\ startedOn' = (st.screen = "On")
                  /\ overtaken' = FALSE
               \/ clean # "none" /\ UNCHANGED cleanVars
         \/ /\ MaintenanceDue(s, batchNow)
            /\ ~(evaluate_triggers /\ clean = "none")
            /\ st' = on_maintenance_postponed(s, batchNow, batchIvl)
            /\ UNCHANGED cleanVars
  /\ UNCHANGED <<now, env, interval, pc, seen, armed, kernel, history>>

\* SIGHUP: deadlines restart with the interval the batch was read with, then
\* reload_config; a file that does not load leaves the configuration alone.
HandleReload ==
  /\ Turn("Reload")
  /\ Handled("Reload")
  /\ st' = ReloadReduced(st, batchNow, batchIvl)
  /\ pc' \in {"handle", "reload"}
  /\ UNCHANGED <<now, env, interval, cleanVars, seen, armed, kernel, history>>

\* reload_config waits for the engine mutex, which a clean holds to its end.
ReloadConfig ==
  /\ pc = "reload"
  /\ EngineFree
  /\ interval' \in Intervals
  /\ pc' = "handle"
  /\ UNCHANGED <<now, env, cleanVars, st, batchVars, armed, kernel, history>>

\* Mutation: a trigger is acknowledged only if the daemon may respond to it.
HandlePsiIfIdle(level) ==
  /\ Turn(level)
  /\ Handled(level)
  /\ psi' = IF clean = "none" THEN psi \ {level} ELSE psi
  /\ UNCHANGED <<now, env, interval, cleanVars, st, pc, seen, armed, socket, uevents, enobufs, hup,
                 history>>

\* ReclaimMemory: whether or not it responds, drain_level acknowledges the
\* trigger of the level that was reported.
HandlePsi(level) ==
  /\ Turn(level)
  /\ Handled(level)
  /\ psi' = psi \ {level}
  /\ UNCHANGED <<now, env, interval, cleanVars, st, pc, seen, armed, socket, uevents, enobufs, hup,
                 history>>

\* Mutation: an overflow is only noted.
ReconcileSysfsUnlessLost(e) ==
  /\ Turn(e)
  /\ Handled(e)
  /\ IF e = "UeventBufferOverflow"
       THEN UNCHANGED <<pc, seen, blind>>
       ELSE \E v \in SysfsReads : seen' = v /\ blind' = BlindAfter(v) /\ pc' = "reconcile"
  /\ UNCHANGED <<now, env, interval, cleanVars, st, armed, kernel, wakes>>

\* ReconcileSysfs, for an overflow or a display uevent: get_screen_state first,
\* which takes a while.
ReconcileSysfs(e) ==
  /\ Turn(e)
  /\ Handled(e)
  /\ \E v \in SysfsReads : seen' = v /\ blind' = BlindAfter(v)
  /\ pc' = "reconcile"
  /\ UNCHANGED <<now, env, interval, cleanVars, st, armed, kernel, wakes>>

\* Mutation: the clean in progress is left alone.
ReconcileScreenOnly ==
  /\ pc = "reconcile"
  /\ st' = ScreenReduced(st, seen, batchNow)
  /\ pc' = "handle"
  /\ seen' = "Unknown"
  /\ UNCHANGED <<now, env, interval, cleanVars, batch, batchNow, batchIvl, armed, kernel, history>>

\* Then is_cleaning is read and ReconcileScreen reduced, on the loop's own state.
ReconcileScreen ==
  /\ pc = "reconcile"
  /\ st' = ScreenReduced(st, seen, batchNow)
  /\ pc' = IF Preempts(st, seen) /\ clean # "none" THEN "preempt" ELSE "handle"
  /\ seen' = "Unknown"
  /\ UNCHANGED <<now, env, interval, cleanVars, batch, batchNow, batchIvl, armed, kernel, history>>

\* Then the token is cancelled, whatever has become of the clean meanwhile.  A
\* clean that was only claimed resets the token afterwards and runs on.
PreemptCleaning ==
  /\ pc = "preempt"
  /\ clean' = IF clean = "running" THEN "cancelled" ELSE clean
  /\ overtaken' = (overtaken \/ clean = "claimed")
  /\ pc' = "handle"
  /\ UNCHANGED <<now, env, interval, startedOn, st, batchVars, armed, kernel, history>>

IgnoreUevent ==
  /\ Turn("OtherUevent")
  /\ Handled("OtherUevent")
  /\ UNCHANGED <<now, env, interval, cleanVars, st, pc, seen, armed, kernel, history>>

\* The batch is done, its locals are gone: arm_timer.
Rearm ==
  /\ pc = "handle"
  /\ batch = {}
  /\ armed' = earliest_deadline(st)
  /\ batchNow' = 0
  /\ batchIvl' = interval
  /\ pc' = "wait"
  /\ UNCHANGED <<now, env, interval, cleanVars, st, batch, seen, kernel, history>>

-----------------------------------------------------------------------------

Init ==
  /\ now = 0
  /\ screen \in {"On", "Off"}
  /\ permitted \in BOOLEAN
  /\ interval \in Intervals
  /\ clean = "none"
  /\ st = NewState(interval, 0)
  /\ pc = "subscribed"
  /\ batch = {}
  /\ batchNow = 0
  /\ batchIvl = interval
  /\ seen = "Unknown"
  /\ armed = 0
  /\ socket \in BOOLEAN
  /\ uevents = {}
  /\ enobufs = FALSE
  /\ hup = FALSE
  /\ psi = {}
  /\ causes = 0
  /\ blind = FALSE
  /\ startedOn = FALSE
  /\ overtaken = FALSE
  /\ wakes = 0

LoopStep ==
  \/ ReadInitialScreen
  \/ DrainQueued
  \/ Wake
  \/ HandleTimer
  \/ HandleReload
  \/ ReloadConfig
  \/ \E level \in {"PsiModerate", "PsiCritical"} : HandlePsi(level)
  \/ \E e \in {"UeventBufferOverflow", "DisplayUevent"} : ReconcileSysfs(e)
  \/ ReconcileScreen
  \/ PreemptCleaning
  \/ IgnoreUevent
  \/ Rearm

Environment ==
  \/ Tick
  \/ ScreenChanges
  \/ SensorsChange
  \/ OtherUevent
  \/ SigHup
  \/ \E level \in {"PsiModerate", "PsiCritical"} : PsiFires(level)
  \/ IpcClean
  \/ ResetToken
  \/ CleanEnds
  \/ IpcReload
  \/ WakeLosingUevent

Next == LoopStep \/ Environment

Spec == Init /\ [][Next]_vars
FairSpec == Spec /\ WF_vars(LoopStep) /\ WF_vars(ResetToken) /\ WF_vars(CleanEnds)

-----------------------------------------------------------------------------

\* A loop that waits has the next maintenance attempt in sight: its timer is
\* armed for the attempt or earlier, the attempt is at most two intervals away
\* (a cycle that succeeds on a retry pushes a deadline that was just renewed),
\* and after a postponed cycle it is at most the longest backoff away.  No order
\* of timers, reloads, screen changes and delays strands it.
AttemptInSight ==
  pc = "wait" =>
    /\ armed <= st.maintenance
    /\ \E i \in Intervals : st.maintenance <= now + 2 * i
    /\ st.retry # None => armed <= st.retry /\ st.retry <= now + RetryMax

\* The loop does not spin: unless the clock or one of its causes moves, it
\* wakes up at most three times.  Every level-triggered source is acknowledged
\* and no deadline that has passed is armed for ever.  (More than once, because
\* a deadline renewed to this very instant fires again, only the strongest PSI
\* trigger of a batch is drained, and an overflow hides the queue behind it.)
NoSpinning == wakes <= 3

Quiet == pc = "wait" /\ "DisplayUevent" \notin uevents /\ ~enobufs

\* A loop at rest knows the screen: from the start, through overflows of the
\* socket and uevents that arrive in the middle of a batch, unless no source
\* answered, an overflow hit in the middle of a read or there is no socket.
ScreenInSync == Quiet /\ ~blind => st.screen = screen

\* When the loop is at rest with the screen on, a clean still running was claimed
\* with the screen known to be on, or was overtaken: it had set is_cleaning and
\* not yet reset its token when the loop cancelled the token.  Whatever else ran
\* when the screen came on has been cancelled, also what the timer of the same
\* batch started and what was claimed while sysfs was being read.
ScreenOnPreempts ==
  Quiet /\ ~blind /\ screen = "On" /\ clean = "running" => startedOn \/ overtaken

\* A screen that comes on and stays on is noticed, whatever the loop is doing.
ScreenOnNoticed ==
  screen = "On" ~> st.screen = "On" \/ screen = "Off" \/ blind

=============================================================================
