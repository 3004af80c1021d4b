------------------------------ MODULE AutoLock ------------------------------
(***************************************************************************)
(* The inactivity lock of a window (hooks/useAutoLock, the lock state of   *)
(* hooks/useVault, the Auto Lock section of settings/page).  Time is       *)
(* counted in steps; the callbacks of the interval run on time.            *)
(***************************************************************************)
EXTENDS Naturals

CONSTANTS
    Timeouts, \* the choices of the settings page, in steps; 0 is "Never"
    Default,  \* the one chosen when the page loads
    Period,   \* time between two checks (10 s), in steps
    Horizon   \* bound: idle times from here on are not told apart

ASSUME TimesAssumption ==
    /\ Timeouts \subseteq Nat /\ Default \in Timeouts
    /\ Period \in Nat \ {0} /\ Horizon \in Nat
    /\ \A t \in Timeouts : Horizon > t + Period

VARIABLES
    open,     \* ~ isLocked
    timeout,  \* lockTimeout
    idle,     \* time since lastActivity
    elapsed,  \* time since the interval was set
    opened    \* history: time since the vault was unlocked

clockVars == <<open, timeout, idle, elapsed, opened>>

AutoLockTypeOK ==
    /\ open \in BOOLEAN
    /\ timeout \in Timeouts
    /\ idle \in 0 .. Horizon
    /\ elapsed \in 0 .. Period
    /\ opened \in 0 .. Horizon

ClockInit ==
    /\ open = FALSE
    /\ timeout = Default
    /\ idle = 0
    /\ elapsed = 0
    /\ opened = 0

-----------------------------------------------------------------------------

Later(t) == IF t < Horizon THEN t + 1 ELSE t

\* Defect: an effect that also runs when time passes never lets a check fall due.
PassRearmed ==
    /\ idle' = Later(idle)
    /\ elapsed' = 0
    /\ opened' = IF open THEN Later(opened) ELSE 0
    /\ UNCHANGED <<open, timeout>>

\* Defect: a check that is due may be left out.
PassLate ==
    /\ idle' = Later(idle)
    /\ elapsed' = IF open THEN elapsed + 1 ELSE 0
    /\ opened' = IF open THEN Later(opened) ELSE 0
    /\ UNCHANGED <<open, timeout>>

\* The next check is due before time goes on.
Pass ==
    /\ open => elapsed < Period
    /\ idle' = Later(idle)
    /\ elapsed' = IF open THEN elapsed + 1 ELSE 0
    /\ opened' = IF open THEN Later(opened) ELSE 0
    /\ UNCHANGED <<open, timeout>>

\* mousedown, keydown, scroll or touchstart: lastActivity changes, so the
\* effect sets the interval anew.  Nobody listens while the vault is locked.
Touch ==
    /\ idle' = IF open THEN 0 ELSE idle
    /\ elapsed' = 0
    /\ UNCHANGED <<open, timeout, opened>>

Activity == open /\ Touch

\* A click, which is an activity as well.
ChooseTimeout(t) ==
    /\ t # timeout
    /\ timeout' = t
    /\ idle' = IF open THEN 0 ELSE idle
    /\ elapsed' = 0
    /\ UNCHANGED <<open, opened>>

CloseClock ==
    /\ open' = FALSE
    /\ elapsed' = 0
    /\ opened' = 0
    /\ UNCHANGED <<timeout, idle>>

\* unlock() leaves lastActivity alone: the first check may lock again.
OpenClock ==
    /\ open' = TRUE
    /\ elapsed' = 0
    /\ opened' = 0
    /\ UNCHANGED <<timeout, idle>>

Due == open /\ elapsed = Period

Expired == timeout > 0 /\ idle >= timeout

\* The check of the interval finds nothing to do.
Check ==
    /\ Due /\ ~ Expired
    /\ elapsed' = 0
    /\ UNCHANGED <<open, timeout, idle, opened>>

-----------------------------------------------------------------------------
(* Properties *)

\* A vault nobody touches is locked at most one check after its timeout,
\* whatever was clicked, chosen, locked and unlocked before; only a vault
\* unlocked within the last check may have been idle for longer.
LocksInTime ==
    open /\ timeout > 0 => idle <= timeout + Period \/ opened <= Period

=============================================================================
