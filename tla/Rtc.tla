-------------------------------- MODULE Rtc --------------------------------
(***************************************************************************)
(* The RTC alarm (src/sleep/rtc.rs) and what the daemon makes of a wake     *)
(* (src/sleep/planner.rs).  Times are ticks since the epoch; the attribute  *)
(* `wakealarm` holds seconds, of Grain ticks.                               *)
(***************************************************************************)
EXTENDS Integers

CONSTANTS
    UNSET,          \* no alarm
    Grain,          \* ticks of a second
    MinHorizon      \* MIN_HORIZON, in ticks

ASSUME RtcAssumption ==
    /\ UNSET \notin Int
    /\ Grain \in Nat \ {0} /\ MinHorizon \in Nat

-----------------------------------------------------------------------------
(* The backends.                                                           *)

INVALID == -1       \* epoch_for refuses

Discover(attribute) == IF attribute THEN {"wakealarm", "rtcwake"} ELSE {}

\* epoch_for: seconds, cut off.
EpochFor(at, now) == IF at < now + MinHorizon THEN INVALID ELSE at \div Grain

\* What is in the attribute after a write: the kernel refuses an alarm over one
\* that is armed, and anything at all may fail.
Written(file, epoch) ==
    {file} \cup IF epoch = 0 THEN {UNSET} ELSE IF file = UNSET THEN {epoch} ELSE {}

\* Wakealarm::set: clear, then arm; the second write only follows a first that
\* worked.  Rtcwake::set does both in its one process.
SetOutcomes(file, at, now) ==
    LET epoch == EpochFor(at, now) IN
    {[ok |-> FALSE, file |-> file]}
    \cup IF epoch = INVALID THEN {}
         ELSE {[ok |-> FALSE, file |-> cleared] : cleared \in Written(file, 0)}
              \cup {[ok |-> TRUE, file |-> armed] : armed \in Written(UNSET, epoch) \ {UNSET}}

\* clear.
ClearOutcomes(file) == {[ok |-> FALSE, file |-> file], [ok |-> TRUE, file |-> UNSET]}

\* pending: what is in the attribute, as a time.
Pending(file) == IF file = UNSET THEN UNSET ELSE file * Grain

-----------------------------------------------------------------------------
(* The wake.                                                               *)

\* Mutant: only a wake after the alarm is the alarm's.
LateOnly(now, scheduled, slack) ==
    IF scheduled # UNSET /\ now >= scheduled /\ now - scheduled <= slack
    THEN "Scheduled" ELSE "User"

OffBy(now, scheduled) == IF now >= scheduled THEN now - scheduled ELSE scheduled - now

\* classify_wake
ClassifyWake(now, scheduled, slack) ==
    IF scheduled # UNSET /\ OffBy(now, scheduled) <= slack THEN "Scheduled" ELSE "User"

=============================================================================
