------------------------------ MODULE IdleHint ------------------------------
(***************************************************************************)
(* The idle source for a machine without the compositor's, src/logind.rs:   *)
(* a task that polls logind's IdleHint and IdleSinceHint, and tells the main *)
(* loop that the user is idle, for the stage `sleep`, and active again.      *)
(***************************************************************************)
EXTENDS Naturals, Sequences

CONSTANTS
    NEVER,          \* sleep_after = 0
    Afters,         \* values of sleep_after, in ticks
    ChannelCap      \* bound: capacity of the main loop's channel (64 in the code)

ASSUME IdleHintAssumption ==
    /\ NEVER \notin Nat /\ Afters \subseteq Nat \ {0} /\ ChannelCap \in Nat \ {0}

VARIABLES
    hint, idleFor,  \* IdleHint, and the time since IdleSinceHint
    fallback,       \* what the poller needs from the daemon (SharedFallback)
    poller,         \* where it is in a turn of its loop
    control,        \* its copy of `fallback`
    seen,           \* the hint it has read
    hintFired,      \* `fired`: does it remember that the stage was delivered
    saying,         \* the event it sends
    channel,        \* of the main loop
    told,           \* what the main loop was told last
    delivered, dropped  \* history: was the stage sent in this stretch of idleness;
                        \* did the poller forget one because it had to stay out

worldVars == <<hint, idleFor>>
pollerVars == <<poller, control, seen, hintFired, saying>>
historyVars == <<delivered, dropped>>
hintVars == <<worldVars, fallback, pollerVars, channel, told, historyVars>>

Fallback == [enabled : BOOLEAN, compositor : BOOLEAN, sleepAfter : Afters \cup {NEVER}]
Engaged(f) == f.enabled /\ ~f.compositor

HintInit ==
    /\ hint \in BOOLEAN /\ idleFor = 0
    /\ fallback \in Fallback /\ ~fallback.compositor /\ fallback.sleepAfter = NEVER
    /\ poller = "sleeping" /\ control = fallback /\ seen = FALSE /\ hintFired = FALSE
    /\ saying = "nothing"
    /\ channel = <<>> /\ told = "Activity"
    /\ delivered = FALSE /\ dropped = FALSE

-----------------------------------------------------------------------------
(* The session, and the main loop.                                         *)

GoesIdle ==
    /\ ~hint /\ hint' = TRUE /\ idleFor' = 0
    /\ UNCHANGED <<fallback, pollerVars, channel, told, historyVars>>

ComesBack ==
    /\ hint /\ hint' = FALSE /\ idleFor' = 0 /\ delivered' = FALSE
    /\ UNCHANGED <<fallback, pollerVars, channel, told, dropped>>

\* bound: up to the longest of the timeouts
StaysIdle ==
    /\ hint /\ \E after \in Afters : idleFor < after
    /\ idleFor' = idleFor + 1
    /\ UNCHANGED <<hint, fallback, pollerVars, channel, told, historyVars>>

OneField(f) ==
    \/ f.compositor = fallback.compositor /\ f.enabled = fallback.enabled
    \/ f.compositor = fallback.compositor /\ f.sleepAfter = fallback.sleepAfter
    \/ f.enabled = fallback.enabled /\ f.sleepAfter = fallback.sleepAfter

\* ReplaceIdleStages, reload, IdleBackendChanged.
Adjust(f) ==
    /\ fallback' = f
    /\ delivered' = (delivered /\ Engaged(f))
    /\ UNCHANGED <<worldVars, pollerVars, channel, told, dropped>>

Adjusts == \E f \in Fallback : OneField(f) /\ Adjust(f)

Hears ==
    /\ channel # <<>> /\ told' = Head(channel) /\ channel' = Tail(channel)
    /\ UNCHANGED <<worldVars, fallback, pollerVars, historyVars>>

-----------------------------------------------------------------------------
(* idle_hint_poll.                                                         *)

Wakes ==
    /\ poller = "sleeping" /\ control' = fallback
    /\ \/ Engaged(fallback) /\ poller' = "asking" /\ UNCHANGED <<hintFired, dropped>>
       \/ /\ ~Engaged(fallback) /\ UNCHANGED poller
          /\ hintFired' = FALSE /\ dropped' = (dropped \/ hintFired)
    /\ UNCHANGED <<worldVars, fallback, seen, saying, channel, told, delivered>>

AsksHint ==
    /\ poller = "asking" /\ seen' = hint /\ poller' = "asking since"
    /\ UNCHANGED <<worldVars, fallback, control, hintFired, saying, channel, told, historyVars>>

AskFails ==
    /\ poller \in {"asking", "asking since"} /\ poller' = "sleeping"
    /\ UNCHANGED <<worldVars, fallback, control, seen, hintFired, saying, channel, told, historyVars>>

\* IdleSinceHint is 0 when nobody is idle.
MayFire ==
    /\ control.sleepAfter # NEVER /\ seen
    /\ (IF hint THEN idleFor ELSE 0) >= control.sleepAfter

\* Mutant: the end of idleness is only looked for where a timeout is set.
DecidesWithTimeout ==
    \/ MayFire /\ ~hintFired /\ saying' = "Idle" /\ hintFired' = TRUE
    \/ ~MayFire /\ control.sleepAfter # NEVER /\ hintFired /\ ~seen
       /\ saying' = "Activity" /\ hintFired' = FALSE
    \/ /\ MayFire => hintFired
       /\ MayFire \/ control.sleepAfter = NEVER \/ ~hintFired \/ seen
       /\ UNCHANGED <<saying, hintFired>>

\* Mutant: any answer but "idle for long enough" ends the stretch.
DecidesEagerly ==
    \/ MayFire /\ ~hintFired /\ saying' = "Idle" /\ hintFired' = TRUE
    \/ ~MayFire /\ hintFired /\ saying' = "Activity" /\ hintFired' = FALSE
    \/ MayFire = hintFired /\ UNCHANGED <<saying, hintFired>>

\* fallback_event
Decides ==
    \/ MayFire /\ ~hintFired /\ saying' = "Idle" /\ hintFired' = TRUE
    \/ ~MayFire /\ hintFired /\ ~seen /\ saying' = "Activity" /\ hintFired' = FALSE
    \/ /\ MayFire => hintFired
       /\ MayFire \/ ~hintFired \/ seen
       /\ UNCHANGED <<saying, hintFired>>

AsksSince ==
    /\ poller = "asking since" /\ Decides
    /\ poller' = IF saying' = "nothing" THEN "sleeping" ELSE "sending"
    /\ delivered' = (Engaged(fallback) /\ (delivered \/ saying' = "Idle"))
    /\ dropped' = (dropped /\ saying' # "Idle")
    /\ UNCHANGED <<worldVars, fallback, control, seen, channel, told>>

Sends ==
    /\ poller = "sending" /\ Len(channel) < ChannelCap
    /\ channel' = Append(channel, saying) /\ saying' = "nothing"
    /\ poller' = "sleeping"
    /\ UNCHANGED <<worldVars, fallback, control, seen, hintFired, told, historyVars>>

Polls == Wakes \/ AsksHint \/ AsksSince \/ Sends

HintNext == GoesIdle \/ ComesBack \/ StaysIdle \/ Adjusts \/ Hears \/ Polls \/ AskFails

HintSpec == HintInit /\ [][HintNext]_hintVars

\* The tasks run, and logind answers now and then.
FairHintSpec ==
    /\ HintSpec /\ WF_hintVars(Hears) /\ WF_hintVars(Polls)
    /\ SF_hintVars(AsksHint) /\ SF_hintVars(AsksSince)

-----------------------------------------------------------------------------
(* Properties.                                                             *)

\* The stage goes out once per stretch of idleness, however its timeout is moved
\* by modes and reloads while the poller waits for logind: what a reload or a
\* compositor cuts in two counts as two.
OncePerStretch ==
    [][(saying = "nothing") /\ saying' = "Idle" => ~delivered]_hintVars

\* Whoever was told of idleness is told of its end, unless the poller was kept
\* out in between, by a compositor or a reload.
IdlenessEnds ==
    <>[](Engaged(fallback) /\ ~hint) => <>[](told = "Activity" \/ dropped)

=============================================================================
