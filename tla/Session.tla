------------------------------ MODULE Session ------------------------------
(***************************************************************************)
(* The user's session and the way there: the agent process                  *)
(* (src/bin/ampered-agent.rs) with its idle watcher (src/idle.rs) and its    *)
(* display (src/display.rs), the compositor they talk to, the stream of      *)
(* `AgentLink`, and as much of the engine as idleness and the screen need.  *)
(*                                                                         *)
(* The daemon, the agent and the compositor may each die and start again at *)
(* any step.  There is one agent process at a time; an older one's stream   *)
(* may still be served when the next registers.                             *)
(*                                                                         *)
(* Of the engine there is what idle stages, activity and a resume make of   *)
(* the screen; inhibitors, the `sleep` stage and the server cycle are in    *)
(* `Engine`.  Left out of the watcher: outputs that come and go, and globals *)
(* that appear after the first roundtrip.                                   *)
(*                                                                         *)
(* History: `wanted` is the last Screen the engine has sent; `lost` says    *)
(* that it may not have arrived, or could not be carried out, or that the   *)
(* display takes it for done because it remembers one that was lost; `deaf` *)
(* that the engine has been left away from Active with nothing in the       *)
(* compositor to end it.                                                    *)
(***************************************************************************)
EXTENDS AgentLink, SequencesExt

CONSTANTS
    Kinds,          \* compositors: [idle : BOOLEAN, power : BOOLEAN]
    Room,           \* bound: events on their way to the daemon, before the next
    OpRoom,         \* bound: ops on their way, before the next
    AfterSleep,     \* states of the panel a sleep may leave, other than it was
    MaxUpsets       \* bound: deaths, mode switches, reloads and sleeps, together

ASSUME SessionAssumption ==
    /\ Kinds \subseteq [idle : BOOLEAN, power : BOOLEAN]
    /\ Stages \subseteq {"Dim", "ScreenOff"}
    /\ AfterSleep \subseteq BOOLEAN /\ MaxUpsets \in Nat
    /\ Displays \subseteq {"wlr", "wlr with commands", "command", "none"}
    /\ NONE \notin {"wlr", "wlr with commands", "command", "none"} /\ NONE \notin BOOLEAN

VARIABLES
    phase,          \* the engine's state
    agent,          \* the agent process
    watcher,        \* its reconnect_loop and session
    compositor,     \* the compositor, with the watcher's notifications
    screen,         \* is it on?
    wanted, lost, deaf,
    upsets          \* counted for the bound

sessionVars == <<linkVars, phase, agent, watcher, compositor, screen, wanted, lost, deaf, upsets>>
history == <<wanted, lost, deaf, upsets>>

\* Events on their way, from the compositor to the engine.
Coming == Range(events) \cup (UNION {Range(streams[id].up) : id \in Streams})
          \cup Range(agent.inbox) \cup Range(compositor.wire)
\* The engine is still to be told that the user is away.
IdleInFlight == \E event \in Coming : event.event \in {"idle", "idled"}

\* display: the section and what was sent last; inbox: from the watcher.
NewAgent == [alive |-> TRUE, conn |-> NoStream, display |-> NONE, last |-> NONE, inbox |-> <<>>]

\* IdleBackendChanged, which makes the agent look at its display again.
Backend == [event |-> "backend"]

\* What the compositor says of a notification.
Idled(stage) == [event |-> "idled", stage |-> stage]
Resumed(stage) == [event |-> "resumed", stage |-> stage]

\* announced: the notifier was there; power: and the power manager is.
NewWatcher == [session |-> FALSE, announced |-> FALSE, stages |-> {}, power |-> FALSE,
               requests |-> <<>>]

\* linked: the watcher's connection is alive; notified: its notifications,
\* and those of them that are idled; wire: what it has not read yet.
Compositor(running, kind) ==
    [running |-> running, kind |-> kind, linked |-> FALSE, notified |-> {}, idled |-> {},
     wire |-> <<>>]
Forget(c) == [c EXCEPT !.linked = FALSE, !.notified = {}, !.idled = {}, !.wire = <<>>]

Init ==
    /\ LinkInit
    /\ phase = "Active"
    /\ agent = [NewAgent EXCEPT !.alive = FALSE] /\ watcher = NewWatcher
    /\ \E kind \in Kinds : compositor = Compositor(TRUE, kind)
    /\ screen = TRUE /\ wanted = TRUE /\ lost = FALSE /\ deaf = FALSE /\ upsets = 0

-----------------------------------------------------------------------------
(* The engine, as far as it goes here: its commands go to the link at once. *)

Attached == agent.conn # NoStream /\ link.current = agent.conn

\* Screen(on), and what it makes of the history.
SendScreen(on) ==
    /\ SetScreen(on)
    /\ wanted' = on /\ lost' = (~Attached \/ (lost /\ agent.last = on))

SendNothing == UNCHANGED <<link, streams, wanted, lost>>

OnIdle(stage) ==
    \/ /\ stage = "Dim" /\ phase = "Active"
       /\ phase' = "Dimmed" /\ SendNothing
    \/ /\ stage = "ScreenOff" /\ phase \in {"Active", "Dimmed"}
       /\ phase' = "ScreenOff" /\ SendScreen(FALSE)
    \/ /\ phase = "ScreenOff" \/ (stage = "Dim" /\ phase = "Dimmed")
       /\ UNCHANGED phase /\ SendNothing

OnActivity ==
    /\ phase' = "Active"
    /\ IF phase = "ScreenOff" THEN SendScreen(TRUE) ELSE SendNothing

\* The main loop takes the next event.
TakeEvent ==
    /\ events # <<>>
    /\ events' = Tail(events)
    /\ LET event == Head(events) IN
       \/ event.event = "idle" /\ OnIdle(event.stage)
       \/ event = Activity /\ OnActivity
    /\ UNCHANGED <<agent, watcher, compositor, screen, upsets>>
    /\ deaf' = (deaf /\ (phase' # "Active" \/ IdleInFlight'))

OneMoreUpset == upsets < MaxUpsets /\ upsets' = upsets + 1

OpsUnderWay ==
    Len(watcher.requests)
      + (IF link.current = NoStream THEN 0 ELSE Len(streams[link.current].down))
EventsUnderWay ==
    Len(compositor.wire) + Len(agent.inbox)
      + (IF agent.conn = NoStream THEN 0 ELSE Len(streams[agent.conn].up))

\* A mode is switched, in any phase.
ModeSwitched(stages) ==
    /\ OneMoreUpset /\ OpsUnderWay < OpRoom /\ link.stages # stages
    /\ ReplaceStages(stages)
    /\ UNCHANGED <<events, phase, agent, watcher, compositor, screen, wanted, lost, deaf>>

Reloaded(display) ==
    /\ OneMoreUpset /\ OpsUnderWay < OpRoom /\ SetDisplay(display)
    /\ UNCHANGED <<events, phase, agent, watcher, compositor, screen, wanted, lost, deaf>>

\* The machine has slept.
Resumes ==
    /\ OneMoreUpset /\ OpsUnderWay < OpRoom
    /\ phase' = "Active"
    /\ streams' = IF link.current = NoStream THEN streams
                  ELSE [streams EXCEPT ![link.current].down =
                           @ \o <<ScreenOp(TRUE), StagesOp(link.stages)>>]
    /\ screen' \in {screen} \cup AfterSleep
    /\ wanted' = TRUE /\ lost' = (~Attached \/ (agent.last = TRUE /\ (lost \/ screen' # screen)))
    /\ UNCHANGED <<link, events, agent, watcher, compositor>>
    /\ deaf' = (deaf /\ IdleInFlight')

DaemonDies ==
    /\ OneMoreUpset /\ DaemonRestarts
    /\ phase' = "Active" /\ wanted' = TRUE /\ lost' = TRUE
    /\ UNCHANGED <<agent, watcher, compositor, screen>>
    /\ deaf' = (deaf /\ IdleInFlight')

\* The tasks of the streams.
Serve(id) ==
    /\ \/ ServeLine(id) \/ ServeEnd(id) \/ SayGoodbye(id)
    /\ UNCHANGED <<phase, agent, watcher, compositor, screen, history>>

-----------------------------------------------------------------------------
(* The agent process.                                                      *)

Available(display) ==
    display \in {"wlr with commands", "command", "none"} \/ (display = "wlr" /\ watcher.power)

\* A write to a stream the daemon has closed fails; the agent hangs up then.
Says(id, said) ==
    streams' = IF streams[id].serving THEN [streams EXCEPT ![id].up = @ \o said] ELSE streams

AgentStarts ==
    /\ ~agent.alive
    /\ agent' = NewAgent /\ watcher' = NewWatcher
    /\ UNCHANGED <<linkVars, phase, compositor, screen, history>>

AgentDies ==
    /\ OneMoreUpset /\ agent.alive
    /\ agent' = [NewAgent EXCEPT !.alive = FALSE] /\ watcher' = NewWatcher
    /\ compositor' = Forget(compositor)
    /\ streams' = IF agent.conn = NoStream THEN streams ELSE Left(agent.conn)
    /\ lost' = TRUE
    /\ UNCHANGED <<link, events, phase, screen, wanted, deaf>>

\* It is registered, and starts with its report.  An agent whose predecessor
\* has not been missed yet takes its place without a goodbye.
Connect ==
    /\ agent.alive /\ agent.conn = NoStream
    /\ Register(<<DisplayEvent(Available(agent.display))>>)
    /\ agent' = [agent EXCEPT !.conn = link.nextId]
    /\ deaf' = (deaf \/ (link.current # NoStream /\ (phase # "Active" \/ IdleInFlight)))
    /\ UNCHANGED <<phase, watcher, compositor, screen, wanted, lost, upsets>>

\* The daemon is not there for a moment: what the watcher has said is dropped.
ConnectFails ==
    /\ agent.alive /\ agent.conn = NoStream /\ agent.inbox # <<>>
    /\ agent' = [agent EXCEPT !.inbox = <<>>]
    /\ UNCHANGED <<linkVars, phase, watcher, compositor, screen, history>>

\* The daemon has closed the stream.  What the watcher has said is dropped.
HangUp ==
    /\ agent.conn # NoStream /\ ~streams[agent.conn].serving
    /\ streams' = Left(agent.conn)
    /\ agent' = [agent EXCEPT !.conn = NoStream, !.inbox = <<>>]
    /\ lost' = TRUE
    /\ UNCHANGED <<link, events, phase, watcher, compositor, screen, wanted, deaf, upsets>>

\* The `display` op: a new Display, which remembers nothing.
ApplyDisplay(display) ==
    /\ agent' = [agent EXCEPT !.display = display, !.last = NONE]
    /\ streams' = [streams EXCEPT ![agent.conn].down = Tail(@),
                     ![agent.conn].up = IF streams[agent.conn].serving
                        THEN Append(@, DisplayEvent(Available(display))) ELSE @]
    /\ UNCHANGED <<watcher, screen, lost>>

ApplyStages(stages) ==
    /\ watcher' = [watcher EXCEPT !.requests = Append(@, StagesOp(stages))]
    /\ streams' = [streams EXCEPT ![agent.conn].down = Tail(@)]
    /\ UNCHANGED <<agent, screen, lost>>

\* The helper of the `command` backend: it does what it should, or fails or
\* hangs with the panel in either state.
RunCommand(on) ==
    \/ /\ compositor.running
       /\ screen' = on /\ agent' = [agent EXCEPT !.last = on] /\ UNCHANGED lost
    \/ /\ screen' \in (IF compositor.running THEN BOOLEAN ELSE {screen})
       /\ agent' = [agent EXCEPT !.last = NONE] /\ lost' = TRUE

\* Mutant: what could not be done is remembered as done.
ApplyScreenLatching(on) ==
    /\ streams' = [streams EXCEPT ![agent.conn].down = Tail(@)]
    /\ \/ /\ agent.last = on
          /\ UNCHANGED <<agent, watcher, screen, lost>>
       \/ /\ agent.last # on
          /\ agent' = [agent EXCEPT !.last = on]
          /\ watcher' = IF watcher.power
                THEN [watcher EXCEPT !.requests = Append(@, ScreenOp(on))] ELSE watcher
          /\ UNCHANGED <<screen, lost>>

\* Display::set.
ApplyScreen(on) ==
    /\ streams' = [streams EXCEPT ![agent.conn].down = Tail(@)]
    /\ \/ /\ agent.last = on
          /\ UNCHANGED <<agent, watcher, screen, lost>>
       \/ /\ agent.last # on /\ agent.display \in {"wlr", "wlr with commands"} /\ watcher.power
          /\ watcher' = [watcher EXCEPT !.requests = Append(@, ScreenOp(on))]
          /\ agent' = [agent EXCEPT !.last = on]
          /\ UNCHANGED <<screen, lost>>
       \/ /\ agent.last # on
          /\ agent.display = "none" \/ (agent.display = "wlr" /\ ~watcher.power)
          /\ agent' = IF agent.display = "none" THEN [agent EXCEPT !.last = on] ELSE agent
          /\ lost' = TRUE
          /\ UNCHANGED <<watcher, screen>>
       \/ /\ agent.last # on
          /\ agent.display = "command" \/ (agent.display = "wlr with commands" /\ ~watcher.power)
          /\ RunCommand(on)
          /\ UNCHANGED watcher

\* The next line from the daemon.
ReadOp ==
    /\ agent.conn # NoStream /\ streams[agent.conn].down # <<>>
    /\ LET op == Head(streams[agent.conn].down) IN
       \/ op.op = "display" /\ ApplyDisplay(op.display)
       \/ op.op = "stages" /\ ApplyStages(op.stages)
       \/ op.op = "screen" /\ ApplyScreen(op.on)
    /\ UNCHANGED <<link, events, phase, compositor, wanted, deaf, upsets>>

\* The next event of the watcher.
Forward ==
    /\ agent.conn # NoStream /\ agent.inbox # <<>>
    /\ LET event == Head(agent.inbox) IN
       Says(agent.conn, <<IF event = Backend THEN DisplayEvent(Available(agent.display)) ELSE event>>)
    /\ agent' = [agent EXCEPT !.inbox = Tail(@)]
    /\ UNCHANGED <<link, events, phase, watcher, compositor, screen, history>>

-----------------------------------------------------------------------------
(* The idle watcher.                                                       *)

\* The first enabled stage, whose `resumed` stands for "the user is back".
Primary(stages) == IF "Dim" \in stages THEN "Dim" ELSE "ScreenOff"

\* The top of reconnect_loop: the last stages are kept, the screen is not.
About(op, ops) == {i \in DOMAIN ops : ops[i].op = op}
Drained(requests, stages) ==
    LET updates == About("stages", requests) IN
    IF updates = {} THEN stages ELSE requests[Max(updates)].stages
DropsScreen == About("screen", watcher.requests) # {}

Tells(said) == agent' = [agent EXCEPT !.inbox = @ \o said]

\* The start of `session`, up to the first events.
SessionStarts ==
    /\ agent.alive /\ ~watcher.session /\ compositor.running /\ EventsUnderWay < Room
    /\ LET stages == Drained(watcher.requests, watcher.stages)
           kind == compositor.kind IN
       /\ watcher' = [watcher EXCEPT !.session = TRUE, !.announced = kind.idle,
                         !.stages = stages, !.power = kind.power, !.requests = <<>>]
       /\ compositor' = [compositor EXCEPT !.linked = TRUE, !.idled = {}, !.wire = <<>>,
                            !.notified = IF kind.idle THEN stages ELSE {}]
    /\ Tells(<<Backend>>)
    /\ lost' = (lost \/ DropsScreen)
    /\ UNCHANGED <<linkVars, phase, screen, wanted, deaf, upsets>>

\* There is no compositor to connect to.
SessionFails ==
    /\ agent.alive /\ ~watcher.session /\ ~compositor.running /\ watcher.requests # <<>>
    /\ watcher' = [watcher EXCEPT !.requests = <<>>,
                      !.stages = Drained(watcher.requests, watcher.stages)]
    /\ lost' = (lost \/ DropsScreen)
    /\ UNCHANGED <<linkVars, phase, agent, compositor, screen, wanted, deaf, upsets>>

\* Mutant: the end of a session goes unmentioned.
SessionEndsSilently ==
    /\ agent.alive /\ watcher.session /\ ~compositor.linked
    /\ watcher' = [watcher EXCEPT !.session = FALSE, !.announced = FALSE, !.power = FALSE]
    /\ compositor' = [compositor EXCEPT !.wire = <<>>]
    /\ Tells(IF watcher.announced THEN <<Backend>> ELSE <<>>)
    /\ UNCHANGED <<linkVars, phase, screen, history>>

\* The connection is found dead, whatever is left to read.
SessionEnds ==
    /\ agent.alive /\ watcher.session /\ ~compositor.linked
    /\ watcher' = [watcher EXCEPT !.session = FALSE, !.announced = FALSE, !.power = FALSE]
    /\ compositor' = [compositor EXCEPT !.wire = <<>>]
    /\ Tells(IF watcher.announced THEN <<Backend, Activity>> ELSE <<>>)
    /\ UNCHANGED <<linkVars, phase, screen, history>>

\* set_stages destroys the notifications: a `resumed` that they would have
\* sent, or that is on its way, does not come.
SetStages(stages) ==
    /\ watcher' = [watcher EXCEPT !.requests = Tail(@), !.stages = stages]
    /\ deaf' = (deaf \/ compositor.idled # {}
                     \/ \E i \in DOMAIN compositor.wire : compositor.wire[i].event = "resumed")
    /\ compositor' = [compositor EXCEPT !.idled = {}, !.wire = <<>>,
                         !.notified = IF compositor.linked /\ compositor.kind.idle
                                      THEN stages ELSE {}]
    /\ UNCHANGED <<screen, lost>>

SetOutputs(on) ==
    /\ watcher' = [watcher EXCEPT !.requests = Tail(@)]
    /\ \/ /\ compositor.linked /\ compositor.kind.power
          /\ screen' = on /\ UNCHANGED lost
       \/ /\ ~(compositor.linked /\ compositor.kind.power)
          /\ lost' = TRUE /\ UNCHANGED screen
    /\ UNCHANGED <<compositor, deaf>>

\* The next request of the agent.
TakeRequest ==
    /\ agent.alive /\ watcher.session /\ watcher.requests # <<>>
    /\ LET request == Head(watcher.requests) IN
       \/ request.op = "stages" /\ SetStages(request.stages)
       \/ request.op = "screen" /\ SetOutputs(request.on)
    /\ UNCHANGED <<linkVars, phase, agent, wanted, upsets>>

\* Mutant: every `resumed` but the first stage's speaks.
SpokenByOthers(event) ==
    IF event.event = "idled" THEN <<IdleEvent(event.stage)>>
    ELSE IF event.stage # Primary(watcher.stages) THEN <<Activity>> ELSE <<>>

\* Every stage resumes at once; only the first one speaks.
Spoken(event) ==
    IF event.event = "idled" THEN <<IdleEvent(event.stage)>>
    ELSE IF event.stage = Primary(watcher.stages) THEN <<Activity>> ELSE <<>>

Dispatch ==
    /\ agent.alive /\ watcher.session /\ compositor.wire # <<>>
    /\ Tells(Spoken(Head(compositor.wire)))
    /\ compositor' = [compositor EXCEPT !.wire = Tail(@)]
    /\ UNCHANGED <<linkVars, phase, watcher, screen, history>>

-----------------------------------------------------------------------------
(* The compositor, and the user.                                           *)

CompositorStarts(kind) ==
    /\ ~compositor.running
    /\ compositor' = [compositor EXCEPT !.running = TRUE, !.kind = kind]
    /\ screen' = TRUE
    /\ UNCHANGED <<linkVars, phase, agent, watcher, history>>

CompositorDies ==
    /\ OneMoreUpset /\ compositor.running
    /\ compositor' = [compositor EXCEPT !.running = FALSE, !.linked = FALSE,
                         !.notified = {}, !.idled = {}]
    /\ screen' = TRUE
    /\ UNCHANGED <<linkVars, phase, agent, watcher, wanted, lost, deaf>>

Before(stage) == IF stage = "Dim" THEN {} ELSE {"Dim"}

\* Nothing is touched for as long as the timeout of a stage.
UserIsAway(stage) ==
    /\ stage \in compositor.notified \ compositor.idled
    /\ Before(stage) \cap compositor.notified \subseteq compositor.idled
    /\ EventsUnderWay < Room /\ OpsUnderWay < OpRoom
    /\ compositor' = [compositor EXCEPT !.idled = @ \cup {stage},
                                        !.wire = Append(@, Idled(stage))]
    /\ UNCHANGED <<linkVars, phase, agent, watcher, screen, history>>

ResumedIf(stage) == IF stage \in compositor.idled THEN <<Resumed(stage)>> ELSE <<>>

UserIsBack ==
    /\ compositor.idled # {}
    /\ compositor' = [compositor EXCEPT !.idled = {},
                         !.wire = (@ \o ResumedIf("Dim")) \o ResumedIf("ScreenOff")]
    /\ UNCHANGED <<linkVars, phase, agent, watcher, screen, history>>

-----------------------------------------------------------------------------

Next ==
    \/ TakeEvent
    \/ \E stages \in StageSets : ModeSwitched(stages)
    \/ \E display \in Displays : Reloaded(display)
    \/ Resumes \/ DaemonDies \/ \E id \in Streams : Serve(id)
    \/ AgentStarts \/ AgentDies \/ Connect \/ ConnectFails \/ HangUp
    \/ ReadOp \/ Forward
    \/ SessionStarts \/ SessionFails \/ SessionEnds \/ TakeRequest \/ Dispatch
    \/ \E kind \in Kinds : CompositorStarts(kind)
    \/ CompositorDies \/ \E stage \in Stages : UserIsAway(stage)
    \/ UserIsBack

Spec == Init /\ [][Next]_sessionVars

\* The tasks of daemon and agent do not all stop while one could go on;
\* nothing is assumed of the outside.
Tasks ==
    \/ TakeEvent \/ \E id \in Streams : Serve(id)
    \/ HangUp \/ ReadOp \/ Forward \/ SessionEnds \/ TakeRequest \/ Dispatch

FairSpec == Spec /\ WF_sessionVars(Tasks)

-----------------------------------------------------------------------------
(* Properties.                                                             *)

\* Nothing is under way: all is told, done and noticed.
Settled ==
    /\ Coming = {} /\ watcher.requests = <<>>
    /\ \A id \in Streams : /\ ~streams[id].goodbye
                           /\ streams[id].serving => id = agent.conn /\ id = link.current
    /\ agent.conn # NoStream => streams[agent.conn].serving /\ streams[agent.conn].down = <<>>
    /\ watcher.session => compositor.linked

\* What the agent has, or will have once it has read what it was sent.
LatestDisplay ==
    LET down == streams[agent.conn].down
        sent == About("display", down)
    IN IF sent = {} THEN agent.display ELSE down[Max(sent)].display
LatestStages ==
    Drained(watcher.requests \o streams[agent.conn].down, watcher.stages)

\* The agent on a stream that is served is the registered one, and when it
\* has read its ops and the watcher its requests, they have the stages and
\* the section of the daemon: whoever died and reconnected, in whatever order.
AgentIsUpToDate ==
    agent.conn # NoStream /\ streams[agent.conn].serving =>
        /\ link.current = agent.conn
        /\ LatestStages = link.stages /\ LatestDisplay = link.display

\* What `amperedctl status` says of the display is so.
AvailabilityIsHonest ==
    Settled => link.available = (Attached /\ Available(agent.display))

\* An engine that takes the user for away can be told otherwise: the registered
\* agent has an idle notification that speaks.  (Not so when the stages were
\* replaced while idle, or an agent that was not missed yet: see `deaf`.)
InputIsHeard ==
    Settled /\ phase # "Active" /\ ~deaf =>
        Attached /\ Primary(watcher.stages) \in compositor.idled

\* A screen that was asked to be on is on, unless the request was lost.
ScreenComesOn == Settled /\ wanted /\ ~lost => screen

\* The user's return, once the compositor has reported it, makes the engine
\* Active, even if the agent or the compositor dies on the way.
InputLeadsOut ==
    (\E i \in DOMAIN compositor.wire :
        compositor.wire[i] = Resumed(Primary(watcher.stages)))
    ~> (phase = "Active" \/ deaf)

\* "Re-sent to a new agent, so a restart on either side loses nothing": an
\* Active engine and an agent with nothing left to do have the screen on.
RestartLosesNothing == Settled /\ Attached /\ wanted => screen
=============================================================================
