----------------------------- MODULE AgentLink -----------------------------
(***************************************************************************)
(* The daemon's end of the agent stream, src/agent.rs and `serve_agent` in  *)
(* src/ipc.rs.                                                              *)
(*                                                                         *)
(* `link` is what the main loop and the IPC server share under a mutex: one *)
(* registered stream, and the display section and idle stages to send to    *)
(* the next one.  Each connection has a task of its own that carries ops    *)
(* down and events up.  A registration closes the stream before it, but its *)
(* task goes on for as long as it takes to notice.                          *)
(*                                                                         *)
(* IdleBackendChanged is left out: it feeds `status` and the logind         *)
(* fallback.  What it makes the agent report, the display, is not.          *)
(*                                                                         *)
(* `Session` composes this with the agent, the compositor and the engine.   *)
(***************************************************************************)
EXTENDS Naturals, Sequences

CONSTANTS
    NONE,
    StageSets,      \* the enabled stages of a mode; {} is Stages::NONE
    Displays,       \* [display] sections, named by their backend
    MaxStreams,     \* bound: connections of agents, over the whole behaviour
    EventRoom       \* capacity of the main loop's channel, 64 in the code

Streams == 1..MaxStreams
NoStream == 0

ASSUME AgentLinkAssumption ==
    /\ MaxStreams \in Nat /\ EventRoom \in Nat \ {0}
    /\ {} \in StageSets /\ NONE \notin Displays

VARIABLES
    link,           \* AgentState
    streams,        \* per connection: its task in the daemon, and the socket
    events          \* of all streams, waiting for the main loop

linkVars == <<link, streams, events>>

\* AgentOp, down the stream.
DisplayOp(display) == [op |-> "display", display |-> display]
StagesOp(stages) == [op |-> "stages", stages |-> stages]
ScreenOp(on) == [op |-> "screen", on |-> on]
Ops == {DisplayOp(display) : display \in Displays} \cup {StagesOp(stages) : stages \in StageSets}
       \cup {ScreenOp(on) : on \in BOOLEAN}

\* AgentEvent, up the stream.
Stages == UNION StageSets
IdleEvent(stage) == [event |-> "idle", stage |-> stage]
Activity == [event |-> "activity"]
DisplayEvent(available) == [event |-> "display", available |-> available]
AgentEvents == {IdleEvent(stage) : stage \in Stages} \cup {Activity}
               \cup {DisplayEvent(available) : available \in BOOLEAN}

\* serving: the task runs; hungUp: the agent has closed its end; goodbye:
\* the task has unregistered and has still to say so.
Unused == [serving |-> FALSE, hungUp |-> FALSE, down |-> <<>>, up |-> <<>>, goodbye |-> FALSE]

\* A daemon that has just started; it may have executed its first commands.
NewLink(nextId, display, stages) ==
    [current |-> NoStream, nextId |-> nextId, display |-> display, stages |-> stages,
     available |-> FALSE]

LinkInit ==
    /\ \E display \in Displays, stages \in StageSets : link = NewLink(1, display, stages)
    /\ streams = [id \in Streams |-> Unused]
    /\ events = <<>>

-----------------------------------------------------------------------------
(* The daemon side.  `send` drops an op when no agent is registered.       *)

Sent(op) ==
    IF link.current = NoStream THEN streams
    ELSE [streams EXCEPT ![link.current].down = Append(@, op)]

ReplaceStages(stages) ==
    /\ link' = [link EXCEPT !.stages = stages]
    /\ streams' = Sent(StagesOp(stages))

SetScreen(on) == streams' = Sent(ScreenOp(on)) /\ UNCHANGED link

SetDisplay(display) ==
    /\ link.display # display
    /\ link' = [link EXCEPT !.display = display]
    /\ streams' = Sent(DisplayOp(display))

-----------------------------------------------------------------------------
(* The stream side.                                                        *)

\* A new agent takes over; `greeting` is what it says first.
Register(greeting) ==
    LET id == link.nextId IN
    /\ id \in Streams
    /\ link' = [link EXCEPT !.current = id, !.nextId = id + 1, !.available = FALSE]
    /\ streams' = [streams EXCEPT ![id] =
          [Unused EXCEPT !.serving = TRUE, !.up = greeting,
                         !.down = <<DisplayOp(link.display), StagesOp(link.stages)>>]]
    /\ UNCHANGED events

\* Mutant: whatever stream speaks, its word counts.
NoteAnyone(id, event) ==
    IF event.event = "display" THEN [link EXCEPT !.available = event.available] ELSE link

\* Keeps the status in step with what the current agent says.
Note(id, event) ==
    IF link.current = id /\ event.event = "display"
    THEN [link EXCEPT !.available = event.available] ELSE link

\* One line from the agent: noted, and sent on unless it is about the display.
ServeLine(id) ==
    /\ streams[id].serving /\ streams[id].up # <<>>
    /\ LET event == Head(streams[id].up) IN
       /\ link' = Note(id, event)
       /\ streams' = [streams EXCEPT ![id].up = Tail(@)]
       /\ \/ event.event = "display" /\ UNCHANGED events
          \/ /\ event.event # "display" /\ Len(events) < EventRoom
             /\ events' = Append(events, event)

Unregistered == [link EXCEPT !.current = NoStream, !.available = FALSE]

\* The loop ends: at the end of the lines, on a write that fails (lines may be
\* left unread then), or because the sender of the ops is gone.
LoopEnds(id) ==
    /\ streams[id].serving
    /\ \/ streams[id].hungUp /\ (streams[id].up = <<>> \/ streams[id].down # <<>>)
       \/ link.current # id

Closed(stream) ==
    IF stream.hungUp THEN Unused
    ELSE [stream EXCEPT !.serving = FALSE, !.up = <<>>, !.goodbye = FALSE]

\* Mutant: the end of any stream unregisters the agent.
ServeEndAny(id) ==
    /\ LoopEnds(id)
    /\ link' = Unregistered
    /\ streams' = [streams EXCEPT ![id] = [Closed(@) EXCEPT !.goodbye = TRUE]]
    /\ UNCHANGED events

\* The end of the current stream counts: it is unregistered.
ServeEnd(id) ==
    /\ LoopEnds(id)
    /\ \/ /\ link.current = id
          /\ link' = Unregistered
          /\ streams' = [streams EXCEPT ![id] = [Closed(@) EXCEPT !.goodbye = TRUE]]
       \/ /\ link.current # id
          /\ streams' = [streams EXCEPT ![id] = Closed(@)]
          /\ UNCHANGED link
    /\ UNCHANGED events

\* To the engine, the loss of the current agent is the user's return.
SayGoodbye(id) ==
    /\ streams[id].goodbye /\ Len(events) < EventRoom
    /\ events' = Append(events, Activity)
    /\ streams' = [streams EXCEPT ![id].goodbye = FALSE]
    /\ UNCHANGED link

\* The process dies and starts again: the streams are closed, nothing is kept.
DaemonRestarts ==
    /\ \E display \in Displays, stages \in StageSets :
          link' = NewLink(link.nextId, display, stages)
    /\ streams' = [id \in Streams |-> Closed(streams[id])]
    /\ events' = <<>>

\* The agent closes its end.
Left(id) ==
    [streams EXCEPT ![id] = IF streams[id].serving THEN [@ EXCEPT !.hungUp = TRUE]
                            ELSE [Unused EXCEPT !.goodbye = streams[id].goodbye]]

=============================================================================
