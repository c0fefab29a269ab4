--------------------------- MODULE SessionProofs ---------------------------
(***************************************************************************)
(* Theorems about the user's session, proved for every set of displays,    *)
(* stages and compositors: what the agent has been told, what `status` says *)
(* of the display, who wakes an idle engine, and what becomes of the screen. *)
(*                                                                         *)
(* The first part says what each action does to each record, and that the  *)
(* records keep their types.  `Wired` and `Watches` are about the two ends  *)
(* of the stream and the two ends of the compositor's connection.  Each of  *)
(* the four promises has an invariant of its own, about what is still on    *)
(* its way in the sequences between the actors.                             *)
(***************************************************************************)
EXTENDS Session, Queues

-----------------------------------------------------------------------------
(* The types.                                                              *)

\* What can stand in each of the sequences.
Told == {IdleEvent(stage) : stage \in Stages} \cup {Activity}
Inbox == Told \cup {Backend}
Requests == {StagesOp(stages) : stages \in StageSets} \cup {ScreenOp(on) : on \in BOOLEAN}
Wire == {Idled(stage) : stage \in Stages} \cup {Resumed(stage) : stage \in Stages}

LinkType == [current : 0..MaxStreams, nextId : Nat, display : Displays, stages : StageSets,
             available : BOOLEAN]
StreamType == [serving : BOOLEAN, hungUp : BOOLEAN, down : Seq(Ops), up : Seq(AgentEvents),
               goodbye : BOOLEAN]
AgentType == [alive : BOOLEAN, conn : 0..MaxStreams, display : Displays \cup {NONE},
              last : BOOLEAN \cup {NONE}, inbox : Seq(Inbox)]
WatcherType == [session : BOOLEAN, announced : BOOLEAN, stages : StageSets, power : BOOLEAN,
                requests : Seq(Requests)]
CompositorType == [running : BOOLEAN, kind : Kinds, linked : BOOLEAN,
                   notified : SUBSET Stages, idled : SUBSET Stages, wire : Seq(Wire)]

SessionTypes ==
    /\ link \in LinkType /\ streams \in [Streams -> StreamType] /\ events \in Seq(Told)
    /\ phase \in {"Active", "Dimmed", "ScreenOff"}
    /\ agent \in AgentType /\ watcher \in WatcherType /\ compositor \in CompositorType
    /\ screen \in BOOLEAN /\ wanted \in BOOLEAN /\ lost \in BOOLEAN /\ deaf \in BOOLEAN

-----------------------------------------------------------------------------
(* Ops and events.                                                         *)

LEMMA PairTyped ==
  ASSUME NEW S, NEW a \in S, NEW b \in S
  PROVE  <<a, b>> \in Seq(S) /\ <<a>> \in Seq(S)
OBVIOUS

LEMMA AppendConcat ==
  ASSUME NEW S, NEW s \in Seq(S), NEW a \in S
  PROVE  Append(s, a) = s \o <<a>>
OBVIOUS

LEMMA TwoAppended ==
  ASSUME NEW S, NEW s \in Seq(S), NEW a \in S, NEW b \in S
  PROVE  s \o <<a, b>> = Append(Append(s, a), b)
OBVIOUS

LEMMA OpsTyped ==
  /\ \A display \in Displays : DisplayOp(display) \in Ops
  /\ \A stages \in StageSets : StagesOp(stages) \in Ops /\ StagesOp(stages) \in Requests
  /\ \A on \in BOOLEAN : ScreenOp(on) \in Ops /\ ScreenOp(on) \in Requests
BY DEF Ops, Requests

LEMMA OpsKnown ==
  ASSUME NEW op \in Ops
  PROVE  /\ op.op = "display" => op.display \in Displays /\ op = DisplayOp(op.display)
         /\ op.op = "stages" => op.stages \in StageSets /\ op = StagesOp(op.stages)
         /\ op.op = "screen" => op.on \in BOOLEAN /\ op = ScreenOp(op.on)
         /\ op.op \in {"display", "stages", "screen"}
<1>1. CASE \E display \in Displays : op = DisplayOp(display)
  BY <1>1 DEF DisplayOp
<1>2. CASE \E stages \in StageSets : op = StagesOp(stages)
  BY <1>2 DEF StagesOp
<1>3. CASE \E on \in BOOLEAN : op = ScreenOp(on)
  BY <1>3 DEF ScreenOp
<1> QED
  BY <1>1, <1>2, <1>3 DEF Ops

LEMMA RequestsKnown ==
  ASSUME NEW op \in Requests
  PROVE  /\ op.op = "stages" => op.stages \in StageSets /\ op = StagesOp(op.stages)
         /\ op.op = "screen" => op.on \in BOOLEAN /\ op = ScreenOp(op.on)
         /\ op.op \in {"stages", "screen"}
<1>1. op \in Ops
  BY DEF Requests, Ops
<1> QED
  BY <1>1, OpsKnown DEF Requests, StagesOp, ScreenOp

LEMMA EventsTyped ==
  /\ Activity \in Told /\ Activity \in AgentEvents /\ Activity \in Inbox
  /\ \A stage \in Stages : /\ IdleEvent(stage) \in Told /\ IdleEvent(stage) \in AgentEvents
                           /\ IdleEvent(stage) \in Inbox
                           /\ Idled(stage) \in Wire /\ Resumed(stage) \in Wire
  /\ \A available \in BOOLEAN : DisplayEvent(available) \in AgentEvents
  /\ Backend \in Inbox
  /\ Told \subseteq AgentEvents /\ Told \subseteq Inbox
BY DEF Told, Inbox, AgentEvents, Wire

LEMMA EventsKnown ==
  /\ \A event \in AgentEvents :
        /\ event.event # "display" => event \in Told
        /\ event.event = "display" => /\ event.available \in BOOLEAN
                                       /\ event = DisplayEvent(event.available)
  /\ \A event \in Inbox : event = Backend \/ event \in Told
  /\ \A event \in Told :
        \/ event = Activity
        \/ event.event = "idle" /\ event.stage \in Stages /\ event = IdleEvent(event.stage)
  /\ \A event \in Told : event.event \in {"idle", "activity"} /\ event # Backend
  /\ \A event \in Wire :
        /\ event.event \in {"idled", "resumed"} /\ event.stage \in Stages
        /\ event.event = "idled" => event = Idled(event.stage)
        /\ event.event = "resumed" => event = Resumed(event.stage)
  /\ Activity.event = "activity" /\ Backend.event = "backend"
  /\ \A stage : IdleEvent(stage).event = "idle"
BY DEF Told, Inbox, AgentEvents, Wire, Activity, Backend, IdleEvent, Idled, Resumed,
       DisplayEvent

LEMMA AvailableTyped == \A display : Available(display) \in BOOLEAN
BY DEF Available

-----------------------------------------------------------------------------
(* What an action makes of the streams.                                    *)

LEMMA StreamFields ==
  ASSUME NEW s \in StreamType
  PROVE  /\ s.serving \in BOOLEAN /\ s.hungUp \in BOOLEAN /\ s.goodbye \in BOOLEAN
         /\ s.down \in Seq(Ops) /\ s.up \in Seq(AgentEvents)
BY DEF StreamType

LEMMA DownBecomes ==
  ASSUME NEW s \in StreamType, NEW q \in Seq(Ops)
  PROVE  LET new == [s EXCEPT !.down = q] IN
         /\ new \in StreamType /\ new.serving = s.serving /\ new.hungUp = s.hungUp
         /\ new.goodbye = s.goodbye /\ new.up = s.up /\ new.down = q
BY DEF StreamType

LEMMA UpBecomes ==
  ASSUME NEW s \in StreamType, NEW q \in Seq(AgentEvents)
  PROVE  LET new == [s EXCEPT !.up = q] IN
         /\ new \in StreamType /\ new.serving = s.serving /\ new.hungUp = s.hungUp
         /\ new.goodbye = s.goodbye /\ new.up = q /\ new.down = s.down
BY DEF StreamType

LEMMA SentDoes ==
  ASSUME SessionTypes, NEW op \in Ops, streams' = Sent(op)
  PROVE  /\ streams' \in [Streams -> StreamType]
         /\ \A id \in Streams :
               /\ streams'[id].serving = streams[id].serving
               /\ streams'[id].hungUp = streams[id].hungUp
               /\ streams'[id].goodbye = streams[id].goodbye
               /\ streams'[id].up = streams[id].up
               /\ streams'[id].down = IF id = link.current THEN Append(streams[id].down, op)
                                      ELSE streams[id].down
<1>1. CASE link.current = NoStream
  <2>1. streams' = streams /\ 0 \notin Streams
    BY <1>1 DEF Sent, Streams
  <2> QED
    BY <2>1, <1>1 DEF SessionTypes, NoStream
<1>2. CASE link.current # NoStream
  <2> DEFINE c == link.current
             q == Append(streams[c].down, op)
             new == [streams[c] EXCEPT !.down = q]
  <2>1. c \in Streams /\ streams' = [streams EXCEPT ![c] = new]
    BY <1>2 DEF Sent, SessionTypes, LinkType, Streams, NoStream
  <2>2. streams[c] \in StreamType
    BY <2>1 DEF SessionTypes
  <2>3. q \in Seq(Ops)
    BY <2>2, StreamFields, AppendTyped
  <2> HIDE DEF q
  <2>4. /\ new \in StreamType /\ new.serving = streams[c].serving
        /\ new.hungUp = streams[c].hungUp /\ new.goodbye = streams[c].goodbye
        /\ new.up = streams[c].up /\ new.down = q
    BY <2>2, <2>3, DownBecomes
  <2> HIDE DEF new
  <2> QED
    BY <2>1, <2>4 DEF SessionTypes, q
<1> QED
  BY <1>1, <1>2

\* One stream is replaced.
LEMMA StreamIsNow ==
  ASSUME SessionTypes, NEW id \in Streams, NEW new \in StreamType,
         streams' = [streams EXCEPT ![id] = new]
  PROVE  /\ streams' \in [Streams -> StreamType] /\ streams'[id] = new
         /\ \A other \in Streams \ {id} : streams'[other] = streams[other]
BY DEF SessionTypes

LEMMA ClosedTyped ==
  ASSUME NEW s \in StreamType
  PROVE  /\ Closed(s) \in StreamType /\ ~Closed(s).serving /\ ~Closed(s).goodbye
         /\ Closed(s).up = <<>> /\ (~s.hungUp => ~Closed(s).hungUp /\ Closed(s).down = s.down)
BY EmptyTyped DEF Closed, Unused, StreamType

-----------------------------------------------------------------------------
(* Types.                                                                  *)

LEMMA NewAgentTyped == NewAgent \in AgentType
<1>1. 0 \in 0..MaxStreams
  BY AgentLinkAssumption
<1>2. <<>> \in Seq(Inbox)
  BY EmptyTyped
<1> QED
  BY <1>1, <1>2 DEF NewAgent, AgentType, NoStream

LEMMA TypesInit == Init => SessionTypes
<1> SUFFICES ASSUME Init PROVE SessionTypes
  OBVIOUS
<1>1. PICK display \in Displays, stages \in StageSets : link = NewLink(1, display, stages)
  BY DEF Init, LinkInit
<1>2. link \in LinkType
  BY <1>1, AgentLinkAssumption DEF LinkType, NewLink, NoStream
<1>3. Unused \in StreamType
  BY EmptyTyped DEF Unused, StreamType
<1>4. streams \in [Streams -> StreamType] /\ events \in Seq(Told)
  BY <1>3, EmptyTyped DEF Init, LinkInit
<1>5. agent \in AgentType
  <2>1. NewAgent \in AgentType
    BY NewAgentTyped
  <2> QED
    BY <2>1 DEF Init, AgentType
<1>6. watcher \in WatcherType
  BY AgentLinkAssumption, EmptyTyped DEF Init, NewWatcher, WatcherType
<1>7. compositor \in CompositorType
  BY EmptyTyped DEF Init, Compositor, CompositorType
<1> QED
  BY <1>2, <1>4, <1>5, <1>6, <1>7 DEF Init, SessionTypes

LEMMA SendScreenTyped ==
  ASSUME SessionTypes, NEW on \in BOOLEAN, SendScreen(on)
  PROVE  /\ streams' \in [Streams -> StreamType] /\ link' = link
         /\ wanted' \in BOOLEAN /\ lost' \in BOOLEAN
<1>1. ScreenOp(on) \in Ops /\ streams' = Sent(ScreenOp(on)) /\ link' = link
  BY OpsTyped DEF SendScreen, SetScreen
<1>2. Attached \in BOOLEAN
  BY DEF Attached
<1>3. wanted' \in BOOLEAN /\ lost' \in BOOLEAN
  BY <1>2 DEF SendScreen, SessionTypes
<1> QED
  BY <1>1, <1>3, SentDoes

LEMMA TypesTakeEvent ==
  ASSUME SessionTypes, TakeEvent
  PROVE  SessionTypes'
<1>1. events' \in Seq(Told) /\ deaf' \in BOOLEAN
  BY DEF TakeEvent, SessionTypes, IdleInFlight
<1>2. /\ streams' \in [Streams -> StreamType] /\ link' = link
      /\ wanted' \in BOOLEAN /\ lost' \in BOOLEAN
      /\ phase' \in {"Active", "Dimmed", "ScreenOff"}
  <2>1. ASSUME SendNothing
        PROVE  /\ streams' \in [Streams -> StreamType] /\ link' = link
               /\ wanted' \in BOOLEAN /\ lost' \in BOOLEAN
    BY <2>1 DEF SendNothing, SessionTypes
  <2>2. CASE \E stage : OnIdle(stage)
    BY <2>1, <2>2, SendScreenTyped DEF OnIdle, SessionTypes
  <2>3. CASE OnActivity
    BY <2>1, <2>3, SendScreenTyped DEF OnActivity, SessionTypes
  <2> QED
    BY <2>2, <2>3 DEF TakeEvent
<1> QED
  BY <1>1, <1>2 DEF TakeEvent, SessionTypes

LEMMA TypesModeSwitched ==
  ASSUME SessionTypes, NEW stages \in StageSets, ModeSwitched(stages)
  PROVE  SessionTypes'
<1>1. link' \in LinkType
  BY DEF ModeSwitched, ReplaceStages, SessionTypes, LinkType
<1>2. streams' = Sent(StagesOp(stages)) /\ StagesOp(stages) \in Ops
  BY OpsTyped DEF ModeSwitched, ReplaceStages
<1> QED
  BY <1>1, <1>2, SentDoes DEF ModeSwitched, SessionTypes

LEMMA TypesReloaded ==
  ASSUME SessionTypes, NEW display \in Displays, Reloaded(display)
  PROVE  SessionTypes'
<1>1. link' \in LinkType
  BY DEF Reloaded, SetDisplay, SessionTypes, LinkType
<1>2. streams' = Sent(DisplayOp(display)) /\ DisplayOp(display) \in Ops
  BY OpsTyped DEF Reloaded, SetDisplay
<1> QED
  BY <1>1, <1>2, SentDoes DEF Reloaded, SessionTypes

LEMMA ResumesDoes ==
  ASSUME SessionTypes, Resumes
  PROVE  /\ streams' \in [Streams -> StreamType]
         /\ \A id \in Streams :
               /\ streams'[id].serving = streams[id].serving
               /\ streams'[id].hungUp = streams[id].hungUp
               /\ streams'[id].goodbye = streams[id].goodbye
               /\ streams'[id].up = streams[id].up
               /\ streams'[id].down =
                     IF id = link.current
                     THEN streams[id].down \o <<ScreenOp(TRUE), StagesOp(link.stages)>>
                     ELSE streams[id].down
<1>1. CASE link.current = NoStream
  <2>1. streams' = streams /\ 0 \notin Streams
    BY <1>1 DEF Resumes, Streams
  <2> QED
    BY <2>1, <1>1 DEF SessionTypes, NoStream
<1>2. CASE link.current # NoStream
  <2> DEFINE c == link.current
             q == streams[c].down \o <<ScreenOp(TRUE), StagesOp(link.stages)>>
             new == [streams[c] EXCEPT !.down = q]
  <2>1. c \in Streams /\ streams' = [streams EXCEPT ![c] = new]
    BY <1>2 DEF Resumes, SessionTypes, LinkType, Streams, NoStream
  <2>2. streams[c] \in StreamType
    BY <2>1 DEF SessionTypes
  <2>3. ScreenOp(TRUE) \in Ops /\ StagesOp(link.stages) \in Ops
    BY OpsTyped DEF SessionTypes, LinkType
  <2>4. q \in Seq(Ops)
    <3>1. <<ScreenOp(TRUE), StagesOp(link.stages)>> \in Seq(Ops)
      BY <2>3, PairTyped
    <3> QED
      BY <2>2, <3>1, StreamFields, ConcatAt
  <2> HIDE DEF q
  <2>5. /\ new \in StreamType /\ new.serving = streams[c].serving
        /\ new.hungUp = streams[c].hungUp /\ new.goodbye = streams[c].goodbye
        /\ new.up = streams[c].up /\ new.down = q
    BY <2>2, <2>4, DownBecomes
  <2> HIDE DEF new
  <2> QED
    BY <2>1, <2>5 DEF SessionTypes, q
<1> QED
  BY <1>1, <1>2

LEMMA TypesResumes ==
  ASSUME SessionTypes, Resumes
  PROVE  SessionTypes'
<1>1. screen' \in BOOLEAN /\ deaf' \in BOOLEAN
  BY SessionAssumption DEF Resumes, SessionTypes, IdleInFlight
<1>2. lost' \in BOOLEAN
  BY <1>1 DEF Resumes, SessionTypes, Attached
<1> QED
  BY <1>1, <1>2, ResumesDoes DEF Resumes, SessionTypes

LEMMA TypesDaemonDies ==
  ASSUME SessionTypes, DaemonDies
  PROVE  SessionTypes'
<1>1. PICK display \in Displays, stages \in StageSets :
         link' = NewLink(link.nextId, display, stages)
  BY DEF DaemonDies, DaemonRestarts
<1>2. link' \in LinkType
  BY <1>1, AgentLinkAssumption DEF LinkType, NewLink, NoStream, SessionTypes
<1>3. streams' \in [Streams -> StreamType]
  BY ClosedTyped DEF DaemonDies, DaemonRestarts, SessionTypes
<1>4. deaf' \in BOOLEAN
  BY DEF DaemonDies, SessionTypes, IdleInFlight
<1> QED
  BY <1>2, <1>3, <1>4, EmptyTyped DEF DaemonDies, DaemonRestarts, SessionTypes

LEMMA TypesServe ==
  ASSUME SessionTypes, NEW id \in Streams, Serve(id)
  PROVE  SessionTypes'
<1> DEFINE s == streams[id]
<1>1. s \in StreamType
  BY DEF SessionTypes
<1>2. CASE ServeLine(id)
  <2>1. s.up \in Seq(AgentEvents) /\ s.up # <<>>
    BY <1>1, <1>2, StreamFields DEF ServeLine
  <2>2. Head(s.up) \in AgentEvents /\ Tail(s.up) \in Seq(AgentEvents)
    BY <2>1, TailAt
  <2>3. [s EXCEPT !.up = Tail(s.up)] \in StreamType
    BY <1>1, <2>2, UpBecomes
  <2>4. streams' \in [Streams -> StreamType]
    BY <1>2, <2>3, StreamIsNow DEF ServeLine
  <2>5. link' \in LinkType
    BY <1>2, <2>2, EventsKnown DEF ServeLine, Note, SessionTypes, LinkType
  <2>6. events' \in Seq(Told)
    BY <1>2, <2>2, EventsKnown, AppendTyped DEF ServeLine, SessionTypes
  <2> QED
    BY <2>4, <2>5, <2>6 DEF Serve, SessionTypes, history
<1>3. CASE ServeEnd(id)
  <2>1. Closed(s) \in StreamType
    BY <1>1, ClosedTyped
  <2>2. [Closed(s) EXCEPT !.goodbye = TRUE] \in StreamType
    BY <2>1 DEF StreamType
  <2>3. streams' \in [Streams -> StreamType]
    BY <1>3, <2>1, <2>2, StreamIsNow DEF ServeEnd
  <2>4. link' \in LinkType
    <3>1. NoStream \in 0..MaxStreams
      BY AgentLinkAssumption DEF NoStream
    <3>2. Unregistered \in LinkType
      BY <3>1 DEF Unregistered, SessionTypes, LinkType
    <3> QED
      BY <1>3, <3>2 DEF ServeEnd, SessionTypes
  <2> QED
    BY <1>3, <2>3, <2>4 DEF Serve, ServeEnd, SessionTypes, history
<1>4. CASE SayGoodbye(id)
  <2>1. [s EXCEPT !.goodbye = FALSE] \in StreamType
    BY <1>1 DEF StreamType
  <2>2. streams' \in [Streams -> StreamType]
    BY <1>4, <2>1, StreamIsNow DEF SayGoodbye
  <2>3. events' \in Seq(Told)
    BY <1>4, EventsTyped, AppendTyped DEF SayGoodbye, SessionTypes
  <2> QED
    BY <1>4, <2>2, <2>3 DEF Serve, SayGoodbye, SessionTypes, history
<1> QED
  BY <1>2, <1>3, <1>4 DEF Serve

LEMMA LeftTyped ==
  ASSUME SessionTypes, NEW id \in Streams, streams' = Left(id)
  PROVE  /\ streams' \in [Streams -> StreamType]
         /\ \A other \in Streams \ {id} : streams'[other] = streams[other]
         /\ streams[id].serving => /\ streams'[id].serving /\ streams'[id].hungUp
                                   /\ streams'[id].goodbye = streams[id].goodbye
                                   /\ streams'[id].up = streams[id].up
                                   /\ streams'[id].down = streams[id].down
         /\ ~streams[id].serving => /\ ~streams'[id].serving /\ ~streams'[id].hungUp
                                    /\ streams'[id].goodbye = streams[id].goodbye
                                    /\ streams'[id].up = <<>>
<1> DEFINE s == streams[id]
           hung == [s EXCEPT !.hungUp = TRUE]
           gone == [Unused EXCEPT !.goodbye = s.goodbye]
           new == IF s.serving THEN hung ELSE gone
<1>1. s \in StreamType
  BY DEF SessionTypes
<1>2. /\ hung \in StreamType /\ hung.serving = s.serving /\ hung.hungUp
      /\ hung.goodbye = s.goodbye /\ hung.up = s.up /\ hung.down = s.down
  BY <1>1 DEF StreamType
<1>3. Unused \in StreamType
  BY EmptyTyped DEF Unused, StreamType
<1>4. /\ gone \in StreamType /\ ~gone.serving /\ ~gone.hungUp /\ gone.goodbye = s.goodbye
      /\ gone.up = <<>>
  BY <1>1, <1>3 DEF StreamType, Unused
<1>5. streams' = [streams EXCEPT ![id] = new]
  BY DEF Left
<1> HIDE DEF hung, gone
<1>6. new \in StreamType
  BY <1>2, <1>4
<1> HIDE DEF new
<1>7. /\ streams' \in [Streams -> StreamType] /\ streams'[id] = new
      /\ \A other \in Streams \ {id} : streams'[other] = streams[other]
  BY <1>5, <1>6, StreamIsNow
<1> QED
  BY <1>2, <1>4, <1>7 DEF new

\* The fields of the agent's own record.
LEMMA AgentFields ==
  ASSUME SessionTypes
  PROVE  /\ agent.alive \in BOOLEAN /\ agent.conn \in 0..MaxStreams
         /\ agent.display \in Displays \cup {NONE} /\ agent.last \in BOOLEAN \cup {NONE}
         /\ agent.inbox \in Seq(Inbox)
         /\ agent.conn # NoStream => agent.conn \in Streams
         /\ link.current \in 0..MaxStreams /\ link.nextId \in Nat
         /\ link.current # NoStream => link.current \in Streams
         /\ link.stages \in StageSets /\ link.display \in Displays
         /\ link.available \in BOOLEAN
BY DEF SessionTypes, AgentType, LinkType, Streams, NoStream

LEMMA WatcherFields ==
  ASSUME SessionTypes
  PROVE  /\ watcher.session \in BOOLEAN /\ watcher.announced \in BOOLEAN
         /\ watcher.power \in BOOLEAN /\ watcher.stages \in StageSets
         /\ watcher.requests \in Seq(Requests)
         /\ compositor.running \in BOOLEAN /\ compositor.linked \in BOOLEAN
         /\ compositor.kind \in [idle : BOOLEAN, power : BOOLEAN]
         /\ compositor.notified \subseteq Stages /\ compositor.idled \subseteq Stages
         /\ compositor.wire \in Seq(Wire)
BY SessionAssumption DEF SessionTypes, WatcherType, CompositorType

LEMMA NewWatcherTyped == NewWatcher \in WatcherType
BY AgentLinkAssumption, EmptyTyped DEF NewWatcher, WatcherType

LEMMA ForgetTyped == ASSUME SessionTypes PROVE Forget(compositor) \in CompositorType
BY EmptyTyped DEF Forget, SessionTypes, CompositorType

LEMMA TypesAgent ==
  ASSUME SessionTypes, AgentStarts \/ AgentDies \/ ConnectFails \/ HangUp
  PROVE  SessionTypes'
<1>1. CASE AgentStarts
  BY <1>1, NewAgentTyped, NewWatcherTyped DEF AgentStarts, SessionTypes, linkVars, history
<1>2. CASE AgentDies
  <2>1. [NewAgent EXCEPT !.alive = FALSE] \in AgentType
    BY NewAgentTyped DEF AgentType
  <2>2. streams' \in [Streams -> StreamType]
    BY <1>2, AgentFields, LeftTyped DEF AgentDies, SessionTypes
  <2> QED
    BY <1>2, <2>1, <2>2, NewWatcherTyped, ForgetTyped DEF AgentDies, SessionTypes
<1>3. CASE ConnectFails
  <2>1. agent' \in AgentType
    BY <1>3, EmptyTyped DEF ConnectFails, SessionTypes, AgentType
  <2> QED
    BY <1>3, <2>1 DEF ConnectFails, SessionTypes, linkVars, history
<1>4. CASE HangUp
  <2>1. agent' \in AgentType
    <3>1. 0 \in 0..MaxStreams
      BY AgentLinkAssumption
    <3> QED
      BY <1>4, <3>1, EmptyTyped DEF HangUp, SessionTypes, AgentType, NoStream
  <2>2. streams' \in [Streams -> StreamType]
    BY <1>4, AgentFields, LeftTyped DEF HangUp
  <2> QED
    BY <1>4, <2>1, <2>2 DEF HangUp, SessionTypes
<1> QED
  BY <1>1, <1>2, <1>3, <1>4

LEMMA ConnectDoes ==
  ASSUME SessionTypes, Connect
  PROVE  LET id == link.nextId IN
         /\ id \in Streams /\ SessionTypes'
         /\ link'.current = id /\ link'.nextId = id + 1 /\ ~link'.available
         /\ link'.stages = link.stages /\ link'.display = link.display
         /\ agent'.alive /\ agent'.conn = id /\ agent'.inbox = agent.inbox
         /\ agent'.display = agent.display /\ agent'.last = agent.last
         /\ streams'[id].serving /\ ~streams'[id].hungUp /\ ~streams'[id].goodbye
         /\ streams'[id].up = <<DisplayEvent(Available(agent.display))>>
         /\ streams'[id].down = <<DisplayOp(link.display), StagesOp(link.stages)>>
         /\ \A other \in Streams \ {id} : streams'[other] = streams[other]
<1> DEFINE id == link.nextId
           up == <<DisplayEvent(Available(agent.display))>>
           down == <<DisplayOp(link.display), StagesOp(link.stages)>>
           new == [Unused EXCEPT !.serving = TRUE, !.up = up, !.down = down]
<1>1. /\ id \in Streams /\ streams' = [streams EXCEPT ![id] = new]
      /\ link' = [link EXCEPT !.current = id, !.nextId = id + 1, !.available = FALSE]
      /\ agent' = [agent EXCEPT !.conn = id] /\ agent.alive
  BY DEF Connect, Register
<1>2. up \in Seq(AgentEvents) /\ down \in Seq(Ops)
  BY EventsTyped, OpsTyped, PairTyped, AvailableTyped, AgentFields
<1> HIDE DEF up, down
<1>3. /\ new \in StreamType /\ new.serving /\ ~new.hungUp /\ ~new.goodbye
      /\ new.up = up /\ new.down = down
  BY <1>2 DEF Unused, StreamType
<1> HIDE DEF new
<1>4. /\ streams' \in [Streams -> StreamType] /\ streams'[id] = new
      /\ \A other \in Streams \ {id} : streams'[other] = streams[other]
  BY <1>1, <1>3, StreamIsNow
<1>5. /\ link' \in LinkType /\ link'.current = id /\ link'.nextId = id + 1 /\ ~link'.available
      /\ link'.stages = link.stages /\ link'.display = link.display
  <2>1. id \in 0..MaxStreams /\ id + 1 \in Nat /\ link \in LinkType
    BY <1>1 DEF SessionTypes, Streams
  <2> DEFINE next == id + 1
  <2>2. link' = [link EXCEPT !.current = id, !.nextId = next, !.available = FALSE] /\ next \in Nat
    BY <1>1, <2>1
  <2> HIDE DEF next, id
  <2>3. /\ link' \in LinkType /\ link'.current = id /\ link'.nextId = next /\ ~link'.available
        /\ link'.stages = link.stages /\ link'.display = link.display
    BY <2>1, <2>2 DEF LinkType
  <2> QED
    BY <2>3 DEF next
<1>6. /\ agent' \in AgentType /\ agent'.alive /\ agent'.conn = id /\ agent'.inbox = agent.inbox
      /\ agent'.display = agent.display /\ agent'.last = agent.last
  BY <1>1 DEF SessionTypes, AgentType, Streams
<1>7. deaf' \in BOOLEAN
  BY DEF Connect, SessionTypes, IdleInFlight
<1>8. SessionTypes'
  BY <1>4, <1>5, <1>6, <1>7 DEF Connect, Register, SessionTypes
<1> QED
  BY <1>1, <1>3, <1>4, <1>5, <1>6, <1>8 DEF up, down

\* The agent reads a line: `said` is what it answers at once.
LEMMA LineRead ==
  ASSUME SessionTypes, NEW id \in Streams, streams[id].down # <<>>,
         NEW up \in Seq(AgentEvents),
         streams' = [streams EXCEPT ![id].down = Tail(@), ![id].up = up]
  PROVE  /\ streams' \in [Streams -> StreamType]
         /\ \A other \in Streams \ {id} : streams'[other] = streams[other]
         /\ streams'[id].serving = streams[id].serving
         /\ streams'[id].hungUp = streams[id].hungUp
         /\ streams'[id].goodbye = streams[id].goodbye
         /\ streams'[id].down = Tail(streams[id].down) /\ streams'[id].up = up
<1> DEFINE s == streams[id]
           down == Tail(s.down)
           new == [s EXCEPT !.down = down, !.up = up]
<1>1. s \in StreamType
  BY DEF SessionTypes
<1>2. down \in Seq(Ops)
  BY <1>1, StreamFields, TailTyped
<1>3. streams' = [streams EXCEPT ![id] = new]
  BY DEF SessionTypes
<1> HIDE DEF down
<1>4. /\ new \in StreamType /\ new.serving = s.serving /\ new.hungUp = s.hungUp
      /\ new.goodbye = s.goodbye /\ new.down = down /\ new.up = up
  BY <1>1, <1>2 DEF StreamType
<1> HIDE DEF new
<1> QED
  BY <1>3, <1>4, StreamIsNow DEF down

\* What every op has in common.
ReadsLine(answer) ==
    LET id == agent.conn IN
    /\ streams' \in [Streams -> StreamType]
    /\ \A other \in Streams \ {id} : streams'[other] = streams[other]
    /\ streams'[id].serving = streams[id].serving
    /\ streams'[id].hungUp = streams[id].hungUp
    /\ streams'[id].goodbye = streams[id].goodbye
    /\ streams'[id].down = Tail(streams[id].down)
    /\ streams'[id].up = IF streams[id].serving THEN streams[id].up \o answer
                         ELSE streams[id].up

LEMMA OpAt ==
  ASSUME SessionTypes, ReadOp
  PROVE  LET id == agent.conn
             op == Head(streams[id].down)
         IN /\ id \in Streams /\ id # NoStream
            /\ streams[id] \in StreamType /\ streams[id].up \in Seq(AgentEvents)
            /\ streams[id].down \in Seq(Ops) /\ streams[id].down # <<>>
            /\ op \in Ops
            /\ \/ op = DisplayOp(op.display) /\ op.display \in Displays /\ ApplyDisplay(op.display)
               \/ op = StagesOp(op.stages) /\ op.stages \in StageSets /\ ApplyStages(op.stages)
               \/ op = ScreenOp(op.on) /\ op.on \in BOOLEAN /\ ApplyScreen(op.on)
<1> DEFINE id == agent.conn
           op == Head(streams[id].down)
<1>1. id # NoStream /\ streams[id].down # <<>>
  BY DEF ReadOp
<1>2. id \in Streams /\ streams[id] \in StreamType
  BY <1>1, AgentFields DEF SessionTypes
<1>3. streams[id].down \in Seq(Ops) /\ streams[id].up \in Seq(AgentEvents)
  BY <1>2, StreamFields
<1>4. op \in Ops
  BY <1>1, <1>3, TailAt
<1>5. \/ op.op = "display" /\ ApplyDisplay(op.display)
      \/ op.op = "stages" /\ ApplyStages(op.stages)
      \/ op.op = "screen" /\ ApplyScreen(op.on)
  BY DEF ReadOp
<1> QED
  BY <1>1, <1>2, <1>3, <1>4, <1>5, OpsKnown

LEMMA DisplayDoes ==
  ASSUME SessionTypes, ReadOp, NEW display \in Displays, ApplyDisplay(display)
  PROVE  /\ ReadsLine(<<DisplayEvent(Available(display))>>) /\ agent' \in AgentType
         /\ agent'.alive = agent.alive /\ agent'.conn = agent.conn
         /\ agent'.display = display /\ agent'.last = NONE /\ agent'.inbox = agent.inbox
<1> DEFINE id == agent.conn
           event == DisplayEvent(Available(display))
           up == IF streams[id].serving THEN Append(streams[id].up, event) ELSE streams[id].up
<1>1. /\ id \in Streams /\ streams[id].down # <<>>
      /\ streams[id].up \in Seq(AgentEvents)
  BY OpAt
<1>2. event \in AgentEvents
  BY EventsTyped, AvailableTyped
<1> HIDE DEF event
<1>3. up \in Seq(AgentEvents)
  BY <1>1, <1>2, AppendTyped
<1>4. streams' = [streams EXCEPT ![id].down = Tail(@), ![id].up = up]
  BY <1>1 DEF ApplyDisplay, SessionTypes, StreamType, event
<1>5. up = IF streams[id].serving THEN streams[id].up \o <<event>> ELSE streams[id].up
  BY <1>1, <1>2, AppendConcat
<1> HIDE DEF up
<1>6. /\ streams' \in [Streams -> StreamType]
      /\ \A other \in Streams \ {id} : streams'[other] = streams[other]
      /\ streams'[id].serving = streams[id].serving
      /\ streams'[id].hungUp = streams[id].hungUp
      /\ streams'[id].goodbye = streams[id].goodbye
      /\ streams'[id].down = Tail(streams[id].down) /\ streams'[id].up = up
  BY <1>1, <1>3, <1>4, LineRead
<1>7. agent' = [agent EXCEPT !.display = display, !.last = NONE]
  BY DEF ApplyDisplay
<1>8. /\ agent' \in AgentType
      /\ agent'.alive = agent.alive /\ agent'.conn = agent.conn
      /\ agent'.display = display /\ agent'.last = NONE /\ agent'.inbox = agent.inbox
  BY <1>7 DEF SessionTypes, AgentType
<1>9. ReadsLine(<<event>>)
  BY <1>5, <1>6 DEF ReadsLine
<1> QED
  BY <1>8, <1>9 DEF event

\* The other ops are not answered.
LEMMA SilentlyRead ==
  ASSUME SessionTypes, ReadOp, streams' = [streams EXCEPT ![agent.conn].down = Tail(@)]
  PROVE  ReadsLine(<<>>)
<1> DEFINE id == agent.conn
           down == Tail(streams[id].down)
           new == [streams[id] EXCEPT !.down = down]
<1>1. /\ id \in Streams /\ streams[id] \in StreamType /\ streams[id].down # <<>>
      /\ streams[id].down \in Seq(Ops) /\ streams[id].up \in Seq(AgentEvents)
  BY OpAt
<1>2. down \in Seq(Ops)
  BY <1>1, TailTyped
<1>3. streams' = [streams EXCEPT ![id] = new]
  OBVIOUS
<1> HIDE DEF down
<1>4. /\ new \in StreamType /\ new.serving = streams[id].serving
      /\ new.hungUp = streams[id].hungUp /\ new.goodbye = streams[id].goodbye
      /\ new.up = streams[id].up /\ new.down = down
  BY <1>1, <1>2, DownBecomes
<1>5. streams[id].up \o <<>> = streams[id].up
  BY <1>1, EmptyConcat
<1> HIDE DEF new
<1> QED
  BY <1>1, <1>3, <1>4, <1>5, StreamIsNow DEF ReadsLine, down

\* A request more for the watcher.
Requested(op) ==
    /\ watcher' \in WatcherType /\ watcher'.requests = Append(watcher.requests, op)
    /\ watcher'.session = watcher.session /\ watcher'.announced = watcher.announced
    /\ watcher'.stages = watcher.stages /\ watcher'.power = watcher.power

LEMMA RequestedDoes ==
  ASSUME SessionTypes, NEW op \in Requests,
         watcher' = [watcher EXCEPT !.requests = Append(@, op)]
  PROVE  Requested(op)
<1> DEFINE q == Append(watcher.requests, op)
<1>1. q \in Seq(Requests)
  BY WatcherFields, AppendTyped
<1>2. watcher' = [watcher EXCEPT !.requests = q]
  OBVIOUS
<1>3. q = Append(watcher.requests, op)
  OBVIOUS
<1> HIDE DEF q
<1>4. /\ watcher' \in WatcherType /\ watcher'.requests = q
      /\ watcher'.session = watcher.session /\ watcher'.announced = watcher.announced
      /\ watcher'.stages = watcher.stages /\ watcher'.power = watcher.power
  BY <1>1, <1>2 DEF SessionTypes, WatcherType
<1> QED
  BY <1>3, <1>4 DEF Requested

LEMMA StagesDoes ==
  ASSUME SessionTypes, ReadOp, NEW stages \in StageSets, ApplyStages(stages)
  PROVE  /\ ReadsLine(<<>>) /\ Requested(StagesOp(stages))
         /\ UNCHANGED <<agent, screen, lost>>
BY SilentlyRead, RequestedDoes, OpsTyped DEF ApplyStages

\* The agent remembers what it has done, and its record is otherwise the same.
Remembers(last) ==
    /\ agent' \in AgentType /\ agent'.last = last
    /\ agent'.alive = agent.alive /\ agent'.conn = agent.conn
    /\ agent'.display = agent.display /\ agent'.inbox = agent.inbox

LEMMA RemembersDoes ==
  ASSUME SessionTypes, NEW last \in BOOLEAN \cup {NONE}, agent' = [agent EXCEPT !.last = last]
  PROVE  Remembers(last)
BY DEF Remembers, SessionTypes, AgentType

LEMMA ScreenDoes ==
  ASSUME SessionTypes, ReadOp, NEW on \in BOOLEAN, ApplyScreen(on)
  PROVE  /\ ReadsLine(<<>>)
         /\ \/ agent.last = on /\ UNCHANGED <<agent, watcher, screen, lost>>
            \/ /\ agent.last # on /\ agent.display \in {"wlr", "wlr with commands"}
               /\ watcher.power /\ Requested(ScreenOp(on)) /\ Remembers(on)
               /\ UNCHANGED <<screen, lost>>
            \/ /\ agent.last # on /\ lost' = TRUE /\ UNCHANGED watcher
               /\ Remembers(on) \/ Remembers(NONE) \/ UNCHANGED agent
               /\ screen' \in BOOLEAN
            \/ /\ agent.last # on /\ Remembers(on) /\ UNCHANGED <<watcher, lost>>
               /\ agent.display = "command"
                     \/ (agent.display = "wlr with commands" /\ ~watcher.power)
               /\ screen' = on
<1>1. ReadsLine(<<>>)
  BY SilentlyRead DEF ApplyScreen
<1>2. agent' = [agent EXCEPT !.last = on] => Remembers(on)
  BY RemembersDoes
<1>3. agent' = [agent EXCEPT !.last = NONE] => Remembers(NONE)
  BY RemembersDoes
<1>4. watcher' = [watcher EXCEPT !.requests = Append(@, ScreenOp(on))] => Requested(ScreenOp(on))
  BY RequestedDoes, OpsTyped
<1>5. CASE agent.last = on /\ UNCHANGED <<agent, watcher, screen, lost>>
  BY <1>1, <1>5
<1>6. CASE /\ agent.last # on /\ agent.display \in {"wlr", "wlr with commands"} /\ watcher.power
           /\ watcher' = [watcher EXCEPT !.requests = Append(@, ScreenOp(on))]
           /\ agent' = [agent EXCEPT !.last = on]
           /\ UNCHANGED <<screen, lost>>
  BY <1>1, <1>2, <1>4, <1>6
<1>7. CASE /\ agent.last # on
           /\ agent' = IF agent.display = "none" THEN [agent EXCEPT !.last = on] ELSE agent
           /\ lost' = TRUE
           /\ UNCHANGED <<watcher, screen>>
  BY <1>1, <1>2, <1>7 DEF SessionTypes
<1>8. CASE /\ agent.last # on
           /\ agent.display = "command" \/ (agent.display = "wlr with commands" /\ ~watcher.power)
           /\ RunCommand(on)
           /\ UNCHANGED watcher
  <2>1. CASE /\ screen' = on /\ agent' = [agent EXCEPT !.last = on] /\ UNCHANGED lost
    BY <1>1, <1>2, <1>8, <2>1
  <2>2. CASE /\ screen' \in (IF compositor.running THEN BOOLEAN ELSE {screen})
             /\ agent' = [agent EXCEPT !.last = NONE] /\ lost' = TRUE
    BY <1>1, <1>3, <1>8, <2>2 DEF SessionTypes
  <2> QED
    BY <1>8, <2>1, <2>2 DEF RunCommand
<1> QED
  BY <1>5, <1>6, <1>7, <1>8 DEF ApplyScreen

LEMMA TypesReadOp ==
  ASSUME SessionTypes, ReadOp
  PROVE  SessionTypes'
<1> DEFINE op == Head(streams[agent.conn].down)
<1>1. CASE op.display \in Displays /\ ApplyDisplay(op.display)
  BY <1>1, DisplayDoes DEF ApplyDisplay, ReadOp, ReadsLine, SessionTypes
<1>2. CASE op.stages \in StageSets /\ ApplyStages(op.stages)
  BY <1>2, StagesDoes DEF ReadOp, ReadsLine, Requested, SessionTypes
<1>3. CASE op.on \in BOOLEAN /\ ApplyScreen(op.on)
  <2>1. ReadsLine(<<>>)
    BY <1>3, ScreenDoes
  <2>2. /\ agent' \in AgentType /\ watcher' \in WatcherType /\ screen' \in BOOLEAN
        /\ lost' \in BOOLEAN
    BY <1>3, ScreenDoes DEF Remembers, Requested, SessionTypes
  <2> QED
    BY <2>1, <2>2 DEF ReadOp, ReadsLine, SessionTypes
<1> QED
  BY <1>1, <1>2, <1>3, OpAt

\* What the watcher's event is on the stream.
Line(event) == IF event = Backend THEN DisplayEvent(Available(agent.display)) ELSE event

\* The agent's record, but for its inbox.
InboxBecomes(inbox) ==
    /\ agent' \in AgentType /\ agent'.inbox = inbox
    /\ agent'.alive = agent.alive /\ agent'.conn = agent.conn
    /\ agent'.display = agent.display /\ agent'.last = agent.last

LEMMA InboxDoes ==
  ASSUME SessionTypes, NEW inbox \in Seq(Inbox), agent' = [agent EXCEPT !.inbox = inbox]
  PROVE  InboxBecomes(inbox)
BY DEF InboxBecomes, SessionTypes, AgentType

LEMMA ForwardDoes ==
  ASSUME SessionTypes, Forward
  PROVE  LET id == agent.conn
             event == Head(agent.inbox)
         IN /\ id \in Streams /\ agent.inbox # <<>> /\ event \in Inbox
            /\ streams[id].up \in Seq(AgentEvents) /\ Line(event) \in AgentEvents
            /\ InboxBecomes(Tail(agent.inbox))
            /\ streams' \in [Streams -> StreamType]
            /\ \A other \in Streams \ {id} : streams'[other] = streams[other]
            /\ streams'[id].serving = streams[id].serving
            /\ streams'[id].hungUp = streams[id].hungUp
            /\ streams'[id].goodbye = streams[id].goodbye
            /\ streams'[id].down = streams[id].down
            /\ streams'[id].up = IF streams[id].serving THEN Append(streams[id].up, Line(event))
                                 ELSE streams[id].up
<1> DEFINE id == agent.conn
           event == Head(agent.inbox)
           line == Line(event)
           up == Append(streams[id].up, line)
           new == [streams[id] EXCEPT !.up = up]
           inbox == Tail(agent.inbox)
<1>1. id \in Streams /\ agent.inbox # <<>> /\ agent.inbox \in Seq(Inbox)
  BY AgentFields DEF Forward
<1>2. event \in Inbox /\ inbox \in Seq(Inbox)
  BY <1>1, TailAt
<1>3. InboxBecomes(inbox)
  BY <1>2, InboxDoes DEF Forward
<1>4. line \in AgentEvents
  BY <1>2, EventsKnown, EventsTyped, AvailableTyped DEF Line
<1>5. streams[id] \in StreamType /\ streams[id].up \in Seq(AgentEvents)
  BY <1>1, StreamFields DEF SessionTypes
<1>6. streams' = IF streams[id].serving THEN [streams EXCEPT ![id].up = @ \o <<line>>] ELSE streams
  BY DEF Forward, Says, Line
<1> HIDE DEF line, inbox
<1>7. up \in Seq(AgentEvents) /\ up = streams[id].up \o <<line>>
  BY <1>4, <1>5, AppendTyped, AppendConcat
<1>8. streams' = IF streams[id].serving THEN [streams EXCEPT ![id] = new] ELSE streams
  BY <1>1, <1>6, <1>7
<1>9. up = Append(streams[id].up, line)
  OBVIOUS
<1> HIDE DEF up
<1>10. /\ new \in StreamType /\ new.serving = streams[id].serving
       /\ new.hungUp = streams[id].hungUp /\ new.goodbye = streams[id].goodbye
       /\ new.up = up /\ new.down = streams[id].down
  BY <1>5, <1>7, UpBecomes
<1> HIDE DEF new
<1>11. CASE streams[id].serving
  BY <1>1, <1>2, <1>3, <1>4, <1>5, <1>8, <1>9, <1>10, <1>11, StreamIsNow DEF line, inbox
<1>12. CASE ~streams[id].serving
  BY <1>1, <1>2, <1>3, <1>4, <1>5, <1>8, <1>12 DEF line, inbox, SessionTypes
<1> QED
  BY <1>11, <1>12

LEMMA TypesForward == ASSUME SessionTypes, Forward PROVE SessionTypes'
BY ForwardDoes DEF Forward, InboxBecomes, SessionTypes, history

-----------------------------------------------------------------------------
(* The watcher.                                                            *)

\* The last request for stages is one of them.
LEMMA DrainedTyped ==
  ASSUME NEW q \in Seq(Ops), NEW stages \in StageSets
  PROVE  /\ Drained(q, stages) \in StageSets
         /\ \A new : LastIn(q, {StagesOp(s) : s \in StageSets}, {StagesOp(new)})
                     => Drained(q, stages) = new
         /\ Free(q, {StagesOp(s) : s \in StageSets}) => Drained(q, stages) = stages
<1> DEFINE Ats == About("stages", q)
<1>1. /\ Ats = {i \in 1..Len(q) : q[i].op = "stages"}
      /\ Len(q) \in Nat
  BY DEF About
<1>2. \A i \in 1..Len(q) : q[i] \in Ops
  OBVIOUS
<1>3. \A i \in 1..Len(q) : q[i] \in {StagesOp(s) : s \in StageSets} <=> i \in Ats
  BY <1>1, <1>2, OpsKnown DEF StagesOp
<1>4. CASE Ats = {}
  <2>1. Drained(q, stages) = stages
    BY <1>4 DEF Drained
  <2>2. \A new : ~LastIn(q, {StagesOp(s) : s \in StageSets}, {StagesOp(new)})
    BY <1>1, <1>4 DEF LastIn, StagesOp
  <2> QED
    BY <2>1, <2>2
<1>5. CASE Ats # {}
  <2> DEFINE m == Max(Ats)
  <2>1. m \in Ats /\ \A i \in Ats : m >= i
    BY <1>1, <1>5, LastNumber DEF Max
  <2>2. Drained(q, stages) = q[m].stages
    BY <1>5 DEF Drained
  <2> HIDE DEF m
  <2>3. q[m] \in Ops /\ q[m].op = "stages"
    BY <1>1, <1>2, <2>1
  <2>4. Drained(q, stages) \in StageSets
    BY <2>2, <2>3, OpsKnown
  <2>5. ASSUME NEW new, LastIn(q, {StagesOp(s) : s \in StageSets}, {StagesOp(new)})
        PROVE  q[m].stages = new
    <3>1. PICK i \in 1..Len(q) : /\ q[i] = StagesOp(new)
                                 /\ \A j \in 1..Len(q) : j > i => j \notin Ats
      BY <1>3, <2>5 DEF LastIn
    <3>2. i \in Ats
      BY <1>1, <3>1 DEF StagesOp
    <3>3. i = m
      BY <1>1, <2>1, <3>1, <3>2
    <3> QED
      BY <3>1, <3>3 DEF StagesOp
  <2>6. ~Free(q, {StagesOp(s) : s \in StageSets})
    BY <1>1, <1>3, <2>1 DEF Free
  <2> QED
    BY <2>2, <2>4, <2>5, <2>6
<1> QED
  BY <1>4, <1>5

\* The watcher's record after each of its steps.
LEMMA SessionStartsDoes ==
  ASSUME SessionTypes, SessionStarts
  PROVE  /\ InboxBecomes(Append(agent.inbox, Backend))
         /\ watcher' \in WatcherType /\ watcher'.session /\ ~watcher.session
         /\ watcher'.announced = compositor.kind.idle /\ watcher'.power = compositor.kind.power
         /\ watcher'.stages = Drained(watcher.requests, watcher.stages)
         /\ watcher'.requests = <<>>
         /\ compositor' \in CompositorType
         /\ compositor'.linked /\ compositor.running /\ compositor'.running
         /\ compositor'.kind = compositor.kind
         /\ compositor'.idled = {} /\ compositor'.wire = <<>>
         /\ compositor'.notified = IF compositor.kind.idle THEN watcher'.stages ELSE {}
         /\ ~lost' => About("screen", watcher.requests) = {} /\ ~lost
         /\ lost' \in BOOLEAN
<1> DEFINE stages == Drained(watcher.requests, watcher.stages)
           idle == compositor.kind.idle
           power == compositor.kind.power
<1>1. stages \in StageSets /\ stages \subseteq Stages
  <2>1. watcher.requests \in Seq(Ops) /\ watcher.stages \in StageSets
    BY WatcherFields, OpsTyped DEF Requests
  <2> QED
    BY <2>1, DrainedTyped DEF Stages
<1>2. idle \in BOOLEAN /\ power \in BOOLEAN
  BY WatcherFields
<1>3. /\ watcher' = [watcher EXCEPT !.session = TRUE, !.announced = idle, !.stages = stages,
                        !.power = power, !.requests = <<>>]
      /\ compositor' = [compositor EXCEPT !.linked = TRUE, !.idled = {}, !.wire = <<>>,
                           !.notified = IF idle THEN stages ELSE {}]
      /\ ~watcher.session /\ compositor.running
      /\ agent' = [agent EXCEPT !.inbox = @ \o <<Backend>>]
      /\ lost' = (lost \/ DropsScreen)
  BY DEF SessionStarts, Tells
<1> HIDE DEF stages, idle, power
<1>4. /\ watcher' \in WatcherType /\ watcher'.session /\ watcher'.announced = idle
      /\ watcher'.stages = stages /\ watcher'.power = power /\ watcher'.requests = <<>>
  BY <1>1, <1>2, <1>3, EmptyTyped DEF SessionTypes, WatcherType
<1>5. /\ compositor' \in CompositorType /\ compositor'.linked /\ compositor'.running
      /\ compositor'.idled = {} /\ compositor'.wire = <<>>
      /\ compositor'.kind = compositor.kind
      /\ compositor'.notified = IF idle THEN stages ELSE {}
  BY <1>1, <1>2, <1>3, EmptyTyped DEF SessionTypes, CompositorType
<1>6. InboxBecomes(Append(agent.inbox, Backend))
  <2> DEFINE inbox == Append(agent.inbox, Backend)
  <2>1. inbox \in Seq(Inbox) /\ inbox = agent.inbox \o <<Backend>>
    BY AgentFields, EventsTyped, AppendTyped, AppendConcat
  <2>2. agent' = [agent EXCEPT !.inbox = inbox]
    BY <1>3, <2>1
  <2> HIDE DEF inbox
  <2>3. InboxBecomes(inbox)
    BY <2>1, <2>2, InboxDoes
  <2> QED
    BY <2>3 DEF inbox
<1>7. ~lost' => About("screen", watcher.requests) = {} /\ ~lost
  BY <1>3 DEF DropsScreen
<1>8. lost' \in BOOLEAN
  BY <1>3 DEF DropsScreen, SessionTypes
<1> QED
  BY <1>3, <1>4, <1>5, <1>6, <1>7, <1>8 DEF stages, idle, power

LEMMA SessionFailsDoes ==
  ASSUME SessionTypes, SessionFails
  PROVE  /\ watcher' \in WatcherType /\ watcher'.session = watcher.session
         /\ watcher'.announced = watcher.announced /\ watcher'.power = watcher.power
         /\ watcher'.stages = Drained(watcher.requests, watcher.stages)
         /\ watcher'.requests = <<>>
         /\ ~lost' => About("screen", watcher.requests) = {} /\ ~lost
         /\ lost' \in BOOLEAN
<1> DEFINE stages == Drained(watcher.requests, watcher.stages)
<1>1. stages \in StageSets
  <2>1. watcher.requests \in Seq(Ops) /\ watcher.stages \in StageSets
    BY WatcherFields, OpsTyped DEF Requests
  <2> QED
    BY <2>1, DrainedTyped
<1>2. /\ watcher' = [watcher EXCEPT !.requests = <<>>, !.stages = stages]
      /\ lost' = (lost \/ DropsScreen)
  BY DEF SessionFails
<1> HIDE DEF stages
<1>3. /\ watcher' \in WatcherType /\ watcher'.session = watcher.session
      /\ watcher'.announced = watcher.announced /\ watcher'.power = watcher.power
      /\ watcher'.stages = stages /\ watcher'.requests = <<>>
  BY <1>1, <1>2, EmptyTyped DEF SessionTypes, WatcherType
<1> QED
  BY <1>2, <1>3 DEF DropsScreen, SessionTypes, stages

\* Whatever the watcher tells.
LEMMA TellsDoes ==
  ASSUME SessionTypes, NEW said \in Seq(Inbox), Tells(said)
  PROVE  InboxBecomes(agent.inbox \o said)
<1> DEFINE inbox == agent.inbox \o said
<1>1. inbox \in Seq(Inbox)
  BY AgentFields, ConcatAt
<1>2. agent' = [agent EXCEPT !.inbox = inbox]
  BY DEF Tells
<1> HIDE DEF inbox
<1>3. InboxBecomes(inbox)
  BY <1>1, <1>2, InboxDoes
<1> QED
  BY <1>3 DEF inbox

LEMMA SessionEndsDoes ==
  ASSUME SessionTypes, SessionEnds
  PROVE  /\ InboxBecomes(agent.inbox \o (IF watcher.announced THEN <<Backend, Activity>> ELSE <<>>))
         /\ watcher' \in WatcherType /\ ~watcher'.session /\ ~watcher'.announced
         /\ ~watcher'.power
         /\ watcher'.stages = watcher.stages /\ watcher'.requests = watcher.requests
         /\ compositor' \in CompositorType /\ compositor'.wire = <<>>
         /\ ~compositor.linked /\ ~compositor'.linked /\ compositor'.running = compositor.running
         /\ compositor'.kind = compositor.kind /\ compositor'.notified = compositor.notified
         /\ compositor'.idled = compositor.idled
<1> DEFINE said == IF watcher.announced THEN <<Backend, Activity>> ELSE <<>>
<1>1. said \in Seq(Inbox) /\ Tells(said)
  BY EventsTyped, PairTyped, EmptyTyped DEF SessionEnds
<1> HIDE DEF said
<1>2. InboxBecomes(agent.inbox \o said)
  BY <1>1, TellsDoes
<1>3. /\ watcher' \in WatcherType /\ ~watcher'.session /\ ~watcher'.announced
      /\ ~watcher'.power
      /\ watcher'.stages = watcher.stages /\ watcher'.requests = watcher.requests
  BY DEF SessionEnds, SessionTypes, WatcherType
<1>4. /\ compositor' \in CompositorType /\ compositor'.wire = <<>>
      /\ ~compositor.linked /\ ~compositor'.linked /\ compositor'.running = compositor.running
      /\ compositor'.kind = compositor.kind /\ compositor'.notified = compositor.notified
      /\ compositor'.idled = compositor.idled
  BY EmptyTyped DEF SessionEnds, SessionTypes, CompositorType
<1> QED
  BY <1>2, <1>3, <1>4 DEF said

\* The next request: stages, or the screen.
RequestTaken ==
    /\ watcher' \in WatcherType
    /\ watcher'.session = watcher.session /\ watcher'.announced = watcher.announced
    /\ watcher'.power = watcher.power /\ watcher'.requests = Tail(watcher.requests)

LEMMA RequestAt ==
  ASSUME SessionTypes, TakeRequest
  PROVE  LET op == Head(watcher.requests) IN
         /\ watcher.requests # <<>> /\ op \in Requests /\ agent.alive /\ watcher.session
         /\ \/ op = StagesOp(op.stages) /\ op.stages \in StageSets /\ SetStages(op.stages)
            \/ op = ScreenOp(op.on) /\ op.on \in BOOLEAN /\ SetOutputs(op.on)
<1> DEFINE op == Head(watcher.requests)
<1>1. watcher.requests # <<>> /\ agent.alive /\ watcher.session
  BY DEF TakeRequest
<1>2. op \in Requests
  BY <1>1, WatcherFields, TailAt
<1>3. \/ op.op = "stages" /\ SetStages(op.stages)
      \/ op.op = "screen" /\ SetOutputs(op.on)
  BY DEF TakeRequest
<1> QED
  BY <1>1, <1>2, <1>3, RequestsKnown

LEMMA SetStagesDoes ==
  ASSUME SessionTypes, TakeRequest, NEW stages \in StageSets, SetStages(stages)
  PROVE  /\ RequestTaken /\ watcher'.stages = stages
         /\ compositor' \in CompositorType /\ compositor'.running = compositor.running
         /\ compositor'.linked = compositor.linked
         /\ compositor'.kind = compositor.kind /\ compositor'.wire = <<>>
         /\ compositor'.idled = {}
         /\ compositor'.notified = IF compositor.linked /\ compositor.kind.idle THEN stages ELSE {}
         /\ ~deaf' => ~deaf /\ compositor.idled = {}
         /\ ~deaf' => \A i \in 1..Len(compositor.wire) : compositor.wire[i].event # "resumed"
         /\ deaf' \in BOOLEAN
<1> DEFINE requests == Tail(watcher.requests)
           there == compositor.linked /\ compositor.kind.idle
<1>1. requests \in Seq(Requests)
  BY WatcherFields, TailTyped DEF TakeRequest
<1>2. watcher' = [watcher EXCEPT !.requests = requests, !.stages = stages]
  BY DEF SetStages
<1> HIDE DEF requests
<1>3. /\ watcher' \in WatcherType
      /\ watcher'.session = watcher.session /\ watcher'.announced = watcher.announced
      /\ watcher'.power = watcher.power /\ watcher'.requests = requests
      /\ watcher'.stages = stages
  BY <1>1, <1>2 DEF SessionTypes, WatcherType
<1>4. stages \subseteq Stages
  BY DEF Stages
<1>5. compositor' = [compositor EXCEPT !.idled = {}, !.wire = <<>>,
                        !.notified = IF there THEN stages ELSE {}]
  BY DEF SetStages
<1> HIDE DEF there
<1>6. /\ compositor' \in CompositorType /\ compositor'.running = compositor.running
      /\ compositor'.linked = compositor.linked
      /\ compositor'.kind = compositor.kind /\ compositor'.wire = <<>>
      /\ compositor'.idled = {} /\ compositor'.notified = IF there THEN stages ELSE {}
  BY <1>4, <1>5, EmptyTyped DEF SessionTypes, CompositorType
<1>7. ~deaf' => ~deaf /\ compositor.idled = {}
  BY DEF SetStages
<1>8. ~deaf' => \A i \in 1..Len(compositor.wire) : compositor.wire[i].event # "resumed"
  <2>1. DOMAIN compositor.wire = 1..Len(compositor.wire)
    BY WatcherFields
  <2>2. ~deaf' => ~\E i \in DOMAIN compositor.wire : compositor.wire[i].event = "resumed"
    BY DEF SetStages
  <2> QED
    BY <2>1, <2>2
<1>9. deaf' \in BOOLEAN
  BY DEF SetStages, SessionTypes
<1> QED
  BY <1>3, <1>6, <1>7, <1>8, <1>9 DEF RequestTaken, requests, there

LEMMA SetOutputsDoes ==
  ASSUME SessionTypes, TakeRequest, NEW on \in BOOLEAN, SetOutputs(on)
  PROVE  /\ RequestTaken /\ watcher'.stages = watcher.stages
         /\ UNCHANGED <<compositor, deaf>>
         /\ \/ screen' = on /\ UNCHANGED lost
            \/ lost' = TRUE /\ UNCHANGED screen
<1> DEFINE requests == Tail(watcher.requests)
<1>1. requests \in Seq(Requests)
  BY WatcherFields, TailTyped DEF TakeRequest
<1>2. watcher' = [watcher EXCEPT !.requests = requests]
  BY DEF SetOutputs
<1> HIDE DEF requests
<1>3. /\ watcher' \in WatcherType
      /\ watcher'.session = watcher.session /\ watcher'.announced = watcher.announced
      /\ watcher'.power = watcher.power /\ watcher'.requests = requests
      /\ watcher'.stages = watcher.stages
  BY <1>1, <1>2 DEF SessionTypes, WatcherType
<1> QED
  BY <1>3 DEF RequestTaken, requests, SetOutputs

\* The compositor's record but for what it says.
CompositorSays(idled, wire) ==
    /\ compositor' \in CompositorType /\ compositor'.running = compositor.running
    /\ compositor'.linked = compositor.linked /\ compositor'.kind = compositor.kind
    /\ compositor'.notified = compositor.notified
    /\ compositor'.idled = idled /\ compositor'.wire = wire

LEMMA CompositorSaysDoes ==
  ASSUME SessionTypes, NEW idled \in SUBSET Stages, NEW wire \in Seq(Wire),
         compositor' = [compositor EXCEPT !.idled = idled, !.wire = wire]
  PROVE  CompositorSays(idled, wire)
BY DEF CompositorSays, SessionTypes, CompositorType

LEMMA DispatchDoes ==
  ASSUME SessionTypes, Dispatch
  PROVE  LET event == Head(compositor.wire) IN
         /\ compositor.wire # <<>> /\ event \in Wire
         /\ CompositorSays(compositor.idled, Tail(compositor.wire))
         /\ Spoken(event) \in Seq(Inbox)
         /\ InboxBecomes(agent.inbox \o Spoken(event))
<1> DEFINE event == Head(compositor.wire)
           wire == Tail(compositor.wire)
           idled == compositor.idled
<1>1. compositor.wire # <<>> /\ compositor.wire \in Seq(Wire) /\ idled \in SUBSET Stages
  BY WatcherFields DEF Dispatch
<1>2. event \in Wire /\ wire \in Seq(Wire)
  BY <1>1, TailAt
<1>3. compositor' = [compositor EXCEPT !.idled = idled, !.wire = wire]
  BY DEF Dispatch, SessionTypes, CompositorType
<1>4. event.stage \in Stages
  BY <1>2, EventsKnown
<1>5. Spoken(event) \in Seq(Inbox)
  BY <1>4, EventsTyped, PairTyped, EmptyTyped DEF Spoken
<1>6. InboxBecomes(agent.inbox \o Spoken(event))
  BY <1>5, TellsDoes DEF Dispatch
<1> HIDE DEF wire, idled
<1>7. CompositorSays(idled, wire)
  BY <1>1, <1>2, <1>3, CompositorSaysDoes
<1> QED
  BY <1>1, <1>2, <1>5, <1>6, <1>7 DEF wire, idled

LEMMA CompositorStartsDoes ==
  ASSUME SessionTypes, NEW kind \in Kinds, CompositorStarts(kind)
  PROVE  /\ compositor' \in CompositorType /\ compositor'.running /\ ~compositor.running
         /\ compositor'.kind = kind
         /\ compositor'.linked = compositor.linked
         /\ compositor'.notified = compositor.notified
         /\ compositor'.idled = compositor.idled /\ compositor'.wire = compositor.wire
BY DEF CompositorStarts, SessionTypes, CompositorType

LEMMA CompositorDiesDoes ==
  ASSUME SessionTypes, CompositorDies
  PROVE  /\ compositor' \in CompositorType /\ ~compositor'.running /\ compositor.running
         /\ ~compositor'.linked /\ compositor'.kind = compositor.kind
         /\ compositor'.notified = {} /\ compositor'.idled = {}
         /\ compositor'.wire = compositor.wire
BY DEF CompositorDies, SessionTypes, CompositorType

LEMMA AwayDoes ==
  ASSUME SessionTypes, NEW stage \in Stages, UserIsAway(stage)
  PROVE  CompositorSays(compositor.idled \cup {stage}, Append(compositor.wire, Idled(stage)))
<1> DEFINE idled == compositor.idled \cup {stage}
           wire == Append(compositor.wire, Idled(stage))
<1>1. idled \in SUBSET Stages /\ wire \in Seq(Wire)
  BY WatcherFields, EventsTyped, AppendTyped
<1>2. compositor' = [compositor EXCEPT !.idled = idled, !.wire = wire]
  BY DEF UserIsAway
<1> HIDE DEF idled, wire
<1>3. CompositorSays(idled, wire)
  BY <1>1, <1>2, CompositorSaysDoes
<1> QED
  BY <1>3 DEF idled, wire

LEMMA BackDoes ==
  ASSUME SessionTypes, UserIsBack
  PROVE  /\ ResumedIf("Dim") \in Seq(Wire) /\ ResumedIf("ScreenOff") \in Seq(Wire)
         /\ CompositorSays({}, (compositor.wire \o ResumedIf("Dim")) \o ResumedIf("ScreenOff"))
<1> DEFINE wire == (compositor.wire \o ResumedIf("Dim")) \o ResumedIf("ScreenOff")
           idled == {}
<1>1. ASSUME NEW stage PROVE ResumedIf(stage) \in Seq(Wire)
  <2>1. compositor.idled \subseteq Stages
    BY WatcherFields
  <2>2. stage \in compositor.idled => Resumed(stage) \in Wire
    BY <2>1, EventsTyped
  <2> QED
    BY <2>2, PairTyped, EmptyTyped DEF ResumedIf
<1>2. ResumedIf("Dim") \in Seq(Wire) /\ ResumedIf("ScreenOff") \in Seq(Wire)
  BY <1>1
<1>3. wire \in Seq(Wire)
  <2>1. compositor.wire \in Seq(Wire)
    BY WatcherFields
  <2>2. compositor.wire \o ResumedIf("Dim") \in Seq(Wire)
    BY <1>2, <2>1, ConcatAt
  <2> QED
    BY <1>2, <2>2, ConcatAt
<1>4. idled \in SUBSET Stages
  OBVIOUS
<1>5. compositor' = [compositor EXCEPT !.idled = idled, !.wire = wire]
  BY DEF UserIsBack
<1> HIDE DEF idled, wire
<1>6. CompositorSays(idled, wire)
  BY <1>3, <1>4, <1>5, CompositorSaysDoes
<1> QED
  BY <1>2, <1>6 DEF idled, wire

LEMMA TypesWatcher ==
  ASSUME SessionTypes,
         \/ SessionStarts \/ SessionFails \/ SessionEnds \/ TakeRequest \/ Dispatch
         \/ CompositorDies \/ UserIsBack
         \/ \E kind \in Kinds : CompositorStarts(kind)
         \/ \E stage \in Stages : UserIsAway(stage)
  PROVE  SessionTypes'
<1> USE DEF SessionTypes, linkVars, history
<1>1. CASE SessionStarts
  BY <1>1, SessionStartsDoes DEF SessionStarts, InboxBecomes
<1>2. CASE SessionFails
  BY <1>2, SessionFailsDoes DEF SessionFails
<1>3. CASE SessionEnds
  BY <1>3, SessionEndsDoes DEF SessionEnds, InboxBecomes
<1>4. CASE TakeRequest
  <2> DEFINE op == Head(watcher.requests)
  <2>1. CASE op.stages \in StageSets /\ SetStages(op.stages)
    BY <1>4, <2>1, SetStagesDoes DEF TakeRequest, SetStages, RequestTaken
  <2>2. CASE op.on \in BOOLEAN /\ SetOutputs(op.on)
    BY <1>4, <2>2, SetOutputsDoes DEF TakeRequest, RequestTaken
  <2> QED
    BY <1>4, <2>1, <2>2, RequestAt
<1>5. CASE Dispatch
  BY <1>5, DispatchDoes DEF Dispatch, InboxBecomes, CompositorSays
<1>6. CASE CompositorDies
  BY <1>6, CompositorDiesDoes DEF CompositorDies
<1>7. CASE UserIsBack
  BY <1>7, BackDoes DEF UserIsBack, CompositorSays
<1>8. CASE \E kind \in Kinds : CompositorStarts(kind)
  BY <1>8, CompositorStartsDoes DEF CompositorStarts
<1>9. CASE \E stage \in Stages : UserIsAway(stage)
  BY <1>9, AwayDoes DEF UserIsAway, CompositorSays
<1> QED
  BY <1>1, <1>2, <1>3, <1>4, <1>5, <1>6, <1>7, <1>8, <1>9

LEMMA TypesStep ==
  ASSUME SessionTypes, [Next]_sessionVars
  PROVE  SessionTypes'
<1>1. CASE UNCHANGED sessionVars
  BY <1>1 DEF sessionVars, linkVars, SessionTypes
<1> QED
  BY <1>1, TypesTakeEvent, TypesModeSwitched, TypesReloaded, TypesResumes, TypesDaemonDies,
     TypesServe, TypesAgent, ConnectDoes, TypesReadOp, TypesForward, TypesWatcher DEF Next

-----------------------------------------------------------------------------
(* Who is connected to whom.                                               *)

\* The agent's stream is its own, newer than any other, and registered for as
\* long as it is served; a registered stream is served, and if it is not the
\* agent's, it was left by one that died; who says goodbye is served no more.
Wired ==
    /\ agent.conn # NoStream => /\ agent.alive /\ ~streams[agent.conn].hungUp
                                /\ agent.conn < link.nextId
    /\ link.current # NoStream => streams[link.current].serving /\ link.current < link.nextId
    /\ agent.conn # NoStream /\ streams[agent.conn].serving => link.current = agent.conn
    /\ link.current # NoStream /\ link.current # agent.conn => streams[link.current].hungUp
    /\ \A id \in Streams : /\ streams[id].serving => ~streams[id].goodbye
                           /\ id >= link.nextId => ~streams[id].goodbye

SameEnds ==
    /\ agent'.alive = agent.alive /\ agent'.conn = agent.conn
    /\ link'.current = link.current /\ link'.nextId = link.nextId
    /\ \A id \in Streams : /\ streams'[id].serving = streams[id].serving
                           /\ streams'[id].hungUp = streams[id].hungUp
                           /\ streams'[id].goodbye = streams[id].goodbye

LEMMA WiredKept == ASSUME SessionTypes, Wired, SameEnds PROVE Wired'
BY AgentFields DEF Wired, SameEnds

\* The actions that leave the ends as they are.
LEMMA EngineKeepsEnds ==
  ASSUME SessionTypes,
         \/ TakeEvent \/ Resumes
         \/ \E stages \in StageSets : ModeSwitched(stages)
         \/ \E display \in Displays : Reloaded(display)
  PROVE  SameEnds
<1>1. CASE TakeEvent
  <2>1. agent' = agent /\ link' = link
    BY <1>1 DEF TakeEvent, OnIdle, OnActivity, SendScreen, SendNothing, SetScreen
  <2>2. \/ streams' = streams
        \/ \E on \in BOOLEAN : streams' = Sent(ScreenOp(on))
    BY <1>1 DEF TakeEvent, OnIdle, OnActivity, SendScreen, SendNothing, SetScreen
  <2> QED
    BY <2>1, <2>2, SentDoes, OpsTyped DEF SameEnds
<1>2. CASE Resumes
  BY <1>2, ResumesDoes DEF Resumes, SameEnds
<1>3. ASSUME NEW stages \in StageSets, ModeSwitched(stages) PROVE SameEnds
  <2>1. link'.current = link.current /\ link'.nextId = link.nextId
    BY <1>3 DEF ModeSwitched, ReplaceStages, SessionTypes, LinkType
  <2> QED
    BY <1>3, <2>1, SentDoes, OpsTyped DEF ModeSwitched, ReplaceStages, SameEnds
<1>4. ASSUME NEW display \in Displays, Reloaded(display) PROVE SameEnds
  <2>1. link'.current = link.current /\ link'.nextId = link.nextId
    BY <1>4 DEF Reloaded, SetDisplay, SessionTypes, LinkType
  <2> QED
    BY <1>4, <2>1, SentDoes, OpsTyped DEF Reloaded, SetDisplay, SameEnds
<1> QED
  BY <1>1, <1>2, <1>3, <1>4

LEMMA AgentKeepsEnds ==
  ASSUME SessionTypes,
         \/ ConnectFails \/ ReadOp \/ Forward
         \/ SessionStarts \/ SessionFails \/ SessionEnds \/ TakeRequest \/ Dispatch
         \/ \E kind \in Kinds : CompositorStarts(kind)
         \/ CompositorDies \/ \E stage \in Stages : UserIsAway(stage)
         \/ UserIsBack
  PROVE  SameEnds
<1>1. CASE ConnectFails
  BY <1>1 DEF ConnectFails, linkVars, SameEnds, SessionTypes, AgentType
<1>2. CASE ReadOp
  <2> DEFINE op == Head(streams[agent.conn].down)
  <2>1. CASE op.display \in Displays /\ ApplyDisplay(op.display)
    BY <1>2, <2>1, DisplayDoes DEF ReadOp, ReadsLine, SameEnds
  <2>2. CASE op.stages \in StageSets /\ ApplyStages(op.stages)
    BY <1>2, <2>2, StagesDoes DEF ReadOp, ReadsLine, SameEnds
  <2>3. CASE op.on \in BOOLEAN /\ ApplyScreen(op.on)
    <3>1. ReadsLine(<<>>)
      BY <1>2, <2>3, ScreenDoes
    <3>2. agent'.alive = agent.alive /\ agent'.conn = agent.conn
      BY <1>2, <2>3, ScreenDoes DEF Remembers
    <3> QED
      BY <1>2, <3>1, <3>2 DEF ReadOp, ReadsLine, SameEnds
  <2> QED
    BY <1>2, <2>1, <2>2, <2>3, OpAt
<1>3. CASE Forward
  BY <1>3, ForwardDoes DEF Forward, InboxBecomes, SameEnds
<1>4. CASE SessionStarts
  BY <1>4, SessionStartsDoes DEF SessionStarts, linkVars, InboxBecomes, SameEnds
<1>5. CASE SessionEnds
  BY <1>5, SessionEndsDoes DEF SessionEnds, linkVars, InboxBecomes, SameEnds
<1>6. CASE Dispatch
  BY <1>6, DispatchDoes DEF Dispatch, linkVars, InboxBecomes, SameEnds
<1>7. CASE UNCHANGED <<linkVars, agent>>
  BY <1>7 DEF linkVars, SameEnds
<1> QED
  BY <1>1, <1>2, <1>3, <1>4, <1>5, <1>6, <1>7
     DEF SessionFails, TakeRequest, CompositorStarts, CompositorDies, UserIsAway, UserIsBack

\* What the task of a stream does to it.
LEMMA ServeEndDoes ==
  ASSUME SessionTypes, NEW id \in Streams, ServeEnd(id)
  PROVE  /\ streams' \in [Streams -> StreamType]
         /\ \A other \in Streams \ {id} : streams'[other] = streams[other]
         /\ streams[id].serving
         /\ streams[id].hungUp \/ link.current # id
         /\ ~streams'[id].serving /\ streams'[id].up = <<>>
         /\ ~streams[id].hungUp => ~streams'[id].hungUp /\ streams'[id].down = streams[id].down
         /\ link.current = id => link' = Unregistered /\ streams'[id].goodbye
         /\ link.current # id => link' = link /\ ~streams'[id].goodbye
<1> DEFINE s == Closed(streams[id])
           gone == [s EXCEPT !.goodbye = TRUE]
<1>1. /\ s \in StreamType /\ ~s.serving /\ ~s.goodbye /\ s.up = <<>>
      /\ ~streams[id].hungUp => ~s.hungUp /\ s.down = streams[id].down
  BY ClosedTyped DEF SessionTypes
<1>2. /\ streams[id].serving
      /\ streams[id].hungUp \/ link.current # id
      /\ \/ /\ link.current = id /\ link' = Unregistered
            /\ streams' = [streams EXCEPT ![id] = gone]
         \/ /\ link.current # id /\ link' = link
            /\ streams' = [streams EXCEPT ![id] = s]
  BY DEF ServeEnd, LoopEnds
<1> HIDE DEF s
<1>3. /\ gone \in StreamType /\ ~gone.serving /\ gone.goodbye /\ gone.up = <<>>
      /\ gone.hungUp = s.hungUp /\ gone.down = s.down
  BY <1>1 DEF StreamType
<1> HIDE DEF gone
<1>4. CASE link.current = id
  BY <1>1, <1>2, <1>3, <1>4, StreamIsNow
<1>5. CASE link.current # id
  BY <1>1, <1>2, <1>5, StreamIsNow
<1> QED
  BY <1>4, <1>5

LEMMA ServeLineDoes ==
  ASSUME SessionTypes, NEW id \in Streams, ServeLine(id)
  PROVE  LET event == Head(streams[id].up) IN
         /\ streams[id].serving /\ streams[id].up # <<>> /\ streams[id].up \in Seq(AgentEvents)
         /\ event \in AgentEvents
         /\ streams' \in [Streams -> StreamType]
         /\ \A other \in Streams \ {id} : streams'[other] = streams[other]
         /\ streams'[id].serving = streams[id].serving
         /\ streams'[id].hungUp = streams[id].hungUp
         /\ streams'[id].goodbye = streams[id].goodbye
         /\ streams'[id].down = streams[id].down
         /\ streams'[id].up = Tail(streams[id].up)
         /\ link'.current = link.current /\ link'.nextId = link.nextId
         /\ link'.stages = link.stages /\ link'.display = link.display
         /\ link'.available = IF link.current = id /\ event.event = "display"
                              THEN event.available ELSE link.available
         /\ \/ event = DisplayEvent(event.available) /\ event.available \in BOOLEAN
               /\ events' = events
            \/ event \in Told /\ events' = Append(events, event)
<1> DEFINE event == Head(streams[id].up)
           up == Tail(streams[id].up)
           new == [streams[id] EXCEPT !.up = up]
<1>1. /\ streams[id].serving /\ streams[id].up # <<>> /\ streams[id] \in StreamType
      /\ streams[id].up \in Seq(AgentEvents)
  BY StreamFields DEF ServeLine, SessionTypes
<1>2. event \in AgentEvents /\ up \in Seq(AgentEvents)
  BY <1>1, TailAt
<1>3. streams' = [streams EXCEPT ![id] = new]
  BY DEF ServeLine
<1> HIDE DEF up
<1>4. /\ new \in StreamType /\ new.serving = streams[id].serving
      /\ new.hungUp = streams[id].hungUp /\ new.goodbye = streams[id].goodbye
      /\ new.down = streams[id].down /\ new.up = up
  BY <1>1, <1>2, UpBecomes
<1> HIDE DEF new
<1>5. /\ event.event # "display" => event \in Told
      /\ event.event = "display" => event.available \in BOOLEAN
                                    /\ event = DisplayEvent(event.available)
  BY <1>2, EventsKnown
<1>6. link' = Note(id, event)
  BY DEF ServeLine
<1>7. \/ event.event = "display" /\ events' = events
      \/ event.event # "display" /\ events' = Append(events, event)
  BY DEF ServeLine
<1> HIDE DEF event
<1>8. /\ link'.current = link.current /\ link'.nextId = link.nextId
      /\ link'.stages = link.stages /\ link'.display = link.display
      /\ link'.available = IF link.current = id /\ event.event = "display"
                           THEN event.available ELSE link.available
  BY <1>6 DEF Note, SessionTypes, LinkType
<1> QED
  BY <1>1, <1>2, <1>3, <1>4, <1>5, <1>7, <1>8, StreamIsNow DEF up, event

LEMMA SayGoodbyeDoes ==
  ASSUME SessionTypes, NEW id \in Streams, SayGoodbye(id)
  PROVE  /\ streams' \in [Streams -> StreamType]
         /\ \A other \in Streams \ {id} : streams'[other] = streams[other]
         /\ streams[id].goodbye /\ ~streams'[id].goodbye
         /\ streams'[id].serving = streams[id].serving
         /\ streams'[id].hungUp = streams[id].hungUp
         /\ streams'[id].down = streams[id].down /\ streams'[id].up = streams[id].up
         /\ link' = link /\ events' = Append(events, Activity)
<1> DEFINE new == [streams[id] EXCEPT !.goodbye = FALSE]
<1>1. /\ new \in StreamType /\ new.serving = streams[id].serving
      /\ new.hungUp = streams[id].hungUp /\ ~new.goodbye
      /\ new.down = streams[id].down /\ new.up = streams[id].up
  BY DEF SessionTypes, StreamType
<1>2. /\ streams' = [streams EXCEPT ![id] = new] /\ streams[id].goodbye
      /\ link' = link /\ events' = Append(events, Activity)
  BY DEF SayGoodbye
<1> HIDE DEF new
<1> QED
  BY <1>1, <1>2, StreamIsNow

LEMMA DaemonDiesDoes ==
  ASSUME SessionTypes, DaemonDies
  PROVE  /\ link'.current = NoStream /\ link'.nextId = link.nextId /\ ~link'.available
         /\ streams' \in [Streams -> StreamType] /\ events' = <<>>
         /\ \A id \in Streams :
               /\ ~streams'[id].serving /\ ~streams'[id].goodbye /\ streams'[id].up = <<>>
               /\ ~streams[id].hungUp => /\ ~streams'[id].hungUp
                                         /\ streams'[id].down = streams[id].down
<1>1. PICK display \in Displays, stages \in StageSets :
         link' = NewLink(link.nextId, display, stages)
  BY DEF DaemonDies, DaemonRestarts
<1>2. \A id \in Streams : streams[id] \in StreamType
  BY DEF SessionTypes
<1>3. streams' = [id \in Streams |-> Closed(streams[id])] /\ events' = <<>>
  BY DEF DaemonDies, DaemonRestarts
<1>4. \A id \in Streams : streams'[id] = Closed(streams[id])
  BY <1>3
<1>5. link'.current = NoStream /\ link'.nextId = link.nextId /\ ~link'.available
  BY <1>1 DEF NewLink
<1> QED
  BY <1>2, <1>3, <1>4, <1>5, ClosedTyped

LEMMA WiredServe ==
  ASSUME SessionTypes, Wired, NEW id \in Streams, Serve(id)
  PROVE  Wired'
<1>1. agent' = agent
  BY DEF Serve
<1>2. CASE ServeLine(id)
  <2>1. SameEnds
    BY <1>1, <1>2, ServeLineDoes DEF SameEnds
  <2> QED
    BY <2>1, WiredKept
<1>3. CASE ServeEnd(id)
  <2>1. CASE link.current = id
    <3>1. link'.current = NoStream /\ link'.nextId = link.nextId
      BY <1>3, <2>1, ServeEndDoes DEF Unregistered, SessionTypes, LinkType
    <3>2. id # agent.conn /\ id < link.nextId
      BY <1>3, <2>1, ServeEndDoes DEF Wired, Streams, NoStream
    <3>3. agent.conn # NoStream => /\ agent.conn \in Streams
                                   /\ streams'[agent.conn] = streams[agent.conn]
      BY <1>3, <3>2, ServeEndDoes, AgentFields
    <3>4. agent.conn # NoStream => ~streams[agent.conn].serving
      BY <2>1, <3>2 DEF Wired
    <3>5. ASSUME NEW i \in Streams
          PROVE  /\ streams'[i].serving => ~streams'[i].goodbye
                 /\ i >= link.nextId => ~streams'[i].goodbye
      <4>1. CASE i = id
        BY <1>3, <3>2, <4>1, ServeEndDoes, AgentFields DEF Streams
      <4>2. CASE i # id
        BY <1>3, <4>2, ServeEndDoes DEF Wired
      <4> QED
        BY <4>1, <4>2
    <3> QED
      BY <1>1, <3>1, <3>3, <3>4, <3>5 DEF Wired
  <2>2. CASE link.current # id
    <3>1. link' = link
      BY <1>3, <2>2, ServeEndDoes
    <3>2. agent.conn # NoStream => agent.conn \in Streams /\ ~streams'[agent.conn].hungUp
      BY <1>3, ServeEndDoes, AgentFields DEF Wired
    <3>3. agent.conn # NoStream /\ streams'[agent.conn].serving => link.current = agent.conn
      BY <1>3, ServeEndDoes, AgentFields DEF Wired
    <3>4. link.current # NoStream => streams'[link.current] = streams[link.current]
      BY <1>3, <2>2, ServeEndDoes, AgentFields
    <3>5. ASSUME NEW i \in Streams
          PROVE  /\ streams'[i].serving => ~streams'[i].goodbye
                 /\ i >= link.nextId => ~streams'[i].goodbye
      BY <1>3, <2>2, ServeEndDoes DEF Wired
    <3> QED
      BY <1>1, <3>1, <3>2, <3>3, <3>4, <3>5 DEF Wired
  <2> QED
    BY <2>1, <2>2
<1>4. CASE SayGoodbye(id)
  <2>1. \A i \in Streams : /\ streams'[i].serving = streams[i].serving
                           /\ streams'[i].hungUp = streams[i].hungUp
                           /\ streams'[i].goodbye => streams[i].goodbye
    BY <1>4, SayGoodbyeDoes
  <2>2. link' = link
    BY <1>4, SayGoodbyeDoes
  <2> QED
    BY <1>1, <2>1, <2>2, AgentFields DEF Wired
<1> QED
  BY <1>2, <1>3, <1>4 DEF Serve

LEMMA WiredDaemonDies == ASSUME SessionTypes, Wired, DaemonDies PROVE Wired'
<1>1. agent' = agent
  BY DEF DaemonDies
<1>2. agent.conn # NoStream => agent.conn \in Streams
  BY AgentFields
<1> QED
  BY <1>1, <1>2, DaemonDiesDoes DEF Wired

LEMMA WiredAgent ==
  ASSUME SessionTypes, Wired, AgentStarts \/ AgentDies \/ HangUp
  PROVE  Wired'
<1> DEFINE conn == agent.conn
<1>1. conn # NoStream => conn \in Streams
  BY AgentFields
<1>2. CASE AgentStarts
  <2>1. agent'.conn = NoStream /\ agent.conn = NoStream
    BY <1>2 DEF AgentStarts, NewAgent, Wired
  <2>2. UNCHANGED <<link, streams>>
    BY <1>2 DEF AgentStarts, linkVars
  <2> QED
    BY <2>1, <2>2 DEF Wired
<1>3. CASE AgentDies \/ HangUp
  <2>1. agent'.conn = NoStream /\ link' = link
    BY <1>3 DEF AgentDies, HangUp, NewAgent, SessionTypes, AgentType
  <2>2. CASE conn = NoStream
    <3>1. streams' = streams
      BY <1>3, <2>2 DEF AgentDies, HangUp
    <3> QED
      BY <2>1, <2>2, <3>1 DEF Wired
  <2>3. CASE conn # NoStream
    <3>1. streams' = Left(conn)
      BY <1>3, <2>3 DEF AgentDies, HangUp
    <3>2. ASSUME NEW i \in Streams
          PROVE  /\ streams'[i].serving <=> streams[i].serving
                 /\ streams[i].hungUp /\ streams[i].serving => streams'[i].hungUp
                 /\ streams'[i].goodbye = streams[i].goodbye
      <4>1. CASE i = conn
        BY <3>1, <4>1, LeftTyped
      <4>2. CASE i # conn
        BY <1>1, <2>3, <3>1, <4>2, LeftTyped
      <4> QED
        BY <4>1, <4>2
    <3>3. streams[conn].serving => streams'[conn].hungUp
      BY <1>1, <2>3, <3>1, LeftTyped
    <3>4. link.current # NoStream => link.current \in Streams /\ streams[link.current].serving
      BY AgentFields DEF Wired
    <3>5. link.current # NoStream => streams'[link.current].hungUp
      BY <3>2, <3>3, <3>4 DEF Wired
    <3> QED
      BY <2>1, <3>2, <3>4, <3>5 DEF Wired
  <2> QED
    BY <2>2, <2>3
<1> QED
  BY <1>2, <1>3

LEMMA WiredConnect == ASSUME SessionTypes, Wired, Connect PROVE Wired'
<1> DEFINE id == link.nextId
<1>1. id \in Streams /\ id # NoStream /\ link'.current = id /\ link'.nextId = id + 1
  BY ConnectDoes DEF Streams, NoStream
<1>2. agent'.conn = id /\ agent'.alive
  BY ConnectDoes
<1>3. streams'[id].serving /\ ~streams'[id].hungUp /\ ~streams'[id].goodbye
  BY ConnectDoes
<1>4. ASSUME NEW i \in Streams
      PROVE  /\ streams'[i].serving => ~streams'[i].goodbye
             /\ i >= id + 1 => ~streams'[i].goodbye
  <2>1. i >= id + 1 => i >= id
    BY <1>1 DEF Streams
  <2>2. i # id => streams'[i] = streams[i]
    BY ConnectDoes
  <2> QED
    BY <1>3, <2>1, <2>2 DEF Wired
<1>5. id < id + 1
  BY <1>1 DEF Streams
<1> QED
  BY <1>1, <1>2, <1>3, <1>4, <1>5 DEF Wired

LEMMA WiredInit == Init => Wired
BY DEF Init, LinkInit, NewLink, NewAgent, Unused, NoStream, Wired

LEMMA WiredStep ==
  ASSUME SessionTypes, Wired, [Next]_sessionVars
  PROVE  Wired'
<1>1. CASE UNCHANGED sessionVars
  BY <1>1 DEF sessionVars, linkVars, Wired
<1>2. CASE SameEnds
  BY <1>2, WiredKept
<1> QED
  BY <1>1, <1>2, EngineKeepsEnds, AgentKeepsEnds, WiredServe, WiredDaemonDies, WiredAgent,
     WiredConnect DEF Next

-----------------------------------------------------------------------------
(* The watcher and its compositor.                                         *)

\* A live connection belongs to a session, and has the notifications of the
\* watcher's stages; the first stage is idle before any other; what is still to
\* be read is read by the session it was said to.
Watches ==
    /\ watcher.session => agent.alive
    /\ watcher.power => watcher.session
    /\ compositor.linked => /\ watcher.session /\ compositor.running
                            /\ watcher.announced = compositor.kind.idle
    /\ compositor.notified = IF compositor.linked /\ compositor.kind.idle
                             THEN watcher.stages ELSE {}
    /\ compositor.idled \subseteq compositor.notified
    /\ compositor.idled # {} => Primary(watcher.stages) \in compositor.idled
    /\ compositor.wire # <<>> => watcher.session /\ watcher.announced

\* What it speaks of, but for the requests.
SameWatch ==
    /\ agent'.alive = agent.alive /\ compositor' = compositor
    /\ watcher'.session = watcher.session /\ watcher'.announced = watcher.announced
    /\ watcher'.power = watcher.power /\ watcher'.stages = watcher.stages

LEMMA WatchesKept == ASSUME Watches, SameWatch PROVE Watches'
BY DEF Watches, SameWatch

LEMMA OthersKeepWatch ==
  ASSUME SessionTypes,
         \/ TakeEvent \/ Resumes \/ DaemonDies
         \/ \E stages \in StageSets : ModeSwitched(stages)
         \/ \E display \in Displays : Reloaded(display)
         \/ \E id \in Streams : Serve(id)
         \/ Connect \/ ConnectFails \/ HangUp \/ ReadOp \/ Forward
  PROVE  SameWatch
<1>1. CASE ReadOp
  <2> DEFINE op == Head(streams[agent.conn].down)
  <2>1. CASE op.display \in Displays /\ ApplyDisplay(op.display)
    BY <1>1, <2>1, DisplayDoes DEF ReadOp, ApplyDisplay, SameWatch
  <2>2. CASE op.stages \in StageSets /\ ApplyStages(op.stages)
    BY <1>1, <2>2, StagesDoes DEF ReadOp, Requested, SameWatch
  <2>3. CASE op.on \in BOOLEAN /\ ApplyScreen(op.on)
    BY <1>1, <2>3, ScreenDoes DEF ReadOp, Requested, Remembers, SameWatch
  <2> QED
    BY <1>1, <2>1, <2>2, <2>3, OpAt
<1>2. CASE Connect
  BY <1>2, ConnectDoes DEF Connect, SameWatch
<1>3. CASE Forward
  BY <1>3, ForwardDoes DEF Forward, InboxBecomes, SameWatch
<1>4. CASE ConnectFails \/ HangUp
  BY <1>4 DEF ConnectFails, HangUp, SameWatch, SessionTypes, AgentType
<1>5. CASE UNCHANGED <<agent, watcher, compositor>>
  BY <1>5 DEF SameWatch
<1> QED
  BY <1>1, <1>2, <1>3, <1>4, <1>5
     DEF TakeEvent, Resumes, DaemonDies, ModeSwitched, Reloaded, Serve

LEMMA WatchesAgent ==
  ASSUME SessionTypes, Watches, AgentStarts \/ AgentDies
  PROVE  Watches'
<1>1. CASE AgentStarts
  BY <1>1 DEF AgentStarts, NewAgent, NewWatcher, Watches
<1>2. CASE AgentDies
  <2>1. watcher' = NewWatcher /\ compositor' = Forget(compositor)
    BY <1>2 DEF AgentDies
  <2>2. ~watcher'.session /\ ~watcher'.power
    BY <2>1 DEF NewWatcher
  <2>3. /\ ~compositor'.linked /\ compositor'.notified = {} /\ compositor'.idled = {}
        /\ compositor'.wire = <<>>
    BY <2>1 DEF Forget, SessionTypes, CompositorType
  <2> QED
    BY <2>2, <2>3 DEF Watches
<1> QED
  BY <1>1, <1>2

LEMMA FirstStage ==
  ASSUME SessionTypes, NEW stage \in Stages, UserIsAway(stage), Watches
  PROVE  /\ Primary(watcher.stages) \in compositor.idled \cup {stage}
         /\ stage \in compositor.notified /\ stage \in watcher.stages
         /\ compositor.linked /\ compositor.kind.idle
<1>1. /\ stage \in compositor.notified
      /\ Before(stage) \cap compositor.notified \subseteq compositor.idled
  BY DEF UserIsAway
<1>2. compositor.linked /\ compositor.kind.idle /\ compositor.notified = watcher.stages
  BY <1>1 DEF Watches
<1>3. stage \in {"Dim", "ScreenOff"}
  BY SessionAssumption
<1> QED
  BY <1>1, <1>2, <1>3 DEF Before, Primary

LEMMA WatchesWatcher ==
  ASSUME SessionTypes, Watches,
         \/ SessionStarts \/ SessionFails \/ SessionEnds \/ TakeRequest \/ Dispatch
         \/ CompositorDies \/ UserIsBack
         \/ \E kind \in Kinds : CompositorStarts(kind)
         \/ \E stage \in Stages : UserIsAway(stage)
  PROVE  Watches'
<1>1. CASE SessionStarts
  BY <1>1, SessionStartsDoes DEF SessionStarts, InboxBecomes, Watches
<1>2. CASE SessionFails
  BY <1>2, SessionFailsDoes DEF SessionFails, Watches
<1>3. CASE SessionEnds
  BY <1>3, SessionEndsDoes DEF SessionEnds, Watches
<1>4. CASE TakeRequest
  <2> DEFINE op == Head(watcher.requests)
  <2>1. agent' = agent
    BY <1>4 DEF TakeRequest
  <2>2. CASE op.stages \in StageSets /\ SetStages(op.stages)
    BY <1>4, <2>1, <2>2, SetStagesDoes DEF RequestTaken, Watches
  <2>3. CASE op.on \in BOOLEAN /\ SetOutputs(op.on)
    BY <1>4, <2>1, <2>3, SetOutputsDoes DEF RequestTaken, Watches
  <2> QED
    BY <1>4, <2>2, <2>3, RequestAt
<1>5. CASE Dispatch
  <2>1. watcher' = watcher /\ agent'.alive = agent.alive
    BY <1>5, DispatchDoes DEF Dispatch, InboxBecomes
  <2> QED
    BY <1>5, <2>1, DispatchDoes DEF CompositorSays, Watches
<1>6. CASE CompositorDies
  BY <1>6, CompositorDiesDoes DEF CompositorDies, Watches
<1>7. CASE UserIsBack
  <2>1. watcher' = watcher /\ agent' = agent
    BY <1>7 DEF UserIsBack
  <2>2. watcher.session /\ watcher.announced
    BY <1>7 DEF UserIsBack, Watches
  <2> QED
    BY <1>7, <2>1, <2>2, BackDoes DEF CompositorSays, Watches
<1>8. ASSUME NEW kind \in Kinds, CompositorStarts(kind) PROVE Watches'
  BY <1>8, CompositorStartsDoes DEF CompositorStarts, Watches
<1>9. ASSUME NEW stage \in Stages, UserIsAway(stage) PROVE Watches'
  <2>1. watcher' = watcher /\ agent' = agent
    BY <1>9 DEF UserIsAway
  <2>2. watcher.session /\ watcher.announced
    BY <1>9, FirstStage DEF Watches
  <2> QED
    BY <1>9, <2>1, <2>2, AwayDoes, FirstStage DEF CompositorSays, Watches
<1> QED
  BY <1>1, <1>2, <1>3, <1>4, <1>5, <1>6, <1>7, <1>8, <1>9

LEMMA WatchesInit == Init => Watches
BY DEF Init, NewWatcher, NewAgent, Compositor, Watches

LEMMA WatchesStep ==
  ASSUME SessionTypes, Watches, [Next]_sessionVars
  PROVE  Watches'
<1>1. CASE UNCHANGED sessionVars
  BY <1>1 DEF sessionVars, Watches
<1>2. CASE SameWatch
  BY <1>2, WatchesKept
<1> QED
  BY <1>1, <1>2, OthersKeepWatch, WatchesAgent, WatchesWatcher DEF Next

-----------------------------------------------------------------------------
(* The stages and the section on their way to the agent.                   *)

StagesOps == {StagesOp(stages) : stages \in StageSets}
DisplayOps == {DisplayOp(display) : display \in Displays}
ScreenOps == {ScreenOp(on) : on \in BOOLEAN}

LEMMA OpsApart ==
  /\ \A stages : StagesOp(stages) \notin DisplayOps \cup ScreenOps
  /\ \A display : DisplayOp(display) \notin StagesOps \cup ScreenOps
  /\ \A on \in BOOLEAN : ScreenOp(on) \notin StagesOps \cup DisplayOps
  /\ \A stages \in StageSets : StagesOp(stages) \in StagesOps
  /\ \A display \in Displays : DisplayOp(display) \in DisplayOps
  /\ \A on \in BOOLEAN : ScreenOp(on) \in ScreenOps
  /\ \A s, t : StagesOp(s) = StagesOp(t) => s = t
  /\ \A s, t : DisplayOp(s) = DisplayOp(t) => s = t
  /\ ScreenOp(TRUE) # ScreenOp(FALSE)
<1>1. /\ \A stages : StagesOp(stages).op = "stages" /\ StagesOp(stages).stages = stages
      /\ \A display : /\ DisplayOp(display).op = "display"
                      /\ DisplayOp(display).display = display
      /\ \A on : ScreenOp(on).op = "screen"
      /\ ScreenOp(TRUE).on /\ ~ScreenOp(FALSE).on
  BY DEF StagesOp, DisplayOp, ScreenOp
<1>2. /\ "stages" # "display" /\ "stages" # "screen" /\ "display" # "screen"
      /\ \A op \in StagesOps : op.op = "stages"
      /\ \A op \in DisplayOps : op.op = "display"
      /\ \A op \in ScreenOps : op.op = "screen"
  BY <1>1 DEF StagesOps, DisplayOps, ScreenOps
<1>3. \A stages : StagesOp(stages) \notin DisplayOps /\ StagesOp(stages) \notin ScreenOps
  BY <1>1, <1>2
<1>4. \A display : DisplayOp(display) \notin StagesOps /\ DisplayOp(display) \notin ScreenOps
  BY <1>1, <1>2
<1>5. \A on : ScreenOp(on) \notin StagesOps /\ ScreenOp(on) \notin DisplayOps
  BY <1>1, <1>2
<1>6. /\ \A stages \in StageSets : StagesOp(stages) \in StagesOps
      /\ \A display \in Displays : DisplayOp(display) \in DisplayOps
      /\ \A on \in BOOLEAN : ScreenOp(on) \in ScreenOps
  BY DEF StagesOps, DisplayOps, ScreenOps
<1>7. /\ \A s, t : StagesOp(s) = StagesOp(t) => s = t
      /\ \A s, t : DisplayOp(s) = DisplayOp(t) => s = t
  BY <1>1
<1>8. ScreenOp(TRUE) # ScreenOp(FALSE)
  BY <1>1
<1> QED
  BY <1>3, <1>4, <1>5, <1>6, <1>7, <1>8

\* Once the ops are read and the requests taken, the watcher has these stages,
\* and once the ops are read, the agent this section.
GetsStages(down, requests, now, stages) ==
    Settles(down, StagesOps, {StagesOp(stages)},
            Settles(requests, StagesOps, {StagesOp(stages)}, now = stages))
GetsDisplay(down, now, display) ==
    Settles(down, DisplayOps, {DisplayOp(display)}, now = display)

UpToDate ==
    agent.conn # NoStream /\ streams[agent.conn].serving =>
        /\ GetsStages(streams[agent.conn].down, watcher.requests, watcher.stages, link.stages)
        /\ GetsDisplay(streams[agent.conn].down, agent.display, link.display)

SameTold ==
    /\ agent'.conn = agent.conn /\ agent'.display = agent.display
    /\ link'.stages = link.stages /\ link'.display = link.display
    /\ watcher'.stages = watcher.stages /\ watcher'.requests = watcher.requests
    /\ agent.conn # NoStream => /\ streams'[agent.conn].serving => streams[agent.conn].serving
                                /\ streams'[agent.conn].down = streams[agent.conn].down

LEMMA UpToDateKept == ASSUME UpToDate, SameTold PROVE UpToDate'
BY DEF UpToDate, SameTold

\* An op goes out.
LEMMA GetsSent ==
  ASSUME NEW down \in Seq(Ops), NEW op \in Ops, NEW requests, NEW now, NEW stages,
         \/ op = StagesOp(stages)
         \/ op \notin StagesOps /\ GetsStages(down, requests, now, stages)
  PROVE  GetsStages(Append(down, op), requests, now, stages)
<1>1. CASE op = StagesOp(stages)
  <2>1. LastIn(Append(down, op), StagesOps, {StagesOp(stages)})
    BY <1>1, ChannelSends
  <2> QED
    BY <2>1 DEF GetsStages, Settles
<1>2. CASE op \notin StagesOps /\ GetsStages(down, requests, now, stages)
  <2>1. LastIn(down, StagesOps, {StagesOp(stages)})
           => LastIn(Append(down, op), StagesOps, {StagesOp(stages)})
    BY <1>2, ChannelSends
  <2>2. Free(down, StagesOps) => Free(Append(down, op), StagesOps)
    BY <1>2, ChannelSends
  <2> QED
    BY <1>2, <2>1, <2>2 DEF GetsStages, Settles
<1> QED
  BY <1>1, <1>2

LEMMA GetsShown ==
  ASSUME NEW down \in Seq(Ops), NEW op \in Ops, NEW now, NEW display,
         \/ op = DisplayOp(display)
         \/ op \notin DisplayOps /\ GetsDisplay(down, now, display)
  PROVE  GetsDisplay(Append(down, op), now, display)
<1>1. CASE op = DisplayOp(display)
  <2>1. LastIn(Append(down, op), DisplayOps, {DisplayOp(display)})
    BY <1>1, ChannelSends
  <2> QED
    BY <2>1 DEF GetsDisplay, Settles
<1>2. CASE op \notin DisplayOps /\ GetsDisplay(down, now, display)
  <2>1. LastIn(down, DisplayOps, {DisplayOp(display)})
           => LastIn(Append(down, op), DisplayOps, {DisplayOp(display)})
    BY <1>2, ChannelSends
  <2>2. Free(down, DisplayOps) => Free(Append(down, op), DisplayOps)
    BY <1>2, ChannelSends
  <2> QED
    BY <1>2, <2>1, <2>2 DEF GetsDisplay, Settles
<1> QED
  BY <1>1, <1>2

LEMMA UpToDateSent ==
  ASSUME SessionTypes, Wired, UpToDate, NEW op \in Ops, streams' = Sent(op),
         UNCHANGED <<agent, watcher>>,
         op = StagesOp(link'.stages) \/ (op \notin StagesOps /\ link'.stages = link.stages),
         op = DisplayOp(link'.display) \/ (op \notin DisplayOps /\ link'.display = link.display)
  PROVE  UpToDate'
<1> SUFFICES ASSUME agent.conn # NoStream, streams[agent.conn].serving
             PROVE  /\ GetsStages(streams'[agent.conn].down, watcher.requests, watcher.stages,
                                  link'.stages)
                    /\ GetsDisplay(streams'[agent.conn].down, agent.display, link'.display)
  <2>1. agent.conn # NoStream => streams'[agent.conn].serving = streams[agent.conn].serving
    BY SentDoes, AgentFields
  <2> QED
    BY <2>1 DEF UpToDate
<1> DEFINE conn == agent.conn
<1>1. conn \in Streams /\ link.current = conn
  BY AgentFields DEF Wired
<1>2. streams[conn].down \in Seq(Ops)
  BY <1>1, StreamFields DEF SessionTypes
<1>3. streams'[conn].down = Append(streams[conn].down, op)
  <2>1. \A id \in Streams :
            streams'[id].down = IF id = link.current THEN Append(streams[id].down, op)
                                ELSE streams[id].down
    BY SentDoes
  <2> HIDE DEF conn
  <2> QED
    BY <1>1, <2>1
<1> QED
  BY <1>2, <1>3, GetsSent, GetsShown DEF UpToDate

LEMMA UpToDateEngine ==
  ASSUME SessionTypes, Wired, UpToDate,
         \/ TakeEvent \/ Resumes
         \/ \E stages \in StageSets : ModeSwitched(stages)
         \/ \E display \in Displays : Reloaded(display)
  PROVE  UpToDate'
<1>1. CASE TakeEvent
  <2>1. agent' = agent /\ watcher' = watcher /\ link' = link
    BY <1>1 DEF TakeEvent, OnIdle, OnActivity, SendScreen, SendNothing, SetScreen
  <2>2. CASE streams' = streams
    BY <2>1, <2>2 DEF UpToDate
  <2>3. ASSUME NEW on \in BOOLEAN, streams' = Sent(ScreenOp(on)) PROVE UpToDate'
    BY <2>1, <2>3, UpToDateSent, OpsTyped, OpsApart
  <2>4. streams' = streams \/ \E on \in BOOLEAN : streams' = Sent(ScreenOp(on))
    BY <1>1 DEF TakeEvent, OnIdle, OnActivity, SendScreen, SendNothing, SetScreen
  <2> QED
    BY <2>2, <2>3, <2>4
<1>2. CASE Resumes
  <2> DEFINE conn == agent.conn
             down == Append(streams[conn].down, ScreenOp(TRUE))
  <2>1. agent' = agent /\ watcher' = watcher /\ link' = link
    BY <1>2 DEF Resumes
  <2>2. CASE ~(conn # NoStream /\ streams[conn].serving)
    BY <1>2, <2>1, <2>2, ResumesDoes, AgentFields DEF UpToDate
  <2>3. CASE conn # NoStream /\ streams[conn].serving
    <3>1. /\ conn \in Streams /\ link.current = conn
          /\ streams[conn].down \in Seq(Ops) /\ link.stages \in StageSets
      BY <2>3, AgentFields, StreamFields DEF Wired, SessionTypes
    <3>2. ScreenOp(TRUE) \in Ops /\ StagesOp(link.stages) \in Ops
      BY <3>1, OpsTyped
    <3>3. down \in Seq(Ops)
      BY <3>1, <3>2, AppendTyped
    <3>4. streams'[conn].down = Append(down, StagesOp(link.stages))
      <4>1. streams'[conn].down = streams[conn].down \o <<ScreenOp(TRUE), StagesOp(link.stages)>>
        BY <1>2, <3>1, ResumesDoes
      <4> DEFINE base == streams[conn].down
                 on == ScreenOp(TRUE)
                 told == StagesOp(link.stages)
      <4>2. base \in Seq(Ops) /\ on \in Ops /\ told \in Ops
        BY <3>1, <3>2
      <4>3. streams'[conn].down = base \o <<on, told>>
        BY <4>1
      <4> HIDE DEF base, on, told
      <4>4. base \o <<on, told>> = Append(Append(base, on), told)
        BY <4>2, TwoAppended
      <4>5. streams'[conn].down = Append(Append(base, on), told)
        BY <4>3, <4>4
      <4> QED
        BY <4>5 DEF base, on, told
    <3>5. GetsDisplay(down, agent.display, link.display)
      BY <2>3, <3>1, <3>2, GetsShown, OpsApart DEF UpToDate
    <3> HIDE DEF down
    <3>6. GetsDisplay(Append(down, StagesOp(link.stages)), agent.display, link.display)
      BY <3>2, <3>3, <3>5, GetsShown, OpsApart
    <3>7. GetsStages(Append(down, StagesOp(link.stages)), watcher.requests, watcher.stages,
                     link.stages)
      BY <3>2, <3>3, GetsSent
    <3> QED
      BY <2>1, <3>4, <3>6, <3>7 DEF UpToDate
  <2> QED
    BY <2>2, <2>3
<1>3. ASSUME NEW stages \in StageSets, ModeSwitched(stages) PROVE UpToDate'
  <2>1. link'.stages = stages /\ link'.display = link.display
    BY <1>3 DEF ModeSwitched, ReplaceStages, SessionTypes, LinkType
  <2>2. /\ streams' = Sent(StagesOp(stages)) /\ StagesOp(stages) \in Ops
        /\ UNCHANGED <<agent, watcher>>
    BY <1>3, OpsTyped DEF ModeSwitched, ReplaceStages
  <2> QED
    BY <2>1, <2>2, UpToDateSent, OpsApart
<1>4. ASSUME NEW display \in Displays, Reloaded(display) PROVE UpToDate'
  <2>1. link'.display = display /\ link'.stages = link.stages
    BY <1>4 DEF Reloaded, SetDisplay, SessionTypes, LinkType
  <2>2. /\ streams' = Sent(DisplayOp(display)) /\ DisplayOp(display) \in Ops
        /\ UNCHANGED <<agent, watcher>>
    BY <1>4, OpsTyped DEF Reloaded, SetDisplay
  <2> QED
    BY <2>1, <2>2, UpToDateSent, OpsApart
<1> QED
  BY <1>1, <1>2, <1>3, <1>4

\* The daemon's tasks, the sockets' ends and the agent's deaths.
LEMMA UpToDateServe ==
  ASSUME SessionTypes, Wired, UpToDate, NEW id \in Streams, Serve(id)
  PROVE  UpToDate'
<1>1. /\ agent' = agent /\ watcher' = watcher
      /\ agent.conn # NoStream => agent.conn \in Streams /\ ~streams[agent.conn].hungUp
  BY AgentFields DEF Serve, Wired
<1>2. CASE ServeLine(id)
  <2>1. /\ link'.stages = link.stages /\ link'.display = link.display
        /\ \A other \in Streams : /\ streams'[other].serving = streams[other].serving
                                  /\ streams'[other].down = streams[other].down
    BY <1>2, ServeLineDoes
  <2> QED
    BY <1>1, <2>1, UpToDateKept DEF SameTold
<1>3. CASE ServeEnd(id)
  <2>1. link'.stages = link.stages /\ link'.display = link.display
    <3>1. Unregistered.stages = link.stages /\ Unregistered.display = link.display
      BY DEF Unregistered, SessionTypes, LinkType
    <3> QED
      BY <1>3, <3>1, ServeEndDoes
  <2>2. \A other \in Streams :
            ~streams[other].hungUp => /\ streams'[other].serving => streams[other].serving
                                      /\ streams'[other].down = streams[other].down
    BY <1>3, ServeEndDoes
  <2> QED
    BY <1>1, <2>1, <2>2, UpToDateKept DEF SameTold
<1>4. CASE SayGoodbye(id)
  <2>1. /\ link' = link
        /\ \A other \in Streams : /\ streams'[other].serving = streams[other].serving
                                  /\ streams'[other].down = streams[other].down
    BY <1>4, SayGoodbyeDoes
  <2> QED
    BY <1>1, <2>1, UpToDateKept DEF SameTold
<1> QED
  BY <1>2, <1>3, <1>4 DEF Serve

LEMMA UpToDateEnds ==
  ASSUME SessionTypes, Wired, UpToDate, DaemonDies \/ AgentStarts \/ AgentDies \/ HangUp
  PROVE  UpToDate'
<1>1. CASE DaemonDies
  <2>1. agent' = agent /\ \A id \in Streams : ~streams'[id].serving
    BY <1>1, DaemonDiesDoes DEF DaemonDies
  <2> QED
    BY <2>1, AgentFields DEF UpToDate
<1>2. CASE AgentStarts \/ AgentDies \/ HangUp
  <2>1. agent'.conn = NoStream
    <3>1. CASE AgentStarts \/ AgentDies
      BY <3>1 DEF AgentStarts, AgentDies, NewAgent
    <3>2. CASE HangUp
      BY <3>2 DEF HangUp, SessionTypes, AgentType
    <3> QED
      BY <1>2, <3>1, <3>2
  <2> QED
    BY <2>1 DEF UpToDate
<1> QED
  BY <1>1, <1>2

LEMMA UpToDateConnect == ASSUME SessionTypes, Connect PROVE UpToDate'
<1> DEFINE id == link.nextId
           first == <<DisplayOp(link.display)>>
<1>1. /\ agent'.conn = id /\ streams'[id].down = <<DisplayOp(link.display), StagesOp(link.stages)>>
      /\ link'.stages = link.stages /\ link'.display = link.display
  BY ConnectDoes
<1>2. DisplayOp(link.display) \in Ops /\ StagesOp(link.stages) \in Ops
  BY AgentFields, OpsTyped
<1>3. first \in Seq(Ops)
  BY <1>2
<1>4. streams'[id].down = Append(first, StagesOp(link.stages))
  BY <1>1
<1>5. \A now : GetsDisplay(first, now, link.display)
  BY LastSingle DEF GetsDisplay, Settles
<1> HIDE DEF first
<1>6. \A now : GetsDisplay(Append(first, StagesOp(link.stages)), now, link.display)
  BY <1>2, <1>3, <1>5, GetsShown, OpsApart
<1>7. \A requests, now :
        GetsStages(Append(first, StagesOp(link.stages)), requests, now, link.stages)
  BY <1>2, <1>3, GetsSent
<1> QED
  BY <1>1, <1>4, <1>6, <1>7 DEF UpToDate

\* The agent reads an op.
LEMMA GetsRead ==
  ASSUME NEW down \in Seq(Ops), down # <<>>, NEW requests \in Seq(Requests), NEW more,
         NEW now, NEW stages \in StageSets, GetsStages(down, requests, now, stages),
         \/ Head(down) \notin StagesOps /\ more = requests
         \/ \E op \in Requests \ StagesOps :
               Head(down) \notin StagesOps /\ more = Append(requests, op)
         \/ Head(down) \in Requests \cap StagesOps /\ more = Append(requests, Head(down))
  PROVE  GetsStages(Tail(down), more, now, stages)
<1> DEFINE op == Head(down)
           asked == Settles(requests, StagesOps, {StagesOp(stages)}, now = stages)
           then == Settles(more, StagesOps, {StagesOp(stages)}, now = stages)
<1>1. CASE LastIn(down, StagesOps, {StagesOp(stages)})
  <2>1. \/ LastIn(Tail(down), StagesOps, {StagesOp(stages)})
        \/ op = StagesOp(stages) /\ Free(Tail(down), StagesOps)
    BY <1>1, LastTail
  <2>2. CASE op = StagesOp(stages) /\ Free(Tail(down), StagesOps)
    <3>1. CASE op \in StagesOps /\ op \in Requests /\ more = Append(requests, op)
      <4>1. LastIn(more, StagesOps, {StagesOp(stages)})
        BY <2>2, <3>1, ChannelSends
      <4> QED
        BY <2>2, <4>1 DEF GetsStages, Settles
    <3>2. op \in StagesOps
      BY <2>2, OpsApart
    <3> QED
      BY <3>1, <3>2
  <2> QED
    BY <2>1, <2>2 DEF GetsStages, Settles
<1>2. CASE Free(down, StagesOps) /\ asked
  <2>1. op \notin StagesOps /\ Free(Tail(down), StagesOps)
    BY <1>2, FreeTail
  <2>2. then
    <3>1. CASE more = requests
      BY <1>2, <3>1
    <3>2. ASSUME NEW new \in Requests \ StagesOps, more = Append(requests, new) PROVE then
      <4>1. Free(requests, StagesOps) => Free(more, StagesOps)
        BY <3>2, ChannelSends
      <4>2. LastIn(requests, StagesOps, {StagesOp(stages)})
              => LastIn(more, StagesOps, {StagesOp(stages)})
        BY <3>2, ChannelSends
      <4> QED
        BY <1>2, <4>1, <4>2 DEF Settles
    <3> QED
      BY <2>1, <3>1, <3>2
  <2> QED
    BY <2>1, <2>2 DEF GetsStages, Settles
<1> QED
  BY <1>1, <1>2 DEF GetsStages, Settles

LEMMA GetsShownRead ==
  ASSUME NEW down \in Seq(Ops), down # <<>>, NEW now, NEW then,
         NEW display \in Displays, GetsDisplay(down, now, display),
         \/ Head(down) \notin DisplayOps /\ then = now
         \/ Head(down) = DisplayOp(then) /\ then \in Displays
  PROVE  GetsDisplay(Tail(down), then, display)
<1>1. CASE LastIn(down, DisplayOps, {DisplayOp(display)})
  <2>1. \/ LastIn(Tail(down), DisplayOps, {DisplayOp(display)})
        \/ Head(down) = DisplayOp(display) /\ Free(Tail(down), DisplayOps)
    BY <1>1, LastTail
  <2> QED
    BY <2>1, OpsApart DEF GetsDisplay, Settles
<1>2. CASE Free(down, DisplayOps) /\ now = display
  <2>1. Head(down) \notin DisplayOps /\ Free(Tail(down), DisplayOps)
    BY <1>2, FreeTail
  <2> QED
    BY <1>2, <2>1, OpsApart DEF GetsDisplay, Settles
<1> QED
  BY <1>1, <1>2 DEF GetsDisplay, Settles

LEMMA OpsAreRequests ==
  /\ \A stages \in StageSets : StagesOp(stages) \in Requests \cap StagesOps
  /\ \A on \in BOOLEAN : ScreenOp(on) \in Requests \ StagesOps
  /\ Requests \subseteq Ops
BY OpsTyped, OpsApart DEF Requests, Ops

LEMMA UpToDateRead ==
  ASSUME SessionTypes, Wired, UpToDate, ReadOp
  PROVE  UpToDate'
<1> DEFINE conn == agent.conn
           down == streams[conn].down
           op == Head(down)
<1>1. /\ conn \in Streams /\ conn # NoStream /\ down \in Seq(Ops) /\ down # <<>>
      /\ op \in Ops /\ watcher.requests \in Seq(Requests)
      /\ link' = link /\ link.stages \in StageSets /\ link.display \in Displays
  BY OpAt, AgentFields, WatcherFields DEF ReadOp
<1>2. ASSUME NEW answer, ReadsLine(answer)
      PROVE  streams'[conn].serving = streams[conn].serving /\ streams'[conn].down = Tail(down)
  BY <1>2 DEF ReadsLine
<1> SUFFICES ASSUME streams[conn].serving, agent'.conn = conn,
                    streams'[conn].serving, streams'[conn].down = Tail(down)
             PROVE  /\ GetsStages(Tail(down), watcher'.requests, watcher'.stages, link.stages)
                    /\ GetsDisplay(Tail(down), agent'.display, link.display)
  <2>1. \E answer : ReadsLine(answer)
    BY OpAt, DisplayDoes, StagesDoes, ScreenDoes
  <2>2. agent'.conn = conn
    BY AgentKeepsEnds DEF SameEnds
  <2>3. streams'[conn].serving = streams[conn].serving /\ streams'[conn].down = Tail(down)
    BY <1>2, <2>1
  <2> QED
    BY <1>1, <2>2, <2>3 DEF UpToDate
<1>3. /\ GetsStages(down, watcher.requests, watcher.stages, link.stages)
      /\ GetsDisplay(down, agent.display, link.display)
  BY <1>1 DEF UpToDate
<1>4. CASE op = DisplayOp(op.display) /\ op.display \in Displays /\ ApplyDisplay(op.display)
  <2>1. agent'.display = op.display /\ watcher' = watcher
    BY <1>4, DisplayDoes DEF ApplyDisplay
  <2>2. op \notin StagesOps
    BY <1>4, OpsApart
  <2>3. GetsStages(Tail(down), watcher.requests, watcher.stages, link.stages)
    BY <1>1, <1>3, <2>2, GetsRead
  <2>4. GetsDisplay(Tail(down), op.display, link.display)
    BY <1>1, <1>3, <1>4, GetsShownRead
  <2> QED
    BY <2>1, <2>3, <2>4
<1>5. CASE op = StagesOp(op.stages) /\ op.stages \in StageSets /\ ApplyStages(op.stages)
  <2>1. agent' = agent /\ Requested(StagesOp(op.stages))
    BY <1>5, StagesDoes
  <2>2. watcher'.requests = Append(watcher.requests, op) /\ watcher'.stages = watcher.stages
    BY <1>5, <2>1 DEF Requested
  <2>3. op \in Requests \cap StagesOps /\ op \notin DisplayOps
    BY <1>5, OpsApart, OpsAreRequests
  <2>4. GetsStages(Tail(down), watcher'.requests, watcher.stages, link.stages)
    BY <1>1, <1>3, <2>2, <2>3, GetsRead
  <2>5. GetsDisplay(Tail(down), agent.display, link.display)
    BY <1>1, <1>3, <2>3, GetsShownRead
  <2> QED
    BY <2>1, <2>2, <2>4, <2>5
<1>6. CASE op = ScreenOp(op.on) /\ op.on \in BOOLEAN /\ ApplyScreen(op.on)
  <2>1. agent'.display = agent.display
    BY <1>6, ScreenDoes DEF Remembers
  <2>2. /\ watcher'.stages = watcher.stages
        /\ watcher'.requests = watcher.requests \/ watcher'.requests = Append(watcher.requests, op)
    BY <1>6, ScreenDoes DEF Requested
  <2>3. op \in Requests \ StagesOps /\ op \notin DisplayOps
    BY <1>6, OpsApart, OpsAreRequests
  <2>4. GetsStages(Tail(down), watcher'.requests, watcher.stages, link.stages)
    BY <1>1, <1>3, <2>2, <2>3, GetsRead
  <2>5. GetsDisplay(Tail(down), agent.display, link.display)
    BY <1>1, <1>3, <2>3, GetsShownRead
  <2> QED
    BY <2>1, <2>2, <2>4, <2>5
<1> QED
  BY <1>4, <1>5, <1>6, OpAt

\* The watcher takes its requests.
LEMMA UpToDateWatcher ==
  ASSUME SessionTypes, UpToDate,
         \/ SessionStarts \/ SessionFails \/ TakeRequest
  PROVE  UpToDate'
<1> DEFINE requests == watcher.requests
           stages == watcher.stages
<1>1. /\ requests \in Seq(Requests) /\ stages \in StageSets
      /\ UNCHANGED linkVars /\ link.stages \in StageSets
  BY AgentFields, WatcherFields DEF SessionStarts, SessionFails, TakeRequest
<1>2. agent'.conn = agent.conn /\ agent'.display = agent.display
  BY SessionStartsDoes DEF SessionStarts, SessionFails, TakeRequest, InboxBecomes
<1> SUFFICES ASSUME Settles(requests, StagesOps, {StagesOp(link.stages)}, stages = link.stages)
             PROVE  Settles(watcher'.requests, StagesOps, {StagesOp(link.stages)},
                            watcher'.stages = link.stages)
  BY <1>1, <1>2 DEF UpToDate, GetsStages, GetsDisplay, Settles, linkVars
<1>3. CASE SessionStarts \/ SessionFails
  <2>1. watcher'.requests = <<>> /\ watcher'.stages = Drained(requests, stages)
    BY <1>3, SessionStartsDoes, SessionFailsDoes
  <2>2. requests \in Seq(Ops)
    BY <1>1, OpsAreRequests
  <2>3. Drained(requests, stages) = link.stages
    BY <1>1, <2>2, DrainedTyped DEF Settles, StagesOps
  <2> QED
    BY <2>1, <2>3, EmptySays DEF Settles
<1>4. CASE TakeRequest
  <2> DEFINE op == Head(requests)
  <2>1. requests # <<>> /\ op \in Requests
    BY <1>4, RequestAt
  <2>2. \/ LastIn(Tail(requests), StagesOps, {StagesOp(link.stages)})
        \/ op = StagesOp(link.stages) /\ Free(Tail(requests), StagesOps)
        \/ /\ Free(Tail(requests), StagesOps) /\ op \notin StagesOps
           /\ stages = link.stages
    BY <1>1, <2>1, LastTail, FreeTail DEF Settles
  <2>3. CASE op = StagesOp(op.stages) /\ op.stages \in StageSets /\ SetStages(op.stages)
    <3>1. watcher'.requests = Tail(requests) /\ watcher'.stages = op.stages
      BY <1>4, <2>3, SetStagesDoes DEF RequestTaken
    <3>2. op \in StagesOps /\ (op = StagesOp(link.stages) => op.stages = link.stages)
      BY <2>3, OpsApart
    <3> QED
      BY <2>2, <3>1, <3>2 DEF Settles
  <2>4. CASE op = ScreenOp(op.on) /\ op.on \in BOOLEAN /\ SetOutputs(op.on)
    <3>1. watcher'.requests = Tail(requests) /\ watcher'.stages = stages
      BY <1>4, <2>4, SetOutputsDoes DEF RequestTaken
    <3>2. op \notin StagesOps /\ op # StagesOp(link.stages)
      BY <1>1, <2>4, OpsApart
    <3> QED
      BY <2>2, <3>1, <3>2 DEF Settles
  <2> QED
    BY <1>4, <2>3, <2>4, RequestAt
<1> QED
  BY <1>3, <1>4

LEMMA UpToDateOthers ==
  ASSUME SessionTypes, UpToDate,
         \/ ConnectFails \/ Forward \/ SessionEnds \/ Dispatch
         \/ \E kind \in Kinds : CompositorStarts(kind)
         \/ CompositorDies \/ \E stage \in Stages : UserIsAway(stage)
         \/ UserIsBack
  PROVE  UpToDate'
<1>1. CASE UNCHANGED <<link, streams, agent, watcher>>
  BY <1>1 DEF UpToDate
<1>2. CASE ConnectFails
  BY <1>2, UpToDateKept DEF ConnectFails, linkVars, SameTold, SessionTypes, AgentType
<1>3. CASE Forward
  BY <1>3, ForwardDoes, UpToDateKept DEF Forward, InboxBecomes, SameTold
<1>4. CASE SessionEnds
  BY <1>4, SessionEndsDoes, UpToDateKept DEF SessionEnds, linkVars, InboxBecomes, SameTold
<1>5. CASE Dispatch
  BY <1>5, DispatchDoes, UpToDateKept DEF Dispatch, linkVars, InboxBecomes, SameTold
<1> QED
  BY <1>1, <1>2, <1>3, <1>4, <1>5
     DEF CompositorStarts, CompositorDies, UserIsAway, UserIsBack, linkVars

LEMMA UpToDateInit == Init => UpToDate
BY DEF Init, UpToDate, NewAgent

LEMMA UpToDateStep ==
  ASSUME SessionTypes, Wired, UpToDate, [Next]_sessionVars
  PROVE  UpToDate'
<1>1. CASE UNCHANGED sessionVars
  BY <1>1 DEF sessionVars, linkVars, UpToDate
<1> QED
  BY <1>1, UpToDateEngine, UpToDateServe, UpToDateEnds, UpToDateConnect, UpToDateRead,
     UpToDateWatcher, UpToDateOthers DEF Next

\* What the sequences say of the last op of a kind.
LEMMA LatestShown ==
  ASSUME NEW down \in Seq(Ops), NEW now, NEW display,
         GetsDisplay(down, now, display)
  PROVE  LET sent == About("display", down)
         IN (IF sent = {} THEN now ELSE down[Max(sent)].display) = display
<1> DEFINE sent == About("display", down)
<1>1. /\ DOMAIN down = 1..Len(down) /\ Len(down) \in Nat
      /\ sent = {i \in 1..Len(down) : down[i].op = "display"}
      /\ \A i \in 1..Len(down) : down[i] \in Ops
  BY DEF About
<1>2. \A i \in 1..Len(down) : down[i] \in DisplayOps <=> down[i].op = "display"
  BY <1>1, OpsKnown, OpsApart DEF DisplayOps, DisplayOp
<1>3. CASE LastIn(down, DisplayOps, {DisplayOp(display)})
  <2>1. PICK i \in 1..Len(down) : /\ down[i] = DisplayOp(display)
                                  /\ \A j \in 1..Len(down) : j > i => down[j] \notin DisplayOps
    BY <1>3 DEF LastIn
  <2>2. i \in sent /\ \A j \in sent : j <= i
    BY <1>1, <1>2, <2>1 DEF DisplayOp
  <2>3. Max(sent) = i
    BY <1>1, <2>2 DEF Max
  <2>4. down[i].display = display
    BY <2>1 DEF DisplayOp
  <2> QED
    BY <2>2, <2>3, <2>4
<1>4. CASE Free(down, DisplayOps) /\ now = display
  <2>1. sent = {}
    BY <1>1, <1>2, <1>4 DEF Free
  <2> QED
    BY <1>4, <2>1
<1> QED
  BY <1>3, <1>4 DEF GetsDisplay, Settles

LEMMA LatestStagesAre ==
  ASSUME SessionTypes, agent.conn # NoStream,
         GetsStages(streams[agent.conn].down, watcher.requests, watcher.stages, link.stages)
  PROVE  LatestStages = link.stages
<1> DEFINE down == streams[agent.conn].down
           requests == watcher.requests
           all == requests \o down
           this == {StagesOp(link.stages)}
<1>1. /\ down \in Seq(Ops) /\ requests \in Seq(Ops) /\ watcher.stages \in StageSets
      /\ link.stages \in StageSets
  BY AgentFields, WatcherFields, StreamFields, OpsAreRequests DEF SessionTypes
<1>2. all \in Seq(Ops)
  BY <1>1, ConcatAt
<1>3. \/ LastIn(down, StagesOps, this)
      \/ Free(down, StagesOps) /\ LastIn(requests, StagesOps, this)
      \/ Free(down, StagesOps) /\ Free(requests, StagesOps) /\ watcher.stages = link.stages
  BY DEF GetsStages, Settles
<1>4. \/ LastIn(all, StagesOps, this)
      \/ Free(all, StagesOps) /\ watcher.stages = link.stages
  BY <1>1, <1>3, LastAfter, LastBefore, FreeConcat
<1> HIDE DEF all
<1>5. Drained(all, watcher.stages) = link.stages
  BY <1>1, <1>2, <1>4, DrainedTyped DEF StagesOps
<1> QED
  BY <1>5 DEF all, LatestStages

LEMMA AgentIsUpToDateThen ==
  ASSUME SessionTypes, Wired, UpToDate
  PROVE  AgentIsUpToDate
<1> SUFFICES ASSUME agent.conn # NoStream, streams[agent.conn].serving
             PROVE  /\ link.current = agent.conn
                    /\ LatestStages = link.stages /\ LatestDisplay = link.display
  BY DEF AgentIsUpToDate
<1>1. streams[agent.conn].down \in Seq(Ops)
  BY AgentFields, StreamFields DEF SessionTypes
<1>2. LatestStages = link.stages
  BY LatestStagesAre DEF UpToDate
<1>3. LatestDisplay = link.display
  BY <1>1, LatestShown DEF LatestDisplay, UpToDate
<1> QED
  BY <1>2, <1>3 DEF Wired

\* Whoever dies, hangs up or reconnects: once it has read what it was sent, the
\* registered agent has the daemon's section, and its watcher the stages.
THEOREM AgentIsUpToDateHolds == Spec => []AgentIsUpToDate
<1>1. Init => SessionTypes /\ Wired /\ UpToDate
  BY TypesInit, WiredInit, UpToDateInit
<1>2. SessionTypes /\ Wired /\ UpToDate /\ [Next]_sessionVars
        => (SessionTypes /\ Wired /\ UpToDate)'
  BY TypesStep, WiredStep, UpToDateStep
<1>3. SessionTypes /\ Wired /\ UpToDate => AgentIsUpToDate
  BY AgentIsUpToDateThen
<1> QED
  BY <1>1, <1>2, <1>3, PTL DEF Spec

-----------------------------------------------------------------------------
(* What the agent says of the display.                                     *)

DisplayEvents == {DisplayEvent(available) : available \in BOOLEAN}

LEMMA DisplayEventsApart ==
  /\ \A event \in Told : event \notin DisplayEvents
  /\ \A available \in BOOLEAN : DisplayEvent(available) \in DisplayEvents
  /\ \A a, b : DisplayEvent(a) = DisplayEvent(b) => a = b
  /\ \A available : DisplayEvent(available).event = "display"
<1>1. \A available : /\ DisplayEvent(available).event = "display"
                     /\ DisplayEvent(available).available = available
  BY DEF DisplayEvent
<1>2. \A event \in Told : event.event \in {"idle", "activity"}
  BY EventsKnown
<1>3. \A event \in DisplayEvents : event.event = "display"
  BY <1>1 DEF DisplayEvents
<1>4. \A event \in Told : event \notin DisplayEvents
  BY <1>2, <1>3
<1>5. \A available \in BOOLEAN : DisplayEvent(available) \in DisplayEvents
  BY DEF DisplayEvents
<1> QED
  BY <1>1, <1>4, <1>5

\* Once the lines up to here are read, the daemon says `word` of the display.
Reports(up, now, word) == Settles(up, DisplayEvents, {DisplayEvent(word)}, now = word)

\* Only an agent is said to have a display; the watcher that finds the power
\* manager speaks of its end; and the agent will look again, or has looked and
\* its last word is the state of things.
Honest ==
    /\ link.current = NoStream => ~link.available
    /\ watcher.power => watcher.announced
    /\ agent.conn # NoStream /\ streams[agent.conn].serving =>
          \/ ~Free(agent.inbox, {Backend})
          \/ Reports(streams[agent.conn].up, link.available, Available(agent.display))

LEMMA WordsSent ==
  ASSUME NEW up \in Seq(AgentEvents), NEW event \in AgentEvents, NEW now, NEW word,
         \/ event = DisplayEvent(word)
         \/ event \in Told /\ Reports(up, now, word)
  PROVE  Reports(Append(up, event), now, word)
<1>1. CASE event = DisplayEvent(word)
  <2>1. LastIn(Append(up, event), DisplayEvents, {DisplayEvent(word)})
    BY <1>1, ChannelSends
  <2> QED
    BY <2>1 DEF Reports, Settles
<1>2. CASE event \in Told /\ Reports(up, now, word)
  <2>1. event \notin DisplayEvents
    BY <1>2, DisplayEventsApart
  <2>2. LastIn(up, DisplayEvents, {DisplayEvent(word)})
           => LastIn(Append(up, event), DisplayEvents, {DisplayEvent(word)})
    BY <2>1, ChannelSends
  <2>3. Free(up, DisplayEvents) => Free(Append(up, event), DisplayEvents)
    BY <2>1, ChannelSends
  <2> QED
    BY <1>2, <2>2, <2>3 DEF Reports, Settles
<1> QED
  BY <1>1, <1>2

LEMMA WordsRead ==
  ASSUME NEW up \in Seq(AgentEvents), up # <<>>, NEW now, NEW then,
         NEW word, Reports(up, now, word),
         \/ Head(up) \in Told /\ then = now
         \/ Head(up) = DisplayEvent(then) /\ then \in BOOLEAN
  PROVE  Reports(Tail(up), then, word)
<1>1. CASE LastIn(up, DisplayEvents, {DisplayEvent(word)})
  <2>1. \/ LastIn(Tail(up), DisplayEvents, {DisplayEvent(word)})
        \/ Head(up) = DisplayEvent(word) /\ Free(Tail(up), DisplayEvents)
    BY <1>1, LastTail
  <2>2. Head(up) = DisplayEvent(word) => Head(up) \notin Told
    BY EventsKnown, DisplayEventsApart
  <2> QED
    BY <2>1, <2>2, DisplayEventsApart DEF Reports, Settles
<1>2. CASE Free(up, DisplayEvents) /\ now = word
  <2>1. Head(up) \notin DisplayEvents /\ Free(Tail(up), DisplayEvents)
    BY <1>2, FreeTail
  <2> QED
    BY <1>2, <2>1, DisplayEventsApart DEF Reports, Settles
<1> QED
  BY <1>1, <1>2 DEF Reports, Settles

\* The agent looks at its display no less, and it is as it was.
SameReport ==
    /\ agent'.conn = agent.conn /\ agent'.display = agent.display
    /\ watcher'.power = watcher.power /\ watcher'.announced = watcher.announced
    /\ Free(agent'.inbox, {Backend}) => Free(agent.inbox, {Backend})
    /\ link'.current = link.current /\ link'.available = link.available
    /\ agent.conn # NoStream => /\ streams'[agent.conn].serving => streams[agent.conn].serving
                                /\ streams'[agent.conn].up = streams[agent.conn].up

LEMMA HonestKept == ASSUME Honest, SameReport PROVE Honest'
<1>1. Available(agent.display)' = Available(agent.display)
  BY DEF SameReport, Available
<1> QED
  BY <1>1 DEF Honest, SameReport

LEMMA HonestEngine ==
  ASSUME SessionTypes, Honest,
         \/ TakeEvent \/ Resumes
         \/ \E stages \in StageSets : ModeSwitched(stages)
         \/ \E display \in Displays : Reloaded(display)
  PROVE  Honest'
<1>1. /\ agent' = agent /\ watcher' = watcher
      /\ link'.current = link.current /\ link'.available = link.available
  BY DEF TakeEvent, OnIdle, OnActivity, SendScreen, SendNothing, SetScreen, Resumes,
         ModeSwitched, ReplaceStages, Reloaded, SetDisplay, SessionTypes, LinkType
<1>2. \/ streams' = streams \/ \E op \in Ops : streams' = Sent(op)
      \/ Resumes
  BY OpsTyped DEF TakeEvent, OnIdle, OnActivity, SendScreen, SendNothing, SetScreen,
         ModeSwitched, ReplaceStages, Reloaded, SetDisplay
<1>3. \A id \in Streams : /\ streams'[id].serving = streams[id].serving
                          /\ streams'[id].up = streams[id].up
  BY <1>2, SentDoes, ResumesDoes
<1> QED
  BY <1>1, <1>3, AgentFields, HonestKept DEF SameReport

LEMMA HonestServe ==
  ASSUME SessionTypes, Wired, Honest, NEW id \in Streams, Serve(id)
  PROVE  Honest'
<1> DEFINE conn == agent.conn
           word == Available(agent.display)
<1>1. /\ agent' = agent /\ watcher' = watcher
      /\ conn # NoStream => conn \in Streams
      /\ conn # NoStream /\ streams[conn].serving => link.current = conn
      /\ Available(agent.display)' = word
  BY AgentFields DEF Serve, Wired, Available
<1>2. CASE ServeLine(id)
  <2> DEFINE event == Head(streams[id].up)
  <2>1. /\ link'.current = link.current
        /\ link.current # id => link'.available = link.available
        /\ \A other \in Streams : streams'[other].serving = streams[other].serving
        /\ \A other \in Streams \ {id} : streams'[other] = streams[other]
        /\ streams'[id].up = Tail(streams[id].up)
        /\ streams[id].up # <<>> /\ streams[id].up \in Seq(AgentEvents)
    BY <1>2, ServeLineDoes
  <2>2. link.current = NoStream => link.current # id
    BY DEF Streams, NoStream
  <2>3. CASE ~(conn # NoStream /\ streams[conn].serving)
    BY <1>1, <2>1, <2>2, <2>3 DEF Honest
  <2>4. CASE conn # NoStream /\ streams[conn].serving /\ conn # id
    BY <1>1, <2>1, <2>2, <2>4 DEF Honest
  <2>5. CASE conn # NoStream /\ streams[conn].serving /\ conn = id
    <3>1. \/ event \in Told /\ link'.available = link.available
          \/ event = DisplayEvent(link'.available) /\ link'.available \in BOOLEAN
      <4>1. link.current = id
        BY <1>1, <2>5
      <4>2. \A told \in Told : told.event # "display"
        BY EventsKnown
      <4>3. \A available : DisplayEvent(available).event = "display"
        BY DisplayEventsApart
      <4>4. /\ link'.available = IF link.current = id /\ event.event = "display"
                                 THEN event.available ELSE link.available
            /\ \/ event = DisplayEvent(event.available) /\ event.available \in BOOLEAN
               \/ event \in Told
        BY <1>2, ServeLineDoes
      <4> HIDE DEF event
      <4> QED
        BY <4>1, <4>2, <4>3, <4>4
    <3>2. Reports(streams[id].up, link.available, word)
             => Reports(Tail(streams[id].up), link'.available, word)
      BY <2>1, <3>1, WordsRead
    <3> QED
      BY <1>1, <2>1, <2>2, <2>5, <3>2 DEF Honest
  <2> QED
    BY <2>3, <2>4, <2>5
<1>3. CASE ServeEnd(id)
  <2>1. /\ \A other \in Streams \ {id} : streams'[other] = streams[other]
        /\ ~streams'[id].serving
        /\ link.current = id => link' = Unregistered
        /\ link.current # id => link' = link
    BY <1>3, ServeEndDoes
  <2>2. Unregistered.available = FALSE
    BY DEF Unregistered, SessionTypes, LinkType
  <2> QED
    BY <1>1, <2>1, <2>2 DEF Honest
<1>4. CASE SayGoodbye(id)
  <2>1. /\ link' = link
        /\ \A other \in Streams : /\ streams'[other].serving = streams[other].serving
                                  /\ streams'[other].up = streams[other].up
    BY <1>4, SayGoodbyeDoes
  <2> QED
    BY <1>1, <2>1, HonestKept DEF SameReport
<1> QED
  BY <1>2, <1>3, <1>4 DEF Serve

LEMMA HonestEnds ==
  ASSUME SessionTypes, Wired, Honest, DaemonDies \/ AgentStarts \/ AgentDies \/ HangUp \/ Connect
  PROVE  Honest'
<1>1. CASE DaemonDies
  <2>1. /\ agent' = agent /\ watcher' = watcher /\ ~link'.available
        /\ \A id \in Streams : ~streams'[id].serving
    BY <1>1, DaemonDiesDoes DEF DaemonDies
  <2> QED
    BY <2>1, AgentFields DEF Honest
<1>2. CASE AgentStarts \/ AgentDies
  BY <1>2 DEF AgentStarts, AgentDies, NewAgent, NewWatcher, linkVars, Honest
<1>3. CASE HangUp
  <2>1. agent'.conn = NoStream
    BY <1>3 DEF HangUp, SessionTypes, AgentType
  <2> QED
    BY <1>3, <2>1 DEF HangUp, Honest
<1>4. CASE Connect
  <2>1. /\ watcher' = watcher /\ link'.current = agent'.conn /\ agent'.conn \in Streams
        /\ agent'.display = agent.display
        /\ streams'[agent'.conn].up = <<DisplayEvent(Available(agent.display))>>
    BY <1>4, ConnectDoes DEF Connect
  <2>2. Available(agent.display)' = Available(agent.display)
    <3> DEFINE a == agent.display
               b == agent'.display
    <3>1. a = b /\ watcher' = watcher
      BY <2>1
    <3> QED
      BY <3>1 DEF Available
  <2>3. agent'.conn # NoStream
    BY <2>1 DEF Streams, NoStream
  <2>4. Reports(<<DisplayEvent(Available(agent.display))>>, link'.available,
                Available(agent.display))
    BY LastSingle DEF Reports, Settles
  <2> QED
    BY <2>1, <2>2, <2>3, <2>4 DEF Honest
<1> QED
  BY <1>1, <1>2, <1>3, <1>4

LEMMA HonestRead ==
  ASSUME SessionTypes, Wired, Honest, ReadOp
  PROVE  Honest'
<1> DEFINE conn == agent.conn
           op == Head(streams[conn].down)
<1>1. link' = link /\ conn \in Streams /\ streams[conn].up \in Seq(AgentEvents)
  BY OpAt DEF ReadOp
<1>2. CASE op.display \in Displays /\ ApplyDisplay(op.display)
  <2> DEFINE word == Available(op.display)
             event == DisplayEvent(word)
  <2>1. /\ agent'.display = op.display /\ agent'.conn = conn /\ agent'.inbox = agent.inbox
        /\ watcher' = watcher
        /\ streams'[conn].serving = streams[conn].serving
        /\ streams'[conn].up = IF streams[conn].serving THEN streams[conn].up \o <<event>>
                               ELSE streams[conn].up
    BY <1>2, DisplayDoes DEF ApplyDisplay, ReadsLine
  <2>2. Available(agent.display)' = word /\ event \in AgentEvents
    BY <2>1, AvailableTyped, EventsTyped DEF Available
  <2> HIDE DEF event
  <2>3. streams[conn].up \o <<event>> = Append(streams[conn].up, event)
    BY <1>1, <2>2, AppendConcat
  <2>4. Reports(Append(streams[conn].up, event), link.available, word)
    BY <1>1, <2>2, WordsSent DEF event
  <2> QED
    BY <1>1, <2>1, <2>2, <2>3, <2>4 DEF Honest
<1>3. CASE \/ op.stages \in StageSets /\ ApplyStages(op.stages)
           \/ op.on \in BOOLEAN /\ ApplyScreen(op.on)
  <2>1. /\ ReadsLine(<<>>)
        /\ agent'.display = agent.display /\ agent'.conn = conn /\ agent'.inbox = agent.inbox
    BY <1>3, StagesDoes, ScreenDoes DEF Remembers
  <2>2. watcher'.power = watcher.power /\ watcher'.announced = watcher.announced
    BY <1>3, StagesDoes, ScreenDoes DEF Requested
  <2>3. streams'[conn].serving = streams[conn].serving /\ streams'[conn].up = streams[conn].up
    BY <1>1, <2>1, EmptyConcat DEF ReadsLine
  <2> QED
    BY <1>1, <2>1, <2>2, <2>3, HonestKept DEF SameReport
<1> QED
  BY <1>2, <1>3, OpAt

\* Its watcher has something to say.
LEMMA HonestForward ==
  ASSUME SessionTypes, Wired, Honest, Forward
  PROVE  Honest'
<1> DEFINE conn == agent.conn
           event == Head(agent.inbox)
           word == Available(agent.display)
<1>1. /\ conn \in Streams /\ agent.inbox # <<>> /\ event \in Inbox /\ agent.inbox \in Seq(Inbox)
      /\ streams[conn].up \in Seq(AgentEvents) /\ Line(event) \in AgentEvents
      /\ InboxBecomes(Tail(agent.inbox))
      /\ streams'[conn].serving = streams[conn].serving
      /\ streams'[conn].up = IF streams[conn].serving THEN Append(streams[conn].up, Line(event))
                             ELSE streams[conn].up
  BY ForwardDoes, AgentFields
<1>2. /\ link' = link /\ watcher' = watcher /\ agent'.conn = conn
      /\ Available(agent.display)' = word /\ agent'.inbox = Tail(agent.inbox)
  BY <1>1 DEF Forward, InboxBecomes, Available
<1>3. CASE event = Backend
  <2>1. Line(event) = DisplayEvent(word)
    BY <1>3 DEF Line
  <2>2. Reports(Append(streams[conn].up, Line(event)), link.available, word)
    BY <1>1, <2>1, WordsSent
  <2> QED
    BY <1>1, <1>2, <2>2 DEF Honest
<1>4. CASE event # Backend
  <2>1. Line(event) = event /\ event \in Told
    BY <1>1, <1>4, EventsKnown DEF Line
  <2>2. ~Free(agent.inbox, {Backend}) => ~Free(Tail(agent.inbox), {Backend})
    BY <1>1, <1>4, ChannelTakes
  <2>3. Reports(streams[conn].up, link.available, word)
           => Reports(Append(streams[conn].up, Line(event)), link.available, word)
    BY <1>1, <2>1, WordsSent
  <2> QED
    BY <1>1, <1>2, <2>2, <2>3 DEF Honest
<1> QED
  BY <1>3, <1>4

LEMMA HonestWatcher ==
  ASSUME SessionTypes, Wired, Watches, Honest, \A kind \in Kinds : kind.power => kind.idle,
         \/ ConnectFails \/ SessionStarts \/ SessionFails \/ SessionEnds \/ TakeRequest
         \/ Dispatch
  PROVE  Honest'
<1>1. agent.inbox \in Seq(Inbox) /\ Backend \in Inbox /\ Activity \in Inbox
  BY AgentFields, EventsTyped
<1>2. CASE ConnectFails
  <2>1. agent'.conn = NoStream
    BY <1>2 DEF ConnectFails, SessionTypes, AgentType
  <2> QED
    BY <1>2, <2>1 DEF ConnectFails, linkVars, Honest
<1>3. CASE SessionStarts
  <2>1. /\ agent'.inbox = Append(agent.inbox, Backend) /\ UNCHANGED linkVars
        /\ watcher'.announced = compositor.kind.idle /\ watcher'.power = compositor.kind.power
    BY <1>3, SessionStartsDoes DEF SessionStarts, InboxBecomes
  <2>2. ~Free(agent'.inbox, {Backend})
    BY <1>1, <2>1, ChannelSends
  <2>3. compositor.kind \in Kinds
    BY DEF SessionTypes, CompositorType
  <2> QED
    BY <2>1, <2>2, <2>3 DEF Honest, linkVars
<1>4. CASE SessionEnds
  <2>1. /\ InboxBecomes(agent.inbox \o (IF watcher.announced THEN <<Backend, Activity>> ELSE <<>>))
        /\ ~watcher'.power /\ UNCHANGED linkVars
    BY <1>4, SessionEndsDoes DEF SessionEnds
  <2>2. CASE watcher.announced
    <3> DEFINE told == Append(agent.inbox, Backend)
    <3>1. told \in Seq(Inbox) /\ ~Free(told, {Backend})
      BY <1>1, AppendTyped, ChannelSends
    <3>2. agent'.inbox = Append(told, Activity)
      <4>1. agent.inbox \o <<Backend, Activity>> = Append(told, Activity)
        BY <1>1, TwoAppended
      <4> QED
        BY <2>1, <2>2, <4>1 DEF InboxBecomes
    <3> HIDE DEF told
    <3>3. ~Free(agent'.inbox, {Backend})
      BY <1>1, <3>1, <3>2, ChannelSends
    <3> QED
      BY <2>1, <3>3 DEF Honest, linkVars
  <2>3. CASE ~watcher.announced
    <3>1. ~watcher.power /\ ~watcher'.power /\ ~watcher'.announced
      BY <1>4, <2>3, SessionEndsDoes DEF Honest
    <3>2. watcher.power = FALSE /\ watcher'.power = FALSE /\ watcher.announced = FALSE
          /\ watcher'.announced = FALSE
      BY <2>3, <3>1, WatcherFields, SessionEndsDoes, <1>4 DEF WatcherType
    <3>3. agent'.inbox = agent.inbox
      BY <1>1, <2>1, <2>3, EmptyConcat DEF InboxBecomes
    <3> QED
      BY <2>1, <3>2, <3>3, HonestKept DEF SameReport, InboxBecomes, linkVars
  <2> QED
    BY <2>2, <2>3
<1>5. CASE SessionFails
  BY <1>5, SessionFailsDoes, HonestKept DEF SessionFails, SameReport, linkVars
<1>6. CASE TakeRequest
  <2>1. RequestTaken
    BY <1>6, RequestAt, SetStagesDoes, SetOutputsDoes
  <2> QED
    BY <1>6, <2>1, HonestKept DEF TakeRequest, RequestTaken, SameReport, linkVars
<1>7. CASE Dispatch
  <2> DEFINE said == Spoken(Head(compositor.wire))
  <2>1. said \in Seq(Inbox) /\ InboxBecomes(agent.inbox \o said)
    BY <1>7, DispatchDoes
  <2> HIDE DEF said
  <2>2. Free(agent'.inbox, {Backend}) => Free(agent.inbox, {Backend})
    BY <1>1, <2>1, ConcatAt DEF Free, InboxBecomes
  <2> QED
    BY <1>7, <2>1, <2>2, HonestKept DEF Dispatch, InboxBecomes, SameReport, linkVars
<1> QED
  BY <1>2, <1>3, <1>4, <1>5, <1>6, <1>7

LEMMA HonestInit == Init => Honest
BY DEF Init, LinkInit, NewLink, NewWatcher, NewAgent, Honest

LEMMA HonestStep ==
  ASSUME SessionTypes, Wired, Watches, Honest, \A kind \in Kinds : kind.power => kind.idle,
         [Next]_sessionVars
  PROVE  Honest'
<1>1. CASE UNCHANGED <<link, streams, agent, watcher>>
  BY <1>1 DEF Honest, Available
<1> QED
  BY <1>1, HonestEngine, HonestServe, HonestEnds, HonestRead, HonestForward, HonestWatcher
     DEF Next, CompositorStarts, CompositorDies, UserIsAway, UserIsBack, sessionVars, linkVars

\* Nothing is left to be said where nothing is under way.
LEMMA NothingComing ==
  ASSUME SessionTypes, Coming = {}
  PROVE  /\ events = <<>> /\ agent.inbox = <<>> /\ compositor.wire = <<>>
         /\ \A id \in Streams : streams[id].up = <<>>
<1>1. ASSUME NEW S, NEW q \in Seq(S), Range(q) = {} PROVE q = <<>>
  <2>1. Len(q) \in Nat /\ (Len(q) # 0 => q[1] \in Range(q))
    BY <1>1 DEF Range
  <2> QED
    BY <1>1, <2>1, NoLength
<1>2. /\ Range(events) = {} /\ Range(agent.inbox) = {} /\ Range(compositor.wire) = {}
      /\ \A id \in Streams : Range(streams[id].up) = {}
  <2> DEFINE ups == {Range(streams[id].up) : id \in Streams}
  <2>1. /\ Range(events) = {} /\ Range(agent.inbox) = {} /\ Range(compositor.wire) = {}
        /\ UNION ups = {}
    BY DEF Coming
  <2>2. \A id \in Streams : Range(streams[id].up) \in ups
    OBVIOUS
  <2> HIDE DEF ups
  <2>3. \A up \in ups : up = {}
    BY <2>1
  <2> QED
    BY <2>1, <2>2, <2>3
<1>3. /\ events \in Seq(Told) /\ agent.inbox \in Seq(Inbox) /\ compositor.wire \in Seq(Wire)
      /\ \A id \in Streams : streams[id].up \in Seq(AgentEvents)
  BY AgentFields, WatcherFields, StreamFields DEF SessionTypes
<1> QED
  BY <1>1, <1>2, <1>3

LEMMA AvailabilityIsHonestThen ==
  ASSUME SessionTypes, Wired, Honest
  PROVE  AvailabilityIsHonest
<1> SUFFICES ASSUME Settled PROVE link.available = (Attached /\ Available(agent.display))
  BY DEF AvailabilityIsHonest
<1>1. link.available \in BOOLEAN /\ Available(agent.display) \in BOOLEAN
  BY AgentFields, AvailableTyped
<1>2. CASE Attached
  <2>1. /\ agent.conn \in Streams /\ streams[agent.conn].serving /\ agent.conn # NoStream
    BY <1>2, AgentFields DEF Attached, Settled
  <2>2. Free(agent.inbox, {Backend}) /\ streams[agent.conn].up = <<>>
    BY <2>1, NothingComing, EmptySays DEF Settled
  <2>3. link.available = Available(agent.display)
    BY <2>1, <2>2, EmptySays DEF Honest, Reports, Settles
  <2> QED
    BY <1>1, <1>2, <2>3
<1>3. CASE ~Attached
  <2>1. link.current = NoStream
    BY <1>3, AgentFields DEF Attached, Settled, Wired
  <2> QED
    BY <1>1, <1>3, <2>1 DEF Honest
<1> QED
  BY <1>2, <1>3

\* When all is said, `status` says of the display what is so.  It takes a
\* compositor whose power manager does not come without the idle notifier: the
\* end of a session without the notifier goes unreported.
THEOREM AvailabilityIsHonestHolds ==
  ASSUME \A kind \in Kinds : kind.power => kind.idle
  PROVE  Spec => []AvailabilityIsHonest
<1>1. Init => SessionTypes /\ Wired /\ Watches /\ Honest
  BY TypesInit, WiredInit, WatchesInit, HonestInit
<1>2. SessionTypes /\ Wired /\ Watches /\ Honest /\ [Next]_sessionVars
        => (SessionTypes /\ Wired /\ Watches /\ Honest)'
  BY TypesStep, WiredStep, WatchesStep, HonestStep
<1>3. SessionTypes /\ Wired /\ Watches /\ Honest => AvailabilityIsHonest
  BY AvailabilityIsHonestThen
<1> QED
  BY <1>1, <1>2, <1>3, PTL DEF Spec

-----------------------------------------------------------------------------
(* Who will tell an engine that takes the user for away.                   *)

IdleEvents == {IdleEvent(stage) : stage \in Stages}
IdledEvents == {Idled(stage) : stage \in Stages}
First == Resumed(Primary(watcher.stages))

LEMMA LastSaid ==
  ASSUME NEW S, NEW s \in Seq(S), NEW a \in S, NEW K
  PROVE  LastIn(Append(s, a), K, {a})
BY ChannelSends

LEMMA IdleEventsApart ==
  /\ Activity \notin IdleEvents /\ Backend \notin IdleEvents
  /\ \A available : DisplayEvent(available) \notin IdleEvents
  /\ \A event \in Told : event = Activity \/ event \in IdleEvents
  /\ \A stage, other : Resumed(stage) = Resumed(other) => stage = other
  /\ \A stage : Resumed(stage) \notin IdledEvents
  /\ \A event \in IdleEvents : event.event = "idle" /\ event # Activity /\ event \in Told
  /\ \A event \in IdledEvents : event.event = "idled"
  /\ \A stage \in Stages : Idled(stage) \in IdledEvents /\ IdleEvent(stage) \in IdleEvents
<1>1. /\ \A stage : IdleEvent(stage).event = "idle" /\ Idled(stage).event = "idled"
      /\ \A stage : Resumed(stage).event = "resumed" /\ Resumed(stage).stage = stage
      /\ Activity.event = "activity" /\ Backend.event = "backend"
      /\ \A available : DisplayEvent(available).event = "display"
  BY DEF IdleEvent, Idled, Resumed, Activity, Backend, DisplayEvent
<1>2. /\ \A event \in IdleEvents : event.event = "idle"
      /\ \A event \in IdledEvents : event.event = "idled"
  BY <1>1 DEF IdleEvents, IdledEvents
<1>3. \A event \in Told : event = Activity \/ event \in IdleEvents
  BY DEF Told, IdleEvents
<1>4. IdleEvents \subseteq Told
  BY DEF Told, IdleEvents
<1>5. \A stage \in Stages : Idled(stage) \in IdledEvents /\ IdleEvent(stage) \in IdleEvents
  BY DEF IdleEvents, IdledEvents
<1>6. Activity \notin IdleEvents /\ Backend \notin IdleEvents
  BY <1>1, <1>2
<1>7. \A available : DisplayEvent(available) \notin IdleEvents
  BY <1>1, <1>2
<1>8. \A stage, other : Resumed(stage) = Resumed(other) => stage = other
  BY <1>1
<1>9. \A stage : Resumed(stage) \notin IdledEvents
  BY <1>1, <1>2
<1>10. \A event \in IdleEvents : event # Activity
  BY <1>1, <1>2
<1> QED
  BY <1>2, <1>3, <1>4, <1>5, <1>6, <1>7, <1>8, <1>9, <1>10

\* The compositor will say that the user is back, or the watcher will find it
\* gone; and along the way: that is said already, or will be.
CompositorSpeaks ==
    /\ watcher.session
    /\ \/ compositor.linked /\ Primary(watcher.stages) \in compositor.idled
       \/ ~compositor.linked /\ watcher.announced
WireSpeaks == LastIn(compositor.wire, IdledEvents, {First}) \/ CompositorSpeaks
InboxSpeaks == LastIn(agent.inbox, IdleEvents, {Activity}) \/ WireSpeaks
StreamSpeaks ==
    /\ link.current # NoStream
    /\ \/ streams[link.current].hungUp
       \/ LastIn(streams[link.current].up, IdleEvents, {Activity})
       \/ link.current = agent.conn /\ InboxSpeaks
LinkSpeaks == (\E id \in Streams : streams[id].goodbye) \/ StreamSpeaks
QueueSpeaks == LastIn(events, IdleEvents, {Activity}) \/ LinkSpeaks

\* Idleness on its way is followed by its end, at each place it has come to;
\* and what is not the registered stream has none.
HeardFromWire == ~Free(compositor.wire, IdledEvents) => WireSpeaks
HeardFromInbox == ~Free(agent.inbox, IdleEvents) => InboxSpeaks
HeardFromStream ==
    \A id \in Streams : ~Free(streams[id].up, IdleEvents) => id = link.current /\ StreamSpeaks
HeardFromQueue == ~Free(events, IdleEvents) \/ phase # "Active" => QueueSpeaks
Heard == ~deaf => HeardFromWire /\ HeardFromInbox /\ HeardFromStream /\ HeardFromQueue

LEMMA NothingInFlight ==
  ASSUME SessionTypes, ~IdleInFlight
  PROVE  /\ Free(events, IdleEvents) /\ Free(agent.inbox, IdleEvents)
         /\ Free(compositor.wire, IdledEvents)
         /\ \A id \in Streams : Free(streams[id].up, IdleEvents)
<1>1. \A event \in Coming : event.event \notin {"idle", "idled"}
  BY DEF IdleInFlight
<1>2. ASSUME NEW S, NEW q \in Seq(S), Range(q) \subseteq Coming
      PROVE  Free(q, IdleEvents) /\ Free(q, IdledEvents)
  <2>1. \A i \in 1..Len(q) : q[i] \in Range(q)
    BY <1>2 DEF Range
  <2> QED
    BY <1>1, <1>2, <2>1, IdleEventsApart DEF Free
<1>3. /\ Range(events) \subseteq Coming /\ Range(agent.inbox) \subseteq Coming
      /\ Range(compositor.wire) \subseteq Coming
      /\ \A id \in Streams : Range(streams[id].up) \subseteq Coming
  <2> DEFINE ups == {Range(streams[id].up) : id \in Streams}
  <2>1. /\ Range(events) \subseteq Coming /\ Range(agent.inbox) \subseteq Coming
        /\ Range(compositor.wire) \subseteq Coming /\ UNION ups \subseteq Coming
    BY DEF Coming
  <2>2. \A id \in Streams : Range(streams[id].up) \in ups
    OBVIOUS
  <2> HIDE DEF ups
  <2> QED
    BY <2>1, <2>2
<1>4. /\ events \in Seq(Told) /\ agent.inbox \in Seq(Inbox) /\ compositor.wire \in Seq(Wire)
      /\ \A id \in Streams : streams[id].up \in Seq(AgentEvents)
  BY AgentFields, WatcherFields, StreamFields DEF SessionTypes
<1> QED
  BY <1>2, <1>3, <1>4

\* An engine that is left Active, with nothing to tell it otherwise.
LEMMA NothingToHear == SessionTypes /\ phase = "Active" /\ ~IdleInFlight => Heard
BY NothingInFlight DEF Heard, HeardFromWire, HeardFromInbox, HeardFromStream, HeardFromQueue

\* The far side moves: it goes on speaking to an agent that is connected.
LEMMA HeardFarSide ==
  ASSUME Heard, UNCHANGED <<link, streams, events, phase>>, agent'.conn = agent.conn,
         ~deaf' => ~deaf, HeardFromWire', HeardFromInbox',
         agent.conn = NoStream \/ (InboxSpeaks => InboxSpeaks')
  PROVE  Heard'
<1> SUFFICES ASSUME ~deaf' PROVE Heard'
  BY DEF Heard
<1>1. StreamSpeaks => StreamSpeaks'
  BY DEF StreamSpeaks
<1>2. LinkSpeaks => LinkSpeaks'
  BY <1>1 DEF LinkSpeaks
<1>3. QueueSpeaks => QueueSpeaks'
  BY <1>2 DEF QueueSpeaks
<1>4. HeardFromStream'
  BY <1>1 DEF Heard, HeardFromStream
<1>5. HeardFromQueue'
  BY <1>3 DEF Heard, HeardFromQueue
<1> QED
  BY <1>4, <1>5 DEF Heard

\* It does not move.
SameFarSide ==
    /\ agent'.conn = agent.conn /\ agent'.inbox = agent.inbox
    /\ watcher'.session = watcher.session /\ watcher'.announced = watcher.announced
    /\ watcher'.stages = watcher.stages
    /\ compositor'.linked = compositor.linked /\ compositor'.idled = compositor.idled
    /\ compositor'.wire = compositor.wire

LEMMA FarSideKept ==
  ASSUME SameFarSide
  PROVE  /\ (InboxSpeaks' <=> InboxSpeaks) /\ (HeardFromWire' <=> HeardFromWire)
         /\ (HeardFromInbox' <=> HeardFromInbox)
<1>1. CompositorSpeaks' <=> CompositorSpeaks
  BY DEF SameFarSide, CompositorSpeaks
<1>2. WireSpeaks' <=> WireSpeaks
  BY <1>1 DEF SameFarSide, WireSpeaks, First
<1>3. InboxSpeaks' <=> InboxSpeaks
  BY <1>2 DEF SameFarSide, InboxSpeaks
<1> QED
  BY <1>2, <1>3 DEF SameFarSide, HeardFromWire, HeardFromInbox

\* The streams say what they said.
SameStreams ==
    /\ link'.current = link.current
    /\ \A id \in Streams :
          /\ streams'[id].goodbye = streams[id].goodbye
          /\ streams'[id].hungUp = streams[id].hungUp
          /\ Free(streams[id].up, IdleEvents) => Free(streams'[id].up, IdleEvents)
          /\ LastIn(streams[id].up, IdleEvents, {Activity})
                => LastIn(streams'[id].up, IdleEvents, {Activity})

LEMMA StreamsKept ==
  ASSUME SessionTypes, SameFarSide, SameStreams
  PROVE  /\ (StreamSpeaks => StreamSpeaks') /\ (LinkSpeaks => LinkSpeaks')
         /\ (HeardFromStream => HeardFromStream')
<1>1. link.current # NoStream => link.current \in Streams
  BY AgentFields
<1>2. StreamSpeaks => StreamSpeaks'
  BY <1>1, FarSideKept DEF StreamSpeaks, SameStreams, SameFarSide
<1>3. LinkSpeaks => LinkSpeaks'
  BY <1>2 DEF LinkSpeaks, SameStreams
<1>4. HeardFromStream => HeardFromStream'
  BY <1>2 DEF HeardFromStream, SameStreams
<1> QED
  BY <1>2, <1>3, <1>4

LEMMA HeardKept ==
  ASSUME SessionTypes, Heard, SameFarSide, SameStreams, events' = events,
         phase' = phase \/ phase' = "Active", ~deaf' => ~deaf
  PROVE  Heard'
<1> SUFFICES ASSUME ~deaf' PROVE Heard'
  BY DEF Heard
<1>1. HeardFromWire' /\ HeardFromInbox'
  BY FarSideKept DEF Heard
<1>2. HeardFromStream'
  BY StreamsKept DEF Heard
<1>3. QueueSpeaks => QueueSpeaks'
  BY StreamsKept DEF QueueSpeaks
<1>4. HeardFromQueue'
  BY <1>3 DEF Heard, HeardFromQueue
<1> QED
  BY <1>1, <1>2, <1>4 DEF Heard

LEMMA NothingToHearNext ==
  (SessionTypes /\ phase = "Active" /\ ~IdleInFlight => Heard)'
BY NothingToHear, PTL

\* The daemon: its main loop, and its end.
LEMMA HeardTakeEvent ==
  ASSUME SessionTypes, Heard, TakeEvent
  PROVE  Heard'
<1> DEFINE event == Head(events)
<1>1. /\ events # <<>> /\ events \in Seq(Told) /\ events' = Tail(events)
      /\ deaf' = (deaf /\ (phase' # "Active" \/ IdleInFlight'))
      /\ UNCHANGED <<agent, watcher, compositor>> /\ link'.current = link.current
  BY DEF TakeEvent, SessionTypes, OnIdle, OnActivity, SendScreen, SendNothing, SetScreen
<1>2. streams' = streams \/ \E op \in Ops : streams' = Sent(op)
  BY OpsTyped DEF TakeEvent, OnIdle, OnActivity, SendScreen, SendNothing, SetScreen
<1>3. SameFarSide /\ SameStreams
  BY <1>1, <1>2, SentDoes DEF SameFarSide, SameStreams
<1>4. \/ event \in IdleEvents
      \/ event = Activity /\ phase' = "Active"
  BY <1>1, TailAt, EventsKnown, IdleEventsApart DEF TakeEvent, OnActivity
<1>5. CASE deaf
  BY <1>1, <1>5, TypesTakeEvent, NothingToHearNext DEF Heard
<1>6. CASE ~deaf
  <2>1. HeardFromWire' /\ HeardFromInbox' /\ HeardFromStream'
    BY <1>3, <1>6, FarSideKept, StreamsKept DEF Heard
  <2>2. LinkSpeaks => LinkSpeaks'
    BY <1>3, StreamsKept
  <2>3. LastIn(events, IdleEvents, {Activity})
           => \/ LastIn(Tail(events), IdleEvents, {Activity})
              \/ event = Activity /\ Free(Tail(events), IdleEvents)
    BY <1>1, LastTail
  <2>4. ~Free(Tail(events), IdleEvents) \/ event \in IdleEvents => ~Free(events, IdleEvents)
    BY <1>1, FreeTail
  <2>5. HeardFromQueue'
    <3> SUFFICES ASSUME ~Free(Tail(events), IdleEvents) \/ phase' # "Active"
                 PROVE  LastIn(Tail(events), IdleEvents, {Activity}) \/ LinkSpeaks'
      BY <1>1 DEF HeardFromQueue, QueueSpeaks
    <3>1. QueueSpeaks
      BY <1>4, <1>6, <2>4 DEF Heard, HeardFromQueue
    <3> QED
      BY <1>4, <2>2, <2>3, <3>1, IdleEventsApart DEF QueueSpeaks
  <2> QED
    BY <2>1, <2>5 DEF Heard
<1> QED
  BY <1>5, <1>6

LEMMA HeardEngine ==
  ASSUME SessionTypes, Heard,
         \/ Resumes
         \/ \E stages \in StageSets : ModeSwitched(stages)
         \/ \E display \in Displays : Reloaded(display)
  PROVE  Heard'
<1>1. /\ UNCHANGED <<agent, watcher, compositor, events>> /\ link'.current = link.current
      /\ phase' = phase \/ phase' = "Active"
  BY DEF Resumes, ModeSwitched, ReplaceStages, Reloaded, SetDisplay, SessionTypes, LinkType
<1>2. Resumes \/ \E op \in Ops : streams' = Sent(op)
  BY OpsTyped DEF ModeSwitched, ReplaceStages, Reloaded, SetDisplay
<1>3. SameFarSide
  BY <1>1 DEF SameFarSide
<1>4. SameStreams
  BY <1>1, <1>2, SentDoes, ResumesDoes DEF SameStreams
<1>5. CASE ~deaf' => ~deaf
  BY <1>1, <1>3, <1>4, <1>5, HeardKept
<1>6. CASE deaf /\ ~deaf'
  <2>1. Resumes
    BY <1>6 DEF ModeSwitched, Reloaded
  <2>2. phase' = "Active" /\ ~IdleInFlight'
    BY <1>6, <2>1 DEF Resumes
  <2> QED
    BY <2>1, <2>2, TypesResumes, NothingToHearNext
<1> QED
  BY <1>5, <1>6

LEMMA HeardDaemonDies ==
  ASSUME SessionTypes, Heard, DaemonDies
  PROVE  Heard'
<1>1. /\ events' = <<>> /\ phase' = "Active" /\ UNCHANGED <<agent, watcher, compositor>>
      /\ deaf' = (deaf /\ IdleInFlight')
      /\ \A id \in Streams : streams'[id].up = <<>>
  BY DaemonDiesDoes DEF DaemonDies
<1>2. CASE deaf
  BY <1>1, <1>2, TypesDaemonDies, NothingToHearNext DEF Heard
<1>3. CASE ~deaf
  <2>1. HeardFromWire' /\ HeardFromInbox'
    BY <1>1, <1>3, FarSideKept DEF SameFarSide, Heard
  <2>2. HeardFromStream' /\ HeardFromQueue'
    BY <1>1, EmptySays DEF HeardFromStream, HeardFromQueue
  <2> QED
    BY <2>1, <2>2 DEF Heard
<1> QED
  BY <1>2, <1>3

\* The tasks of the streams.
LEMMA HeardServeLine ==
  ASSUME SessionTypes, Heard, NEW id \in Streams, Serve(id), ServeLine(id)
  PROVE  Heard'
<1> DEFINE up == streams[id].up
           event == Head(up)
<1>1. /\ up # <<>> /\ up \in Seq(AgentEvents) /\ event \in AgentEvents
      /\ \A other \in Streams \ {id} : streams'[other] = streams[other]
      /\ \A other \in Streams : /\ streams'[other].goodbye = streams[other].goodbye
                                /\ streams'[other].hungUp = streams[other].hungUp
      /\ streams'[id].up = Tail(up) /\ link'.current = link.current
  BY ServeLineDoes
<1>2. /\ UNCHANGED <<agent, watcher, compositor, phase, deaf>>
      /\ events \in Seq(Told) /\ (link.current # NoStream => link.current \in Streams)
  BY AgentFields DEF Serve, history, SessionTypes
<1>3. SameFarSide
  BY <1>2 DEF SameFarSide
<1>4. \/ event \notin IdleEvents /\ event # Activity /\ events' = events
      \/ event \in Told /\ events' = Append(events, event)
  BY ServeLineDoes, IdleEventsApart, DisplayEventsApart, EventsKnown
<1> SUFFICES ASSUME ~deaf PROVE Heard'
  BY <1>2 DEF Heard
<1>5. LastIn(up, IdleEvents, {Activity})
         => \/ LastIn(Tail(up), IdleEvents, {Activity})
            \/ event = Activity /\ Free(Tail(up), IdleEvents)
  BY <1>1, LastTail
<1>6. ~Free(Tail(up), IdleEvents) \/ event \in IdleEvents => ~Free(up, IdleEvents)
  BY <1>1, FreeTail
<1> HIDE DEF event
<1>7. StreamSpeaks => \/ StreamSpeaks'
                      \/ link.current = id /\ event = Activity /\ Free(Tail(up), IdleEvents)
  BY <1>1, <1>2, <1>3, <1>5, FarSideKept DEF StreamSpeaks
<1>8. LinkSpeaks => LinkSpeaks' \/ event = Activity
  BY <1>1, <1>7 DEF LinkSpeaks
<1>9. HeardFromWire' /\ HeardFromInbox'
  BY <1>3, FarSideKept DEF Heard
<1>10. HeardFromStream'
  <2>1. ASSUME NEW other \in Streams, ~Free(streams'[other].up, IdleEvents)
        PROVE  other = link.current /\ StreamSpeaks'
    <3>1. ~Free(streams[other].up, IdleEvents)
      BY <1>1, <1>6, <2>1
    <3>2. other = link.current /\ StreamSpeaks
      BY <3>1 DEF Heard, HeardFromStream
    <3> QED
      BY <1>1, <1>7, <2>1, <3>2
  <2> QED
    BY <1>1, <2>1 DEF HeardFromStream
<1>11. HeardFromQueue'
  <2>1. CASE event = Activity /\ events' = Append(events, event)
    <3>1. LastIn(events', IdleEvents, {Activity})
      BY <1>2, <2>1, ChannelSends, EventsTyped
    <3> QED
      BY <3>1 DEF HeardFromQueue, QueueSpeaks
  <2>2. CASE event \in IdleEvents /\ event # Activity /\ event \in Told
    <3>1. StreamSpeaks
      BY <1>6, <2>2 DEF Heard, HeardFromStream
    <3>2. LinkSpeaks'
      BY <1>7, <2>2, <3>1 DEF LinkSpeaks
    <3> QED
      BY <3>2 DEF HeardFromQueue, QueueSpeaks
  <2>3. CASE event # Activity /\ events' = events
    <3>1. QueueSpeaks => QueueSpeaks'
      BY <1>8, <2>3 DEF QueueSpeaks
    <3> QED
      BY <1>2, <2>3, <3>1 DEF Heard, HeardFromQueue
  <2> QED
    BY <1>4, <2>1, <2>2, <2>3, IdleEventsApart
<1> QED
  BY <1>9, <1>10, <1>11 DEF Heard

LEMMA HeardServeEnd ==
  ASSUME SessionTypes, Wired, Heard, NEW id \in Streams, Serve(id), ServeEnd(id)
  PROVE  Heard'
<1>1. /\ \A other \in Streams \ {id} : streams'[other] = streams[other]
      /\ streams'[id].up = <<>> /\ streams[id].serving /\ ~streams[id].goodbye
      /\ link.current = id => link' = Unregistered /\ streams'[id].goodbye
      /\ link.current # id => link' = link /\ ~streams'[id].goodbye
      /\ events' = events
  BY ServeEndDoes DEF Wired, ServeEnd, LoopEnds
<1>2. /\ UNCHANGED <<agent, watcher, compositor, phase, deaf>>
      /\ link.current # NoStream => link.current \in Streams
  BY AgentFields DEF Serve, history
<1>3. SameFarSide
  BY <1>2 DEF SameFarSide
<1> SUFFICES ASSUME ~deaf PROVE Heard'
  BY <1>2 DEF Heard
<1>4. HeardFromWire' /\ HeardFromInbox'
  BY <1>3, FarSideKept DEF Heard
<1>5. CASE link.current = id
  <2>1. LinkSpeaks'
    BY <1>1, <1>5 DEF LinkSpeaks
  <2>2. HeardFromStream'
    BY <1>1, <1>5, EmptySays DEF Heard, HeardFromStream
  <2> QED
    BY <1>4, <2>1, <2>2 DEF Heard, HeardFromQueue, QueueSpeaks
<1>6. CASE link.current # id
  <2>1. StreamSpeaks => StreamSpeaks'
    BY <1>1, <1>2, <1>3, <1>6, FarSideKept DEF StreamSpeaks
  <2>2. LinkSpeaks => LinkSpeaks'
    BY <1>1, <2>1 DEF LinkSpeaks
  <2>3. HeardFromStream'
    BY <1>1, <1>6, <2>1, EmptySays DEF Heard, HeardFromStream
  <2>4. HeardFromQueue'
    BY <1>1, <1>2, <2>2 DEF Heard, HeardFromQueue, QueueSpeaks
  <2> QED
    BY <1>4, <2>3, <2>4 DEF Heard
<1> QED
  BY <1>5, <1>6

LEMMA HeardSayGoodbye ==
  ASSUME SessionTypes, Heard, NEW id \in Streams, Serve(id), SayGoodbye(id)
  PROVE  Heard'
<1>1. /\ link' = link /\ events' = Append(events, Activity) /\ events \in Seq(Told)
      /\ \A other \in Streams : /\ streams'[other].hungUp = streams[other].hungUp
                                /\ streams'[other].up = streams[other].up
  BY SayGoodbyeDoes DEF SessionTypes
<1>2. /\ UNCHANGED <<agent, watcher, compositor, phase, deaf>>
      /\ link.current # NoStream => link.current \in Streams
  BY AgentFields DEF Serve, history
<1>3. SameFarSide
  BY <1>2 DEF SameFarSide
<1> SUFFICES ASSUME ~deaf PROVE Heard'
  BY <1>2 DEF Heard
<1>4. HeardFromWire' /\ HeardFromInbox'
  BY <1>3, FarSideKept DEF Heard
<1>5. HeardFromStream'
  <2>1. StreamSpeaks => StreamSpeaks'
    BY <1>1, <1>2, <1>3, FarSideKept DEF StreamSpeaks
  <2> QED
    BY <1>1, <2>1 DEF Heard, HeardFromStream
<1>6. HeardFromQueue'
  <2>1. LastIn(events', IdleEvents, {Activity})
    BY <1>1, ChannelSends, EventsTyped
  <2> QED
    BY <2>1 DEF HeardFromQueue, QueueSpeaks
<1> QED
  BY <1>4, <1>5, <1>6 DEF Heard

\* The agent comes and goes.  Without a stream it speaks to nobody.
LEMMA HeardAlone ==
  ASSUME Heard, agent'.conn = NoStream, agent'.inbox = <<>>, HeardFromWire => HeardFromWire',
         UNCHANGED <<link, events, phase, deaf>>, StreamSpeaks => StreamSpeaks',
         \A id \in Streams : /\ streams'[id].goodbye = streams[id].goodbye
                             /\ Free(streams[id].up, IdleEvents)
                                   => Free(streams'[id].up, IdleEvents)
  PROVE  Heard'
<1> SUFFICES ASSUME ~deaf PROVE Heard'
  BY DEF Heard
<1>1. HeardFromWire'
  BY DEF Heard
<1>2. HeardFromInbox'
  BY EmptySays DEF HeardFromInbox
<1>3. HeardFromStream'
  BY DEF Heard, HeardFromStream
<1>4. LinkSpeaks => LinkSpeaks'
  BY DEF LinkSpeaks
<1>5. HeardFromQueue'
  BY <1>4 DEF Heard, HeardFromQueue, QueueSpeaks
<1> QED
  BY <1>1, <1>2, <1>3, <1>5 DEF Heard

LEMMA WireKept ==
  ASSUME UNCHANGED <<watcher, compositor>>
  PROVE  HeardFromWire => HeardFromWire'
BY DEF HeardFromWire, WireSpeaks, CompositorSpeaks, First

LEMMA HeardAgentGoes ==
  ASSUME SessionTypes, Wired, Heard, AgentDies \/ HangUp
  PROVE  Heard'
<1> DEFINE conn == agent.conn
           current == link.current
<1>1. /\ agent'.conn = NoStream /\ agent'.inbox = <<>>
      /\ UNCHANGED <<link, events, phase, deaf>>
      /\ AgentDies => compositor'.wire = <<>>
      /\ HangUp => compositor' = compositor /\ watcher' = watcher
      /\ streams' = IF conn = NoStream THEN streams ELSE Left(conn)
  <2>1. CASE AgentDies
    <3>1. compositor'.wire = <<>>
      BY <2>1 DEF AgentDies, Forget, SessionTypes, CompositorType
    <3>2. agent'.conn = NoStream /\ agent'.inbox = <<>>
      BY <2>1 DEF AgentDies, NewAgent
    <3>3. CASE HangUp
      BY <2>1, <3>1, <3>2, <3>3 DEF AgentDies, HangUp
    <3>4. CASE ~HangUp
      BY <2>1, <3>1, <3>2, <3>4 DEF AgentDies
    <3> QED
      BY <3>3, <3>4
  <2>2. CASE HangUp /\ ~AgentDies
    <3>1. agent'.conn = NoStream /\ agent'.inbox = <<>>
      BY <2>2 DEF HangUp, SessionTypes, AgentType
    <3> QED
      BY <2>2, <3>1 DEF HangUp
  <2> QED
    BY <2>1, <2>2
<1>2. /\ current # NoStream => current \in Streams /\ streams[current].serving
      /\ conn # NoStream => conn \in Streams
  BY AgentFields DEF Wired
<1>3. HeardFromWire => HeardFromWire'
  BY <1>1, WireKept, EmptySays DEF HeardFromWire
<1>4. CASE conn = NoStream
  <2>1. StreamSpeaks => StreamSpeaks'
    BY <1>1, <1>4 DEF StreamSpeaks
  <2> QED
    BY <1>1, <1>3, <1>4, <2>1, HeardAlone
<1>5. CASE conn # NoStream
  <2>1. streams' = Left(conn)
    BY <1>1, <1>5
  <2>2. /\ \A other \in Streams \ {conn} : streams'[other] = streams[other]
        /\ streams'[conn].goodbye = streams[conn].goodbye
        /\ streams[conn].serving => streams'[conn].hungUp /\ streams'[conn].up = streams[conn].up
        /\ ~streams[conn].serving => streams'[conn].up = <<>>
    BY <1>2, <1>5, <2>1, LeftTyped
  <2>3. StreamSpeaks => StreamSpeaks'
    BY <1>1, <1>2, <2>2 DEF StreamSpeaks
  <2>4. \A id \in Streams : /\ streams'[id].goodbye = streams[id].goodbye
                            /\ Free(streams[id].up, IdleEvents)
                                  => Free(streams'[id].up, IdleEvents)
    BY <2>2, EmptySays
  <2> QED
    BY <1>1, <1>3, <2>3, <2>4, HeardAlone
<1> QED
  BY <1>4, <1>5

LEMMA HeardUnconnected ==
  ASSUME SessionTypes, Wired, Watches, Heard, AgentStarts \/ ConnectFails
  PROVE  Heard'
<1>1. /\ agent.conn = NoStream /\ agent'.conn = NoStream /\ agent'.inbox = <<>>
      /\ UNCHANGED <<link, streams, events, phase, deaf, compositor>>
      /\ watcher' = watcher \/ compositor.wire = <<>>
  <2>1. CASE AgentStarts
    BY <2>1 DEF AgentStarts, NewAgent, linkVars, history, Wired, Watches
  <2>2. CASE ConnectFails
    BY <2>2 DEF ConnectFails, linkVars, history, SessionTypes, AgentType
  <2> QED
    BY <2>1, <2>2
<1>2. StreamSpeaks => StreamSpeaks'
  BY <1>1 DEF StreamSpeaks
<1>3. HeardFromWire => HeardFromWire'
  BY <1>1, WireKept, EmptySays DEF HeardFromWire
<1> QED
  BY <1>1, <1>2, <1>3, HeardAlone

\* A registration that finds an agent not missed yet leaves the engine deaf,
\* unless it has nothing to be told.
LEMMA HeardConnect ==
  ASSUME SessionTypes, Wired, Heard, Connect
  PROVE  Heard'
<1> DEFINE id == link.nextId
           first == <<DisplayEvent(Available(agent.display))>>
<1>1. /\ id \in Streams /\ link'.current = id /\ agent'.conn = id /\ agent'.inbox = agent.inbox
      /\ streams'[id].up = first /\ ~streams'[id].goodbye
      /\ \A other \in Streams \ {id} : streams'[other] = streams[other]
      /\ UNCHANGED <<events, phase, watcher, compositor>>
      /\ deaf' = (deaf \/ (link.current # NoStream /\ (phase # "Active" \/ IdleInFlight)))
  BY ConnectDoes DEF Connect, Register
<1>2. agent.conn = NoStream /\ ~streams[id].goodbye
  BY <1>1, AgentFields DEF Connect, Wired
<1>3. Free(first, IdleEvents)
  BY IdleEventsApart DEF Free
<1> HIDE DEF first
<1> SUFFICES ASSUME ~deaf' PROVE Heard'
  BY DEF Heard
<1>4. CASE link.current = NoStream
  <2>1. ~StreamSpeaks
    BY <1>4 DEF StreamSpeaks
  <2>2. LinkSpeaks => LinkSpeaks'
    BY <1>1, <1>2, <2>1 DEF LinkSpeaks
  <2>3. HeardFromQueue'
    BY <1>1, <2>2 DEF Heard, HeardFromQueue, QueueSpeaks
  <2>4. HeardFromStream'
    BY <1>1, <1>3, <2>1 DEF Heard, HeardFromStream
  <2>5. WireSpeaks' <=> WireSpeaks
    BY <1>1 DEF WireSpeaks, CompositorSpeaks, First
  <2>6. HeardFromWire' /\ HeardFromInbox'
    BY <1>1, <2>5 DEF Heard, HeardFromWire, HeardFromInbox, InboxSpeaks
  <2> QED
    BY <2>3, <2>4, <2>6 DEF Heard
<1>5. CASE phase = "Active" /\ ~IdleInFlight
  <2>1. /\ Free(events, IdleEvents) /\ Free(agent.inbox, IdleEvents)
        /\ Free(compositor.wire, IdledEvents)
        /\ \A other \in Streams : Free(streams[other].up, IdleEvents)
    BY <1>5, NothingInFlight
  <2> QED
    BY <1>1, <1>3, <1>5, <2>1
       DEF Heard, HeardFromWire, HeardFromInbox, HeardFromStream, HeardFromQueue
<1> QED
  BY <1>1, <1>4, <1>5

\* The agent reads and writes.
LEMMA HeardRead == ASSUME SessionTypes, Heard, ReadOp PROVE Heard'
<1> DEFINE id == agent.conn
           op == Head(streams[id].down)
           up == streams[id].up
<1>1. id \in Streams /\ up \in Seq(AgentEvents)
  BY OpAt
<1>2. /\ UNCHANGED <<link, events, phase, compositor, deaf>>
      /\ SameFarSide
  <2>1. CASE op.display \in Displays /\ ApplyDisplay(op.display)
    BY <2>1, DisplayDoes DEF ReadOp, ApplyDisplay, SameFarSide
  <2>2. CASE op.stages \in StageSets /\ ApplyStages(op.stages)
    BY <2>2, StagesDoes DEF ReadOp, Requested, SameFarSide
  <2>3. CASE op.on \in BOOLEAN /\ ApplyScreen(op.on)
    <3>1. agent'.conn = agent.conn /\ agent'.inbox = agent.inbox
      BY <2>3, ScreenDoes DEF Remembers
    <3>2. /\ watcher'.session = watcher.session /\ watcher'.announced = watcher.announced
          /\ watcher'.stages = watcher.stages
      BY <2>3, ScreenDoes DEF Requested
    <3> QED
      BY <3>1, <3>2 DEF ReadOp, SameFarSide
  <2> QED
    BY <2>1, <2>2, <2>3, OpAt
<1>3. PICK answer : ReadsLine(answer) /\ (answer = <<>>
                       \/ \E available \in BOOLEAN : answer = <<DisplayEvent(available)>>)
  <2>1. op.display \in Displays /\ ApplyDisplay(op.display)
           => ReadsLine(<<DisplayEvent(Available(op.display))>>)
    BY DisplayDoes
  <2>2. /\ op.stages \in StageSets /\ ApplyStages(op.stages) => ReadsLine(<<>>)
        /\ op.on \in BOOLEAN /\ ApplyScreen(op.on) => ReadsLine(<<>>)
    BY StagesDoes, ScreenDoes
  <2> QED
    BY <2>1, <2>2, OpAt, AvailableTyped
<1>4. /\ \A other \in Streams \ {id} : streams'[other] = streams[other]
      /\ streams'[id].hungUp = streams[id].hungUp /\ streams'[id].goodbye = streams[id].goodbye
      /\ streams'[id].up = up \/ streams'[id].up = up \o answer
  BY <1>3 DEF ReadsLine
<1>5. /\ Free(up, IdleEvents) => Free(streams'[id].up, IdleEvents)
      /\ LastIn(up, IdleEvents, {Activity}) => LastIn(streams'[id].up, IdleEvents, {Activity})
  <2>1. CASE streams'[id].up = up
    BY <2>1
  <2>2. CASE streams'[id].up = up \o answer
    <3>1. CASE answer = <<>>
      BY <1>1, <2>2, <3>1, EmptyConcat
    <3>2. ASSUME NEW available \in BOOLEAN, answer = <<DisplayEvent(available)>>
          PROVE  /\ Free(up, IdleEvents) => Free(streams'[id].up, IdleEvents)
                 /\ LastIn(up, IdleEvents, {Activity})
                       => LastIn(streams'[id].up, IdleEvents, {Activity})
      <4> DEFINE event == DisplayEvent(available)
      <4>1. event \in AgentEvents /\ event \notin IdleEvents
        BY EventsTyped, IdleEventsApart
      <4>2. streams'[id].up = up \o <<event>>
        BY <2>2, <3>2
      <4> HIDE DEF event
      <4>3. streams'[id].up = Append(up, event)
        BY <1>1, <4>1, <4>2, AppendConcat
      <4> QED
        BY <1>1, <4>1, <4>3, ChannelSends
    <3> QED
      BY <1>3, <3>1, <3>2
  <2> QED
    BY <1>4, <2>1, <2>2
<1>6. SameStreams
  BY <1>2, <1>4, <1>5 DEF SameStreams
<1> QED
  BY <1>2, <1>6, HeardKept

LEMMA HeardForward ==
  ASSUME SessionTypes, Wired, Heard, Forward
  PROVE  Heard'
<1> DEFINE id == agent.conn
           event == Head(agent.inbox)
           line == Line(event)
           up == streams[id].up
           inbox == agent.inbox
<1>1. /\ id \in Streams /\ inbox # <<>> /\ event \in Inbox /\ inbox \in Seq(Inbox)
      /\ up \in Seq(AgentEvents) /\ line \in AgentEvents
      /\ InboxBecomes(Tail(inbox))
      /\ \A other \in Streams \ {id} : streams'[other] = streams[other]
      /\ streams'[id].hungUp = streams[id].hungUp
      /\ streams'[id].goodbye = streams[id].goodbye
      /\ streams'[id].up = IF streams[id].serving THEN Append(up, line) ELSE up
  BY ForwardDoes, AgentFields
<1>2. /\ UNCHANGED <<link, events, phase, watcher, compositor, deaf>>
      /\ agent'.conn = id /\ agent'.inbox = Tail(inbox)
  BY <1>1 DEF Forward, InboxBecomes, history
<1>3. /\ (link.current = id) <=> streams[id].serving
      /\ link.current # NoStream => link.current \in Streams
      /\ id # NoStream
  BY AgentFields DEF Wired, Forward
<1>4. \/ event = Activity /\ line = Activity
      \/ event \in IdleEvents /\ line = event /\ event # Activity
      \/ event # Activity /\ event \notin IdleEvents /\ line \notin IdleEvents
  <2>1. event = Backend => line \notin IdleEvents
    BY IdleEventsApart DEF Line
  <2>2. event # Backend => line = event /\ event \in Told
    BY <1>1, EventsKnown DEF Line
  <2>3. Backend # Activity /\ Backend \notin IdleEvents
    BY EventsKnown, EventsTyped, IdleEventsApart
  <2> HIDE DEF event, line
  <2> QED
    BY <2>1, <2>2, <2>3, IdleEventsApart
<1>5. LastIn(inbox, IdleEvents, {Activity})
         => \/ LastIn(Tail(inbox), IdleEvents, {Activity})
            \/ event = Activity /\ Free(Tail(inbox), IdleEvents)
  BY <1>1, LastTail
<1>6. ~Free(Tail(inbox), IdleEvents) \/ event \in IdleEvents => ~Free(inbox, IdleEvents)
  BY <1>1, FreeTail
<1>7. /\ line \notin IdleEvents /\ Free(up, IdleEvents) => Free(Append(up, line), IdleEvents)
      /\ line \notin IdleEvents /\ LastIn(up, IdleEvents, {Activity})
            => LastIn(Append(up, line), IdleEvents, {Activity})
      /\ line = Activity => LastIn(Append(up, line), IdleEvents, {Activity})
  BY <1>1, ChannelSends
<1> HIDE DEF event, line
<1> SUFFICES ASSUME ~deaf PROVE Heard'
  BY <1>2 DEF Heard
<1>8. WireSpeaks' <=> WireSpeaks
  BY <1>2 DEF WireSpeaks, CompositorSpeaks, First
<1>9. InboxSpeaks => \/ InboxSpeaks'
                     \/ event = Activity /\ Free(Tail(inbox), IdleEvents)
  BY <1>2, <1>5, <1>8 DEF InboxSpeaks
<1>10. event \in IdleEvents => InboxSpeaks'
  BY <1>4, <1>6, <1>9, IdleEventsApart DEF Heard, HeardFromInbox
<1>11. StreamSpeaks => StreamSpeaks'
  <2>1. CASE link.current # id
    BY <1>1, <1>2, <1>3, <2>1 DEF StreamSpeaks
  <2>2. CASE link.current = id
    <3>1. streams'[id].up = Append(up, line)
      BY <1>1, <1>3, <2>2
    <3> QED
      BY <1>1, <1>2, <1>4, <1>7, <1>9, <1>10, <2>2, <3>1 DEF StreamSpeaks
  <2> QED
    BY <2>1, <2>2
<1>12. HeardFromWire' /\ HeardFromInbox'
  BY <1>2, <1>6, <1>8, <1>9 DEF Heard, HeardFromWire, HeardFromInbox
<1>13. HeardFromStream'
  <2>1. ASSUME NEW other \in Streams, ~Free(streams'[other].up, IdleEvents)
        PROVE  other = link.current /\ StreamSpeaks'
    <3>1. CASE ~Free(streams[other].up, IdleEvents)
      BY <1>11, <3>1 DEF Heard, HeardFromStream
    <3>2. CASE Free(streams[other].up, IdleEvents)
      <4>1. other = id /\ link.current = id /\ line \in IdleEvents
        BY <1>1, <1>3, <1>7, <2>1, <3>2
      <4>2. InboxSpeaks'
        BY <1>4, <1>10, <4>1, IdleEventsApart
      <4> QED
        BY <1>2, <1>3, <4>1, <4>2 DEF StreamSpeaks
    <3> QED
      BY <3>1, <3>2
  <2> QED
    BY <1>2, <2>1 DEF HeardFromStream
<1>14. HeardFromQueue'
  <2>1. LinkSpeaks => LinkSpeaks'
    BY <1>1, <1>11 DEF LinkSpeaks
  <2> QED
    BY <1>2, <2>1 DEF Heard, HeardFromQueue, QueueSpeaks
<1> QED
  BY <1>12, <1>13, <1>14 DEF Heard

\* The sessions of the watcher.
LEMMA HeardSessions ==
  ASSUME SessionTypes, Watches, Heard, SessionStarts \/ SessionFails \/ SessionEnds
  PROVE  Heard'
<1>1. agent.inbox \in Seq(Inbox) /\ Backend \in Inbox /\ Activity \in Inbox
  BY AgentFields, EventsTyped
<1>2. UNCHANGED <<link, streams, events, phase, deaf>>
  BY DEF SessionStarts, SessionFails, SessionEnds, linkVars, history
<1> SUFFICES ASSUME ~deaf PROVE Heard'
  BY <1>2 DEF Heard
<1>3. CASE SessionStarts
  <2>1. /\ agent'.conn = agent.conn /\ agent'.inbox = Append(agent.inbox, Backend)
        /\ compositor'.wire = <<>> /\ compositor.wire = <<>> /\ ~watcher.session
    BY <1>3, SessionStartsDoes DEF InboxBecomes, Watches
  <2>2. ~WireSpeaks
    BY <2>1, EmptySays DEF WireSpeaks, CompositorSpeaks
  <2>3. /\ LastIn(agent.inbox, IdleEvents, {Activity})
              => LastIn(agent'.inbox, IdleEvents, {Activity})
        /\ Free(agent.inbox, IdleEvents) => Free(agent'.inbox, IdleEvents)
    BY <1>1, <2>1, ChannelSends, IdleEventsApart
  <2>4. InboxSpeaks => InboxSpeaks'
    BY <2>2, <2>3 DEF InboxSpeaks
  <2>5. HeardFromWire' /\ HeardFromInbox'
    BY <2>1, <2>3, <2>4, EmptySays DEF Heard, HeardFromWire, HeardFromInbox
  <2> QED
    BY <1>2, <2>1, <2>4, <2>5, HeardFarSide
<1>4. CASE SessionFails
  <2>1. UNCHANGED <<agent, compositor>> /\ compositor.wire = <<>> /\ ~watcher.session
    BY <1>4 DEF SessionFails, Watches
  <2>2. ~WireSpeaks
    BY <2>1, EmptySays DEF WireSpeaks, CompositorSpeaks
  <2>3. InboxSpeaks => InboxSpeaks'
    BY <2>1, <2>2 DEF InboxSpeaks
  <2>4. HeardFromWire' /\ HeardFromInbox'
    BY <2>1, <2>3, EmptySays DEF Heard, HeardFromWire, HeardFromInbox
  <2> QED
    BY <1>2, <2>1, <2>3, <2>4, HeardFarSide
<1>5. CASE SessionEnds
  <2>1. /\ agent'.conn = agent.conn /\ compositor'.wire = <<>> /\ ~compositor.linked
        /\ agent'.inbox = agent.inbox \o (IF watcher.announced THEN <<Backend, Activity>>
                                          ELSE <<>>)
    BY <1>5, SessionEndsDoes DEF InboxBecomes
  <2>2. HeardFromWire'
    BY <2>1, EmptySays DEF HeardFromWire
  <2>3. CASE watcher.announced
    <3> DEFINE told == Append(agent.inbox, Backend)
    <3>1. agent'.inbox = Append(told, Activity)
      BY <1>1, <2>1, <2>3, TwoAppended
    <3>2. told \in Seq(Inbox)
      BY <1>1, AppendTyped
    <3> HIDE DEF told
    <3>3. LastIn(agent'.inbox, IdleEvents, {Activity})
      BY <1>1, <3>1, <3>2, LastSaid
    <3>4. InboxSpeaks'
      BY <3>3 DEF InboxSpeaks
    <3> QED
      BY <1>2, <2>1, <2>2, <3>4, HeardFarSide DEF HeardFromInbox
  <2>4. CASE ~watcher.announced
    <3>1. agent'.inbox = agent.inbox
      BY <1>1, <2>1, <2>4, EmptyConcat
    <3>2. ~WireSpeaks
      BY <2>1, <2>4, EmptySays DEF WireSpeaks, CompositorSpeaks, Watches
    <3>3. InboxSpeaks => InboxSpeaks'
      BY <3>1, <3>2 DEF InboxSpeaks
    <3>4. HeardFromInbox'
      BY <3>1, <3>3 DEF Heard, HeardFromInbox
    <3> QED
      BY <1>2, <2>1, <2>2, <3>3, <3>4, HeardFarSide
  <2> QED
    BY <2>3, <2>4
<1> QED
  BY <1>3, <1>4, <1>5

LEMMA HeardTakeRequest ==
  ASSUME SessionTypes, Heard, TakeRequest
  PROVE  Heard'
<1> DEFINE op == Head(watcher.requests)
<1>1. UNCHANGED <<link, streams, events, phase, agent>>
  BY DEF TakeRequest, linkVars
<1>2. CASE op.stages \in StageSets /\ SetStages(op.stages)
  <2>1. /\ RequestTaken /\ compositor'.linked = compositor.linked
        /\ compositor'.wire = <<>> /\ compositor'.idled = {}
        /\ ~deaf' => ~deaf /\ compositor.idled = {}
        /\ ~deaf' => \A i \in 1..Len(compositor.wire) : compositor.wire[i].event # "resumed"
    BY <1>2, SetStagesDoes
  <2> SUFFICES ASSUME ~deaf' PROVE Heard'
    BY DEF Heard
  <2>2. ~LastIn(compositor.wire, IdledEvents, {First})
    <3>1. First.event = "resumed"
      BY DEF First, Resumed
    <3> QED
      BY <2>1, <3>1 DEF LastIn
  <2>3. WireSpeaks => WireSpeaks'
    <3>1. CompositorSpeaks => CompositorSpeaks'
      BY <2>1 DEF CompositorSpeaks, RequestTaken
    <3> QED
      BY <2>2, <3>1 DEF WireSpeaks
  <2>4. InboxSpeaks => InboxSpeaks'
    BY <1>1, <2>3 DEF InboxSpeaks
  <2>5. HeardFromWire' /\ HeardFromInbox'
    BY <1>1, <2>1, <2>4, EmptySays DEF Heard, HeardFromWire, HeardFromInbox
  <2> QED
    BY <1>1, <2>1, <2>4, <2>5, HeardFarSide
<1>3. CASE op.on \in BOOLEAN /\ SetOutputs(op.on)
  <2>1. /\ RequestTaken /\ watcher'.stages = watcher.stages /\ UNCHANGED <<compositor, deaf>>
    BY <1>3, SetOutputsDoes
  <2>2. SameFarSide /\ SameStreams
    BY <1>1, <2>1 DEF RequestTaken, SameFarSide, SameStreams
  <2> QED
    BY <1>1, <2>1, <2>2, HeardKept
<1> QED
  BY <1>2, <1>3, RequestAt

\* The compositor.
LEMMA HeardDispatch ==
  ASSUME SessionTypes, Heard, Dispatch
  PROVE  Heard'
<1> DEFINE event == Head(compositor.wire)
           wire == compositor.wire
           said == Spoken(event)
<1>1. /\ wire # <<>> /\ event \in Wire /\ wire \in Seq(Wire) /\ agent.inbox \in Seq(Inbox)
      /\ UNCHANGED <<link, streams, events, phase, watcher, deaf>>
      /\ agent'.conn = agent.conn /\ agent'.inbox = agent.inbox \o said
      /\ compositor'.wire = Tail(wire) /\ compositor'.idled = compositor.idled
      /\ compositor'.linked = compositor.linked
  BY DispatchDoes, AgentFields, WatcherFields
     DEF Dispatch, InboxBecomes, CompositorSays, linkVars, history
<1> SUFFICES ASSUME ~deaf PROVE Heard'
  BY <1>1 DEF Heard
<1>2. First' = First /\ (CompositorSpeaks' <=> CompositorSpeaks)
  BY <1>1 DEF First, CompositorSpeaks
<1>3. LastIn(wire, IdledEvents, {First})
         => \/ LastIn(Tail(wire), IdledEvents, {First})
            \/ event = First /\ Free(Tail(wire), IdledEvents)
  BY <1>1, LastTail
<1>4. ~Free(Tail(wire), IdledEvents) \/ event \in IdledEvents => ~Free(wire, IdledEvents)
  BY <1>1, FreeTail
<1>5. \/ event = First /\ said = <<Activity>>
      \/ event # First /\ event \in IdledEvents /\ said = <<IdleEvent(event.stage)>>
         /\ event.stage \in Stages
      \/ event # First /\ said = <<>>
  <2>1. \/ event.event = "idled" /\ event = Idled(event.stage) /\ event.stage \in Stages
        \/ event.event = "resumed" /\ event = Resumed(event.stage)
    BY <1>1, EventsKnown
  <2>2. First = Resumed(Primary(watcher.stages))
    BY DEF First
  <2>3. CASE event.event = "idled" /\ event = Idled(event.stage) /\ event.stage \in Stages
    <3>1. said = <<IdleEvent(event.stage)>>
      BY <2>3 DEF Spoken
    <3>2. event \in IdledEvents
      BY <2>3, IdleEventsApart
    <3> HIDE DEF event, said
    <3> QED
      BY <2>2, <2>3, <3>1, <3>2, IdleEventsApart
  <2>4. CASE event.event = "resumed" /\ event = Resumed(event.stage)
    <3>1. said = IF event.stage = Primary(watcher.stages) THEN <<Activity>> ELSE <<>>
      BY <2>4 DEF Spoken
    <3> HIDE DEF event, said
    <3> QED
      BY <2>2, <2>4, <3>1, IdleEventsApart
  <2> QED
    BY <2>1, <2>3, <2>4
<1> HIDE DEF event, said
<1>6. WireSpeaks => \/ WireSpeaks'
                    \/ event = First /\ Free(Tail(wire), IdledEvents)
  BY <1>1, <1>2, <1>3 DEF WireSpeaks
<1>7. HeardFromWire'
  BY <1>1, <1>4, <1>6 DEF Heard, HeardFromWire
<1>8. CASE event = First /\ said = <<Activity>>
  <2>1. agent'.inbox = Append(agent.inbox, Activity)
    BY <1>1, <1>8, AppendConcat, EventsTyped
  <2>2. LastIn(agent'.inbox, IdleEvents, {Activity})
    BY <1>1, <2>1, LastSaid, EventsTyped
  <2>3. InboxSpeaks'
    BY <2>2 DEF InboxSpeaks
  <2> QED
    BY <1>1, <1>7, <2>3, HeardFarSide DEF HeardFromInbox
<1>9. CASE event # First /\ event \in IdledEvents
  <2>1. WireSpeaks'
    BY <1>4, <1>6, <1>9 DEF Heard, HeardFromWire
  <2>2. InboxSpeaks'
    BY <2>1 DEF InboxSpeaks
  <2> QED
    BY <1>1, <1>7, <2>2, HeardFarSide DEF HeardFromInbox
<1>10. CASE event # First /\ said = <<>>
  <2>1. agent'.inbox = agent.inbox
    BY <1>1, <1>10, EmptyConcat
  <2>2. InboxSpeaks => InboxSpeaks'
    BY <1>6, <1>10, <2>1 DEF InboxSpeaks
  <2>3. HeardFromInbox'
    BY <2>1, <2>2 DEF Heard, HeardFromInbox
  <2> QED
    BY <1>1, <1>7, <2>2, <2>3, HeardFarSide
<1> QED
  BY <1>5, <1>8, <1>9, <1>10

LEMMA HeardCompositor ==
  ASSUME SessionTypes, Watches, Heard,
         CompositorDies \/ \E kind \in Kinds : CompositorStarts(kind)
  PROVE  Heard'
<1>1. /\ UNCHANGED <<link, streams, events, phase, agent, watcher, deaf>>
      /\ compositor'.wire = compositor.wire
  BY CompositorStartsDoes, CompositorDiesDoes
     DEF CompositorDies, CompositorStarts, linkVars, history
<1> SUFFICES ASSUME ~deaf PROVE Heard'
  BY <1>1 DEF Heard
<1>2. CompositorSpeaks => CompositorSpeaks'
  <2>1. CASE CompositorDies
    <3>1. ~compositor'.linked
      BY <2>1, CompositorDiesDoes
    <3>2. CompositorSpeaks => watcher.announced
      BY DEF CompositorSpeaks, Watches
    <3> QED
      BY <1>1, <3>1, <3>2 DEF CompositorSpeaks
  <2>2. ASSUME NEW kind \in Kinds, CompositorStarts(kind)
        PROVE  CompositorSpeaks => CompositorSpeaks'
    BY <1>1, <2>2, CompositorStartsDoes DEF CompositorSpeaks
  <2> QED
    BY <2>1, <2>2
<1>3. WireSpeaks => WireSpeaks'
  BY <1>1, <1>2 DEF WireSpeaks, First
<1>4. InboxSpeaks => InboxSpeaks'
  BY <1>1, <1>3 DEF InboxSpeaks
<1>5. HeardFromWire' /\ HeardFromInbox'
  BY <1>1, <1>3, <1>4 DEF Heard, HeardFromWire, HeardFromInbox
<1> QED
  BY <1>1, <1>4, <1>5, HeardFarSide

LEMMA HeardUser ==
  ASSUME SessionTypes, Watches, Heard, UserIsBack \/ \E stage \in Stages : UserIsAway(stage)
  PROVE  Heard'
<1>1. UNCHANGED <<link, streams, events, phase, agent, watcher, deaf>>
  BY DEF UserIsAway, UserIsBack, linkVars, history
<1>2. WireSpeaks'
  <2>1. ASSUME NEW stage \in Stages, UserIsAway(stage) PROVE WireSpeaks'
    <3>1. /\ Primary(watcher.stages) \in compositor'.idled /\ compositor'.linked
          /\ watcher'.session
      BY <1>1, <2>1, AwayDoes, FirstStage DEF CompositorSays, Watches
    <3> QED
      BY <1>1, <3>1 DEF WireSpeaks, CompositorSpeaks
  <2>2. CASE UserIsBack
    <3> DEFINE dim == ResumedIf("Dim")
               off == ResumedIf("ScreenOff")
               wire == compositor.wire
               first == Primary(watcher.stages)
    <3>1. first \in compositor.idled /\ first \in {"Dim", "ScreenOff"}
      BY <2>2 DEF UserIsBack, Watches, Primary
    <3>2. /\ dim \in Seq(Wire) /\ off \in Seq(Wire) /\ wire \in Seq(Wire)
          /\ compositor'.wire = (wire \o dim) \o off
      BY <2>2, BackDoes, WatcherFields DEF CompositorSays
    <3>3. \A stage : stage = first => LastIn(ResumedIf(stage), IdledEvents, {First})
      BY <3>1, LastSingle DEF ResumedIf, First
    <3>4. Free(off, IdledEvents)
      BY IdleEventsApart DEF ResumedIf, Free
    <3> HIDE DEF dim, off
    <3>5. wire \o dim \in Seq(Wire)
      BY <3>2, ConcatAt
    <3>6. LastIn(compositor'.wire, IdledEvents, {First})
      <4>1. CASE first = "Dim"
        <5>1. LastIn(dim, IdledEvents, {First})
          BY <3>3, <4>1 DEF dim
        <5>2. LastIn(wire \o dim, IdledEvents, {First})
          BY <3>2, <5>1, LastAfter
        <5> QED
          BY <3>2, <3>4, <3>5, <5>2, LastBefore
      <4>2. CASE first = "ScreenOff"
        <5>1. LastIn(off, IdledEvents, {First})
          BY <3>3, <4>2 DEF off
        <5> QED
          BY <3>2, <3>5, <5>1, LastAfter
      <4> QED
        BY <3>1, <4>1, <4>2
    <3> QED
      BY <1>1, <3>6 DEF WireSpeaks, First
  <2> QED
    BY <2>1, <2>2
<1>3. HeardFromWire' /\ HeardFromInbox' /\ InboxSpeaks'
  BY <1>2 DEF HeardFromWire, HeardFromInbox, InboxSpeaks
<1> QED
  BY <1>1, <1>3, HeardFarSide

LEMMA HeardInit == Init => Heard
<1> SUFFICES ASSUME Init PROVE Heard
  OBVIOUS
<1>1. /\ events = <<>> /\ phase = "Active" /\ agent.inbox = <<>> /\ compositor.wire = <<>>
      /\ \A id \in Streams : streams[id].up = <<>>
  BY DEF Init, LinkInit, Unused, NewAgent, Compositor
<1> QED
  BY <1>1, EmptySays DEF Heard, HeardFromWire, HeardFromInbox, HeardFromStream, HeardFromQueue

LEMMA HeardStep ==
  ASSUME SessionTypes, Wired, Watches, Heard, [Next]_sessionVars
  PROVE  Heard'
<1>1. CASE UNCHANGED sessionVars
  BY <1>1, HeardKept DEF sessionVars, linkVars, SameFarSide, SameStreams
<1>2. ASSUME NEW id \in Streams, Serve(id) PROVE Heard'
  BY <1>2, HeardServeLine, HeardServeEnd, HeardSayGoodbye DEF Serve
<1> QED
  BY <1>1, <1>2, HeardTakeEvent, HeardEngine, HeardDaemonDies, HeardAgentGoes, HeardUnconnected,
     HeardConnect, HeardRead, HeardForward, HeardSessions, HeardTakeRequest, HeardDispatch,
     HeardCompositor, HeardUser DEF Next

LEMMA InputIsHeardThen ==
  ASSUME SessionTypes, Wired, Heard
  PROVE  InputIsHeard
<1> SUFFICES ASSUME Settled, phase # "Active", ~deaf
             PROVE  Attached /\ Primary(watcher.stages) \in compositor.idled
  BY DEF InputIsHeard
<1>1. /\ events = <<>> /\ agent.inbox = <<>> /\ compositor.wire = <<>>
      /\ \A id \in Streams : streams[id].up = <<>> /\ ~streams[id].goodbye
  BY NothingComing DEF Settled
<1>2. StreamSpeaks
  BY <1>1, EmptySays DEF Heard, HeardFromQueue, QueueSpeaks, LinkSpeaks
<1>3. link.current \in Streams /\ link.current # NoStream
  BY <1>2, AgentFields DEF StreamSpeaks
<1>4. Attached
  BY <1>3 DEF Wired, Settled, Attached
<1>5. InboxSpeaks
  BY <1>1, <1>2, <1>3, <1>4, EmptySays DEF StreamSpeaks, Wired, Attached
<1>6. CompositorSpeaks
  BY <1>1, <1>5, EmptySays DEF InboxSpeaks, WireSpeaks
<1> QED
  BY <1>4, <1>6 DEF CompositorSpeaks, Settled

\* When all is said and the engine takes the user for away, the registered
\* agent's compositor has an idle notification left that speaks.
THEOREM InputIsHeardHolds == Spec => []InputIsHeard
<1>1. Init => SessionTypes /\ Wired /\ Watches /\ Heard
  BY TypesInit, WiredInit, WatchesInit, HeardInit
<1>2. SessionTypes /\ Wired /\ Watches /\ Heard /\ [Next]_sessionVars
        => (SessionTypes /\ Wired /\ Watches /\ Heard)'
  BY TypesStep, WiredStep, WatchesStep, HeardStep
<1>3. SessionTypes /\ Wired /\ Watches /\ Heard => InputIsHeard
  BY InputIsHeardThen
<1> QED
  BY <1>1, <1>2, <1>3, PTL DEF Spec

-----------------------------------------------------------------------------
(* What will become of the screen.                                         *)

On == ScreenOp(TRUE)
Off == ScreenOp(FALSE)

LEMMA ScreenOpsAre ==
  /\ On \in ScreenOps /\ Off \in ScreenOps /\ On # Off /\ On \in Ops /\ Off \in Ops
  /\ On \in Requests /\ Off \in Requests
  /\ \A on \in BOOLEAN : /\ ScreenOp(on) \in ScreenOps /\ ScreenOp(on) \in Requests
                         /\ ScreenOp(on) \in Ops
                         /\ ScreenOp(on) = On <=> on
                         /\ ScreenOp(on) = Off <=> ~on
  /\ \A stages : StagesOp(stages) \notin ScreenOps
  /\ \A display : DisplayOp(display) \notin ScreenOps
<1>1. /\ On.on = TRUE /\ Off.on = FALSE
      /\ \A on : ScreenOp(on).on = on
  BY DEF On, Off, ScreenOp
<1>2. \A on \in BOOLEAN : ScreenOp(on) \in ScreenOps /\ ScreenOp(on) \in Requests
                          /\ ScreenOp(on) \in Ops
  BY OpsTyped, OpsApart
<1>3. \A on \in BOOLEAN : (ScreenOp(on) = On <=> on) /\ (ScreenOp(on) = Off <=> ~on)
  BY <1>1 DEF On, Off
<1>4. On # Off
  BY <1>1
<1>5. On = ScreenOp(TRUE) /\ Off = ScreenOp(FALSE)
  BY DEF On, Off
<1> QED
  BY <1>2, <1>3, <1>4, <1>5, OpsApart

\* A screen request nobody will carry out: the next session drops it, and the
\* history counts it as lost then.
Doomed == ~watcher.session /\ ~Free(watcher.requests, ScreenOps)

\* The screen comes on when the watcher has done what it was asked; when the
\* agent has read its ops.
Lights == Doomed \/ Settles(watcher.requests, ScreenOps, {On}, screen)
Lightens(down) == Settles(down, ScreenOps, {On}, Lights)

Lit ==
    /\ agent.conn # NoStream /\ wanted /\ ~lost => Lightens(streams[agent.conn].down)
    /\ agent.conn # NoStream /\ agent.last = TRUE /\ ~lost /\ Free(streams[agent.conn].down, {Off})
          => Lights
    /\ agent.conn = NoStream /\ ~lost => screen /\ Free(watcher.requests, ScreenOps)
    /\ watcher.session /\ ~watcher.power => Free(watcher.requests, ScreenOps)
    /\ "command" \in Displays => Free(watcher.requests, ScreenOps)

\* The watcher has no other requests than before, and the screen is lit no less.
LEMMA LitWhen ==
  ASSUME Lit, agent'.conn = agent.conn, agent'.last = agent.last, wanted' = wanted,
         ~lost' => ~lost, ~lost' /\ Lights => Lights',
         agent.conn # NoStream => streams'[agent.conn].down = streams[agent.conn].down,
         ~lost' /\ screen /\ Free(watcher.requests, ScreenOps) => screen',
         Free(watcher.requests, ScreenOps) => Free(watcher'.requests, ScreenOps),
         \/ watcher'.session = watcher.session /\ watcher'.power = watcher.power
         \/ ~watcher'.session
         \/ Free(watcher'.requests, ScreenOps)
  PROVE  Lit'
<1>1. agent.conn # NoStream /\ ~lost' /\ Lightens(streams[agent.conn].down)
         => Lightens(streams[agent.conn].down)'
  BY DEF Lightens, Settles
<1> QED
  BY <1>1 DEF Lit

LEMMA LitUnwatched ==
  ASSUME Lit, UNCHANGED <<watcher, screen, wanted, lost>>, agent'.conn = agent.conn,
         agent'.last = agent.last,
         agent.conn # NoStream => streams'[agent.conn].down = streams[agent.conn].down
  PROVE  Lit'
<1>1. Lights' <=> Lights
  BY DEF Lights, Doomed
<1> QED
  BY <1>1, LitWhen

\* An op goes out.
LEMMA LitSent ==
  ASSUME SessionTypes, Lit, NEW op \in Ops, streams' = Sent(op),
         UNCHANGED <<agent, watcher, screen>>,
         \/ op \notin ScreenOps /\ UNCHANGED <<wanted, lost>>
         \/ \E on \in BOOLEAN : /\ op = ScreenOp(on) /\ wanted' = on
                                /\ lost' = (~Attached \/ (lost /\ agent.last = on))
  PROVE  Lit'
<1> DEFINE conn == agent.conn
           down == streams[conn].down
<1>1. Lights' <=> Lights
  BY DEF Lights, Doomed
<1>2. conn # NoStream => /\ conn \in Streams /\ down \in Seq(Ops)
                         /\ streams'[conn].down = IF conn = link.current THEN Append(down, op)
                                                  ELSE down
  BY AgentFields, StreamFields, SentDoes DEF SessionTypes
<1>3. CASE op \notin ScreenOps /\ UNCHANGED <<wanted, lost>>
  <2>1. CASE conn # NoStream /\ conn = link.current
    <3>1. streams'[conn].down = Append(down, op) /\ down \in Seq(Ops)
      BY <1>2, <2>1
    <3>2. /\ Free(down, ScreenOps) => Free(Append(down, op), ScreenOps)
          /\ LastIn(down, ScreenOps, {On}) => LastIn(Append(down, op), ScreenOps, {On})
      BY <1>3, <3>1, ChannelSends
    <3>3. Free(Append(down, op), {Off}) => Free(down, {Off})
      BY <3>1, ChannelSends
    <3>4. Lightens(down) => Lightens(streams[agent.conn].down)'
      BY <1>1, <3>1, <3>2 DEF Lightens, Settles
    <3> QED
      BY <1>1, <1>3, <2>1, <3>1, <3>3, <3>4 DEF Lit
  <2>2. CASE ~(conn # NoStream /\ conn = link.current)
    BY <1>2, <1>3, <2>2, LitUnwatched
  <2> QED
    BY <2>1, <2>2
<1>4. ASSUME NEW on \in BOOLEAN, op = ScreenOp(on), wanted' = on,
             lost' = (~Attached \/ (lost /\ agent.last = on))
      PROVE  Lit'
  <2>1. CASE ~Attached
    BY <1>4, <2>1 DEF Lit
  <2>2. CASE Attached
    <3>1. conn # NoStream /\ streams'[conn].down = Append(down, op) /\ down \in Seq(Ops)
      BY <1>2, <2>2 DEF Attached
    <3>2. on => LastIn(Append(down, op), ScreenOps, {On})
      BY <1>4, <3>1, ChannelSends, ScreenOpsAre
    <3>3. /\ Free(Append(down, op), {Off}) => on
          /\ Free(Append(down, op), {Off}) => Free(down, {Off})
      BY <1>4, <3>1, ChannelSends, ScreenOpsAre
    <3>4. on => Lightens(streams[agent.conn].down)'
      BY <3>1, <3>2 DEF Lightens, Settles
    <3>5. agent.last = TRUE /\ ~lost' /\ Free(Append(down, op), {Off}) => Lights
      BY <1>4, <2>2, <3>1, <3>3 DEF Lit
    <3> QED
      BY <1>1, <1>4, <3>1, <3>4, <3>5 DEF Lit
  <2> QED
    BY <2>1, <2>2
<1> QED
  BY <1>3, <1>4

LEMMA LitEngine ==
  ASSUME SessionTypes, Lit,
         \/ TakeEvent \/ DaemonDies
         \/ \E stages \in StageSets : ModeSwitched(stages)
         \/ \E display \in Displays : Reloaded(display)
  PROVE  Lit'
<1>1. CASE TakeEvent
  <2>1. UNCHANGED <<agent, watcher, screen>>
    BY <1>1 DEF TakeEvent
  <2>2. \/ UNCHANGED <<streams, wanted, lost>>
        \/ \E on \in BOOLEAN : /\ streams' = Sent(ScreenOp(on)) /\ wanted' = on
                               /\ lost' = (~Attached \/ (lost /\ agent.last = on))
    BY <1>1 DEF TakeEvent, OnIdle, OnActivity, SendScreen, SendNothing, SetScreen
  <2> QED
    BY <2>1, <2>2, LitUnwatched, LitSent, ScreenOpsAre
<1>2. CASE DaemonDies
  <2>1. lost' = TRUE /\ UNCHANGED <<agent, watcher>>
    BY <1>2 DEF DaemonDies
  <2> QED
    BY <2>1 DEF Lit
<1>3. ASSUME NEW stages \in StageSets, ModeSwitched(stages) PROVE Lit'
  BY <1>3, LitSent, ScreenOpsAre, OpsTyped DEF ModeSwitched, ReplaceStages
<1>4. ASSUME NEW display \in Displays, Reloaded(display) PROVE Lit'
  BY <1>4, LitSent, ScreenOpsAre, OpsTyped DEF Reloaded, SetDisplay
<1> QED
  BY <1>1, <1>2, <1>3, <1>4

LEMMA LitResumes ==
  ASSUME SessionTypes, Lit, Resumes
  PROVE  Lit'
<1> DEFINE conn == agent.conn
           base == streams[conn].down
           told == StagesOp(link.stages)
           down == Append(base, On)
<1>1. /\ UNCHANGED <<agent, watcher>> /\ wanted' = TRUE
      /\ lost' = (~Attached \/ (agent.last = TRUE /\ (lost \/ screen' # screen)))
  BY DEF Resumes
<1>2. CASE ~Attached
  BY <1>1, <1>2 DEF Lit
<1>3. CASE Attached
  <2>1. /\ conn # NoStream /\ conn \in Streams /\ base \in Seq(Ops) /\ told \in Ops /\ On \in Ops
        /\ told \notin ScreenOps
    BY <1>3, AgentFields, StreamFields, OpsTyped, ScreenOpsAre DEF Attached, SessionTypes
  <2>2. streams'[conn].down = base \o <<On, told>>
    BY <1>3, <2>1, ResumesDoes DEF Attached, On
  <2> HIDE DEF told
  <2>3. streams'[conn].down = Append(down, told)
    <3>1. base \in Seq(Ops) /\ told \in Ops /\ On \in Ops
      BY <2>1
    <3> HIDE DEF base
    <3>2. base \o <<On, told>> = Append(Append(base, On), told)
      BY <3>1, TwoAppended
    <3> QED
      BY <2>2, <3>2
  <2>4. /\ down \in Seq(Ops) /\ LastIn(down, ScreenOps, {On})
        /\ Free(down, {Off}) => Free(base, {Off})
    BY <2>1, AppendTyped, ChannelSends
  <2> HIDE DEF down
  <2>5. /\ LastIn(Append(down, told), ScreenOps, {On})
        /\ Free(Append(down, told), {Off}) => Free(down, {Off})
    BY <2>1, <2>4, ChannelSends
  <2>6. Lightens(streams[agent.conn].down)'
    BY <1>1, <2>3, <2>5 DEF Lightens, Settles
  <2>7. CASE agent.last = TRUE /\ ~lost' /\ Free(Append(down, told), {Off})
    <3>1. ~lost /\ screen' = screen
      BY <1>1, <2>7
    <3>2. Lights
      BY <2>1, <2>4, <2>5, <2>7, <3>1 DEF Lit
    <3>3. Lights'
      BY <1>1, <3>1, <3>2 DEF Lights, Doomed
    <3> QED
      BY <1>1, <2>1, <2>6, <3>3 DEF Lit
  <2> QED
    BY <1>1, <2>1, <2>3, <2>6, <2>7 DEF Lit
<1> QED
  BY <1>2, <1>3

LEMMA LitServe ==
  ASSUME SessionTypes, Wired, Lit, NEW id \in Streams, Serve(id)
  PROVE  Lit'
<1>1. /\ UNCHANGED <<agent, watcher, screen, wanted, lost>>
      /\ agent.conn # NoStream => agent.conn \in Streams /\ ~streams[agent.conn].hungUp
  BY AgentFields DEF Serve, history, Wired
<1>2. \A other \in Streams : ~streams[other].hungUp => streams'[other].down = streams[other].down
  <2>1. CASE ServeLine(id)
    BY <2>1, ServeLineDoes
  <2>2. CASE ServeEnd(id)
    BY <2>2, ServeEndDoes
  <2>3. CASE SayGoodbye(id)
    BY <2>3, SayGoodbyeDoes
  <2> QED
    BY <2>1, <2>2, <2>3 DEF Serve
<1> QED
  BY <1>1, <1>2, LitUnwatched

LEMMA LitAgent ==
  ASSUME SessionTypes, Wired, Lit, AgentStarts \/ AgentDies \/ HangUp \/ ConnectFails \/ Connect
  PROVE  Lit'
<1>1. CASE AgentStarts
  <2>1. /\ agent.conn = NoStream /\ agent'.conn = NoStream /\ UNCHANGED <<screen, lost>>
        /\ watcher'.requests = <<>> /\ ~watcher'.session
    BY <1>1 DEF AgentStarts, NewAgent, NewWatcher, Wired, history
  <2> QED
    BY <2>1, EmptySays DEF Lit
<1>2. CASE AgentDies
  <2>1. lost' = TRUE /\ watcher'.requests = <<>> /\ ~watcher'.session
    BY <1>2 DEF AgentDies, NewWatcher
  <2> QED
    BY <2>1, EmptySays DEF Lit
<1>3. CASE HangUp
  BY <1>3 DEF HangUp, Lit
<1>4. CASE ConnectFails
  BY <1>4, LitUnwatched DEF ConnectFails, linkVars, history, SessionTypes, AgentType
<1>5. CASE Connect
  <2> DEFINE id == link.nextId
             down == <<DisplayOp(link.display), StagesOp(link.stages)>>
  <2>1. /\ agent.conn = NoStream /\ agent'.conn = id /\ streams'[id].down = down
        /\ agent'.last = agent.last /\ UNCHANGED <<watcher, screen, wanted, lost>>
    BY <1>5, ConnectDoes DEF Connect
  <2>2. Free(down, ScreenOps)
    BY ScreenOpsAre DEF Free
  <2> HIDE DEF down
  <2>3. ~lost => Lights'
    BY <2>1 DEF Lit, Lights, Settles
  <2>4. ~lost => Lightens(streams[agent.conn].down)'
    BY <2>1, <2>2, <2>3 DEF Lightens, Settles
  <2>5. id # NoStream
    BY <1>5, ConnectDoes DEF Streams, NoStream
  <2> QED
    BY <2>1, <2>3, <2>4, <2>5 DEF Lit
<1> QED
  BY <1>1, <1>2, <1>3, <1>4, <1>5

\* Display::set.
LEMMA LitRead ==
  ASSUME SessionTypes, Wired, Lit, ReadOp,
         "command" \notin Displays \/ Displays \cap {"wlr", "wlr with commands"} = {}
  PROVE  Lit'
<1> DEFINE conn == agent.conn
           down == streams[conn].down
           op == Head(down)
           requests == watcher.requests
<1>1. /\ conn \in Streams /\ conn # NoStream /\ down \in Seq(Ops) /\ down # <<>>
      /\ op \in Ops /\ requests \in Seq(Requests)
      /\ agent.display \in Displays \cup {NONE} /\ NONE \notin BOOLEAN
      /\ NONE \notin {"wlr", "wlr with commands", "command", "none"}
      /\ wanted' = wanted
  BY OpAt, AgentFields, WatcherFields, SessionAssumption DEF ReadOp
<1>2. agent'.conn = conn /\ streams'[conn].down = Tail(down)
  <2>1. \E answer : ReadsLine(answer)
    BY OpAt, DisplayDoes, StagesDoes, ScreenDoes
  <2>2. streams'[conn].down = Tail(down)
    BY <2>1 DEF ReadsLine
  <2> QED
    BY <2>2, AgentKeepsEnds DEF SameEnds
<1>3. LastIn(down, ScreenOps, {On})
         => LastIn(Tail(down), ScreenOps, {On}) \/ (op = On /\ Free(Tail(down), ScreenOps))
  BY <1>1, LastTail
<1>4. Free(down, ScreenOps) => op \notin ScreenOps /\ Free(Tail(down), ScreenOps)
  BY <1>1, FreeTail
<1>5. Free(Tail(down), {Off}) /\ op # Off => Free(down, {Off})
  BY <1>1, ChannelTakes
<1>6. Free(Tail(down), ScreenOps) => Free(Tail(down), {Off})
  BY ScreenOpsAre DEF Free
<1>7. CASE op = DisplayOp(op.display) /\ op.display \in Displays /\ ApplyDisplay(op.display)
  <2>1. agent'.last = NONE /\ UNCHANGED <<watcher, screen, lost>>
    BY <1>7, DisplayDoes DEF ApplyDisplay
  <2>2. op \notin ScreenOps /\ op # On
    BY <1>7, ScreenOpsAre
  <2>3. Lights' <=> Lights
    BY <2>1 DEF Lights, Doomed
  <2>4. Lightens(down) => Lightens(streams[agent.conn].down)'
    BY <1>2, <1>3, <1>4, <2>2, <2>3 DEF Lightens, Settles
  <2> QED
    BY <1>1, <1>2, <2>1, <2>4 DEF Lit
<1>8. CASE op = StagesOp(op.stages) /\ op.stages \in StageSets /\ ApplyStages(op.stages)
  <2>1. /\ agent' = agent /\ UNCHANGED <<screen, lost>>
        /\ watcher'.requests = Append(requests, op) /\ watcher'.session = watcher.session
        /\ watcher'.power = watcher.power
    BY <1>8, StagesDoes DEF Requested
  <2>2. op \notin ScreenOps /\ op # On /\ op # Off /\ op \in Requests
    BY <1>8, ScreenOpsAre, OpsTyped
  <2>3. /\ Free(requests, ScreenOps) => Free(Append(requests, op), ScreenOps)
        /\ ~Free(requests, ScreenOps) => ~Free(Append(requests, op), ScreenOps)
        /\ LastIn(requests, ScreenOps, {On}) => LastIn(Append(requests, op), ScreenOps, {On})
    <3>1. requests \in Seq(Requests) /\ op \in Requests /\ op \notin ScreenOps
      BY <1>1, <2>2
    <3> HIDE DEF op, requests
    <3>2. Free(requests, ScreenOps) => Free(Append(requests, op), ScreenOps)
      BY <3>1, ChannelSends
    <3>3. ~Free(requests, ScreenOps) => ~Free(Append(requests, op), ScreenOps)
      BY <3>1, ChannelSends
    <3>4. LastIn(requests, ScreenOps, {On}) => LastIn(Append(requests, op), ScreenOps, {On})
      BY <3>1, ChannelSends
    <3> QED
      BY <3>2, <3>3, <3>4
  <2>4. Lights => Lights'
    BY <2>1, <2>3 DEF Lights, Doomed, Settles
  <2>5. Lightens(down) => Lightens(streams[agent.conn].down)'
    BY <1>2, <1>3, <1>4, <2>2, <2>4 DEF Lightens, Settles
  <2> QED
    BY <1>1, <1>2, <1>5, <2>1, <2>2, <2>3, <2>4, <2>5 DEF Lit
<1>9. CASE op = ScreenOp(op.on) /\ op.on \in BOOLEAN /\ ApplyScreen(op.on)
  <2>1. /\ op \in ScreenOps /\ op \in Requests
        /\ op = On <=> op.on
        /\ op = Off <=> ~op.on
    BY <1>9, ScreenOpsAre
  <2>2. Lightens(down) => \/ LastIn(Tail(down), ScreenOps, {On})
                          \/ op.on /\ Free(Tail(down), ScreenOps)
    BY <1>3, <1>4, <2>1 DEF Lightens, Settles
  <2>3. CASE agent.last = op.on /\ UNCHANGED <<agent, watcher, screen, lost>>
    <3>1. Lights' <=> Lights
      BY <2>3 DEF Lights, Doomed
    <3>2. op.on /\ Free(Tail(down), {Off}) /\ ~lost => Lights
      BY <1>1, <1>5, <1>9, <2>1, <2>3 DEF Lit
    <3>3. wanted /\ ~lost => Lightens(streams[agent.conn].down)'
      BY <1>1, <1>2, <1>6, <2>2, <3>1, <3>2 DEF Lit, Lightens, Settles
    <3>4. agent'.last = TRUE => op.on
      BY <2>3
    <3> QED
      BY <1>1, <1>2, <2>3, <3>1, <3>2, <3>3, <3>4 DEF Lit
  <2>4. CASE /\ agent.display \in {"wlr", "wlr with commands"}
             /\ watcher.power /\ Requested(ScreenOp(op.on)) /\ Remembers(op.on)
             /\ UNCHANGED <<screen, lost>>
    <3>1. /\ agent'.last = op.on /\ watcher'.requests = Append(requests, op)
          /\ watcher'.session = watcher.session /\ watcher'.power = watcher.power
      BY <1>9, <2>4 DEF Requested, Remembers
    <3>2. op.on => Lights'
      <4>1. op.on => LastIn(Append(requests, op), ScreenOps, {On})
        BY <1>1, <2>1, LastSaid
      <4> QED
        BY <3>1, <4>1 DEF Lights, Settles
    <3>3. "command" \notin Displays
      BY <1>1, <2>4
    <3>4. wanted /\ ~lost => Lightens(streams[agent.conn].down)'
      BY <1>1, <1>2, <2>2, <3>2 DEF Lit, Lightens, Settles
    <3> QED
      BY <1>1, <1>2, <2>4, <3>1, <3>2, <3>3, <3>4 DEF Lit
  <2>5. CASE lost' = TRUE /\ UNCHANGED watcher
    BY <1>1, <1>2, <2>5 DEF Lit
  <2>6. CASE /\ Remembers(op.on) /\ UNCHANGED <<watcher, lost>>
             /\ agent.display = "command"
                   \/ (agent.display = "wlr with commands" /\ ~watcher.power)
             /\ screen' = op.on
    <3>1. agent'.last = op.on
      BY <2>6 DEF Remembers
    <3>2. Doomed \/ Free(requests, ScreenOps)
      BY <1>1, <2>6, WatcherFields DEF Doomed, Lit
    <3>3. op.on => Lights'
      BY <2>6, <3>2 DEF Lights, Doomed, Settles
    <3>4. wanted /\ ~lost => Lightens(streams[agent.conn].down)'
      BY <1>1, <1>2, <2>2, <3>3 DEF Lit, Lightens, Settles
    <3> QED
      BY <1>1, <1>2, <2>6, <3>1, <3>3, <3>4 DEF Lit
  <2> DEFINE on == op.on
  <2>7. on \in BOOLEAN /\ ApplyScreen(on)
    BY <1>9
  <2> HIDE DEF on
  <2>8. \/ agent.last = on /\ UNCHANGED <<agent, watcher, screen, lost>>
        \/ /\ agent.display \in {"wlr", "wlr with commands"}
           /\ watcher.power /\ Requested(ScreenOp(on)) /\ Remembers(on)
           /\ UNCHANGED <<screen, lost>>
        \/ lost' = TRUE /\ UNCHANGED watcher
        \/ /\ Remembers(on) /\ UNCHANGED <<watcher, lost>>
           /\ agent.display = "command"
                 \/ (agent.display = "wlr with commands" /\ ~watcher.power)
           /\ screen' = on
    BY <2>7, ScreenDoes
  <2> QED
    BY <2>3, <2>4, <2>5, <2>6, <2>8 DEF on
<1> QED
  BY <1>7, <1>8, <1>9, OpAt

LEMMA NoScreenAbout ==
  ASSUME NEW requests \in Seq(Requests), About("screen", requests) = {}
  PROVE  Free(requests, ScreenOps)
<1>1. \A i \in 1..Len(requests) : requests[i].op # "screen"
  BY DEF About
<1>2. \A op \in ScreenOps : op.op = "screen"
  BY DEF ScreenOps, ScreenOp
<1> QED
  BY <1>1, <1>2 DEF Free

LEMMA LitSessions ==
  ASSUME SessionTypes, Lit, SessionStarts \/ SessionFails \/ SessionEnds
  PROVE  Lit'
<1>1. watcher.requests \in Seq(Requests)
  BY WatcherFields
<1>2. CASE SessionStarts \/ SessionFails
  <2>1. /\ agent'.conn = agent.conn /\ agent'.last = agent.last
        /\ watcher'.requests = <<>> /\ UNCHANGED <<streams, screen, wanted>>
        /\ ~lost' => About("screen", watcher.requests) = {} /\ ~lost
    BY <1>2, SessionStartsDoes, SessionFailsDoes
       DEF InboxBecomes, SessionStarts, SessionFails, linkVars
  <2>2. ~lost' => Free(watcher.requests, ScreenOps)
    BY <1>1, <2>1, NoScreenAbout
  <2>3. Free(watcher'.requests, ScreenOps)
    BY <2>1, EmptySays
  <2>4. ~lost' /\ Lights => Lights'
    <3>1. Free(watcher.requests, ScreenOps) => ~LastIn(watcher.requests, ScreenOps, {On})
      BY ScreenOpsAre DEF Free, LastIn
    <3> QED
      BY <2>1, <2>2, <2>3, <3>1 DEF Lights, Doomed, Settles
  <2> QED
    BY <2>1, <2>3, <2>4, LitWhen
<1>3. CASE SessionEnds
  <2>1. /\ agent'.conn = agent.conn /\ agent'.last = agent.last
        /\ watcher'.requests = watcher.requests /\ watcher.session /\ ~watcher'.session
        /\ UNCHANGED <<streams, screen, wanted, lost>>
    BY <1>3, SessionEndsDoes DEF InboxBecomes, SessionEnds, linkVars, history
  <2>2. Lights => Lights'
    BY <2>1 DEF Lights, Doomed, Settles
  <2> QED
    BY <2>1, <2>2, LitWhen
<1> QED
  BY <1>2, <1>3

LEMMA LitTakeRequest ==
  ASSUME SessionTypes, Lit, TakeRequest
  PROVE  Lit'
<1> DEFINE requests == watcher.requests
           op == Head(requests)
<1>1. /\ requests \in Seq(Requests) /\ requests # <<>> /\ op \in Requests /\ watcher.session
      /\ UNCHANGED <<streams, agent, wanted>>
  BY RequestAt, WatcherFields DEF TakeRequest, linkVars
<1>2. RequestTaken
  BY RequestAt, SetStagesDoes, SetOutputsDoes
<1>3. /\ watcher'.requests = Tail(requests) /\ watcher'.session = watcher.session
      /\ watcher'.power = watcher.power
  BY <1>2 DEF RequestTaken
<1>4. Free(requests, ScreenOps) => op \notin ScreenOps /\ Free(Tail(requests), ScreenOps)
  BY <1>1, FreeTail
<1>5. LastIn(requests, ScreenOps, {On})
         => \/ LastIn(Tail(requests), ScreenOps, {On})
            \/ op = On /\ Free(Tail(requests), ScreenOps)
  BY <1>1, LastTail
<1>6. CASE op = StagesOp(op.stages) /\ op.stages \in StageSets /\ SetStages(op.stages)
  <2>1. op \notin ScreenOps /\ op # On
    BY <1>6, ScreenOpsAre
  <2>2. UNCHANGED <<screen, lost>>
    BY <1>6 DEF SetStages
  <2>3. Lights => Lights'
    BY <1>1, <1>3, <1>4, <1>5, <2>1, <2>2 DEF Lights, Doomed, Settles
  <2> QED
    BY <1>1, <1>3, <1>4, <2>2, <2>3, LitWhen
<1>7. CASE op = ScreenOp(op.on) /\ op.on \in BOOLEAN /\ SetOutputs(op.on)
  <2>1. op \in ScreenOps /\ (op = On => op.on)
    BY <1>7, ScreenOpsAre
  <2>2. (screen' = op.on /\ lost' = lost) \/ lost' = TRUE
    BY <1>1, <1>7, SetOutputsDoes
  <2>3. ~lost' /\ Lights => Lights'
    BY <1>1, <1>3, <1>4, <1>5, <2>1, <2>2 DEF Lights, Doomed, Settles
  <2>4. /\ ~lost' => ~lost
        /\ ~Free(requests, ScreenOps)
    BY <1>4, <2>1, <2>2
  <2> QED
    BY <1>1, <1>3, <2>3, <2>4, LitWhen
<1> QED
  BY <1>6, <1>7, RequestAt

LEMMA LitOthers ==
  ASSUME SessionTypes, Lit,
         \/ Forward \/ Dispatch \/ CompositorDies \/ UserIsBack
         \/ \E kind \in Kinds : CompositorStarts(kind)
         \/ \E stage \in Stages : UserIsAway(stage)
  PROVE  Lit'
<1>1. UNCHANGED <<watcher, wanted, lost>>
  BY DEF Forward, Dispatch, CompositorDies, UserIsBack, CompositorStarts, UserIsAway, history
<1>2. screen' = screen \/ screen' = TRUE
  BY DEF Forward, Dispatch, CompositorDies, UserIsBack, CompositorStarts, UserIsAway
<1>3. agent'.conn = agent.conn /\ agent'.last = agent.last
  BY ForwardDoes, DispatchDoes
     DEF InboxBecomes, CompositorDies, UserIsBack, CompositorStarts, UserIsAway
<1>4. agent.conn # NoStream => streams'[agent.conn].down = streams[agent.conn].down
  BY ForwardDoes DEF Dispatch, CompositorDies, UserIsBack, CompositorStarts, UserIsAway, linkVars
<1>5. Lights => Lights'
  BY <1>1, <1>2 DEF Lights, Doomed, Settles
<1> QED
  BY <1>1, <1>2, <1>3, <1>4, <1>5, LitWhen

LEMMA LitInit == Init => Lit
<1> SUFFICES ASSUME Init PROVE Lit
  OBVIOUS
<1>1. agent.conn = NoStream /\ screen /\ watcher.requests = <<>>
  BY DEF Init, NewAgent, NewWatcher
<1> QED
  BY <1>1, EmptySays DEF Lit

LEMMA LitStep ==
  ASSUME SessionTypes, Wired, Lit, [Next]_sessionVars,
         "command" \notin Displays \/ Displays \cap {"wlr", "wlr with commands"} = {}
  PROVE  Lit'
<1>1. CASE UNCHANGED sessionVars
  BY <1>1, LitUnwatched DEF sessionVars, linkVars
<1> QED
  BY <1>1, LitEngine, LitResumes, LitServe, LitAgent, LitRead, LitSessions, LitTakeRequest,
     LitOthers DEF Next

LEMMA ScreenComesOnThen ==
  ASSUME SessionTypes, Lit
  PROVE  ScreenComesOn
<1> SUFFICES ASSUME Settled, wanted, ~lost PROVE screen
  BY DEF ScreenComesOn
<1>1. CASE agent.conn = NoStream
  BY <1>1 DEF Lit
<1>2. CASE agent.conn # NoStream
  <2>1. streams[agent.conn].down = <<>> /\ watcher.requests = <<>>
    BY <1>2 DEF Settled
  <2> QED
    BY <1>2, <2>1, EmptySays DEF Lit, Lightens, Lights, Doomed, Settles
<1> QED
  BY <1>1, <1>2

\* When all is said and done, a screen that was asked to be on is on, unless the
\* request was lost.  It takes a `Displays` that does not mix the compositor's
\* power manager with a helper: a reload between the two lets a later request
\* overtake an earlier one.
THEOREM ScreenComesOnHolds ==
  ASSUME "command" \notin Displays \/ Displays \cap {"wlr", "wlr with commands"} = {}
  PROVE  Spec => []ScreenComesOn
<1>1. Init => SessionTypes /\ Wired /\ Lit
  BY TypesInit, WiredInit, LitInit
<1>2. SessionTypes /\ Wired /\ Lit /\ [Next]_sessionVars => (SessionTypes /\ Wired /\ Lit)'
  BY TypesStep, WiredStep, LitStep
<1>3. SessionTypes /\ Wired /\ Lit => ScreenComesOn
  BY ScreenComesOnThen
<1> QED
  BY <1>1, <1>2, <1>3, PTL DEF Spec

=============================================================================
