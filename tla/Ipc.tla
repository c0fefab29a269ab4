-------------------------------- MODULE Ipc --------------------------------
(***************************************************************************)
(* The IPC server inside the daemon, src/ipc.rs: a task per connection that *)
(* reads a line, registers its request under a new id, hands it to the main *)
(* loop and waits for the reply; or streams the broadcasts to a subscriber. *)
(*                                                                         *)
(* Requests are numbered per connection, broadcasts for the whole daemon.   *)
(* Connections that become ampered-agent's are those of AgentLink.          *)
(***************************************************************************)
EXTENDS Naturals, Sequences, FiniteSets

CONSTANTS
    NONE,
    Clients,        \* connections
    MaxRequests,    \* bound: lines a client sends
    MaxNews,        \* bound: broadcasts
    EventCap,       \* bound: capacity of the main loop's channel (64 in the code)
    Ring,           \* bound: capacity of the broadcast channel (64 in the code)
    OutCap          \* bound: lines that a socket holds for its client

Kinds == {"ask", "bad", "subscribe"}

ASSUME IpcAssumption ==
    /\ NONE \notin Nat
    /\ {MaxRequests, MaxNews} \subseteq Nat
    /\ {EventCap, Ring, OutCap} \subseteq Nat \ {0}

VARIABLES
    task,           \* what the task of a connection does
    current,        \* the request it serves, or the broadcast it writes
    id,             \* the id under which it waits
    slot,           \* its oneshot channel: NONE, or the request that is answered
    pending, nextId,    \* Server
    events,         \* the channel of the main loop
    executing,      \* the request it executes
    up,             \* is the main loop there
    news, position, \* broadcasts so far, and the next one for a subscriber
    inbox, outbox,  \* the lines in a socket, either way
    hung,           \* has the client closed it
    sent, answered, \* requests of a client, and answers it has read
    shown           \* the last broadcast it has seen, or could not see

serverVars == <<pending, nextId>>
mainVars == <<events, executing, up, news>>
taskVars == <<task, current, id, slot, position>>
clientVars == <<hung, sent, answered, shown>>
vars == <<serverVars, mainVars, taskVars, clientVars, inbox, outbox>>

Waits(c) == task[c] \in {"sending", "waiting"}

Init ==
    /\ task = [c \in Clients |-> "reading"]
    /\ current = [c \in Clients |-> NONE] /\ id = [c \in Clients |-> 0]
    /\ slot = [c \in Clients |-> NONE]
    /\ pending = {} /\ nextId = 1
    /\ events = <<>> /\ executing = NONE /\ up = TRUE
    /\ news = 0 /\ position = [c \in Clients |-> 0]
    /\ inbox = [c \in Clients |-> <<>>] /\ outbox = [c \in Clients |-> <<>>]
    /\ hung = [c \in Clients |-> FALSE]
    /\ sent = [c \in Clients |-> 0] /\ answered = [c \in Clients |-> 0]
    /\ shown = [c \in Clients |-> 0]

-----------------------------------------------------------------------------
(* The clients.                                                            *)

Answer(n) == [kind |-> "answer", n |-> n]
News(n) == [kind |-> "news", n |-> n]

\* A client may send several lines ahead; after `subscribe` it only listens.
Ask(c, kind) ==
    /\ ~hung[c] /\ sent[c] < MaxRequests
    /\ task[c] \notin {"subscribing", "streaming", "showing"}
    /\ task[c] = "writing" => current[c].kind # "subscribe"
    /\ \A i \in 1..Len(inbox[c]) : inbox[c][i].kind # "subscribe"
    /\ sent' = [sent EXCEPT ![c] = @ + 1]
    /\ inbox' = [inbox EXCEPT ![c] = Append(@, [n |-> sent'[c], kind |-> kind])]
    /\ UNCHANGED <<serverVars, mainVars, taskVars, hung, answered, shown, outbox>>

Listen(c) ==
    /\ ~hung[c] /\ outbox[c] # <<>>
    /\ LET line == Head(outbox[c]) IN
       /\ answered' = IF line.kind = "answer" THEN [answered EXCEPT ![c] = line.n] ELSE answered
       /\ shown' = IF line.kind = "news" THEN [shown EXCEPT ![c] = line.n] ELSE shown
    /\ outbox' = [outbox EXCEPT ![c] = Tail(@)]
    /\ UNCHANGED <<serverVars, mainVars, taskVars, hung, sent, inbox>>

HangUp(c) ==
    /\ ~hung[c] /\ hung' = [hung EXCEPT ![c] = TRUE]
    /\ UNCHANGED <<serverVars, mainVars, taskVars, sent, answered, shown, inbox, outbox>>

-----------------------------------------------------------------------------
(* The task of a connection: serve_connection.                             *)

Goes(c, to) == task' = [task EXCEPT ![c] = to]

\* take_id, and the oneshot channel under it.
Register(c) ==
    /\ id' = [id EXCEPT ![c] = nextId]
    /\ nextId' = nextId + 1
    /\ pending' = pending \cup {[id |-> nextId, client |-> c]}
    /\ Goes(c, "sending")

ReadLine(c) ==
    /\ task[c] = "reading" /\ inbox[c] # <<>>
    /\ inbox' = [inbox EXCEPT ![c] = Tail(@)]
    /\ current' = [current EXCEPT ![c] = Head(inbox[c])]
    /\ \/ current'[c].kind = "ask" /\ Register(c)
       \/ current'[c].kind # "ask" /\ Goes(c, "writing") /\ UNCHANGED <<id, serverVars>>
    /\ UNCHANGED <<slot, position, mainVars, clientVars, outbox>>

EndOfFile(c) ==
    /\ task[c] \in {"reading", "streaming"} /\ hung[c] /\ inbox[c] = <<>>
    /\ Goes(c, "gone")
    /\ UNCHANGED <<current, id, slot, position, serverVars, mainVars, clientVars, inbox, outbox>>

\* Mutant: try_send, whose error is overlooked.
SendEventTrying(c) ==
    /\ task[c] = "sending" /\ up
    /\ events' = IF Len(events) < EventCap THEN Append(events, [id |-> id[c], n |-> current[c].n])
                 ELSE events
    /\ Goes(c, "waiting")
    /\ UNCHANGED <<current, id, slot, position, serverVars, executing, up, news, clientVars,
                   inbox, outbox>>

SendEvent(c) ==
    /\ task[c] = "sending" /\ up /\ Len(events) < EventCap
    /\ events' = Append(events, [id |-> id[c], n |-> current[c].n])
    /\ Goes(c, "waiting")
    /\ UNCHANGED <<current, id, slot, position, serverVars, executing, up, news, clientVars,
                   inbox, outbox>>

\* The main loop has left: the error is the last line.
SendFails(c) ==
    /\ task[c] = "sending" /\ ~up
    /\ pending' = {p \in pending : p.id # id[c]}
    /\ Goes(c, "closing")
    /\ UNCHANGED <<current, id, slot, position, nextId, mainVars, clientVars, inbox, outbox>>

GetReply(c) ==
    /\ task[c] = "waiting" /\ slot[c] # NONE
    /\ current' = [current EXCEPT ![c] = [kind |-> current[c].kind, n |-> slot[c]]]
    /\ slot' = [slot EXCEPT ![c] = NONE]
    /\ Goes(c, "writing")
    /\ UNCHANGED <<id, position, serverVars, mainVars, clientVars, inbox, outbox>>

\* write_line.  A client that is gone makes it fail, which ends the task.
Write(c, line, next) ==
    \/ hung[c] /\ Goes(c, "gone") /\ UNCHANGED outbox
    \/ /\ ~hung[c] /\ Len(outbox[c]) < OutCap
       /\ outbox' = [outbox EXCEPT ![c] = Append(@, line)]
       /\ Goes(c, next)

WriteAnswer(c) ==
    /\ task[c] \in {"writing", "closing"}
    /\ Write(c, Answer(current[c].n),
             IF task[c] = "closing" THEN "gone"
             ELSE IF current[c].kind = "subscribe" THEN "subscribing" ELSE "reading")
    /\ current' = [current EXCEPT ![c] = NONE]
    /\ UNCHANGED <<id, slot, position, serverVars, mainVars, clientVars, inbox>>

-----------------------------------------------------------------------------
(* The stream of a subscriber: stream_events.                              *)

\* Only after the client has been told Ok: what is broadcast in between is not
\* for it.
Subscribe(c) ==
    /\ task[c] = "subscribing"
    /\ position' = [position EXCEPT ![c] = news + 1]
    /\ shown' = [shown EXCEPT ![c] = news]
    /\ Goes(c, "streaming")
    /\ UNCHANGED <<current, id, slot, serverVars, mainVars, hung, sent, answered, inbox, outbox>>

Oldest == IF news > Ring THEN news - Ring + 1 ELSE 1

\* Mutant: a subscriber that fell behind goes on with what is sent from now on.
ReceiveLatest(c) ==
    /\ task[c] = "streaming" /\ position[c] <= news
    /\ \/ /\ position[c] >= Oldest
          /\ current' = [current EXCEPT ![c] = News(position[c])]
          /\ position' = [position EXCEPT ![c] = @ + 1]
          /\ Goes(c, "showing")
       \/ /\ position[c] < Oldest                      \* Lagged
          /\ position' = [position EXCEPT ![c] = news + 1] /\ UNCHANGED <<task, current>>
    /\ UNCHANGED <<id, slot, serverVars, mainVars, clientVars, inbox, outbox>>

Receive(c) ==
    /\ task[c] = "streaming" /\ position[c] <= news
    /\ \/ /\ position[c] >= Oldest
          /\ current' = [current EXCEPT ![c] = News(position[c])]
          /\ position' = [position EXCEPT ![c] = @ + 1]
          /\ Goes(c, "showing")
       \/ /\ position[c] < Oldest                      \* Lagged
          /\ position' = [position EXCEPT ![c] = Oldest] /\ UNCHANGED <<task, current>>
    /\ UNCHANGED <<id, slot, serverVars, mainVars, clientVars, inbox, outbox>>

Show(c) ==
    /\ task[c] = "showing" /\ Write(c, current[c], "streaming")
    /\ current' = [current EXCEPT ![c] = NONE]
    /\ UNCHANGED <<id, slot, position, serverVars, mainVars, clientVars, inbox>>

Serve(c) ==
    \/ ReadLine(c) \/ EndOfFile(c) \/ SendEvent(c) \/ SendFails(c) \/ GetReply(c)
    \/ WriteAnswer(c) \/ Subscribe(c) \/ Receive(c) \/ Show(c)

-----------------------------------------------------------------------------
(* The main loop.                                                          *)

Take ==
    /\ up /\ executing = NONE /\ events # <<>>
    /\ executing' = Head(events) /\ events' = Tail(events)
    /\ UNCHANGED <<up, news, serverVars, taskVars, clientVars, inbox, outbox>>

\* Server::reply
Reply(waiting) ==
    /\ slot' = [c \in Clients |-> IF \E p \in waiting : p.client = c THEN executing.n ELSE slot[c]]
    /\ pending' = pending \ waiting

\* Mutant: the reply goes to whoever waits longest.
ReplyToFirst ==
    /\ up /\ executing # NONE /\ executing' = NONE
    /\ Reply({p \in pending : \A q \in pending : p.id <= q.id})
    /\ UNCHANGED <<task, current, id, position, nextId, events, up, news, clientVars, inbox, outbox>>

\* Of every request, one command is Reply.
ReplyTo ==
    /\ up /\ executing # NONE /\ executing' = NONE
    /\ Reply({p \in pending : p.id = executing.id})
    /\ UNCHANGED <<task, current, id, position, nextId, events, up, news, clientVars, inbox, outbox>>

\* Server::broadcast
Broadcast ==
    /\ up /\ news < MaxNews /\ news' = news + 1
    /\ UNCHANGED <<events, executing, up, serverVars, taskVars, clientVars, inbox, outbox>>

\* Command::Shutdown: what is in the channel is dropped.
Leave ==
    /\ up /\ up' = FALSE /\ events' = <<>> /\ executing' = NONE
    /\ UNCHANGED <<news, serverVars, taskVars, clientVars, inbox, outbox>>

Main == Take \/ ReplyTo

Next ==
    \/ \E c \in Clients : \E kind \in Kinds : Ask(c, kind)
    \/ \E c \in Clients : Listen(c) \/ HangUp(c) \/ Serve(c)
    \/ Main \/ Broadcast \/ Leave

Spec == Init /\ [][Next]_vars

\* Tasks are scheduled, the main loop answers, clients read what they asked for.
Proceeds == Main \/ \E c \in Clients : Serve(c) \/ Listen(c)
FairSpec == Spec /\ WF_vars(Proceeds)

-----------------------------------------------------------------------------
(* Properties.                                                             *)

\* The answers a client is sent are those to its own requests, one each, in the
\* order of the requests: also when many wait, hang up, or ask ahead.
AnswersItsOwn ==
    \A c \in Clients :
        /\ \A i \in 1..Len(outbox[c]) :
              outbox[c][i].kind = "answer" => outbox[c][i].n = answered[c] + i
        /\ task[c] \in {"writing", "closing"} =>
              current[c].n = answered[c] + Len(outbox[c]) + 1

\* No request is forgotten, whatever happens to the other connections, and as
\* long as the daemon and its client are there.
EveryRequestIsAnswered ==
    \A c \in Clients : []<>(answered[c] = sent[c] \/ hung[c] \/ ~up)

\* A subscriber that reads sees the last of the broadcasts, also when it has
\* fallen so far behind that it misses others.
SubscribersCatchUp ==
    \A c \in Clients : []<>(task[c] = "streaming" => shown[c] = news \/ hung[c])

=============================================================================
