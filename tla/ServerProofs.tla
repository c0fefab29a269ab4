---------------------------- MODULE ServerProofs ----------------------------
(***************************************************************************)
(* Theorems about the control socket (Socket) and about the requests that   *)
(* go through it (Ipc), for any number of daemons, clients and requests.    *)
(***************************************************************************)
EXTENDS Ipc, Socket, Integers, TLAPS

-----------------------------------------------------------------------------
(* The socket.  One daemon at a time is starting, and once the last one has *)
(* started nobody is: only there may a listener fail.                       *)

Stages == {"unused", "refused", "gone"} \cup Starting \cup Running

OneStarts == \A d, e \in Daemons : daemon[d] \in Starting /\ daemon[e] \in Starting => d = e

InOrder == \A d \in Daemons : daemon[d] # "unused" => \A e \in 1..d-1 : daemon[e] # "unused"

Replaces == \A d, e \in Daemons :
    daemon[d] \in {"removing", "binding"} => daemon[e] # "listening"

LastOne == \A d \in MayGoDeaf :
    daemon[d] \notin Starting \cup {"unused"} => \A e \in Daemons : daemon[e] \notin Starting

DeafAlone == \A d \in MayGoDeaf : daemon[d] = "deaf" => \A e \in Daemons : daemon[e] # "listening"

DeafMay == \A d \in Daemons : daemon[d] = "deaf" => d \in MayGoDeaf

SocketInv ==
    /\ daemon \in [Daemons -> Stages]
    /\ OneStarts /\ InOrder /\ Replaces /\ LastOne /\ DeafAlone /\ DeafMay
    /\ Reachable

LEMMA SocketInductive ==
    ASSUME OneAtATime, MayGoDeaf \subseteq {MaxStarts}, SocketInv, [SocketNext]_socketVars
    PROVE  SocketInv'
<1> USE SocketAssumption DEF SocketInv, Daemons, Stages, Starting, Running, Becomes
<1>1. CASE UNCHANGED socketVars
  BY <1>1 DEF socketVars, OneStarts, InOrder, Replaces, LastOne, DeafAlone, DeafMay, Reachable
<1>2. ASSUME NEW d \in Daemons, Start(d)
      PROVE  SocketInv'
  <2>1. daemon' = [daemon EXCEPT ![d] = "looking"] /\ path' = path /\ daemon[d] = "unused"
        /\ \A e \in Daemons : daemon[e] \notin Starting
    BY <1>2 DEF Start
  <2>2. OneStarts' /\ DeafMay' /\ DeafAlone' /\ Reachable'
    BY <2>1 DEF OneStarts, DeafAlone, DeafMay, Reachable
  <2>3. InOrder'
    BY <1>2, <2>1 DEF Start, InOrder
  <2>4. Replaces'
    BY <2>1 DEF Replaces
  <2>5. LastOne'
    BY <2>1 DEF LastOne, InOrder
  <2> QED BY <2>1, <2>2, <2>3, <2>4, <2>5
<1>3. ASSUME NEW d \in Daemons, Look(d)
      PROVE  SocketInv'
  <2>1. path' = path /\ daemon[d] = "looking"
        /\ \E to \in {"refused", "removing", "binding", "detached"} :
              daemon' = [daemon EXCEPT ![d] = to]
    BY <1>3 DEF Look
  <2>2. OneStarts' /\ InOrder' /\ DeafMay' /\ DeafAlone' /\ Reachable' /\ LastOne'
    BY <2>1 DEF OneStarts, InOrder, DeafMay, DeafAlone, Reachable, LastOne
  <2>3. (\E e \in Daemons : daemon[e] = "listening") => IsLive
    BY DEF Reachable, IsLive
  <2>4. Replaces'
    BY <1>3, <2>1, <2>3 DEF Look, Replaces, Reachable, IsLive
  <2> QED BY <2>1, <2>2, <2>4
<1>4. ASSUME NEW d \in Daemons, Remove(d)
      PROVE  SocketInv'
  BY <1>4 DEF Remove, OneStarts, InOrder, Replaces, LastOne, DeafAlone, DeafMay, Reachable
<1>5. ASSUME NEW d \in Daemons, Bind(d)
      PROVE  SocketInv'
  <2>1. daemon[d] = "binding" /\ \A e \in Daemons : daemon[e] # "listening"
    BY <1>5 DEF Bind, Replaces
  <2>2. \/ path' = d /\ daemon' = [daemon EXCEPT ![d] = "listening"]
        \/ daemon' = [daemon EXCEPT ![d] = "detached"]
    BY <1>5 DEF Bind
  <2>3. OneStarts' /\ InOrder' /\ DeafMay' /\ Reachable' /\ LastOne'
    BY <2>1, <2>2 DEF OneStarts, InOrder, DeafMay, Reachable, LastOne
  <2>4. DeafAlone'
    BY <2>1, <2>2 DEF DeafAlone, LastOne
  <2>5. Replaces'
    BY <2>1, <2>2 DEF Replaces, OneStarts
  <2>6. daemon' \in [Daemons -> Stages]
    BY <2>2
  <2> QED BY <2>3, <2>4, <2>5, <2>6
<1>6. ASSUME NEW d \in Daemons, AcceptFails(d)
      PROVE  SocketInv'
  BY <1>6 DEF AcceptFails, OneStarts, InOrder, Replaces, LastOne, DeafAlone, DeafMay, Reachable
<1>7. ASSUME NEW d \in Daemons, Stop(d)
      PROVE  SocketInv'
  <2>1. daemon' = [daemon EXCEPT ![d] = "gone"] /\ daemon[d] \in Running
        /\ (path' = path \/ daemon[d] \in Binds)
    BY <1>7 DEF Stop
  <2>2. OneStarts' /\ InOrder' /\ Replaces' /\ LastOne' /\ DeafAlone' /\ DeafMay'
    BY <2>1 DEF OneStarts, InOrder, Replaces, LastOne, DeafAlone, DeafMay
  <2>3. Reachable'
    BY <2>1 DEF Reachable, DeafAlone, DeafMay, Binds
  <2> QED BY <2>1, <2>2, <2>3
<1>8. ASSUME NEW d \in Daemons, Kill(d)
      PROVE  SocketInv'
  BY <1>8 DEF Kill, OneStarts, InOrder, Replaces, LastOne, DeafAlone, DeafMay, Reachable
<1> QED BY <1>1, <1>2, <1>3, <1>4, <1>5, <1>6, <1>7, <1>8 DEF SocketNext

\* A daemon that accepts connections is found at the path, however many daemons
\* are started after one another, refused, detached, stopped or killed, as long
\* as accept() fails for none of them but the last.
THEOREM ReachableHolds ==
    ASSUME OneAtATime, MayGoDeaf \subseteq {MaxStarts}
    PROVE  SocketSpec => []Reachable
<1>1. SocketInit => SocketInv
  BY SocketAssumption DEF SocketInit, SocketInv, Daemons, Stages, Starting, Running, OneStarts,
     InOrder, Replaces, LastOne, DeafAlone, DeafMay, Reachable
<1>2. SocketInv /\ [SocketNext]_socketVars => SocketInv'
  BY SocketInductive
<1>3. SocketInv => Reachable
  BY DEF SocketInv
<1> QED BY <1>1, <1>2, <1>3, PTL DEF SocketSpec

-----------------------------------------------------------------------------
(* The requests.  What is in a socket goes on where the client has read to; *)
(* a request on its way through the main loop is that of the connection that *)
(* waits under its id, and of no other.                                     *)

Line == [kind : {"answer", "news"} \cup Kinds, n : Nat]
Request == [id : Nat, n : Nat]
Entry == [id : Nat, client : Clients]
Asking == {"sending", "waiting", "writing", "closing"}
Tasks == Asking \cup {"reading", "subscribing", "streaming", "showing", "gone"}

IpcTypeOK ==
    /\ task \in [Clients -> Tasks]
    /\ current \in [Clients -> Line \cup {NONE}]
    /\ id \in [Clients -> Nat] /\ slot \in [Clients -> Nat \cup {NONE}]
    /\ pending \subseteq Entry /\ nextId \in Nat
    /\ events \in Seq(Request) /\ executing \in Request \cup {NONE}
    /\ up \in BOOLEAN /\ news \in Nat /\ position \in [Clients -> Nat]
    /\ inbox \in [Clients -> Seq(Line)] /\ outbox \in [Clients -> Seq(Line)]
    /\ hung \in [Clients -> BOOLEAN]
    /\ sent \in [Clients -> Nat] /\ answered \in [Clients -> Nat] /\ shown \in [Clients -> Nat]

\* How many lines have been taken from the socket of a client.
Taken(c) == sent[c] - Len(inbox[c])

Lines(c) ==
    /\ \A i \in 1..Len(inbox[c]) : inbox[c][i].n = Taken(c) + i
    /\ \A i \in 1..Len(outbox[c]) : outbox[c][i].kind \in {"answer", "news"}
    /\ \A i \in 1..Len(outbox[c]) :
          outbox[c][i].kind = "answer" => outbox[c][i].n = answered[c] + i
    /\ \A i, j \in 1..Len(outbox[c]) :
          i < j /\ outbox[c][i].kind = "news" => outbox[c][j].kind = "news"
    /\ task[c] \in Asking \cup {"reading", "subscribing"} =>
          \A i \in 1..Len(outbox[c]) : outbox[c][i].kind = "answer"

Turn(c) ==
    /\ task[c] = "reading" => Taken(c) = answered[c] + Len(outbox[c])
    /\ task[c] \in Asking => /\ current[c] \in Line
                             /\ Taken(c) = answered[c] + Len(outbox[c]) + 1
                             /\ current[c].n = Taken(c)
    /\ task[c] = "showing" => current[c] \in Line /\ current[c].kind = "news"
    /\ slot[c] # NONE => task[c] = "waiting" /\ slot[c] = current[c].n

Underway(r) ==
    /\ r.id < nextId
    /\ \A c \in Clients : Waits(c) /\ id[c] = r.id => task[c] = "waiting" /\ current[c].n = r.n

Ids ==
    /\ \A c \in Clients : Waits(c) => id[c] < nextId
    /\ \A c, d \in Clients : Waits(c) /\ Waits(d) /\ id[c] = id[d] => c = d
    /\ \A p \in pending : Waits(p.client) /\ p.id = id[p.client] /\ slot[p.client] = NONE

Requests ==
    /\ \A i \in 1..Len(events) : Underway(events[i])
    /\ executing # NONE => Underway(executing)
    /\ Ids

IpcInv ==
    /\ IpcTypeOK
    /\ \A c \in Clients : Lines(c) /\ Turn(c)
    /\ Requests

LEMMA AppendFacts ==
    ASSUME NEW S, NEW s \in Seq(S), NEW e \in S
    PROVE  /\ Append(s, e) \in Seq(S) /\ Len(Append(s, e)) = Len(s) + 1
           /\ \A i \in 1..Len(s) : Append(s, e)[i] = s[i]
           /\ Append(s, e)[Len(s) + 1] = e
  OBVIOUS

LEMMA TailFacts ==
    ASSUME NEW S, NEW s \in Seq(S), s # <<>>
    PROVE  /\ Tail(s) \in Seq(S) /\ Len(s) > 0 /\ Len(Tail(s)) = Len(s) - 1
           /\ \A i \in 1..Len(s) - 1 : Tail(s)[i] = s[i + 1]
           /\ Head(s) = s[1] /\ Head(s) \in S
  OBVIOUS

LEMMA TypeInit == Init => IpcTypeOK
  BY IpcAssumption DEF Init, IpcTypeOK, Tasks, Asking

LEMMA TypeNext ==
    ASSUME IpcTypeOK, [Next]_vars, \A c \in Clients : Turn(c)
    PROVE  IpcTypeOK'
<1> USE IpcAssumption DEF IpcTypeOK, Tasks, Asking, Goes
<1>1. CASE UNCHANGED vars
  BY <1>1 DEF vars, serverVars, mainVars, taskVars, clientVars
<1>2. ASSUME NEW c \in Clients, NEW kind \in Kinds, Ask(c, kind) PROVE IpcTypeOK'
  <2>1. [n |-> sent'[c], kind |-> kind] \in Line
    BY <1>2 DEF Ask, Line
  <2> QED BY <1>2, <2>1 DEF Ask, serverVars, mainVars, taskVars
<1>3. ASSUME NEW c \in Clients, Listen(c) PROVE IpcTypeOK'
  <2>1. Head(outbox[c]) \in Line /\ Tail(outbox[c]) \in Seq(Line)
    BY <1>3 DEF Listen
  <2> QED BY <1>3, <2>1 DEF Listen, Line, serverVars, mainVars, taskVars
<1>4. ASSUME NEW c \in Clients, HangUp(c) PROVE IpcTypeOK'
  BY <1>4 DEF HangUp, serverVars, mainVars, taskVars
<1>5. ASSUME NEW c \in Clients, ReadLine(c) PROVE IpcTypeOK'
  <2>1. Head(inbox[c]) \in Line /\ Tail(inbox[c]) \in Seq(Line)
    BY <1>5 DEF ReadLine
  <2>2. inbox' \in [Clients -> Seq(Line)] /\ current' \in [Clients -> Line \cup {NONE}]
    BY <1>5, <2>1 DEF ReadLine
  <2>3. CASE Register(c)
    <3>1. nextId \in Nat /\ pending \subseteq Entry /\ id \in [Clients -> Nat]
      OBVIOUS
    <3>2. pending' \subseteq Entry /\ nextId' \in Nat
      <4> HIDE DEF IpcTypeOK
      <4> QED BY <2>3, <3>1 DEF Register, Entry
    <3>3. id' = [id EXCEPT ![c] = nextId] /\ task' = [task EXCEPT ![c] = "sending"]
      BY <2>3 DEF Register
    <3> QED BY <1>5, <2>2, <3>1, <3>2, <3>3 DEF ReadLine, mainVars, clientVars
  <2>4. CASE Goes(c, "writing") /\ UNCHANGED <<id, serverVars>>
    BY <1>5, <2>2, <2>4 DEF ReadLine, serverVars, mainVars, clientVars
  <2> QED BY <1>5, <2>3, <2>4 DEF ReadLine
<1>6. ASSUME NEW c \in Clients, EndOfFile(c) PROVE IpcTypeOK'
  BY <1>6 DEF EndOfFile, serverVars, mainVars, clientVars
<1>7. ASSUME NEW c \in Clients, SendEvent(c) PROVE IpcTypeOK'
  <2>1. [id |-> id[c], n |-> current[c].n] \in Request
    BY <1>7 DEF SendEvent, Turn, Request, Line
  <2>2. events' \in Seq(Request)
    BY <1>7, <2>1 DEF SendEvent
  <2>3. task' \in [Clients -> Tasks]
    BY <1>7 DEF SendEvent
  <2> QED BY <1>7, <2>2, <2>3 DEF SendEvent, serverVars, clientVars
<1>8. ASSUME NEW c \in Clients, SendFails(c) PROVE IpcTypeOK'
  BY <1>8 DEF SendFails, mainVars, clientVars
<1>9. ASSUME NEW c \in Clients, GetReply(c) PROVE IpcTypeOK'
  <2>1. [kind |-> current[c].kind, n |-> slot[c]] \in Line
    BY <1>9 DEF GetReply, Turn, Line
  <2> QED BY <1>9, <2>1 DEF GetReply, serverVars, mainVars, clientVars
<1>10. ASSUME NEW c \in Clients, WriteAnswer(c) PROVE IpcTypeOK'
  <2>1. Answer(current[c].n) \in Line
    BY <1>10 DEF WriteAnswer, Turn, Line, Answer
  <2>2. outbox' \in [Clients -> Seq(Line)]
    <3>1. outbox \in [Clients -> Seq(Line)]
      OBVIOUS
    <3>2. outbox' = outbox \/ outbox' = [outbox EXCEPT ![c] = Append(outbox[c], Answer(current[c].n))]
      BY <1>10 DEF WriteAnswer, Write
    <3>3. Append(outbox[c], Answer(current[c].n)) \in Seq(Line)
      BY <2>1, <3>1, AppendFacts
    <3> HIDE DEF IpcTypeOK
    <3> QED BY <3>1, <3>2, <3>3
  <2>3. PICK to \in Tasks : task' = [task EXCEPT ![c] = to]
    <3> HIDE DEF IpcTypeOK
    <3> QED BY <1>10 DEF WriteAnswer, Write
  <2> QED BY <1>10, <2>2, <2>3 DEF WriteAnswer, serverVars, mainVars, clientVars
<1>11. ASSUME NEW c \in Clients, Subscribe(c) PROVE IpcTypeOK'
  <2>1. task' \in [Clients -> Tasks] /\ position' \in [Clients -> Nat] /\ shown' \in [Clients -> Nat]
    BY <1>11 DEF Subscribe
  <2> QED BY <1>11, <2>1 DEF Subscribe, serverVars, mainVars
<1>12. ASSUME NEW c \in Clients, Receive(c) PROVE IpcTypeOK'
  <2>1. News(position[c]) \in Line /\ Oldest \in Nat
    BY DEF News, Line, Oldest
  <2>2. position' \in [Clients -> Nat]
    <3>1. position \in [Clients -> Nat]
      OBVIOUS
    <3>2. \E next \in Nat : position' = [position EXCEPT ![c] = next]
      BY <1>12, <2>1, <3>1 DEF Receive
    <3> HIDE DEF IpcTypeOK
    <3> QED BY <3>1, <3>2
  <2>3. task' \in [Clients -> Tasks]
    <3>1. task \in [Clients -> Tasks]
      OBVIOUS
    <3> HIDE DEF IpcTypeOK
    <3> QED BY <1>12, <3>1 DEF Receive
  <2>4. current' \in [Clients -> Line \cup {NONE}]
    BY <1>12, <2>1 DEF Receive
  <2> QED BY <1>12, <2>2, <2>3, <2>4 DEF Receive, serverVars, mainVars, clientVars
<1>13. ASSUME NEW c \in Clients, Show(c) PROVE IpcTypeOK'
  <2>1. current[c] \in Line
    BY <1>13 DEF Show, Turn
  <2>2. outbox' \in [Clients -> Seq(Line)]
    <3>1. outbox \in [Clients -> Seq(Line)]
      OBVIOUS
    <3>2. outbox' = outbox \/ outbox' = [outbox EXCEPT ![c] = Append(outbox[c], current[c])]
      BY <1>13 DEF Show, Write
    <3>3. Append(outbox[c], current[c]) \in Seq(Line)
      BY <2>1, <3>1, AppendFacts
    <3> HIDE DEF IpcTypeOK
    <3> QED BY <3>1, <3>2, <3>3
  <2>3. PICK to \in Tasks : task' = [task EXCEPT ![c] = to]
    <3> HIDE DEF IpcTypeOK
    <3> QED BY <1>13 DEF Show, Write
  <2> QED BY <1>13, <2>2, <2>3 DEF Show, serverVars, mainVars, clientVars
<1>14. CASE Take
  <2>1. Head(events) \in Request /\ Tail(events) \in Seq(Request)
    BY <1>14 DEF Take
  <2> QED BY <1>14, <2>1 DEF Take, serverVars, taskVars, clientVars
<1>15. CASE ReplyTo
  BY <1>15 DEF ReplyTo, Reply, Request, clientVars
<1>16. CASE Broadcast
  BY <1>16 DEF Broadcast, serverVars, taskVars, clientVars
<1>17. CASE Leave
  <2>1. events' \in Seq(Request)
    BY <1>17 DEF Leave
  <2> QED BY <1>17, <2>1 DEF Leave, serverVars, taskVars, clientVars
<1> QED BY <1>1, <1>2, <1>3, <1>4, <1>5, <1>6, <1>7, <1>8, <1>9, <1>10, <1>11, <1>12, <1>13,
        <1>14, <1>15, <1>16, <1>17 DEF Next, Serve, Main

-----------------------------------------------------------------------------
(* The lines of a client, step by step.                                     *)

\* What a step does not touch of a client.
Untouched(d) ==
    /\ task'[d] = task[d] /\ current'[d] = current[d] /\ slot'[d] = slot[d]
    /\ inbox'[d] = inbox[d] /\ outbox'[d] = outbox[d]
    /\ sent'[d] = sent[d] /\ answered'[d] = answered[d]

LEMMA FrameLines ==
    ASSUME NEW d \in Clients, Lines(d), Turn(d), Untouched(d)
    PROVE  Lines(d)' /\ Turn(d)'
  BY DEF Lines, Turn, Taken, Untouched

\* A line more in a socket of a task that writes.
LEMMA WriteLines ==
    ASSUME NEW c \in Clients, IpcTypeOK, Lines(c), Turn(c), NEW line \in Line,
           outbox' = [outbox EXCEPT ![c] = Append(outbox[c], line)],
           UNCHANGED <<inbox, sent, answered>>,
           line.kind \in {"answer", "news"},
           line.kind = "answer" => /\ line.n = answered[c] + Len(outbox[c]) + 1
                                   /\ \A i \in 1..Len(outbox[c]) : outbox[c][i].kind = "answer",
           task'[c] \in Asking \cup {"reading", "subscribing"} => line.kind = "answer"
    PROVE  /\ Lines(c)' /\ Len(outbox'[c]) = Len(outbox[c]) + 1 /\ Taken(c)' = Taken(c)
           /\ answered'[c] = answered[c]
<1>1. outbox[c] \in Seq(Line) /\ outbox'[c] = Append(outbox[c], line)
  BY DEF IpcTypeOK
<1>2. /\ Len(outbox'[c]) = Len(outbox[c]) + 1 /\ Len(outbox[c]) \in Nat
      /\ \A i \in 1..Len(outbox[c]) : outbox'[c][i] = outbox[c][i]
      /\ outbox'[c][Len(outbox[c]) + 1] = line
  BY <1>1, AppendFacts
<1>3. Taken(c)' = Taken(c) /\ \A i \in 1..Len(inbox'[c]) : inbox'[c][i].n = Taken(c)' + i
  BY DEF Lines, Taken
<1>4. \A i \in 1..Len(outbox'[c]) : i \in 1..Len(outbox[c]) \/ i = Len(outbox[c]) + 1
  BY <1>2
<1>5. \A i \in 1..Len(outbox'[c]) : outbox'[c][i].kind \in {"answer", "news"}
  BY <1>2, <1>4 DEF Lines
<1>6. \A i \in 1..Len(outbox'[c]) :
         outbox'[c][i].kind = "answer" => outbox'[c][i].n = answered'[c] + i
  BY <1>2, <1>4, IpcTypeOK DEF Lines, IpcTypeOK
<1>7. \A i, j \in 1..Len(outbox'[c]) :
         i < j /\ outbox'[c][i].kind = "news" => outbox'[c][j].kind = "news"
  <2>1. \A i \in 1..Len(outbox[c]) : outbox[c][i].kind = "news" => line.kind = "news"
    OBVIOUS
  <2> QED BY <1>2, <1>4, <2>1 DEF Lines
<1>8. task'[c] \in Asking \cup {"reading", "subscribing"} =>
         \A i \in 1..Len(outbox'[c]) : outbox'[c][i].kind = "answer"
  <2>1. line.kind = "answer" => \A i \in 1..Len(outbox'[c]) : outbox'[c][i].kind = "answer"
    BY <1>2, <1>4
  <2> QED BY <2>1
<1> QED BY <1>2, <1>3, <1>5, <1>6, <1>7, <1>8 DEF Lines

LEMMA AskLines ==
    ASSUME IpcTypeOK, NEW c \in Clients, NEW kind \in Kinds, Ask(c, kind),
           NEW d \in Clients, Lines(d), Turn(d)
    PROVE  Lines(d)' /\ Turn(d)'
<1>1. CASE d # c
  <2>1. Untouched(d)
    BY <1>1 DEF Ask, IpcTypeOK, Untouched, taskVars
  <2> QED BY <2>1, FrameLines
<1>2. CASE d = c
  <2>1. /\ inbox[c] \in Seq(Line) /\ sent[c] \in Nat /\ sent'[c] = sent[c] + 1
        /\ UNCHANGED <<task, current, slot, answered, outbox>>
        /\ inbox'[c] = Append(inbox[c], [n |-> sent[c] + 1, kind |-> kind])
    BY DEF Ask, IpcTypeOK, taskVars
  <2>2. [n |-> sent[c] + 1, kind |-> kind] \in Line
    BY <2>1 DEF Line
  <2>3. /\ Len(inbox'[c]) = Len(inbox[c]) + 1 /\ Len(inbox[c]) \in Nat
        /\ \A i \in 1..Len(inbox[c]) : inbox'[c][i] = inbox[c][i]
        /\ inbox'[c][Len(inbox[c]) + 1].n = sent[c] + 1
    BY <2>1, <2>2, AppendFacts
  <2>4. Taken(c)' = Taken(c) /\ Taken(c) + Len(inbox[c]) + 1 = sent[c] + 1
    BY <2>1, <2>3 DEF Taken
  <2>5. \A i \in 1..Len(inbox'[c]) : i \in 1..Len(inbox[c]) \/ i = Len(inbox[c]) + 1
    BY <2>3
  <2>6. \A i \in 1..Len(inbox'[c]) : inbox'[c][i].n = Taken(c)' + i
    <3>1. \A i \in 1..Len(inbox[c]) : inbox[c][i].n = Taken(c) + i
      BY <1>2 DEF Lines
    <3>2. Taken(c) + (Len(inbox[c]) + 1) = sent[c] + 1
      BY <2>1, <2>3 DEF Taken
    <3> QED BY <2>3, <2>4, <2>5, <3>1, <3>2
  <2> QED BY <1>2, <2>1, <2>4, <2>6 DEF Lines, Turn
<1> QED BY <1>1, <1>2

LEMMA ListenLines ==
    ASSUME IpcTypeOK, NEW c \in Clients, Listen(c), NEW d \in Clients, Lines(d), Turn(d)
    PROVE  Lines(d)' /\ Turn(d)'
<1>1. CASE d # c
  <2>1. Untouched(d)
    BY <1>1 DEF Listen, IpcTypeOK, Untouched, taskVars
  <2> QED BY <2>1, FrameLines
<1>2. CASE d = c
  <2>1. /\ outbox[c] \in Seq(Line) /\ outbox[c] # <<>> /\ outbox'[c] = Tail(outbox[c])
        /\ UNCHANGED <<task, current, slot, sent, inbox>>
        /\ answered[c] \in Nat
    BY DEF Listen, IpcTypeOK, taskVars
  <2>2. /\ Len(outbox[c]) \in Nat /\ Len(outbox[c]) > 0 /\ Len(outbox'[c]) = Len(outbox[c]) - 1
        /\ \A i \in 1..Len(outbox[c]) - 1 : outbox'[c][i] = outbox[c][i + 1]
        /\ Head(outbox[c]) = outbox[c][1]
    BY <2>1, TailFacts
  <2>3. \A i \in 1..Len(outbox'[c]) : i \in 1..Len(outbox[c]) - 1 /\ i + 1 \in 1..Len(outbox[c])
    BY <2>2
  <2>4. answered'[c] = IF outbox[c][1].kind = "answer" THEN outbox[c][1].n ELSE answered[c]
    BY <2>2 DEF Listen, IpcTypeOK
  <2>5. 1 \in 1..Len(outbox[c]) /\ outbox[c][1].kind \in {"answer", "news"}
    BY <1>2, <2>2 DEF Lines
  <2>6. /\ \A i \in 1..Len(outbox[c]) : outbox[c][i].kind \in {"answer", "news"}
        /\ \A i \in 1..Len(outbox[c]) :
              outbox[c][i].kind = "answer" => outbox[c][i].n = answered[c] + i
        /\ \A i, j \in 1..Len(outbox[c]) :
              i < j /\ outbox[c][i].kind = "news" => outbox[c][j].kind = "news"
        /\ task[c] \in Asking \cup {"reading", "subscribing"} =>
              \A i \in 1..Len(outbox[c]) : outbox[c][i].kind = "answer"
    BY <1>2 DEF Lines
  <2>7. ASSUME outbox[c][1].kind = "answer"
        PROVE /\ \A i \in 1..Len(outbox'[c]) :
                    outbox'[c][i].kind = "answer" => outbox'[c][i].n = answered'[c] + i
              /\ task[c] \in Asking \cup {"reading", "subscribing"} =>
                    answered'[c] + Len(outbox'[c]) = answered[c] + Len(outbox[c])
    <3>1. answered'[c] = answered[c] + 1
      BY <2>4, <2>5, <2>6, <2>7
    <3>2. \A i \in 1..Len(outbox'[c]) :
             outbox'[c][i].kind = "answer" => outbox'[c][i].n = answered'[c] + i
      <4> SUFFICES ASSUME NEW i \in 1..Len(outbox'[c]), outbox'[c][i].kind = "answer"
                   PROVE  outbox'[c][i].n = answered'[c] + i
        OBVIOUS
      <4>1. i \in 1..Len(outbox[c]) - 1 /\ i + 1 \in 1..Len(outbox[c])
        BY <2>3
      <4>2. outbox'[c][i] = outbox[c][i + 1]
        BY <2>2, <4>1
      <4>3. outbox[c][i + 1].kind = "answer"
        BY <4>2
      <4>4. outbox[c][i + 1].n = answered[c] + (i + 1)
        BY <2>6, <4>1, <4>3
      <4>5. outbox'[c][i].n = answered[c] + (i + 1)
        BY <4>2, <4>4
      <4>6. i \in Nat /\ answered[c] \in Nat
        BY <2>1, <2>2, <4>1
      <4>7. answered[c] + (i + 1) = (answered[c] + 1) + i
        BY <4>6
      <4> QED BY <3>1, <4>5, <4>7, Zenon
    <3>3. answered'[c] + Len(outbox'[c]) = answered[c] + Len(outbox[c])
      BY <2>1, <2>2, <3>1
    <3> QED BY <3>2, <3>3
  <2>8. ASSUME outbox[c][1].kind = "news"
        PROVE /\ \A i \in 1..Len(outbox'[c]) :
                    outbox'[c][i].kind = "answer" => outbox'[c][i].n = answered'[c] + i
              /\ task[c] \in Asking \cup {"reading", "subscribing"} =>
                    answered'[c] + Len(outbox'[c]) = answered[c] + Len(outbox[c])
    <3>1. \A i \in 1..Len(outbox[c]) : outbox[c][i].kind = "news"
      <4> SUFFICES ASSUME NEW i \in 1..Len(outbox[c]) PROVE outbox[c][i].kind = "news"
        OBVIOUS
      <4>1. i = 1 \/ 1 < i
        OBVIOUS
      <4> QED BY <2>5, <2>6, <2>8, <4>1
    <3>2. \A i \in 1..Len(outbox'[c]) : outbox'[c][i].kind = "news"
      BY <2>2, <2>3, <3>1
    <3>3. task[c] \notin Asking \cup {"reading", "subscribing"}
      BY <2>5, <2>6, <2>8
    <3> QED BY <2>1, <3>2, <3>3
  <2>9. /\ \A i \in 1..Len(outbox'[c]) :
              outbox'[c][i].kind = "answer" => outbox'[c][i].n = answered'[c] + i
        /\ task[c] \in Asking \cup {"reading", "subscribing"} =>
              answered'[c] + Len(outbox'[c]) = answered[c] + Len(outbox[c])
    BY <2>5, <2>7, <2>8
  <2>10. Taken(c)' = Taken(c)
    BY <2>1 DEF Taken
  <2>11. Lines(c)'
    <3>1. \A i \in 1..Len(outbox'[c]) : outbox'[c][i].kind \in {"answer", "news"}
      <4> SUFFICES ASSUME NEW i \in 1..Len(outbox'[c])
                   PROVE  outbox[c][i + 1].kind \in {"answer", "news"}
        BY <2>2, <2>3
      <4> QED BY <2>3, <2>6
    <3>2. \A i, j \in 1..Len(outbox'[c]) :
             i < j /\ outbox'[c][i].kind = "news" => outbox'[c][j].kind = "news"
      <4> SUFFICES ASSUME NEW i \in 1..Len(outbox'[c]), NEW j \in 1..Len(outbox'[c]), i < j,
                          outbox[c][i + 1].kind = "news"
                   PROVE  outbox[c][j + 1].kind = "news"
        BY <2>2, <2>3
      <4>1. i + 1 < j + 1 /\ i + 1 \in 1..Len(outbox[c]) /\ j + 1 \in 1..Len(outbox[c])
        BY <2>3
      <4> QED BY <2>6, <4>1
    <3>3. task'[c] \in Asking \cup {"reading", "subscribing"} =>
             \A i \in 1..Len(outbox'[c]) : outbox'[c][i].kind = "answer"
      BY <2>1, <2>2, <2>3, <2>6
    <3> QED BY <1>2, <2>1, <2>9, <2>10, <3>1, <3>2, <3>3 DEF Lines
  <2>12. Turn(c)'
    BY <1>2, <2>1, <2>9, <2>10 DEF Turn, Asking
  <2> QED BY <1>2, <2>11, <2>12
<1> QED BY <1>1, <1>2

\* The steps that leave the sockets and the counters of their clients alone.
LEMMA TaskLines ==
    ASSUME IpcTypeOK, NEW c \in Clients, NEW d \in Clients, Lines(d), Turn(d),
           EndOfFile(c) \/ SendEvent(c) \/ SendFails(c) \/ GetReply(c) \/ Subscribe(c) \/ Receive(c)
    PROVE  Lines(d)' /\ Turn(d)'
<1>1. UNCHANGED <<inbox, outbox, sent, answered>>
  BY DEF EndOfFile, SendEvent, SendFails, GetReply, Subscribe, Receive, clientVars
<1>2. CASE d # c
  <2>1. task'[d] = task[d]
    BY <1>2 DEF IpcTypeOK, Goes, EndOfFile, SendEvent, SendFails, GetReply, Subscribe, Receive
  <2>2. current'[d] = current[d]
    BY <1>2 DEF IpcTypeOK, EndOfFile, SendEvent, SendFails, GetReply, Subscribe, Receive
  <2>3. slot'[d] = slot[d]
    BY <1>2 DEF IpcTypeOK, EndOfFile, SendEvent, SendFails, GetReply, Subscribe, Receive
  <2> QED BY <1>1, <2>1, <2>2, <2>3, FrameLines DEF Untouched
<1>3. CASE d = c
  <2>1. Taken(c)' = Taken(c)
    BY <1>1 DEF Taken
  <2>2. task'[c] \in Asking \cup {"reading", "subscribing"} =>
           task[c] \in Asking \cup {"reading", "subscribing"}
    BY DEF IpcTypeOK, Goes, Asking, EndOfFile, SendEvent, SendFails, GetReply, Subscribe, Receive
  <2>3. Lines(c)'
    BY <1>1, <1>3, <2>1, <2>2 DEF Lines
  <2>4. CASE EndOfFile(c)
    <3>1. task'[c] = "gone" /\ slot'[c] = slot[c] /\ slot[c] = NONE
      BY <1>3, <2>4 DEF EndOfFile, Goes, IpcTypeOK, Turn
    <3> QED BY <1>3, <2>3, <3>1 DEF Turn, Asking
  <2>5. CASE SendEvent(c)
    <3>1. /\ task[c] = "sending" /\ task'[c] = "waiting"
          /\ slot'[c] = slot[c] /\ current'[c] = current[c] /\ slot[c] = NONE
      BY <1>3, <2>5 DEF SendEvent, Goes, IpcTypeOK, Turn
    <3> QED BY <1>1, <1>3, <2>1, <2>3, <3>1 DEF Turn, Asking
  <2>6. CASE SendFails(c)
    <3>1. /\ task[c] = "sending" /\ task'[c] = "closing"
          /\ slot'[c] = slot[c] /\ current'[c] = current[c] /\ slot[c] = NONE
      BY <1>3, <2>6 DEF SendFails, Goes, IpcTypeOK, Turn
    <3> QED BY <1>1, <1>3, <2>1, <2>3, <3>1 DEF Turn, Asking
  <2>7. CASE GetReply(c)
    <3>1. /\ task[c] = "waiting" /\ task'[c] = "writing" /\ slot'[c] = NONE
          /\ slot[c] = current[c].n /\ current[c] \in Line
      BY <1>3, <2>7 DEF GetReply, Goes, IpcTypeOK, Turn, Asking
    <3>2. current'[c] = [kind |-> current[c].kind, n |-> slot[c]]
      BY <2>7 DEF GetReply, IpcTypeOK
    <3>3. current'[c] \in Line /\ current'[c].n = current[c].n
      BY <3>1, <3>2 DEF Line
    <3> QED BY <1>1, <1>3, <2>1, <2>3, <3>1, <3>3 DEF Turn, Asking
  <2>8. CASE Subscribe(c)
    <3>1. task'[c] = "streaming" /\ slot'[c] = slot[c] /\ slot[c] = NONE
      BY <1>3, <2>8 DEF Subscribe, Goes, IpcTypeOK, Turn
    <3> QED BY <1>3, <2>3, <3>1 DEF Turn, Asking
  <2>9. CASE Receive(c)
    <3>1. /\ task[c] = "streaming" /\ slot'[c] = slot[c] /\ slot[c] = NONE
          /\ \/ task'[c] = "showing" /\ current'[c] = News(position[c])
             \/ task'[c] = "streaming"
      BY <1>3, <2>9 DEF Receive, Goes, IpcTypeOK, Turn
    <3>2. News(position[c]) \in Line /\ News(position[c]).kind = "news"
      BY DEF News, Line, IpcTypeOK
    <3> QED BY <1>3, <2>3, <3>1, <3>2 DEF Turn, Asking
  <2> QED BY <2>4, <2>5, <2>6, <2>7, <2>8, <2>9
<1> QED BY <1>2, <1>3

LEMMA ReadLines ==
    ASSUME IpcTypeOK, NEW c \in Clients, ReadLine(c), NEW d \in Clients, Lines(d), Turn(d)
    PROVE  Lines(d)' /\ Turn(d)'
<1>1. UNCHANGED <<slot, outbox, sent, answered>>
  BY DEF ReadLine, clientVars
<1>2. \E to \in {"sending", "writing"} : task' = [task EXCEPT ![c] = to]
  BY DEF ReadLine, Register, Goes
<1>3. CASE d # c
  <2>1. Untouched(d)
    BY <1>1, <1>2, <1>3 DEF ReadLine, IpcTypeOK, Untouched
  <2> QED BY <2>1, FrameLines
<1>4. CASE d = c
  <2>1. /\ task[c] = "reading" /\ task'[c] \in {"sending", "writing"}
        /\ inbox[c] \in Seq(Line) /\ inbox[c] # <<>> /\ inbox'[c] = Tail(inbox[c])
        /\ current'[c] = Head(inbox[c]) /\ sent[c] \in Nat
    BY <1>2 DEF ReadLine, IpcTypeOK
  <2>2. /\ Len(inbox[c]) \in Nat /\ Len(inbox[c]) > 0 /\ Len(inbox'[c]) = Len(inbox[c]) - 1
        /\ \A i \in 1..Len(inbox[c]) - 1 : inbox'[c][i] = inbox[c][i + 1]
        /\ Head(inbox[c]) = inbox[c][1] /\ Head(inbox[c]) \in Line
    BY <2>1, TailFacts
  <2>3. \A i \in 1..Len(inbox[c]) : inbox[c][i].n = Taken(c) + i
    BY <1>4 DEF Lines
  <2>4. Taken(c)' = Taken(c) + 1 /\ Taken(c) \in Int
    BY <1>1, <2>1, <2>2 DEF Taken
  <2>5. current'[c].n = Taken(c)'
    BY <2>1, <2>2, <2>3, <2>4
  <2>6. \A i \in 1..Len(inbox'[c]) : inbox'[c][i].n = Taken(c)' + i
    <3> SUFFICES ASSUME NEW i \in 1..Len(inbox'[c])
                 PROVE  inbox[c][i + 1].n = Taken(c) + 1 + i
      BY <2>2, <2>4
    <3>1. i + 1 \in 1..Len(inbox[c])
      BY <2>2
    <3>2. inbox[c][i + 1].n = Taken(c) + (i + 1)
      BY <2>3, <3>1
    <3> QED BY <2>4, <3>2
  <2>7. Lines(c)'
    BY <1>1, <1>4, <2>1, <2>6 DEF Lines
  <2>8. Turn(c)'
    <3>1. Taken(c)' = answered'[c] + Len(outbox'[c]) + 1
      BY <1>1, <1>4, <2>1, <2>4 DEF Turn
    <3>2. slot'[c] = NONE
      BY <1>1, <1>4, <2>1 DEF Turn
    <3> QED BY <2>1, <2>2, <2>5, <3>1, <3>2 DEF Turn
  <2> QED BY <1>4, <2>7, <2>8
<1> QED BY <1>3, <1>4

LEMMA AnswerLines ==
    ASSUME IpcTypeOK, NEW c \in Clients, WriteAnswer(c), NEW d \in Clients, Lines(d), Turn(d)
    PROVE  Lines(d)' /\ Turn(d)'
<1>1. UNCHANGED <<slot, inbox, sent, answered>>
  BY DEF WriteAnswer, clientVars
<1>2. PICK to \in {"gone", "reading", "subscribing"} : task' = [task EXCEPT ![c] = to]
  BY DEF WriteAnswer, Write, Goes
<1>3. outbox' = outbox \/ outbox' = [outbox EXCEPT ![c] = Append(outbox[c], Answer(current[c].n))]
  BY DEF WriteAnswer, Write
<1>4. CASE d # c
  <2>1. Untouched(d)
    BY <1>1, <1>2, <1>3, <1>4 DEF WriteAnswer, IpcTypeOK, Untouched
  <2> QED BY <2>1, FrameLines
<1>5. CASE d = c
  <2>1. task[c] \in {"writing", "closing"} /\ task'[c] = to
    BY <1>2 DEF WriteAnswer, IpcTypeOK
  <2>2. /\ slot'[c] = NONE /\ current[c] \in Line
        /\ Taken(c) = answered[c] + Len(outbox[c]) + 1 /\ current[c].n = Taken(c)
    BY <1>1, <1>5, <2>1 DEF Turn, Asking
  <2>3. CASE to = "gone" /\ outbox' = outbox
    BY <1>1, <1>5, <2>1, <2>2, <2>3 DEF Lines, Turn, Taken, Asking
  <2>4. CASE outbox' = [outbox EXCEPT ![c] = Append(outbox[c], Answer(current[c].n))]
    <3>1. /\ Answer(current[c].n) \in Line /\ Answer(current[c].n).kind = "answer"
          /\ Answer(current[c].n).n = answered[c] + Len(outbox[c]) + 1
      BY <2>2 DEF Answer, Line
    <3>2. \A i \in 1..Len(outbox[c]) : outbox[c][i].kind = "answer"
      BY <1>5, <2>1 DEF Lines, Asking
    <3>3. /\ Lines(c)' /\ Len(outbox'[c]) = Len(outbox[c]) + 1 /\ Taken(c)' = Taken(c)
          /\ answered'[c] = answered[c]
      BY <1>1, <1>5, <2>4, <3>1, <3>2, WriteLines
    <3>4. Taken(c)' = answered'[c] + Len(outbox'[c])
      BY <2>2, <3>3 DEF IpcTypeOK
    <3> QED BY <1>5, <2>1, <2>2, <3>3, <3>4 DEF Turn, Asking
  <2> QED BY <1>2, <1>3, <2>1, <2>3, <2>4 DEF WriteAnswer, Write, Goes, IpcTypeOK
<1> QED BY <1>4, <1>5

LEMMA ShowLines ==
    ASSUME IpcTypeOK, NEW c \in Clients, Show(c), NEW d \in Clients, Lines(d), Turn(d)
    PROVE  Lines(d)' /\ Turn(d)'
<1>1. UNCHANGED <<slot, inbox, sent, answered>>
  BY DEF Show, clientVars
<1>2. PICK to \in {"gone", "streaming"} : task' = [task EXCEPT ![c] = to]
  BY DEF Show, Write, Goes
<1>3. outbox' = outbox \/ outbox' = [outbox EXCEPT ![c] = Append(outbox[c], current[c])]
  BY DEF Show, Write
<1>4. CASE d # c
  <2>1. Untouched(d)
    BY <1>1, <1>2, <1>3, <1>4 DEF Show, IpcTypeOK, Untouched
  <2> QED BY <2>1, FrameLines
<1>5. CASE d = c
  <2>1. task[c] = "showing" /\ task'[c] = to
    BY <1>2 DEF Show, IpcTypeOK
  <2>2. slot'[c] = NONE /\ current[c] \in Line /\ current[c].kind = "news"
    BY <1>1, <1>5, <2>1 DEF Turn
  <2>3. Lines(c)'
    <3>1. CASE outbox' = outbox
      BY <1>1, <1>5, <2>1, <3>1 DEF Lines, Taken, Asking
    <3>2. CASE outbox' = [outbox EXCEPT ![c] = Append(outbox[c], current[c])]
      BY <1>1, <1>5, <2>1, <2>2, <3>2, WriteLines DEF Asking
    <3> QED BY <1>3, <3>1, <3>2
  <2> QED BY <1>5, <2>1, <2>2, <2>3 DEF Turn, Asking
<1> QED BY <1>4, <1>5

-----------------------------------------------------------------------------
(* The requests on their way, step by step.                                 *)

\* Who waits goes on waiting for the same, and nobody begins to.
SameWaits ==
    /\ \A d \in Clients : Waits(d)' => Waits(d)
    /\ \A d \in Clients : Waits(d) => task'[d] = task[d] /\ current'[d] = current[d]
    /\ \A d \in Clients : slot'[d] = slot[d]
    /\ UNCHANGED <<id, pending, nextId>>

LEMMA FrameWaits ==
    ASSUME IpcTypeOK, Ids, SameWaits
    PROVE  Ids' /\ \A r : Underway(r) => Underway(r)'
<1>1. \A d \in Clients : Waits(d) => Waits(d)'
  BY DEF SameWaits, Waits
<1>2. Ids'
  BY <1>1 DEF SameWaits, Ids, IpcTypeOK, Entry
<1>3. \A r : Underway(r) => Underway(r)'
  BY DEF SameWaits, Underway
<1> QED BY <1>2, <1>3

\* The steps that touch no request on its way.
Aside ==
    \/ \E c \in Clients : \E kind \in Kinds : Ask(c, kind)
    \/ \E c \in Clients :
          Listen(c) \/ HangUp(c) \/ EndOfFile(c) \/ WriteAnswer(c) \/ Subscribe(c) \/ Receive(c) \/ Show(c)
    \/ Broadcast

LEMMA AsideKeeps ==
    ASSUME IpcTypeOK, Requests, Aside
    PROVE  Requests'
<1>1. UNCHANGED <<id, pending, nextId, slot, events, executing>>
  BY DEF Aside, Ask, Listen, HangUp, EndOfFile, WriteAnswer, Subscribe, Receive, Show, Broadcast,
         serverVars, mainVars, taskVars
<1>2. CASE (\E c \in Clients : \E kind \in Kinds : Ask(c, kind))
           \/ (\E c \in Clients : Listen(c) \/ HangUp(c)) \/ Broadcast
  <2>1. UNCHANGED <<task, current>>
    BY <1>2 DEF Ask, Listen, HangUp, Broadcast, taskVars
  <2>2. SameWaits
    BY <1>1, <2>1 DEF SameWaits, Waits
  <2> QED BY <1>1, <2>2, FrameWaits DEF Requests
<1>3. ASSUME NEW c \in Clients,
             EndOfFile(c) \/ WriteAnswer(c) \/ Subscribe(c) \/ Receive(c) \/ Show(c)
      PROVE  Requests'
  <2>1. ~Waits(c)
    BY <1>3 DEF Waits, EndOfFile, WriteAnswer, Subscribe, Receive, Show
  <2>2. \E to \in {"gone", "reading", "subscribing", "streaming", "showing"} :
           task' = [task EXCEPT ![c] = to] \/ task' = task
    BY <1>3 DEF EndOfFile, WriteAnswer, Subscribe, Receive, Show, Write, Goes
  <2>3. \A d \in Clients : d # c => task'[d] = task[d] /\ current'[d] = current[d]
    <3>1. \A d \in Clients : d # c => task'[d] = task[d]
      BY <2>2 DEF IpcTypeOK
    <3>2. \A d \in Clients : d # c => current'[d] = current[d]
      BY <1>3 DEF EndOfFile, WriteAnswer, Subscribe, Receive, Show, IpcTypeOK
    <3> QED BY <3>1, <3>2
  <2>4. ~Waits(c)'
    BY <2>1, <2>2 DEF Waits, IpcTypeOK
  <2>5. SameWaits
    BY <1>1, <2>1, <2>3, <2>4 DEF SameWaits, Waits
  <2> QED BY <1>1, <2>5, FrameWaits DEF Requests
<1> QED BY <1>2, <1>3 DEF Aside

LEMMA ReadKeeps ==
    ASSUME IpcTypeOK, Requests, NEW c \in Clients, Turn(c), ReadLine(c)
    PROVE  Requests'
<1>1. UNCHANGED <<slot, events, executing>> /\ ~Waits(c) /\ slot[c] = NONE
  BY DEF ReadLine, mainVars, Waits, Turn
<1>2. \A d \in Clients : d # c => current'[d] = current[d]
  BY DEF ReadLine, IpcTypeOK
<1>3. CASE Goes(c, "writing") /\ UNCHANGED <<id, serverVars>>
  <2>1. SameWaits
    BY <1>1, <1>2, <1>3 DEF SameWaits, Waits, Goes, serverVars, IpcTypeOK
  <2> QED BY <1>1, <2>1, FrameWaits DEF Requests
<1>4. CASE Register(c)
  <2>1. /\ \A d \in Clients : d # c => task'[d] = task[d] /\ id'[d] = id[d]
        /\ id'[c] = nextId /\ task'[c] = "sending" /\ nextId' = nextId + 1 /\ nextId \in Nat
        /\ pending' = pending \cup {[id |-> nextId, client |-> c]}
    BY <1>4 DEF Register, Goes, IpcTypeOK
  <2>2. \A d \in Clients : d # c => (Waits(d)' <=> Waits(d))
    BY <2>1 DEF Waits
  <2>3. Waits(c)'
    BY <2>1 DEF Waits
  <2>4. \A d \in Clients : Waits(d) => id[d] < nextId
    BY DEF Requests, Ids
  <2>5. id \in [Clients -> Nat] /\ pending \subseteq Entry
    BY DEF IpcTypeOK
  <2>6. \A d \in Clients : Waits(d)' => id'[d] < nextId'
    BY <2>1, <2>2, <2>4, <2>5
  <2>7. \A d, e \in Clients : Waits(d)' /\ Waits(e)' /\ id'[d] = id'[e] => d = e
    <3>1. \A d, e \in Clients : Waits(d) /\ Waits(e) /\ id[d] = id[e] => d = e
      BY DEF Requests, Ids
    <3>2. \A d \in Clients : d # c /\ Waits(d)' => id'[d] # id'[c]
      BY <2>1, <2>2, <2>4, <2>5
    <3> QED BY <2>1, <2>2, <3>1, <3>2
  <2>8. \A p \in pending' : Waits(p.client)' /\ p.id = id'[p.client] /\ slot'[p.client] = NONE
    <3>1. \A p \in pending : p.client \in Clients /\ p.client # c /\ Waits(p.client)
                             /\ p.id = id[p.client] /\ slot[p.client] = NONE
      BY <1>1, <2>5 DEF Requests, Ids, Entry
    <3> QED BY <1>1, <2>1, <2>2, <2>3, <3>1
  <2>9. \A r \in Request : Underway(r) => Underway(r)'
    <3> SUFFICES ASSUME NEW r \in Request, Underway(r) PROVE Underway(r)'
      OBVIOUS
    <3>1. r.id \in Nat /\ r.id < nextId
      BY DEF Underway, Request
    <3>2. \A d \in Clients : Waits(d)' /\ id'[d] = r.id => task'[d] = "waiting" /\ current'[d].n = r.n
      BY <1>2, <2>1, <2>2, <3>1 DEF Underway
    <3> QED BY <2>1, <3>1, <3>2 DEF Underway
  <2>10. Ids'
    BY <2>6, <2>7, <2>8 DEF Ids
  <2> QED BY <1>1, <2>9, <2>10 DEF Requests, IpcTypeOK
<1> QED BY <1>3, <1>4 DEF ReadLine

\* Underway, of a request as it is after the step.
After(r) ==
    /\ r.id < nextId'
    /\ \A c \in Clients : Waits(c)' /\ id'[c] = r.id => task'[c] = "waiting" /\ current'[c].n = r.n

LEMMA SendKeeps ==
    ASSUME IpcTypeOK, Requests, NEW c \in Clients, Turn(c), SendEvent(c)
    PROVE  Requests'
<1>1. /\ UNCHANGED <<id, slot, current, pending, nextId, executing>>
      /\ events' = Append(events, [id |-> id[c], n |-> current[c].n])
      /\ task[c] = "sending" /\ task'[c] = "waiting"
      /\ \A d \in Clients : d # c => task'[d] = task[d]
  BY DEF SendEvent, serverVars, Goes, IpcTypeOK
<1>2. \A d \in Clients : Waits(d)' <=> Waits(d)
  BY <1>1 DEF Waits
<1>3. Ids'
  BY <1>1, <1>2 DEF Requests, Ids, IpcTypeOK, Entry
<1>4. \A r : Underway(r) => After(r)
  BY <1>1, <1>2 DEF Underway, After
<1>5. After([id |-> id[c], n |-> current[c].n])
  <2>1. Waits(c) /\ id[c] < nextId
    BY <1>1 DEF Waits, Requests, Ids
  <2>2. \A d \in Clients : Waits(d)' /\ id'[d] = id[c] => d = c
    BY <1>1, <1>2, <2>1 DEF Requests, Ids
  <2> QED BY <1>1, <2>1, <2>2 DEF After
<1>6. events \in Seq(Request) /\ [id |-> id[c], n |-> current[c].n] \in Request
  BY <1>1 DEF IpcTypeOK, Turn, Request, Asking, Line
<1>7. \A i \in 1..Len(events') : After(events'[i])
  <2>1. \A i \in 1..Len(events') : i \in 1..Len(events) \/ i = Len(events) + 1
    BY <1>1, <1>6, AppendFacts
  <2>2. \A i \in 1..Len(events) : After(events'[i])
    BY <1>1, <1>4, <1>6, AppendFacts DEF Requests
  <2>3. events'[Len(events) + 1] = [id |-> id[c], n |-> current[c].n]
    BY <1>1, <1>6, AppendFacts
  <2> QED BY <1>5, <2>1, <2>2, <2>3
<1>8. executing' # NONE => After(executing')
  BY <1>1, <1>4 DEF Requests
<1> QED BY <1>3, <1>7, <1>8 DEF Requests, Underway, After

\* Who stops waiting leaves nothing behind under its id.
LEMMA StopKeeps ==
    ASSUME IpcTypeOK, Requests, NEW c \in Clients, SendFails(c) \/ GetReply(c)
    PROVE  Requests'
<1>1. /\ UNCHANGED <<id, nextId, events, executing>>
      /\ Waits(c) /\ ~Waits(c)'
      /\ \A d \in Clients : d # c => task'[d] = task[d] /\ current'[d] = current[d] /\ slot'[d] = slot[d]
      /\ pending' \subseteq pending
  BY DEF SendFails, GetReply, mainVars, serverVars, Goes, IpcTypeOK, Waits
<1>2. \A p \in pending' : p.client # c
  BY DEF SendFails, GetReply, serverVars, Requests, Ids
<1>3. \A d \in Clients : d # c => (Waits(d)' <=> Waits(d))
  BY <1>1 DEF Waits
<1>4. Ids'
  <2>1. \A d \in Clients : Waits(d)' => d # c /\ Waits(d)
    BY <1>1, <1>3
  <2>2. \A p \in pending' : p \in pending /\ p.client \in Clients /\ p.client # c
    BY <1>1, <1>2 DEF IpcTypeOK, Entry
  <2>3. \A p \in pending' : Waits(p.client)' /\ p.id = id'[p.client] /\ slot'[p.client] = NONE
    BY <1>1, <1>3, <2>2 DEF Requests, Ids
  <2> QED BY <1>1, <2>1, <2>3 DEF Requests, Ids
<1>5. \A r : Underway(r) => Underway(r)'
  BY <1>1, <1>3 DEF Underway
<1> QED BY <1>1, <1>4, <1>5 DEF Requests

LEMMA TakeKeeps ==
    ASSUME IpcTypeOK, Requests, Take
    PROVE  Requests'
<1>1. UNCHANGED <<task, current, slot, id, pending, nextId>>
  BY DEF Take, serverVars, taskVars
<1>2. Ids' /\ \A r : Underway(r) => After(r)
  <2>1. Ids'
    BY <1>1, FrameWaits DEF SameWaits, Waits, Requests
  <2>2. \A r : Underway(r) => After(r)
    BY <1>1 DEF Underway, After, Waits
  <2> QED BY <2>1, <2>2
<1>3. /\ events \in Seq(Request) /\ events # <<>>
      /\ executing' = Head(events) /\ events' = Tail(events)
  BY DEF Take, IpcTypeOK
<1>4. 1 \in 1..Len(events) /\ Head(events) = events[1]
  BY <1>3, TailFacts
<1>5. executing' # NONE => After(executing')
  BY <1>2, <1>3, <1>4 DEF Requests
<1>6. \A i \in 1..Len(events') : After(events'[i])
  <2> SUFFICES ASSUME NEW i \in 1..Len(events') PROVE Underway(events[i + 1])
    BY <1>2, <1>3, TailFacts
  <2>1. i + 1 \in 1..Len(events)
    BY <1>3, TailFacts
  <2> QED BY <2>1 DEF Requests
<1> QED BY <1>2, <1>5, <1>6 DEF Requests, Underway, After

\* The reply finds the connection that waits for it, and no other.
LEMMA Answered ==
    ASSUME IpcTypeOK, Requests, ReplyTo
    PROVE  /\ UNCHANGED <<task, current, id, nextId, events, inbox, outbox, sent, answered>>
           /\ executing' = NONE /\ pending' \subseteq pending
           /\ \A d \in Clients :
                 \/ /\ slot'[d] = slot[d]
                    /\ \A p \in pending : p.client = d => p.id # executing.id
                 \/ /\ slot'[d] = executing.n /\ task[d] = "waiting"
                    /\ current[d].n = executing.n /\ id[d] = executing.id
           /\ \A p \in pending' : p.id # executing.id
<1> DEFINE Waiting == {p \in pending : p.id = executing.id}
<1>1. /\ UNCHANGED <<task, current, id, nextId, events, inbox, outbox, sent, answered>>
      /\ executing' = NONE /\ pending' = pending \ Waiting
      /\ slot' = [d \in Clients |-> IF \E p \in Waiting : p.client = d THEN executing.n ELSE slot[d]]
      /\ executing # NONE
  BY DEF ReplyTo, Reply, clientVars
<1>2. ASSUME NEW d \in Clients, NEW p \in Waiting, p.client = d
      PROVE  task[d] = "waiting" /\ current[d].n = executing.n /\ id[d] = executing.id
  <2>1. Waits(d) /\ id[d] = executing.id
    BY <1>2 DEF Requests, Ids
  <2> QED BY <1>1, <2>1 DEF Requests, Underway
<1>3. \A d \in Clients :
         \/ slot'[d] = slot[d] /\ \A p \in pending : p.client = d => p.id # executing.id
         \/ slot'[d] = executing.n /\ \E p \in Waiting : p.client = d
  BY <1>1
<1> QED BY <1>1, <1>2, <1>3

LEMMA ReplyKeeps ==
    ASSUME IpcTypeOK, Requests, ReplyTo
    PROVE  Requests'
<1>1. \A r : Underway(r) => Underway(r)'
  BY Answered DEF Underway, Waits
<1>2. \A p \in pending' : Waits(p.client)' /\ p.id = id'[p.client] /\ slot'[p.client] = NONE
  <2> SUFFICES ASSUME NEW p \in pending'
               PROVE  Waits(p.client)' /\ p.id = id'[p.client] /\ slot'[p.client] = NONE
    OBVIOUS
  <2>1. p \in pending /\ p.client \in Clients /\ p.id # executing.id
    BY Answered DEF IpcTypeOK, Entry
  <2>2. Waits(p.client) /\ p.id = id[p.client] /\ slot[p.client] = NONE
    BY <2>1 DEF Requests, Ids
  <2> QED BY <2>1, <2>2, Answered DEF Waits
<1>3. Ids'
  BY <1>2, Answered DEF Requests, Ids, Waits
<1> QED BY <1>1, <1>3, Answered DEF Requests

LEMMA ReplyLines ==
    ASSUME IpcTypeOK, Requests, ReplyTo, NEW d \in Clients, Lines(d), Turn(d)
    PROVE  Lines(d)' /\ Turn(d)'
<1>1. Lines(d)'
  BY Answered DEF Lines, Taken
<1>2. slot'[d] # NONE => task[d] = "waiting" /\ slot'[d] = current[d].n
  BY Answered DEF Turn
<1> QED BY <1>1, <1>2, Answered DEF Turn, Taken

-----------------------------------------------------------------------------

LEMMA IpcInductive == IpcInv /\ [Next]_vars => IpcInv'
<1> SUFFICES ASSUME IpcInv, [Next]_vars PROVE IpcInv'
  OBVIOUS
<1> USE DEF IpcInv
<1>1. IpcTypeOK'
  BY TypeNext
<1>2. CASE UNCHANGED vars
  <2>1. UNCHANGED <<task, current, slot, id, pending, nextId, events, executing,
                    inbox, outbox, sent, answered>>
    BY <1>2 DEF vars, serverVars, mainVars, taskVars, clientVars
  <2>2. \A d \in Clients : Lines(d)' /\ Turn(d)'
    BY <2>1, FrameLines DEF Untouched
  <2>3. Requests'
    BY <2>1, FrameWaits DEF SameWaits, Waits, Requests
  <2> QED BY <1>1, <2>2, <2>3
<1>3. ASSUME NEW c \in Clients, NEW kind \in Kinds, Ask(c, kind) PROVE IpcInv'
  BY <1>1, <1>3, AskLines, AsideKeeps DEF Aside
<1>4. ASSUME NEW c \in Clients, Listen(c) PROVE IpcInv'
  BY <1>1, <1>4, ListenLines, AsideKeeps DEF Aside
<1>5. ASSUME NEW c \in Clients, HangUp(c) PROVE IpcInv'
  <2>1. \A d \in Clients : Untouched(d)
    BY <1>5 DEF HangUp, Untouched, taskVars
  <2> QED BY <1>1, <1>5, <2>1, FrameLines, AsideKeeps DEF Aside
<1>6. ASSUME NEW c \in Clients, ReadLine(c) PROVE IpcInv'
  BY <1>1, <1>6, ReadLines, ReadKeeps
<1>7. ASSUME NEW c \in Clients, EndOfFile(c) \/ Subscribe(c) \/ Receive(c) PROVE IpcInv'
  BY <1>1, <1>7, TaskLines, AsideKeeps DEF Aside
<1>8. ASSUME NEW c \in Clients, SendEvent(c) PROVE IpcInv'
  BY <1>1, <1>8, TaskLines, SendKeeps
<1>9. ASSUME NEW c \in Clients, SendFails(c) \/ GetReply(c) PROVE IpcInv'
  BY <1>1, <1>9, TaskLines, StopKeeps
<1>10. ASSUME NEW c \in Clients, WriteAnswer(c) PROVE IpcInv'
  BY <1>1, <1>10, AnswerLines, AsideKeeps DEF Aside
<1>11. ASSUME NEW c \in Clients, Show(c) PROVE IpcInv'
  BY <1>1, <1>11, ShowLines, AsideKeeps DEF Aside
<1>12. CASE ReplyTo
  BY <1>1, <1>12, ReplyLines, ReplyKeeps
<1>13. CASE Take \/ Broadcast \/ Leave
  <2>1. UNCHANGED <<task, current, slot, id, pending, nextId, inbox, outbox, sent, answered>>
    BY <1>13 DEF Take, Broadcast, Leave, serverVars, taskVars, clientVars
  <2>2. \A d \in Clients : Lines(d)' /\ Turn(d)'
    BY <2>1, FrameLines DEF Untouched
  <2>3. CASE Leave
    <3>1. events' = <<>> /\ executing' = NONE
      BY <2>3 DEF Leave
    <3>2. Ids'
      BY <2>1, FrameWaits DEF SameWaits, Waits, Requests
    <3> QED BY <1>1, <2>2, <3>1, <3>2 DEF Requests
  <2> QED BY <1>1, <1>13, <2>2, <2>3, TakeKeeps, AsideKeeps DEF Aside
<1> QED BY <1>2, <1>3, <1>4, <1>5, <1>6, <1>7, <1>8, <1>9, <1>10, <1>11, <1>12, <1>13
        DEF Next, Serve, Main

LEMMA IpcAnswers == IpcInv => AnswersItsOwn
  BY DEF IpcInv, Lines, Turn, Asking, AnswersItsOwn, IpcTypeOK

\* The answers a client is sent are those to its own requests, in their order, for
\* any number of clients and requests, whatever the bounds of the channels are.
THEOREM AnswersItsOwnHolds == Spec => []AnswersItsOwn
<1>1. Init => IpcInv
  <2> SUFFICES ASSUME Init PROVE IpcInv
    OBVIOUS
  <2>1. IpcTypeOK
    BY TypeInit
  <2>2. \A c \in Clients : Lines(c) /\ Turn(c)
    BY DEF Init, Lines, Turn, Taken, Asking
  <2>3. Requests
    BY DEF Init, Requests, Ids, Waits
  <2> QED BY <2>1, <2>2, <2>3 DEF IpcInv
<1> QED BY <1>1, IpcInductive, IpcAnswers, PTL DEF Spec

=============================================================================
