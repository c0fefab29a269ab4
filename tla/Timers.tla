------------------------------- MODULE Timers -------------------------------
(***************************************************************************)
(* The timers of the daemon, src/timers.rs: `start` spawns a task that      *)
(* sleeps and then sends its id and generation into a channel; `fired`      *)
(* takes from the channel and drops what is no longer current.              *)
(*                                                                         *)
(* The main loop calls start, cancel and fired from one task.  The sleeping *)
(* tasks run beside it on other threads: `abort` takes effect at the await  *)
(* of a task, so one that has already woken still sends.                    *)
(*                                                                         *)
(* What the engine relies on is TimerService: a timer that fires is the one *)
(* last started, and its time has passed.                                   *)
(***************************************************************************)
EXTENDS Naturals, Sequences, Functions

CONSTANTS
    Ids,            \* TimerId
    MaxGeneration   \* bound: starts made (a u64 in the code)

ASSUME TimersAssumption == MaxGeneration \in Nat

VARIABLES
    running,        \* the map of timers that are running: id -> generation
    sleeping,       \* tasks before their sleep has ended
    sending,        \* tasks past it, which have not sent yet
    fired,          \* the channel
    nextGeneration,
    handed          \* what `fired` has just returned: {} or {id}

vars == <<running, sleeping, sending, fired, nextGeneration, handed>>

Task(id, generation) == [id |-> id, generation |-> generation]
Tasks == [id : Ids, generation : 1..MaxGeneration]

Current(task) == task.id \in DOMAIN running /\ running[task.id] = task.generation

\* Mutant: the task goes on sleeping.
NotAborted(id) == sleeping

\* The tasks left sleeping when that of `id` is aborted.
Aborted(id) ==
    IF id \in DOMAIN running THEN sleeping \ {Task(id, running[id])} ELSE sleeping

Init ==
    /\ running = <<>>
    /\ sleeping = {} /\ sending = {} /\ fired = <<>>
    /\ nextGeneration = 0 /\ handed = {}

\* Mutant: the entry of the timer that is replaced stays in the map.
StartKeepingEntry(id) ==
    /\ nextGeneration < MaxGeneration
    /\ nextGeneration' = nextGeneration + 1
    /\ running' = [i \in DOMAIN running \cup {id} |->
                      IF i \in DOMAIN running THEN running[i] ELSE nextGeneration']
    /\ sleeping' = Aborted(id) \cup {Task(id, nextGeneration')}
    /\ handed' = {} /\ UNCHANGED <<sending, fired>>

Start(id) ==
    /\ nextGeneration < MaxGeneration
    /\ nextGeneration' = nextGeneration + 1
    /\ running' = [i \in DOMAIN running \cup {id} |->
                      IF i = id THEN nextGeneration' ELSE running[i]]
    /\ sleeping' = Aborted(id) \cup {Task(id, nextGeneration')}
    /\ handed' = {} /\ UNCHANGED <<sending, fired>>

Cancel(id) ==
    /\ id \in DOMAIN running
    /\ running' = Restrict(running, DOMAIN running \ {id})
    /\ sleeping' = Aborted(id)
    /\ handed' = {} /\ UNCHANGED <<sending, fired, nextGeneration>>

\* The sleep of a task ends; then it sends.
Wake(task) ==
    /\ task \in sleeping
    /\ sleeping' = sleeping \ {task}
    /\ sending' = sending \cup {task}
    /\ UNCHANGED <<running, fired, nextGeneration, handed>>

Send(task) ==
    /\ task \in sending
    /\ sending' = sending \ {task}
    /\ fired' = Append(fired, task)
    /\ UNCHANGED <<running, sleeping, nextGeneration, handed>>

\* Mutant: what fires is not compared with what is running.
ReceiveAny ==
    /\ fired # <<>>
    /\ fired' = Tail(fired)
    /\ running' = Restrict(running, DOMAIN running \ {Head(fired).id})
    /\ handed' = {Head(fired).id}
    /\ UNCHANGED <<sleeping, sending, nextGeneration>>

\* One turn of the loop in `fired`: a stale fire is dropped, a current one is
\* handed to the engine.
Receive ==
    /\ fired # <<>>
    /\ fired' = Tail(fired)
    /\ UNCHANGED <<sleeping, sending, nextGeneration>>
    /\ \/ ~Current(Head(fired)) /\ UNCHANGED <<running, handed>>
       \/ /\ Current(Head(fired))
          /\ running' = Restrict(running, DOMAIN running \ {Head(fired).id})
          /\ handed' = {Head(fired).id}

Next ==
    \/ \E id \in Ids : Start(id) \/ Cancel(id)
    \/ \E task \in sleeping : Wake(task)
    \/ \E task \in sending : Send(task)
    \/ Receive

\* Time passes for every task, the runtime runs it, and the main loop comes
\* back to `fired`.
Fairness ==
    /\ \A task \in Tasks : WF_vars(Wake(task)) /\ WF_vars(Send(task))
    /\ WF_vars(Receive)

Spec == Init /\ [][Next]_vars
FairSpec == Spec /\ Fairness

-----------------------------------------------------------------------------
(* Properties.                                                             *)

TypeOK ==
    /\ DOMAIN running \subseteq Ids
    /\ \A id \in DOMAIN running : running[id] \in 1..nextGeneration
    /\ sleeping \subseteq Tasks
    /\ sending \subseteq Tasks
    /\ fired \in Seq(Tasks)
    /\ nextGeneration \in 0..MaxGeneration
    /\ handed \in SUBSET Ids

\* A task that still sleeps is the one its timer runs on (a restart has left
\* no other), and its generation is nowhere else: what has fired is never
\* taken for what has just been started.
OneTaskPerTimer ==
    \A task \in sleeping :
        /\ Current(task)
        /\ task \notin sending
        /\ \A i \in 1..Len(fired) : fired[i] # task

\* The time that counts is that of the last start: the timers as the engine
\* sees them are those of TimerService.
Status(id) == IF Task(id, running[id]) \in sleeping THEN "counting" ELSE "elapsed"
Service == INSTANCE TimerService WITH timers <- [id \in DOMAIN running |-> Status(id)]

ImplementsService == Service!Spec

\* A timer that is neither restarted nor cancelled fires, whatever stale fires
\* are queued before it.
EveryTimerFires ==
    \A task \in Tasks : Current(task) ~> ~Current(task)
=============================================================================
