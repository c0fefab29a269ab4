------------------------------- MODULE Socket -------------------------------
(***************************************************************************)
(* Who has the control socket: listen in src/ipc.rs at the start of a daemon *)
(* and cleanup in src/main.rs at its end, for daemons that follow one        *)
(* another, overlap, stop or are killed.  A daemon is known by the number of *)
(* its start.                                                                *)
(***************************************************************************)
EXTENDS Naturals

CONSTANTS
    NOTHING,        \* nothing is at the path
    FILE,           \* a regular file is
    MaxStarts,      \* bound: daemons that are started
    OneAtATime,     \* bound: no two of them start at the same time
    MayGoDeaf       \* bound: those whose accept() may fail (out of file descriptors)

ASSUME SocketAssumption ==
    /\ MaxStarts \in Nat /\ OneAtATime \in BOOLEAN /\ MayGoDeaf \subseteq 1..MaxStarts
    /\ NOTHING # FILE /\ {NOTHING, FILE} \cap Nat = {}

VARIABLES
    path,           \* what is at the path: a socket is known by the daemon that
                    \* bound it, 0 for one of a daemon from before
    daemon          \* of each start: how far it is

socketVars == <<path, daemon>>

Daemons == 1..MaxStarts
Starting == {"looking", "removing", "binding"}
Running == {"listening", "deaf", "detached"}
Binds == {"listening", "deaf"}

SocketInit ==
    /\ path \in {NOTHING, FILE, 0}
    /\ daemon = [d \in Daemons |-> "unused"]

Becomes(d, stage) == daemon' = [daemon EXCEPT ![d] = stage]

-----------------------------------------------------------------------------
(* listen.  A failure that is not a live socket leaves the daemon detached. *)

Start(d) ==
    /\ daemon[d] = "unused" /\ \A e \in 1..d-1 : daemon[e] # "unused"
    /\ OneAtATime => \A e \in Daemons : daemon[e] \notin Starting
    /\ Becomes(d, "looking") /\ UNCHANGED path

\* The listener is dropped when the task that accepts ends.
IsLive == path \in Daemons /\ daemon[path] = "listening"

\* Mutant: whatever socket is there is a leftover.
LookUnasked(d) ==
    /\ daemon[d] = "looking" /\ UNCHANGED path
    /\ \/ path \notin {NOTHING, FILE} /\ Becomes(d, "removing")
       \/ path \in {NOTHING, FILE} /\ Becomes(d, "binding")
       \/ Becomes(d, "detached")

Look(d) ==
    /\ daemon[d] = "looking" /\ UNCHANGED path
    /\ \/ IsLive /\ Becomes(d, "refused")
       \/ path \notin {NOTHING, FILE} /\ ~IsLive /\ Becomes(d, "removing")
       \/ path \in {NOTHING, FILE} /\ Becomes(d, "binding")
       \/ Becomes(d, "detached")

Remove(d) ==
    /\ daemon[d] = "removing"
    /\ \/ path # NOTHING /\ path' = NOTHING /\ Becomes(d, "binding")
       \/ UNCHANGED path /\ Becomes(d, "detached")

\* bind refuses a path that exists.  A failure to set the permissions comes
\* after it, and leaves the socket behind.
Bind(d) ==
    /\ daemon[d] = "binding"
    /\ \/ path = NOTHING /\ path' = d /\ Becomes(d, "listening")
       \/ path = NOTHING /\ path' = d /\ Becomes(d, "detached")
       \/ UNCHANGED path /\ Becomes(d, "detached")

-----------------------------------------------------------------------------

AcceptFails(d) ==
    /\ d \in MayGoDeaf /\ daemon[d] = "listening"
    /\ Becomes(d, "deaf") /\ UNCHANGED path

\* cleanup
Stop(d) ==
    /\ daemon[d] \in Running
    /\ path' = IF daemon[d] \in Binds THEN NOTHING ELSE path
    /\ Becomes(d, "gone")

Kill(d) ==
    /\ daemon[d] \in Starting \cup Running
    /\ Becomes(d, "gone") /\ UNCHANGED path

SocketNext ==
    \E d \in Daemons :
        \/ Start(d) \/ Look(d) \/ Remove(d) \/ Bind(d)
        \/ AcceptFails(d) \/ Stop(d) \/ Kill(d)

SocketSpec == SocketInit /\ [][SocketNext]_socketVars

-----------------------------------------------------------------------------
(* Properties.                                                             *)

\* A daemon that accepts connections is found at the path: whoever is started
\* next to it, fails or stops does not take the socket over or away.
Reachable == \A d \in Daemons : daemon[d] = "listening" => path = d

\* "Removes our socket -- only one we bound" (cleanup): what a daemon removes at
\* its end is its own.
RemovesOnlyItsOwn ==
    [][\A d \in Daemons :
          daemon[d] \in Running /\ daemon'[d] = "gone" /\ path' # path => path = d]_socketVars

=============================================================================
