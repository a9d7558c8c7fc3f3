---------------------------- MODULE IdleTracker ----------------------------
(***************************************************************************)
(* The idle tracker of cmd/ps3netsrv-go/server.go:400-442, which shuts the *)
(* server down when nobody has been connected for a while.                 *)
(*                                                                         *)
(* Sessions call Connected when they start and Disconnected when they end, *)
(* and so does every request to the debug server.  Either call is an       *)
(* atomic addition to the client count and then, on what the addition      *)
(* returned, an operation on the timer: two steps, with those of other     *)
(* goroutines between them.  time.Timer itself is safe for concurrent use. *)
(***************************************************************************)
EXTENDS Integers, FiniteSets

CONSTANT Client    \* goroutines that connect and disconnect, over and over

VARIABLES
  clientCount,
  idleTimer,    \* "armed", "stopped", or "fired": the callback was called
  pc,           \* pc[c]: where c stands between and inside the two calls
  shutdown,     \* the callback has cancelled the context of the server
  running,      \* Run has not returned
  lateReset     \* history: the timer was armed by a Reset that came after
                \* another client's Add, and not stopped since

vars == <<clientCount, idleTimer, pc, shutdown, running, lateReset>>

Counted == {c \in Client : pc[c] \in {"stopping", "here"}}

Init ==
  /\ clientCount = 0 /\ idleTimer = "armed"
  /\ pc = [c \in Client |-> "away"]
  /\ shutdown = FALSE /\ running = TRUE /\ lateReset = FALSE

\* Mutant: the timer is stopped only for the second client.
SecondOnlyConnectedAdd(c) ==
  /\ pc[c] = "away"
  /\ clientCount' = clientCount + 1
  /\ pc' = [pc EXCEPT ![c] = IF clientCount + 1 > 1 THEN "stopping" ELSE "here"]
  /\ UNCHANGED <<idleTimer, shutdown, running, lateReset>>

\* Connected: clientCount.Add(1), then Stop if the result is positive.
ConnectedAdd(c) ==
  /\ pc[c] = "away"
  /\ clientCount' = clientCount + 1
  /\ pc' = [pc EXCEPT ![c] = IF clientCount + 1 > 0 THEN "stopping" ELSE "here"]
  /\ UNCHANGED <<idleTimer, shutdown, running, lateReset>>

ConnectedStop(c) ==
  /\ pc[c] = "stopping"
  /\ pc' = [pc EXCEPT ![c] = "here"]
  /\ idleTimer' = IF idleTimer = "armed" THEN "stopped" ELSE idleTimer
  /\ lateReset' = FALSE
  /\ UNCHANGED <<clientCount, shutdown, running>>

\* Mutants: the count goes down only when somebody else stays, or goes down
\* twice, or the timer is not reset for the last client.
StickyDisconnectedAdd(c) ==
  /\ pc[c] = "here"
  /\ clientCount' = IF clientCount > 1 THEN clientCount - 1 ELSE clientCount
  /\ pc' = [pc EXCEPT ![c] = IF clientCount - 1 <= 0 THEN "resetting" ELSE "away"]
  /\ UNCHANGED <<idleTimer, shutdown, running, lateReset>>

DoubleDisconnectedAdd(c) ==
  /\ pc[c] = "here"
  /\ clientCount' = clientCount - 2
  /\ pc' = [pc EXCEPT ![c] = IF clientCount - 1 <= 0 THEN "resetting" ELSE "away"]
  /\ UNCHANGED <<idleTimer, shutdown, running, lateReset>>

NegativeOnlyDisconnectedAdd(c) ==
  /\ pc[c] = "here"
  /\ clientCount' = clientCount - 1
  /\ pc' = [pc EXCEPT ![c] = IF clientCount - 1 < 0 THEN "resetting" ELSE "away"]
  /\ UNCHANGED <<idleTimer, shutdown, running, lateReset>>

\* Disconnected: clientCount.Add(-1), then Reset if nobody is left.
DisconnectedAdd(c) ==
  /\ pc[c] = "here"
  /\ clientCount' = clientCount - 1
  /\ pc' = [pc EXCEPT ![c] = IF clientCount - 1 <= 0 THEN "resetting" ELSE "away"]
  /\ UNCHANGED <<idleTimer, shutdown, running, lateReset>>

\* Reset arms the timer whatever its state.
DisconnectedReset(c) ==
  /\ pc[c] = "resetting"
  /\ pc' = [pc EXCEPT ![c] = "away"]
  /\ idleTimer' = "armed"
  /\ lateReset' = (clientCount > 0)
  /\ UNCHANGED <<clientCount, shutdown, running>>

\* The timer runs out and idleCancel is called.
Expire ==
  /\ idleTimer = "armed"
  /\ idleTimer' = "fired" /\ shutdown' = TRUE
  /\ UNCHANGED <<clientCount, pc, running, lateReset>>

\* Run returns, after an idle shutdown or for another reason; sessions that
\* are still open go on until the process exits.
Cancel ==
  /\ running /\ running' = FALSE
  /\ idleTimer' = IF idleTimer = "armed" THEN "stopped" ELSE idleTimer
  /\ UNCHANGED <<clientCount, pc, shutdown, lateReset>>

Call(c) == \/ ConnectedStop(c)
           \/ DisconnectedReset(c)

Next == \/ \E c \in Client : ConnectedAdd(c) \/ DisconnectedAdd(c) \/ Call(c)
        \/ Expire \/ Cancel

Spec == Init /\ [][Next]_vars

\* A call that has begun is finished by the scheduler, and a timer that stays
\* armed runs out.  Nobody has to connect or to leave.
FairSpec == Spec /\ WF_vars(Expire) /\ \A c \in Client : WF_vars(Call(c))
-----------------------------------------------------------------------------
\* Every variable keeps its type; the client count never goes below zero, though
\* the code keeps it in a signed integer and compares with <= 0.
TypeOK ==
  /\ clientCount \in Nat
  /\ idleTimer \in {"armed", "stopped", "fired"}
  /\ pc \in [Client -> {"away", "stopping", "here", "resetting"}]
  /\ shutdown \in BOOLEAN /\ running \in BOOLEAN /\ lateReset \in BOOLEAN

\* The client count is the number of clients between the two additions, however
\* the calls overlap, so the comparisons with zero mean what they say.
CountExact == clientCount = Cardinality(Counted)

\* No order of Stop and Reset loses the last one: whenever nobody is connected
\* or in one of the calls, the timer is armed, or it has fired already.
NeverStuckUnarmed ==
  running /\ (\A c \in Client : pc[c] = "away") => idleTimer = "armed" \/ shutdown

\* A client whose Connected has returned, with nobody else inside Connected,
\* finds the timer stopped, but for one order: the Add of a Disconnected, the
\* whole of a Connected, and then the Reset.
ArmedWithClientOnlyByLateReset ==
  /\ idleTimer = "armed"
  /\ \E c \in Client : pc[c] = "here"
  /\ \A c \in Client : pc[c] # "stopping"
  => lateReset

\* A server left alone shuts down.
IdleShutdown ==
  (running /\ \A c \in Client : pc[c] = "away")
    ~> (~running \/ shutdown \/ \E c \in Client : pc[c] # "away")

\* server.go:58, the help of --shutdown-idle-timeout: "Automatically shutdown
\* server if no clients connected for provided amount of time": the timer does
\* not run out while a client is connected.
FiresOnlyWhenIdle ==
  [][~shutdown /\ shutdown' => \A c \in Client : pc[c] # "here"]_vars
=============================================================================
