------------------------------- MODULE Server -------------------------------
(***************************************************************************)
(* The life of the server around its sessions: Serve, serveConn's opening  *)
(* and deferred calls, connection tracking and Close of                    *)
(* pkg/server/server.go, on the listener cmd/ps3netsrv-go/server.go:242-251*)
(* builds: a whitelist over a limit on the number of connections over the  *)
(* socket.                                                                 *)
(*                                                                         *)
(* The goroutines are Serve's (srv), one per connection (phase) and the    *)
(* one context.AfterFunc runs Close in (closer).  The mutex is held over   *)
(* short sections that never block, each of which is one step.  What a     *)
(* session does between its opening and its end is the module Session.     *)
(***************************************************************************)
EXTENDS Integers, FiniteSets

CONSTANTS
  Conn,        \* the connections clients make
  Allowed,     \* those whose address is in the whitelist
  MaxClients   \* size of the limit listener, 0 when there is none

ASSUME ServerAssumption ==
  /\ IsFiniteSet(Conn) /\ Allowed \subseteq Conn /\ MaxClients \in Nat

Limited == MaxClients > 0

VARIABLES
  srv,            \* where Serve's goroutine is
  closer,         \* where Close's goroutine is
  ctxDone,        \* the context of the application is cancelled
  inShutdown,     \* Server.inShutdown
  listening,      \* the socket listens
  listenerGroup,  \* Server.listenerGroup: listeners being served
  slots,          \* places taken in the limit listener's semaphore
  phase,          \* phase[c]: where connection c, or its goroutine, is
  open,           \* connections the server has accepted and not closed
  activeConn,     \* Server.activeConn
  late            \* history: connections tracked after Close swept

srvVars == <<srv, listening, listenerGroup>>
closeVars == <<closer, ctxDone, inShutdown>>
connVars == <<slots, phase, open, activeConn, late>>
vars == <<srvVars, closeVars, connVars>>

\* "ended" to "untrack": serveConn's deferred calls to come.
Phases == {"away", "queued", "accepted", "spawned", "serving",
           "ended", "closed", "untrack", "gone"}

Init ==
  /\ srv = "start" /\ listening = TRUE /\ listenerGroup = 0
  /\ closer = "idle" /\ ctxDone = FALSE /\ inShutdown = FALSE
  /\ slots = 0 /\ phase = [c \in Conn |-> "away"]
  /\ open = {} /\ activeConn = {} /\ late = {}

\* Move(C, p, s): phase with the connections of C that are in p moved to s.
Move(C, p, s) == [c \in Conn |-> IF c \in C /\ phase[c] = p THEN s ELSE phase[c]]

\* The limit listener takes back the place of a connection when it is closed
\* for the first time.
CloseConns(C) ==
  /\ open' = open \ C
  /\ slots' = IF Limited THEN slots - Cardinality(C \cap open) ELSE slots

\* onceCloseListener.Close: connections nobody accepted are reset.
CloseListener ==
  /\ listening' = FALSE
  /\ phase' = Move(Conn, "queued", "gone")
-----------------------------------------------------------------------------
(* Clients.                                                                *)

Connect(c) ==
  /\ listening /\ phase[c] = "away"
  /\ phase' = [phase EXCEPT ![c] = "queued"]
  /\ UNCHANGED <<srvVars, closeVars, slots, open, activeConn, late>>
-----------------------------------------------------------------------------
(* Serve.                                                                  *)

\* Mutant: the deferred trackListener(&ln, false) runs after a refusal too.
DeferredAnywayTrackListener ==
  /\ srv = "start"
  /\ IF inShutdown
     THEN srv' = "untrack" /\ UNCHANGED listenerGroup
     ELSE srv' = "loop" /\ listenerGroup' = listenerGroup + 1
  /\ UNCHANGED <<listening, closeVars, connVars>>

\* trackListener(&ln, true).
TrackListener ==
  /\ srv = "start"
  /\ IF inShutdown
     THEN srv' = "untracked" /\ UNCHANGED listenerGroup
     ELSE srv' = "loop" /\ listenerGroup' = listenerGroup + 1
  /\ UNCHANGED <<listening, closeVars, connVars>>

\* The limit listener's Accept waits for a place, or for the listener to close.
AcquirePlace ==
  /\ srv = "loop"
  /\ \/ /\ Limited => slots < MaxClients
        /\ srv' = "accept" /\ slots' = IF Limited THEN slots + 1 ELSE slots
     \/ Limited /\ ~listening /\ srv' = "untrack" /\ UNCHANGED slots
  /\ UNCHANGED <<listening, listenerGroup, closeVars, phase, open, activeConn, late>>

\* Accept on the socket succeeds.
Accept(c) ==
  /\ srv = "accept" /\ listening /\ phase[c] = "queued"
  /\ srv' = "filter"
  /\ phase' = [phase EXCEPT ![c] = "accepted"] /\ open' = open \cup {c}
  /\ UNCHANGED <<listening, listenerGroup, closeVars, slots, activeConn, late>>

\* Accept on the socket fails: it has been closed, or the system refuses (out
\* of descriptors).  The place goes back, and Serve leaves its loop.
AcceptFails ==
  /\ srv = "accept"
  /\ srv' = "untrack"
  /\ slots' = IF Limited THEN slots - 1 ELSE slots
  /\ UNCHANGED <<listening, listenerGroup, closeVars, phase, open, activeConn, late>>

\* Mutant: a rejected connection is forgotten without being closed.
UnclosedFilter(c) ==
  /\ srv = "filter" /\ phase[c] = "accepted"
  /\ srv' = "loop"
  /\ phase' = [phase EXCEPT ![c] = IF c \in Allowed THEN "spawned" ELSE "gone"]
  /\ UNCHANGED <<listening, listenerGroup, closeVars, slots, open, activeConn, late>>

\* filteringListener.Accept: an address out of the whitelist is hung up on, and
\* the loop goes on; for another a goroutine is started.
Filter(c) ==
  /\ srv = "filter" /\ phase[c] = "accepted"
  /\ srv' = "loop"
  /\ \/ c \in Allowed /\ phase' = [phase EXCEPT ![c] = "spawned"]
                      /\ UNCHANGED <<slots, open>>
     \/ c \notin Allowed /\ phase' = [phase EXCEPT ![c] = "gone"]
                         /\ CloseConns({c})
  /\ UNCHANGED <<listening, listenerGroup, closeVars, activeConn, late>>

\* The deferred calls, last first: trackListener(&ln, false), ln.Close().
UntrackListener ==
  /\ srv = "untrack" /\ srv' = "untracked"
  /\ listenerGroup' = listenerGroup - 1
  /\ UNCHANGED <<listening, closeVars, connVars>>

ServeReturns ==
  /\ srv = "untracked" /\ srv' = "returned"
  /\ CloseListener
  /\ UNCHANGED <<listenerGroup, closeVars, slots, open, activeConn, late>>

ServeStep == \/ TrackListener \/ AcquirePlace \/ UntrackListener \/ ServeReturns
             \/ ~listening /\ AcceptFails
             \/ \E c \in Conn : Accept(c) \/ Filter(c)
-----------------------------------------------------------------------------
(* serveConn.                                                              *)

\* trackConn(&conn, true).
TrackConn(c) ==
  /\ phase[c] = "spawned" /\ phase' = [phase EXCEPT ![c] = "serving"]
  /\ activeConn' = activeConn \cup {c}
  /\ late' = IF closer = "done" THEN late \cup {c} ELSE late
  /\ UNCHANGED <<srvVars, closeVars, slots, open>>

\* The loop ends: the client leaves, the deadline passes, a handler fails, or,
\* without a choice, Close has closed the connection.
LoopEnds(c) ==
  /\ phase[c] = "serving" /\ phase' = [phase EXCEPT ![c] = "ended"]
  /\ UNCHANGED <<srvVars, closeVars, slots, open, activeConn, late>>

\* The deferred calls, last first: conn.Close(), ctx.Close() (which closes the
\* files of the session), trackConn(&conn, false).
CloseConn(c) ==
  /\ phase[c] = "ended" /\ phase' = [phase EXCEPT ![c] = "closed"]
  /\ CloseConns({c})
  /\ UNCHANGED <<srvVars, closeVars, activeConn, late>>

CloseContext(c) ==
  /\ phase[c] = "closed" /\ phase' = [phase EXCEPT ![c] = "untrack"]
  /\ UNCHANGED <<srvVars, closeVars, slots, open, activeConn, late>>

UntrackConn(c) ==
  /\ phase[c] = "untrack" /\ phase' = [phase EXCEPT ![c] = "gone"]
  /\ activeConn' = activeConn \ {c}
  /\ UNCHANGED <<srvVars, closeVars, slots, open, late>>

ConnStep(c) == \/ TrackConn(c) \/ CloseConn(c) \/ CloseContext(c) \/ UntrackConn(c)
               \/ c \notin open /\ LoopEnds(c)
-----------------------------------------------------------------------------
(* Close, and what leads to it.                                            *)

\* A signal or the idle tracker; or errgroup, when Serve has returned.
CancelContext ==
  /\ ~ctxDone /\ ctxDone' = TRUE
  /\ UNCHANGED <<closer, inShutdown, srvVars, connVars>>

CloseBegins ==
  /\ closer = "idle" /\ ctxDone
  /\ closer' = "flagged" /\ inShutdown' = TRUE
  /\ UNCHANGED <<ctxDone, srvVars, connVars>>

\* Mutant: Close relies on Serve to notice inShutdown.
PassiveCloseListeners ==
  /\ closer = "flagged" /\ closer' = "waiting"
  /\ UNCHANGED <<ctxDone, inShutdown, srvVars, connVars>>

\* closeListenersLocked: closes the listener if it is tracked.
CloseListeners ==
  /\ closer = "flagged" /\ closer' = "waiting"
  /\ IF listenerGroup > 0 THEN CloseListener ELSE UNCHANGED <<listening, phase>>
  /\ UNCHANGED <<srv, listenerGroup, ctxDone, inShutdown, slots, open, activeConn, late>>

\* Mutants: Close does not wait for Serve, or forgets connections unclosed.
UnwaitedCloseSweeps ==
  /\ closer = "waiting" /\ closer' = "done"
  /\ CloseConns(activeConn) /\ activeConn' = {}
  /\ UNCHANGED <<ctxDone, inShutdown, srvVars, phase, late>>

ForgetfulCloseSweeps ==
  /\ closer = "waiting" /\ listenerGroup = 0 /\ closer' = "done"
  /\ activeConn' = {}
  /\ UNCHANGED <<ctxDone, inShutdown, srvVars, phase, slots, open, late>>

\* After listenerGroup.Wait: every active connection is closed and forgotten.
CloseSweeps ==
  /\ closer = "waiting" /\ listenerGroup = 0 /\ closer' = "done"
  /\ CloseConns(activeConn) /\ activeConn' = {}
  /\ UNCHANGED <<ctxDone, inShutdown, srvVars, phase, late>>

CloseStep == CloseBegins \/ CloseListeners \/ CloseSweeps

Next == \/ \E c \in Conn : Connect(c) \/ Accept(c) \/ Filter(c)
        \/ TrackListener \/ AcquirePlace \/ AcceptFails
        \/ UntrackListener \/ ServeReturns
        \/ \E c \in Conn : \/ TrackConn(c) \/ LoopEnds(c) \/ CloseConn(c)
                           \/ CloseContext(c) \/ UntrackConn(c)
        \/ CancelContext \/ CloseBegins \/ CloseListeners \/ CloseSweeps

Spec == Init /\ [][Next]_vars

\* Every goroutine is scheduled, and the return of Serve cancels the context.
\* Nobody has to connect or to leave, and nothing else has to shut down.
FairSpec ==
  /\ Spec
  /\ WF_vars(ServeStep) /\ WF_vars(CloseStep)
  /\ WF_vars(srv = "returned" /\ CancelContext)
  /\ \A c \in Conn : WF_vars(ConnStep(c))
-----------------------------------------------------------------------------
TypeOK ==
  /\ srv \in {"start", "loop", "accept", "filter", "untrack", "untracked",
              "returned"}
  /\ closer \in {"idle", "flagged", "waiting", "done"}
  /\ ctxDone \in BOOLEAN /\ inShutdown \in BOOLEAN /\ listening \in BOOLEAN
  /\ listenerGroup \in {0, 1}
  /\ slots \in Nat
  /\ phase \in [Conn -> Phases]
  /\ open \subseteq Conn /\ activeConn \subseteq Conn /\ late \subseteq Conn

\* The limit holds and no place is lost: the semaphore counts the connections
\* that are open, each accepted and not ended, and the place of the Accept in
\* progress, however a connection ends (rejected, swept and then closed again
\* by its session, or closed by its session only).
Unfinished == {c \in Conn : phase[c] \in {"accepted", "spawned", "serving", "ended"}}

PlacesAccounted ==
  /\ open \subseteq Unfinished
  /\ Limited => /\ slots = Cardinality(open) + (IF srv = "accept" THEN 1 ELSE 0)
                /\ slots <= MaxClients

\* When Close returns Serve is past its loop: no connection is accepted or
\* given a goroutine from then on, not even one Accept had just returned.
NoAcceptAfterClose ==
  closer = "done" => /\ srv \in {"start", "untracked", "returned"}
                     /\ \A c \in Conn : phase[c] # "accepted"

\* Close reaches every session: one that is open is in activeConn until Close
\* sweeps, and the sweep misses only those whose goroutine had not got to
\* trackConn yet.
SweepMissesOnlyLate ==
  \A c \in open : phase[c] \in {"serving", "ended"} =>
    IF closer = "done" THEN c \in late ELSE c \in activeConn

\* Shutting down neither hangs nor stops half way: once Close is called, or
\* Serve has returned for another reason, Close and Serve both return, be
\* Serve waiting for a connection or for a place of the limit.
ShutdownCompletes ==
  (closer # "idle" \/ srv = "returned") ~> (closer = "done" /\ srv = "returned")

\* A session the sweep reached comes to its end and is forgotten.
SweptSessionsEnd ==
  \A c \in Conn : (closer = "done" /\ phase[c] = "serving" /\ c \notin late)
                    ~> (phase[c] = "gone" /\ c \notin activeConn)
=============================================================================
