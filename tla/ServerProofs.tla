---------------------------- MODULE ServerProofs ----------------------------
(***************************************************************************)
(* The safety properties of Server, for any set of connections, whitelist  *)
(* and limit.                                                              *)
(*                                                                         *)
(* Three facts carry the argument: the listener group is 1 exactly while   *)
(* Serve is inside its loop, an accepted connection that has no goroutine  *)
(* yet is the one Serve is about to filter, and nobody enters the loop     *)
(* after inShutdown.  So when Close finds the group empty, no connection   *)
(* can reach serveConn any more but those whose goroutine already exists.  *)
(***************************************************************************)
EXTENDS Server, FiniteSetTheorems, TLAPS

InLoop == {"loop", "accept", "filter", "untrack"}

Control ==
  /\ closer # "idle" => inShutdown
  /\ listenerGroup = IF srv \in InLoop THEN 1 ELSE 0
  /\ closer = "done" => listenerGroup = 0

FilteredOne ==
  /\ \A c \in Conn : phase[c] = "accepted" => srv = "filter" /\ c \in open
  /\ \A c, d \in Conn : phase[c] = "accepted" /\ phase[d] = "accepted" => c = d

IInv == TypeOK /\ Control /\ FilteredOne /\ PlacesAccounted /\ SweepMissesOnlyLate

-----------------------------------------------------------------------------
LEMMA OpenFinite ==
  ASSUME NEW S, S \subseteq Conn
  PROVE  IsFiniteSet(S) /\ Cardinality(S) \in Nat
  BY ServerAssumption, FS_Subset, FS_CardinalityType

\* Closing connections takes them out of open and gives their places back.
LEMMA ClosedPlaces ==
  ASSUME TypeOK, NEW C, C \subseteq Conn, CloseConns(C)
  PROVE  /\ open' \subseteq open
         /\ Cardinality(open') = Cardinality(open) - Cardinality(C \cap open)
         /\ Cardinality(open') \in Nat /\ Cardinality(C \cap open) \in Nat
         /\ Limited => slots' = slots - Cardinality(C \cap open)
         /\ ~Limited => slots' = slots
<1>1. IsFiniteSet(open) /\ open \cap C = C \cap open
  BY OpenFinite DEF TypeOK
<1>2. Cardinality(open \ C) = Cardinality(open) - Cardinality(open \cap C)
  BY <1>1, FS_Difference
<1>3. Cardinality(open \ C) \in Nat /\ Cardinality(C \cap open) \in Nat
  BY OpenFinite, C \cap open \subseteq Conn, open \ C \subseteq Conn DEF TypeOK
<1>. QED  BY <1>1, <1>2, <1>3 DEF CloseConns

-----------------------------------------------------------------------------
LEMMA InitIInv == Init => IInv
<1>. SUFFICES ASSUME Init PROVE IInv
  OBVIOUS
<1>1. Cardinality({}) = 0
  BY FS_EmptySet
<1>2. PlacesAccounted
  BY <1>1, ServerAssumption DEF Init, PlacesAccounted, Limited, Unfinished
<1>3. TypeOK /\ Control /\ FilteredOne /\ SweepMissesOnlyLate
  BY DEF Init, TypeOK, Control, FilteredOne, SweepMissesOnlyLate, Phases, InLoop
<1>. QED  BY <1>2, <1>3 DEF IInv

\* Serve's steps.
LEMMA ServeSteps ==
  ASSUME IInv,
         \/ TrackListener \/ AcquirePlace \/ AcceptFails
         \/ UntrackListener \/ ServeReturns
         \/ \E c \in Conn : Accept(c) \/ Filter(c)
  PROVE  IInv'
<1>. USE DEF IInv, TypeOK, Control, InLoop, Phases, closeVars, connVars
<1>o. Cardinality(open) \in Nat /\ IsFiniteSet(open)
  BY OpenFinite
<1>1. CASE TrackListener
  <2>1. TypeOK' /\ Control' /\ FilteredOne' /\ SweepMissesOnlyLate'
    BY <1>1 DEF TrackListener, FilteredOne, SweepMissesOnlyLate
  <2>2. PlacesAccounted'
    BY <1>1 DEF TrackListener, PlacesAccounted, Unfinished
  <2>. QED  BY <2>1, <2>2
<1>2. CASE AcquirePlace
  <2>1. TypeOK' /\ Control' /\ FilteredOne' /\ SweepMissesOnlyLate'
    BY <1>2 DEF AcquirePlace, FilteredOne, SweepMissesOnlyLate
  <2>2. PlacesAccounted'
    BY <1>2, <1>o, ServerAssumption DEF AcquirePlace, PlacesAccounted, Unfinished
  <2>. QED  BY <2>1, <2>2
<1>3. CASE AcceptFails
  <2>1. slots' \in Nat
    BY <1>3, <1>o DEF AcceptFails, PlacesAccounted
  <2>2. TypeOK' /\ Control' /\ FilteredOne' /\ SweepMissesOnlyLate'
    BY <1>3, <2>1 DEF AcceptFails, FilteredOne, SweepMissesOnlyLate
  <2>3. PlacesAccounted'
    BY <1>3, <1>o, ServerAssumption DEF AcceptFails, PlacesAccounted, Unfinished
  <2>. QED  BY <2>2, <2>3
<1>4. CASE UntrackListener
  <2>1. TypeOK' /\ Control' /\ FilteredOne' /\ SweepMissesOnlyLate'
    BY <1>4 DEF UntrackListener, FilteredOne, SweepMissesOnlyLate
  <2>2. PlacesAccounted'
    BY <1>4 DEF UntrackListener, PlacesAccounted, Unfinished
  <2>. QED  BY <2>1, <2>2
<1>5. CASE ServeReturns
  <2>1. \A c \in Conn : phase'[c] = IF phase[c] = "queued" THEN "gone" ELSE phase[c]
    BY <1>5 DEF ServeReturns, CloseListener, Move
  <2>2. phase' \in [Conn -> Phases]
    BY <1>5 DEF ServeReturns, CloseListener, Move
  <2>3. TypeOK' /\ Control'
    BY <1>5, <2>2 DEF ServeReturns, CloseListener
  <2>4. FilteredOne' /\ SweepMissesOnlyLate'
    BY <1>5, <2>1 DEF ServeReturns, CloseListener, FilteredOne, SweepMissesOnlyLate
  <2>5. PlacesAccounted'
    BY <1>5, <2>1 DEF ServeReturns, CloseListener, PlacesAccounted, Unfinished
  <2>. QED  BY <2>3, <2>4, <2>5
<1>6. ASSUME NEW c \in Conn, Accept(c) PROVE IInv'
  <2>1. c \notin open
    BY <1>6 DEF Accept, PlacesAccounted, Unfinished
  <2>2. Cardinality(open') = Cardinality(open) + 1
    BY <1>6, <1>o, <2>1, FS_AddElement DEF Accept
  <2>3. TypeOK' /\ Control'
    BY <1>6 DEF Accept
  <2>4. FilteredOne' /\ SweepMissesOnlyLate'
    BY <1>6 DEF Accept, FilteredOne, SweepMissesOnlyLate
  <2>5. PlacesAccounted'
    BY <1>6, <2>2, <1>o DEF Accept, PlacesAccounted, Unfinished
  <2>. QED  BY <2>3, <2>4, <2>5
<1>7. ASSUME NEW c \in Conn, Filter(c) PROVE IInv'
  <2>1. CASE c \in Allowed
    <3>1. UNCHANGED <<slots, open>> /\ phase' = [phase EXCEPT ![c] = "spawned"]
      BY <1>7, <2>1 DEF Filter
    <3>2. TypeOK' /\ Control' /\ FilteredOne' /\ SweepMissesOnlyLate'
      BY <1>7, <3>1 DEF Filter, FilteredOne, SweepMissesOnlyLate
    <3>3. PlacesAccounted'
      BY <1>7, <3>1 DEF Filter, PlacesAccounted, Unfinished
    <3>. QED  BY <3>2, <3>3
  <2>2. CASE c \notin Allowed
    <3>1. CloseConns({c}) /\ phase' = [phase EXCEPT ![c] = "gone"]
      BY <1>7, <2>2 DEF Filter
    <3>2. /\ Cardinality(open') = Cardinality(open) - Cardinality({c} \cap open)
          /\ Cardinality(open') \in Nat /\ Cardinality({c} \cap open) \in Nat
          /\ Limited => slots' = slots - Cardinality({c} \cap open)
          /\ ~Limited => slots' = slots
      BY <3>1, ClosedPlaces
    <3>3. open' = open \ {c}
      BY <3>1 DEF CloseConns
    <3>4. slots' \in Nat
      BY <1>7, <3>2, <1>o DEF PlacesAccounted, Filter
    <3>5. TypeOK' /\ Control' /\ FilteredOne' /\ SweepMissesOnlyLate'
      BY <1>7, <3>1, <3>3, <3>4 DEF Filter, FilteredOne, SweepMissesOnlyLate
    <3>6. PlacesAccounted'
      BY <1>7, <3>1, <3>2, <3>3, <1>o, ServerAssumption
         DEF Filter, PlacesAccounted, Unfinished
    <3>. QED  BY <3>5, <3>6
  <2>. QED  BY <2>1, <2>2
<1>. QED  BY <1>1, <1>2, <1>3, <1>4, <1>5, <1>6, <1>7

\* The steps of a connection: its client's and its goroutine's.
LEMMA ConnSteps ==
  ASSUME IInv, NEW c \in Conn,
         \/ Connect(c) \/ TrackConn(c) \/ LoopEnds(c)
         \/ CloseConn(c) \/ CloseContext(c) \/ UntrackConn(c)
  PROVE  IInv'
<1>. USE DEF IInv, TypeOK, Control, InLoop, Phases, srvVars, closeVars
<1>o. Cardinality(open) \in Nat
  BY OpenFinite
<1>1. CASE Connect(c)
  <2>1. TypeOK' /\ Control' /\ FilteredOne' /\ SweepMissesOnlyLate'
    BY <1>1 DEF Connect, FilteredOne, SweepMissesOnlyLate
  <2>2. PlacesAccounted'
    BY <1>1 DEF Connect, PlacesAccounted, Unfinished
  <2>. QED  BY <2>1, <2>2
<1>2. CASE TrackConn(c)
  <2>1. TypeOK' /\ Control' /\ FilteredOne' /\ SweepMissesOnlyLate'
    BY <1>2 DEF TrackConn, FilteredOne, SweepMissesOnlyLate
  <2>2. PlacesAccounted'
    BY <1>2 DEF TrackConn, PlacesAccounted, Unfinished
  <2>. QED  BY <2>1, <2>2
<1>3. CASE LoopEnds(c)
  <2>1. TypeOK' /\ Control' /\ FilteredOne' /\ SweepMissesOnlyLate'
    BY <1>3 DEF LoopEnds, FilteredOne, SweepMissesOnlyLate
  <2>2. PlacesAccounted'
    BY <1>3 DEF LoopEnds, PlacesAccounted, Unfinished
  <2>. QED  BY <2>1, <2>2
<1>4. CASE CloseConn(c)
  <2>1. /\ Cardinality(open') = Cardinality(open) - Cardinality({c} \cap open)
        /\ Cardinality(open') \in Nat /\ Cardinality({c} \cap open) \in Nat
        /\ Limited => slots' = slots - Cardinality({c} \cap open)
        /\ ~Limited => slots' = slots
    BY <1>4, ClosedPlaces DEF CloseConn
  <2>2. open' = open \ {c}
    BY <1>4 DEF CloseConn, CloseConns
  <2>3. slots' \in Nat
    BY <2>1, <1>o DEF PlacesAccounted
  <2>4. TypeOK' /\ Control' /\ FilteredOne' /\ SweepMissesOnlyLate'
    BY <1>4, <2>2, <2>3 DEF CloseConn, FilteredOne, SweepMissesOnlyLate
  <2>5. PlacesAccounted'
    BY <1>4, <2>1, <2>2, <1>o, ServerAssumption
       DEF CloseConn, PlacesAccounted, Unfinished
  <2>. QED  BY <2>4, <2>5
<1>5. CASE CloseContext(c)
  <2>1. TypeOK' /\ Control' /\ FilteredOne' /\ SweepMissesOnlyLate'
    BY <1>5 DEF CloseContext, FilteredOne, SweepMissesOnlyLate
  <2>2. PlacesAccounted'
    BY <1>5 DEF CloseContext, PlacesAccounted, Unfinished
  <2>. QED  BY <2>1, <2>2
<1>6. CASE UntrackConn(c)
  <2>1. TypeOK' /\ Control' /\ FilteredOne'
    BY <1>6 DEF UntrackConn, FilteredOne
  <2>2. SweepMissesOnlyLate'
    BY <1>6 DEF UntrackConn, SweepMissesOnlyLate
  <2>3. PlacesAccounted'
    BY <1>6 DEF UntrackConn, PlacesAccounted, Unfinished
  <2>. QED  BY <2>1, <2>2, <2>3
<1>. QED  BY <1>1, <1>2, <1>3, <1>4, <1>5, <1>6

\* Close's steps.
LEMMA CloseSteps ==
  ASSUME IInv, CancelContext \/ CloseStep PROVE IInv'
<1>. USE DEF IInv, TypeOK, Control, InLoop, Phases, srvVars, connVars
<1>o. Cardinality(open) \in Nat
  BY OpenFinite
<1>1. CASE CancelContext
  BY <1>1 DEF CancelContext, FilteredOne, SweepMissesOnlyLate, PlacesAccounted, Unfinished
<1>2. CASE CloseBegins
  BY <1>2 DEF CloseBegins, FilteredOne, SweepMissesOnlyLate, PlacesAccounted, Unfinished
<1>3. CASE CloseListeners
  <2>1. /\ phase' \in [Conn -> Phases]
        /\ \A c \in Conn : phase'[c] = phase[c] \/ (phase[c] = "queued" /\ phase'[c] = "gone")
    BY <1>3 DEF CloseListeners, CloseListener, Move
  <2>2. TypeOK' /\ Control'
    BY <1>3, <2>1 DEF CloseListeners, CloseListener
  <2>3. FilteredOne' /\ SweepMissesOnlyLate'
    BY <1>3, <2>1 DEF CloseListeners, FilteredOne, SweepMissesOnlyLate
  <2>4. PlacesAccounted'
    BY <1>3, <2>1 DEF CloseListeners, PlacesAccounted, Unfinished
  <2>. QED  BY <2>2, <2>3, <2>4
<1>4. CASE CloseSweeps
  <2>1. /\ Cardinality(open') = Cardinality(open) - Cardinality(activeConn \cap open)
        /\ Cardinality(open') \in Nat /\ Cardinality(activeConn \cap open) \in Nat
        /\ Limited => slots' = slots - Cardinality(activeConn \cap open)
        /\ ~Limited => slots' = slots
    BY <1>4, ClosedPlaces DEF CloseSweeps
  <2>2. open' = open \ activeConn
    BY <1>4 DEF CloseSweeps, CloseConns
  <2>3. slots' \in Nat
    BY <2>1, <1>o DEF PlacesAccounted
  <2>4. TypeOK' /\ Control'
    BY <1>4, <2>2, <2>3 DEF CloseSweeps
  <2>5. FilteredOne'
    BY <1>4, <2>2 DEF CloseSweeps, FilteredOne
  <2>6. SweepMissesOnlyLate'
    BY <1>4, <2>2 DEF CloseSweeps, SweepMissesOnlyLate
  <2>7. PlacesAccounted'
    BY <1>4, <2>1, <2>2, <1>o, ServerAssumption
       DEF CloseSweeps, PlacesAccounted, Unfinished
  <2>. QED  BY <2>4, <2>5, <2>6, <2>7
<1>. QED  BY <1>1, <1>2, <1>3, <1>4 DEF CloseStep

LEMMA IInvStep == IInv /\ [Next]_vars => IInv'
<1>1. IInv /\ Next => IInv'
  BY ServeSteps, ConnSteps, CloseSteps DEF Next, CloseStep
<1>2. IInv /\ UNCHANGED vars => IInv'
  BY DEF vars, srvVars, closeVars, connVars, IInv, TypeOK, Control, FilteredOne,
         PlacesAccounted, Unfinished, SweepMissesOnlyLate
<1>. QED  BY <1>1, <1>2

LEMMA IInvInvariant == Spec => []IInv
  BY InitIInv, IInvStep, PTL DEF Spec

-----------------------------------------------------------------------------
\* The variables of the server keep their types; the listener group in
\* particular never goes negative, which would panic.
THEOREM ServerTypeCorrect == Spec => []TypeOK
  BY IInvInvariant, PTL DEF IInv

\* The limit on connections holds and no place is lost, for every limit.
THEOREM ServerPlaces == Spec => []PlacesAccounted
  BY IInvInvariant, PTL DEF IInv

\* Nothing is accepted once Close has returned.
THEOREM ServerNoAcceptAfterClose == Spec => []NoAcceptAfterClose
<1>1. IInv => NoAcceptAfterClose
  BY DEF IInv, TypeOK, Control, FilteredOne, InLoop, NoAcceptAfterClose
<1>. QED  BY <1>1, IInvInvariant, PTL

\* Close reaches every session but those that are tracked after it swept.
THEOREM ServerSweep == Spec => []SweepMissesOnlyLate
  BY IInvInvariant, PTL DEF IInv
=============================================================================
