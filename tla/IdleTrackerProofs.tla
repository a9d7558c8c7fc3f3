------------------------- MODULE IdleTrackerProofs -------------------------
(***************************************************************************)
(* The safety properties of IdleTracker, for any number of clients: even   *)
(* one without an end, as every request to the debug server is a client,   *)
(* for only finitely many of them have connected.                          *)
(*                                                                         *)
(* The argument is the count: once it is known to be exactly the number of *)
(* clients between the two additions, a positive count at an addition      *)
(* leads to a Stop and a count of zero to a Reset, and what the timer is   *)
(* follows from who stands where.                                          *)
(***************************************************************************)
EXTENDS IdleTracker, FiniteSetTheorems, TLAPS

\* With nobody connected or about to stop or to reset the timer, it is armed
\* or has fired: NeverStuckUnarmed, said of every state a step can start from.
ArmedUnlessHandled ==
  running /\ (\A c \in Client : pc[c] \notin {"stopping", "here", "resetting"})
    => idleTimer = "armed" \/ shutdown

\* Only finitely many can have connected, however many clients there are.
Counting == TypeOK /\ CountExact /\ IsFiniteSet(Counted)

IInv == Counting /\ ArmedUnlessHandled /\ ArmedWithClientOnlyByLateReset
-----------------------------------------------------------------------------

\* Counting one client more, or one less.
LEMMA CountUp ==
  ASSUME NEW S, IsFiniteSet(S), NEW x, x \notin S
  PROVE  Cardinality(S \cup {x}) = Cardinality(S) + 1 /\ IsFiniteSet(S \cup {x})
  BY FS_AddElement

LEMMA CountDown ==
  ASSUME NEW S, IsFiniteSet(S), NEW x \in S
  PROVE  Cardinality(S \ {x}) = Cardinality(S) - 1 /\ IsFiniteSet(S \ {x})
  BY FS_RemoveElement

\* A client that is counted makes the count positive.
LEMMA CountedPositive ==
  ASSUME Counting, NEW c \in Counted
  PROVE  clientCount > 0
<1>1. Cardinality(Counted) \in Nat /\ IsFiniteSet(Counted)
  BY FS_CardinalityType DEF Counting
<1>2. Counted # {}
  OBVIOUS
<1>3. Cardinality(Counted) # 0
  BY <1>1, <1>2, FS_EmptySet
<1>. QED  BY <1>1, <1>3 DEF Counting, CountExact

-----------------------------------------------------------------------------
LEMMA InitIInv == Init => IInv
<1>. SUFFICES ASSUME Init PROVE IInv
  OBVIOUS
<1>1. Counted = {}
  BY DEF Init, Counted
<1>2. Cardinality(Counted) = 0 /\ IsFiniteSet(Counted)
  BY <1>1, FS_EmptySet
<1>. QED
  BY <1>2 DEF Init, IInv, Counting, TypeOK, CountExact, ArmedUnlessHandled,
              ArmedWithClientOnlyByLateReset

\* The type and the count: only the two additions change them.
LEMMA CountStep == Counting /\ [Next]_vars => Counting'
<1>. SUFFICES ASSUME Counting, [Next]_vars PROVE Counting'
  OBVIOUS
<1>. USE DEF Counting, TypeOK
<1>f. IsFiniteSet(Counted) /\ Cardinality(Counted) \in Nat
  BY FS_CardinalityType
<1>1. ASSUME NEW c \in Client, ConnectedAdd(c) PROVE Counting'
  <2>1. c \notin Counted /\ Counted' = Counted \cup {c}
    BY <1>1 DEF ConnectedAdd, Counted
  <2>2. Cardinality(Counted') = Cardinality(Counted) + 1 /\ IsFiniteSet(Counted')
    BY <2>1, <1>f, CountUp
  <2>. QED  BY <1>1, <2>2 DEF ConnectedAdd, CountExact
<1>2. ASSUME NEW c \in Client, ConnectedStop(c) PROVE Counting'
  <2>1. Counted' = Counted
    BY <1>2 DEF ConnectedStop, Counted
  <2>. QED  BY <1>2, <2>1 DEF ConnectedStop, CountExact
<1>3. ASSUME NEW c \in Client, DisconnectedAdd(c) PROVE Counting'
  <2>1. c \in Counted /\ Counted' = Counted \ {c}
    BY <1>3 DEF DisconnectedAdd, Counted
  <2>2. Cardinality(Counted') = Cardinality(Counted) - 1 /\ IsFiniteSet(Counted')
    BY <2>1, <1>f, CountDown
  <2>3. clientCount > 0
    BY <2>1, CountedPositive
  <2>. QED  BY <1>3, <2>2, <2>3 DEF DisconnectedAdd, CountExact
<1>4. ASSUME NEW c \in Client, DisconnectedReset(c) PROVE Counting'
  <2>1. Counted' = Counted
    BY <1>4 DEF DisconnectedReset, Counted
  <2>. QED  BY <1>4, <2>1 DEF DisconnectedReset, CountExact
<1>5. CASE Expire
  <2>1. Counted' = Counted
    BY <1>5 DEF Expire, Counted
  <2>. QED  BY <1>5, <2>1 DEF Expire, CountExact
<1>6. CASE Cancel
  <2>1. Counted' = Counted
    BY <1>6 DEF Cancel, Counted
  <2>. QED  BY <1>6, <2>1 DEF Cancel, CountExact
<1>7. CASE UNCHANGED vars
  <2>1. Counted' = Counted
    BY <1>7 DEF vars, Counted
  <2>. QED  BY <1>7, <2>1 DEF vars, CountExact
<1>. QED  BY <1>1, <1>2, <1>3, <1>4, <1>5, <1>6, <1>7 DEF Next, Call

\* Whoever leaves last goes through the Reset.
LEMMA ArmedStep ==
  Counting /\ ArmedUnlessHandled /\ [Next]_vars => ArmedUnlessHandled'
<1>. SUFFICES ASSUME Counting, ArmedUnlessHandled, [Next]_vars
              PROVE  ArmedUnlessHandled'
  OBVIOUS
<1>. USE DEF Counting, TypeOK, ArmedUnlessHandled
<1>1. ASSUME NEW c \in Client, ConnectedAdd(c) PROVE ArmedUnlessHandled'
  BY <1>1 DEF ConnectedAdd
<1>2. ASSUME NEW c \in Client, ConnectedStop(c) PROVE ArmedUnlessHandled'
  BY <1>2 DEF ConnectedStop
<1>3. ASSUME NEW c \in Client, DisconnectedAdd(c) PROVE ArmedUnlessHandled'
  <2>1. CASE clientCount - 1 <= 0
    BY <1>3, <2>1 DEF DisconnectedAdd
  <2>2. CASE ~(clientCount - 1 <= 0)
    <3>1. Counting'
      BY CountStep, <1>3 DEF Next, Call
    <3>2. clientCount' > 0
      BY <1>3, <2>2 DEF DisconnectedAdd
    <3>3. Counted' # {}
      BY <3>1, <3>2, FS_EmptySet DEF CountExact
    <3>. QED  BY <3>3 DEF Counted
  <2>. QED  BY <2>1, <2>2
<1>4. ASSUME NEW c \in Client, DisconnectedReset(c) PROVE ArmedUnlessHandled'
  BY <1>4 DEF DisconnectedReset
<1>5. CASE Expire
  BY <1>5 DEF Expire
<1>6. CASE Cancel
  BY <1>6 DEF Cancel
<1>7. CASE UNCHANGED vars
  BY <1>7 DEF vars
<1>. QED  BY <1>1, <1>2, <1>3, <1>4, <1>5, <1>6, <1>7 DEF Next, Call

\* A client in its Connected call, or past it, is counted, so a Reset that
\* leaves the timer armed beside it is a late one.
LEMMA LateStep ==
  Counting /\ ArmedWithClientOnlyByLateReset /\ [Next]_vars
    => ArmedWithClientOnlyByLateReset'
<1>. SUFFICES ASSUME Counting, ArmedWithClientOnlyByLateReset, [Next]_vars
              PROVE  ArmedWithClientOnlyByLateReset'
  OBVIOUS
<1>. USE DEF Counting, TypeOK, ArmedWithClientOnlyByLateReset
<1>1. ASSUME NEW c \in Client, ConnectedAdd(c) PROVE ArmedWithClientOnlyByLateReset'
  BY <1>1 DEF ConnectedAdd
<1>2. ASSUME NEW c \in Client, ConnectedStop(c) PROVE ArmedWithClientOnlyByLateReset'
  BY <1>2 DEF ConnectedStop
<1>3. ASSUME NEW c \in Client, DisconnectedAdd(c) PROVE ArmedWithClientOnlyByLateReset'
  BY <1>3 DEF DisconnectedAdd
<1>4. ASSUME NEW c \in Client, DisconnectedReset(c) PROVE ArmedWithClientOnlyByLateReset'
  <2>1. ASSUME NEW d \in Client, pc'[d] = "here" PROVE clientCount > 0
    <3>1. d \in Counted
      BY <2>1, <1>4 DEF DisconnectedReset, Counted
    <3>. QED  BY <3>1, CountedPositive
  <2>. QED  BY <2>1, <1>4 DEF DisconnectedReset
<1>5. CASE Expire
  BY <1>5 DEF Expire
<1>6. CASE Cancel
  BY <1>6 DEF Cancel
<1>7. CASE UNCHANGED vars
  BY <1>7 DEF vars
<1>. QED  BY <1>1, <1>2, <1>3, <1>4, <1>5, <1>6, <1>7 DEF Next, Call

-----------------------------------------------------------------------------
\* The invariant: the count is exact and the timer follows from it.
LEMMA IInvInvariant == Spec => []IInv
<1>2. IInv /\ [Next]_vars => IInv'
  BY CountStep, ArmedStep, LateStep DEF IInv
<1>. QED  BY InitIInv, <1>2, PTL DEF Spec

\* The variables of the tracker keep their types: the count never goes negative.
THEOREM IdleTypeCorrect == Spec => []TypeOK
  BY IInvInvariant, PTL DEF IInv, Counting

\* The count is the number of connected clients, however the calls interleave.
THEOREM IdleCountExact == Spec => []CountExact
  BY IInvInvariant, PTL DEF IInv, Counting

\* The last to leave always leaves the timer armed (cmd server.go:427-435).
THEOREM IdleNeverStuck == Spec => []NeverStuckUnarmed
<1>1. IInv => NeverStuckUnarmed
  BY DEF IInv, ArmedUnlessHandled, NeverStuckUnarmed
<1>. QED  BY <1>1, IInvInvariant, PTL

\* Only a late Reset leaves the timer armed beside a client.
THEOREM IdleArmedOnlyLate == Spec => []ArmedWithClientOnlyByLateReset
  BY IInvInvariant, PTL DEF IInv
=============================================================================
