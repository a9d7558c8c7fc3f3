-------------------------- MODULE ClientConnProofs --------------------------
(* Proofs about ClientConn: the type invariant, and what keeps the answers  *)
(* and the deadline of one call away from the next, for any number of calls.*)
EXTENDS ClientConn, TLAPS

Mine(p, b) == [call |-> n, part |-> p, ok |-> b]

\* While nobody has abandoned anything, what is on its way belongs to the call
\* in progress, and is no more than that call will read.
InStep ==
  ~abandoned /\ conn # "closed" =>
    \/ requests = <<>> /\ answers = <<>> /\ (pc \in {"read", "body"} => conn = "hungup")
    \/ /\ pc = "read" \/ (pc = "body" /\ kind = "critical")
       /\ requests = <<[call |-> n, kind |-> kind, whole |-> TRUE]>> /\ answers = <<>>
    \/ /\ pc = "read" /\ requests = <<>>
       /\ \/ answers = <<Mine("head", FALSE)>>
          \/ kind # "listing" /\ answers = <<Mine("head", TRUE)>>
          \/ kind = "write" /\ answers = <<Mine("head", FALSE), Mine("head", FALSE)>>
          \/ kind = "listing" /\ answers = <<Mine("head", TRUE), Mine("body", TRUE)>>
    \/ pc = "body" /\ requests = <<>> /\ answers = <<Mine("body", TRUE)>>

NeverMixed == mixed => abandoned

\* A deadline that is set has an owner: the call in progress, by its context,
\* or a call whose context ended while it was in progress.
DeadlineOwned ==
  /\ deadline # "none" => (pc # "idle" /\ ctx = "timed") \/ EndedCalls # {}
  /\ \A i \in Calls : fn[i] = "armed" => pc # "idle" /\ i = n
  /\ \A i \in Calls : i > n => fn[i] = "none"
  /\ pc # "idle" /\ ctx = "timed" => fn[n] # "none"

IInv == TypeOK /\ InStep /\ NeverMixed /\ DeadlineOwned /\ DeadlineHasReason

-----------------------------------------------------------------------------
LEMMA TailOfPair == ASSUME NEW a, NEW b PROVE Tail(<<a, b>>) = <<b>>
<1>. DEFINE S == {a, b}
<1>1. a \in S /\ b \in S
  OBVIOUS
<1>. HIDE DEF S
<1>2. <<a, b>> \in Seq(S) /\ Len(<<a, b>>) = 2
  BY <1>1
<1>3. /\ Tail(<<a, b>>) \in Seq(S) /\ Len(Tail(<<a, b>>)) = 1
      /\ Tail(<<a, b>>)[1] = b
  BY <1>2
<1>. QED  BY <1>3

\* The answers ServerAnswers chooses from are sequences of items.
LEMMA AnswersType ==
  ASSUME NEW r \in Request  PROVE Answers(r) \subseteq Seq(Item)
<1>1. \A p \in {"head", "body"}, b \in BOOLEAN :
        [call |-> r.call, part |-> p, ok |-> b] \in Item
  BY DEF Request, Item
<1>2. \A x, y \in Item : <<x>> \in Seq(Item) /\ <<x, y>> \in Seq(Item)
  OBVIOUS
<1>. QED  BY <1>1, <1>2 DEF Answers

LEMMA InitIInv == Init => IInv
<1>1. Init => /\ fn \in [Calls -> {"none", "armed", "spawned", "ran"}]
              /\ n \in 0..MaxCalls
  BY ClientAssumption DEF Init
<1>2. Init => mixed \in BOOLEAN /\ abandoned \in BOOLEAN /\ cutShort \in BOOLEAN
  BY DEF Init
<1>3. Init => requests \in Seq(Request) /\ answers \in Seq(Item)
  BY DEF Init
<1>4. Init => TypeOK
  BY <1>1, <1>2, <1>3 DEF Init, TypeOK, Kinds, Contexts
<1>5. Init => InStep /\ NeverMixed
  BY DEF Init, InStep, NeverMixed
<1>6. Init => DeadlineOwned /\ DeadlineHasReason
  BY DEF Init, DeadlineOwned, DeadlineHasReason
<1>. QED  BY <1>4, <1>5, <1>6 DEF IInv

LEMMA TypeStep == TypeOK /\ [Next]_vars => TypeOK'
<1>. SUFFICES ASSUME TypeOK, [Next]_vars PROVE TypeOK'
  OBVIOUS
<1>. USE ClientAssumption DEF TypeOK, Calls, callVars, netVars, history
<1>1. ASSUME NEW k \in Kinds, NEW x \in Contexts, Begin(k, x) PROVE TypeOK'
  BY <1>1 DEF Begin
<1>2. CASE SourceEnds
  BY <1>2 DEF SourceEnds
<1>3. CASE WriteRequest
  <2>1. [call |-> n, kind |-> kind, whole |-> TRUE] \in Request
    BY <1>3 DEF WriteRequest, Request
  <2>2. requests' \in Seq(Request)
    BY <1>3, <2>1 DEF WriteRequest
  <2>. QED  BY <1>3, <2>2 DEF WriteRequest
<1>4. CASE WriteFails
  <2>1. [call |-> n, kind |-> kind, whole |-> FALSE] \in Request
    BY <1>4 DEF WriteFails, Request
  <2>2. \/ requests' = requests
        \/ requests' = Append(requests, [call |-> n, kind |-> kind, whole |-> FALSE])
    BY <1>4 DEF WriteFails
  <2>3. cutShort' \in BOOLEAN
    BY <1>4, Zenon DEF WriteFails, CutShort
  <2>4. abandoned' \in BOOLEAN
    BY <1>4 DEF WriteFails, Abandon
  <2>5. requests' \in Seq(Request)
    <3>1. requests \in Seq(Request)
      OBVIOUS
    <3>2. Append(requests, [call |-> n, kind |-> kind, whole |-> FALSE]) \in Seq(Request)
      BY <2>1, <3>1
    <3>. QED  BY <2>2, <3>1, <3>2
  <2>. QED  BY <1>4, <2>3, <2>4, <2>5 DEF WriteFails
<1>5. CASE ReadResponse
  <2>1. Head(answers) \in Item /\ Tail(answers) \in Seq(Item)
    BY <1>5 DEF ReadResponse, Take
  <2>. QED  BY <1>5, <2>1 DEF ReadResponse, Take, Item
<1>6. CASE ReadBody
  BY <1>6 DEF ReadBody, Take, Item
<1>7. CASE ReadFails
  <2>1. cutShort' \in BOOLEAN /\ abandoned' \in BOOLEAN
    BY <1>7 DEF ReadFails, CutShort, Abandon
  <2>2. CASE kind = "critical"
    <3>1. requests' = <<>> /\ answers' = <<>> /\ conn' = "closed"
      BY <1>7, <2>2 DEF ReadFails, Closing
    <3>. QED  BY <1>7, <2>1, <3>1 DEF ReadFails
  <2>3. CASE kind # "critical"
    <3>1. UNCHANGED <<requests, answers, conn>>
      BY <1>7, <2>3 DEF ReadFails
    <3>. QED  BY <1>7, <2>1, <3>1 DEF ReadFails
  <2>. QED  BY <2>2, <2>3
<1>8. CASE Return
  BY <1>8 DEF Return, Kinds, Contexts
<1>9. CASE CloseClient
  BY <1>9 DEF CloseClient, Closing
<1>10. ASSUME NEW i \in Calls, ContextEnds(i) \/ AfterFunc(i) PROVE TypeOK'
  BY <1>10 DEF ContextEnds, AfterFunc
<1>11. CASE DeadlinePasses
  BY <1>11 DEF DeadlinePasses
<1>12. CASE ServerAnswers
  <2>1. Head(requests) \in Request
    BY <1>12 DEF ServerAnswers
  <2>2. requests' \in Seq(Request)
    BY <1>12 DEF ServerAnswers
  <2>3. answers' \in Seq(Item)
    BY <1>12, <2>1, AnswersType DEF ServerAnswers
  <2>. QED  BY <1>12, <2>2, <2>3 DEF ServerAnswers
<1>13. CASE HangUp
  BY <1>13 DEF HangUp
<1>14. CASE UNCHANGED vars
  BY <1>14 DEF vars
<1>. QED
  BY <1>1, <1>2, <1>3, <1>4, <1>5, <1>6, <1>7, <1>8, <1>9, <1>10, <1>11, <1>12,
     <1>13, <1>14 DEF Next

\* The client stays in step, and what it takes is its own.
LEMMA StepStep == TypeOK /\ InStep /\ NeverMixed /\ [Next]_vars => (InStep /\ NeverMixed)'
<1>. SUFFICES ASSUME TypeOK, InStep, NeverMixed, [Next]_vars
              PROVE  InStep' /\ NeverMixed'
  OBVIOUS
<1>. USE DEF InStep, NeverMixed, Mine, callVars, netVars, history
<1>1. ASSUME NEW k \in Kinds, NEW x \in Contexts, Begin(k, x)
      PROVE InStep' /\ NeverMixed'
  BY <1>1 DEF Begin
<1>2. CASE SourceEnds
  BY <1>2 DEF SourceEnds
<1>3. CASE WriteRequest
  <2>1. NeverMixed'
    BY <1>3 DEF WriteRequest
  <2>2. CASE abandoned
    BY <1>3, <2>1, <2>2 DEF WriteRequest
  <2>3. CASE ~abandoned
    <3>1. requests = <<>> /\ answers = <<>>
      BY <1>3, <2>3 DEF WriteRequest
    <3>2. CASE conn = "up"
      <4>1. requests' = <<[call |-> n, kind |-> kind, whole |-> TRUE]>>
        BY <1>3, <3>1, <3>2 DEF WriteRequest
      <4>. QED  BY <1>3, <2>1, <3>1, <4>1 DEF WriteRequest
    <3>3. CASE conn # "up"
      <4>1. requests' = <<>> /\ answers' = <<>> /\ conn' = "hungup"
        BY <1>3, <3>1, <3>3 DEF WriteRequest, TypeOK
      <4>. QED  BY <2>1, <4>1
    <3>. QED  BY <3>2, <3>3
  <2>. QED  BY <2>2, <2>3
<1>4. CASE WriteFails
  BY <1>4 DEF WriteFails, CutShort, Abandon
<1>5. CASE ReadResponse
  <2>1. CASE abandoned
    BY <1>5, <2>1 DEF ReadResponse, Take
  <2>2. CASE ~abandoned
    <3>1. pc = "read" /\ requests = <<>> /\ answers # <<>> /\ conn # "closed"
      BY <1>5, <2>2 DEF ReadResponse, Take
    <3>2. Head(answers).call = n /\ Decoded = {Head(answers).ok}
      BY <1>5, <2>2, <3>1 DEF Decoded
    <3>3. NeverMixed'
      BY <1>5, <2>2, <3>2 DEF ReadResponse, Take
    <3>4. InStep'
      <4>1. CASE ~Head(answers).ok /\ kind = "write"
        BY <1>5, <3>2, <4>1 DEF ReadResponse, Take
      <4>2. CASE ~Head(answers).ok /\ kind # "write"
        BY <1>5, <2>2, <3>1, <3>2, <4>2 DEF ReadResponse, Take, TypeOK
      <4>3. CASE Head(answers).ok
        <5>1. /\ abandoned' = FALSE /\ requests' = <<>> /\ conn' = conn
              /\ pc' \in {"return", "body", "write"} /\ n' = n
              /\ (pc' = "body" <=> kind = "listing")
          BY <1>5, <2>2, <3>1, <3>2, <4>3 DEF ReadResponse, Take
        <5>2. CASE kind = "listing"
          <6>1. answers = <<Mine("head", TRUE), Mine("body", TRUE)>>
            BY <2>2, <3>1, <4>3, <5>2
          <6>2. answers' = Tail(answers)
            BY <1>5 DEF ReadResponse, Take
          <6>3. Tail(answers) = <<Mine("body", TRUE)>>
            BY <6>1, TailOfPair
          <6>4. answers' = <<Mine("body", TRUE)>>
            BY <6>2, <6>3
          <6>. QED  BY <5>1, <5>2, <6>4
        <5>3. CASE kind # "listing"
          <6>1. answers = <<Mine("head", TRUE)>>
            BY <2>2, <3>1, <4>3, <5>3
          <6>2. answers' = <<>>
            BY <1>5, <6>1 DEF ReadResponse, Take
          <6>. QED  BY <5>1, <5>3, <6>2
        <5>. QED  BY <5>2, <5>3
      <4>. QED  BY <4>1, <4>2, <4>3
    <3>. QED  BY <3>3, <3>4
  <2>. QED  BY <2>1, <2>2
<1>6. CASE ReadBody
  <2>1. CASE abandoned
    BY <1>6, <2>1 DEF ReadBody, Take
  <2>2. CASE ~abandoned
    <3>1. requests = <<>> /\ answers = <<Mine("body", TRUE)>>
      BY <1>6, <2>2 DEF ReadBody, Take
    <3>2. requests' = <<>> /\ answers' = <<>> /\ pc' = "return" /\ ~mixed'
      <4>1. Head(answers).call = n /\ Tail(answers) = <<>>
        BY <3>1
      <4>2. ~mixed'
        BY <1>6, <2>2, <4>1 DEF ReadBody, Take
      <4>. QED  BY <1>6, <3>1, <4>1, <4>2 DEF ReadBody, Take
    <3>. QED  BY <1>6, <2>2, <3>2 DEF ReadBody
  <2>. QED  BY <2>1, <2>2
<1>7. CASE ReadFails
  BY <1>7 DEF ReadFails, CutShort, Abandon, Closing, TypeOK
<1>8. CASE Return
  BY <1>8 DEF Return
<1>9. CASE CloseClient
  BY <1>9 DEF CloseClient, Closing
<1>10. ASSUME NEW i \in Calls, ContextEnds(i) \/ AfterFunc(i)
       PROVE InStep' /\ NeverMixed'
  BY <1>10 DEF ContextEnds, AfterFunc
<1>11. CASE DeadlinePasses
  BY <1>11 DEF DeadlinePasses
<1>12. CASE ServerAnswers
  <2>1. CASE abandoned
    BY <1>12, <2>1 DEF ServerAnswers
  <2>2. CASE ~abandoned
    <3>1. /\ pc = "read" \/ (pc = "body" /\ kind = "critical")
          /\ requests = <<[call |-> n, kind |-> kind, whole |-> TRUE]>> /\ answers = <<>>
      BY <1>12, <2>2 DEF ServerAnswers
    <3>2. Head(requests) = [call |-> n, kind |-> kind, whole |-> TRUE] /\ requests' = <<>>
      BY <1>12, <3>1 DEF ServerAnswers
    <3>3. answers' \in Answers([call |-> n, kind |-> kind, whole |-> TRUE])
      <4>1. PICK a \in Answers(Head(requests)) : answers' = answers \o a
        BY <1>12 DEF ServerAnswers
      <4>2. Head(requests) \in Request
        BY <3>1, <3>2 DEF TypeOK
      <4>3. a \in Seq(Item)
        BY <4>1, <4>2, AnswersType
      <4>. QED  BY <4>1, <4>3, <3>1, <3>2
    <3>4. kind # "critical" => pc = "read"
      BY <3>1
    <3>5. kind = "critical" => pc = "body"
      BY <3>1 DEF TypeOK
    <3>6. \/ kind = "critical" /\ answers' = <<Mine("body", TRUE)>>
          \/ kind # "critical" /\ answers' = <<Mine("head", FALSE)>>
          \/ kind \in {"plain", "write"} /\ answers' = <<Mine("head", TRUE)>>
          \/ kind = "write" /\ answers' = <<Mine("head", FALSE), Mine("head", FALSE)>>
          \/ kind = "listing" /\ answers' = <<Mine("head", TRUE), Mine("body", TRUE)>>
      BY <3>3 DEF Answers, TypeOK, Kinds
    <3>. QED  BY <1>12, <3>2, <3>4, <3>5, <3>6 DEF ServerAnswers
  <2>. QED  BY <2>1, <2>2
<1>13. CASE HangUp
  BY <1>13 DEF HangUp
<1>14. CASE UNCHANGED vars
  BY <1>14 DEF vars
<1>. QED
  BY <1>1, <1>2, <1>3, <1>4, <1>5, <1>6, <1>7, <1>8, <1>9, <1>10, <1>11, <1>12,
     <1>13, <1>14 DEF Next

\* A context that has ended stays ended, and calls are only added.
LEMMA EndedGrow ==
  ASSUME TypeOK, DeadlineOwned, [Next]_vars
  PROVE  EndedCalls \subseteq EndedCalls' /\ n' >= n
<1>. USE DEF EndedCalls
<1>1. n \in Int /\ (\A i \in Calls : i > n => fn[i] = "none") /\ fn \in [Calls -> {"none", "armed", "spawned", "ran"}]
  BY DEF TypeOK, DeadlineOwned
<1>2. ASSUME NEW k \in Kinds, NEW x \in Contexts, Begin(k, x) PROVE EndedCalls \subseteq EndedCalls' /\ n' >= n
  BY <1>1, <1>2 DEF Begin
<1>3. CASE Return
  BY <1>1, <1>3 DEF Return
<1>4. ASSUME NEW i \in Calls, ContextEnds(i) PROVE EndedCalls \subseteq EndedCalls' /\ n' >= n
  BY <1>1, <1>4 DEF ContextEnds, callVars
<1>5. ASSUME NEW i \in Calls, AfterFunc(i) PROVE EndedCalls \subseteq EndedCalls' /\ n' >= n
  BY <1>1, <1>5 DEF AfterFunc, callVars
<1>6. CASE UNCHANGED <<fn, n>>
  BY <1>1, <1>6
<1>7. CASE \/ SourceEnds \/ WriteRequest \/ WriteFails \/ ReadResponse \/ ReadBody \/ ReadFails
           \/ CloseClient \/ DeadlinePasses \/ ServerAnswers \/ HangUp \/ UNCHANGED vars
  BY <1>6, <1>7 DEF SourceEnds, WriteRequest, WriteFails, ReadResponse, ReadBody, ReadFails,
     CloseClient, DeadlinePasses, ServerAnswers, HangUp, Take, vars, callVars
<1>. QED  BY <1>2, <1>3, <1>4, <1>5, <1>7 DEF Next


\* Whoever runs into a deadline that is not his own finds an earlier call whose
\* context ended.
LEMMA ReasonStep ==
  ASSUME TypeOK, TypeOK', DeadlineOwned, DeadlineHasReason, [Next]_vars
  PROVE  DeadlineHasReason'
<1>1. EndedCalls \subseteq EndedCalls' /\ n' >= n
  BY EndedGrow
<1>2. n \in Int /\ n' \in Int /\ \A j \in EndedCalls : j \in Int /\ j <= n
  BY DEF TypeOK, DeadlineOwned, EndedCalls, Calls
<1>3. (cutShort' => cutShort) => DeadlineHasReason'
  BY <1>1, <1>2 DEF DeadlineHasReason
<1>4. ASSUME CutShort, pc # "idle" PROVE DeadlineHasReason'
  <2>1. cutShort' => cutShort \/ (deadline # "none" /\ ctx # "timed" /\ n \notin EndedCalls)
    BY <1>4 DEF CutShort
  <2>2. deadline # "none" /\ ctx # "timed" /\ n \notin EndedCalls => \E j \in EndedCalls : j < n
    BY <1>2, <1>4 DEF DeadlineOwned
  <2>. QED  BY <1>1, <1>2, <2>1, <2>2 DEF DeadlineHasReason
<1>5. CASE WriteFails \/ ReadFails
  BY <1>4, <1>5 DEF WriteFails, ReadFails
<1>6. CASE ~(WriteFails \/ ReadFails)
  <2>1. UNCHANGED cutShort
    BY <1>6 DEF Next, Begin, SourceEnds, WriteRequest, ReadResponse, ReadBody, Return, ContextEnds, AfterFunc,
     CloseClient, DeadlinePasses, ServerAnswers, HangUp, Take, vars, history
  <2>. QED  BY <1>3, <2>1
<1>. QED  BY <1>5, <1>6

\* A deadline that is set keeps an owner.
LEMMA OwnedStep ==
  ASSUME TypeOK, TypeOK', DeadlineOwned, [Next]_vars
  PROVE  DeadlineOwned'
<1>1. EndedCalls \subseteq EndedCalls'
  BY EndedGrow
<1>2. n \in Int /\ n' \in Int /\ Calls \subseteq Int /\ fn \in [Calls -> {"none", "armed", "spawned", "ran"}]
      /\ (pc # "idle" => n \in Calls)
  BY DEF TypeOK, Calls
<1>. DEFINE P1 == deadline # "none" => (pc # "idle" /\ ctx = "timed") \/ EndedCalls # {}
            P2 == \A i \in Calls : fn[i] = "armed" => pc # "idle" /\ i = n
            P3 == \A i \in Calls : i > n => fn[i] = "none"
            P4 == pc # "idle" /\ ctx = "timed" => fn[n] # "none"
<1>a. P1 /\ P2 /\ P3 /\ P4
  BY DEF DeadlineOwned
<1>b. P1' /\ P2' /\ P3' /\ P4' => DeadlineOwned'
  BY DEF DeadlineOwned
<1>. HIDE DEF P1, P2, P3, P4
<1>3. ASSUME NEW k \in Kinds, NEW x \in Contexts, Begin(k, x) PROVE DeadlineOwned'
  <2>0. n' = n + 1 /\ n + 1 \in Calls /\ pc = "idle"
    BY <1>2, <1>3 DEF Begin, TypeOK, Calls
  <2>1. P1'
    BY <1>1, <1>a, <1>3 DEF Begin, P1
  <2>2. P2'
    BY <2>0, <1>2, <1>a, <1>3 DEF Begin, P2
  <2>3. P3'
    BY <2>0, <1>2, <1>a, <1>3 DEF Begin, P3
  <2>4. P4'
    BY <2>0, <1>2, <1>a, <1>3 DEF Begin, P4
  <2>. QED  BY <1>b, <2>1, <2>2, <2>3, <2>4
<1>4. CASE Return
  <2>1. fn[n] # "armed" /\ deadline # "none" => EndedCalls # {}
    BY <1>2, <1>4, <1>a DEF Return, EndedCalls, P1, P4
  <2>2. P1'
    BY <1>1, <2>1, <1>4 DEF Return, P1
  <2>3. P2'
    BY <1>2, <1>a, <1>4 DEF Return, P2
  <2>4. P3'
    BY <1>2, <1>a, <1>4 DEF Return, P3
  <2>5. P4'
    BY <1>4 DEF Return, P4
  <2>. QED  BY <1>b, <2>2, <2>3, <2>4, <2>5
<1>5. ASSUME NEW i \in Calls, ContextEnds(i) \/ AfterFunc(i) PROVE DeadlineOwned'
  <2>1. P1'
    <3>1. CASE ContextEnds(i)
      BY <1>1, <1>a, <3>1 DEF ContextEnds, callVars, P1
    <3>2. CASE AfterFunc(i)
      <4>. i \in EndedCalls
        BY <3>2 DEF EndedCalls, AfterFunc
      <4>. QED BY <1>1 DEF P1
    <3>. QED BY <1>5, <3>1, <3>2
  <2>2. P2'
    BY <1>2, <1>a, <1>5 DEF ContextEnds, AfterFunc, callVars, P2
  <2>3. P3'
    BY <1>2, <1>a, <1>5 DEF ContextEnds, AfterFunc, callVars, P3
  <2>4. P4'
    BY <1>2, <1>a, <1>5 DEF ContextEnds, AfterFunc, callVars, P4
  <2>. QED  BY <1>b, <2>1, <2>2, <2>3, <2>4
<1>7. ASSUME UNCHANGED <<fn, n, ctx>>, pc' # "idle" \/ pc = "idle", pc' # "idle" => pc # "idle",
             deadline' # "none" => deadline # "none"
      PROVE DeadlineOwned'
  <2>1. P1'
    BY <1>1, <1>a, <1>7 DEF P1
  <2>2. P2' /\ P3' /\ P4'
    BY <1>a, <1>7 DEF P2, P3, P4
  <2>. QED  BY <1>b, <2>1, <2>2
<1>8. CASE \/ SourceEnds \/ WriteRequest \/ WriteFails \/ ReadResponse \/ ReadBody \/ ReadFails
           \/ CloseClient \/ DeadlinePasses \/ ServerAnswers \/ HangUp \/ UNCHANGED vars
  BY <1>7, <1>8 DEF SourceEnds, WriteRequest, WriteFails, ReadResponse, ReadBody, ReadFails,
     CloseClient, DeadlinePasses, ServerAnswers, HangUp, Take, vars, callVars
<1>. QED  BY <1>3, <1>4, <1>5, <1>8 DEF Next

LEMMA IInvInvariant == Spec => []IInv
<1>1. IInv /\ [Next]_vars => IInv'
  BY TypeStep, StepStep, ReasonStep, OwnedStep DEF IInv
<1>. QED  BY InitIInv, <1>1, PTL DEF Spec

-----------------------------------------------------------------------------
\* The variables of the client keep their types, and a method only waits for
\* the parts its answer has.
THEOREM ClientTypeCorrect == Spec => []TypeOK
  BY IInvInvariant, PTL DEF IInv

\* A call takes only its own answer until a call gives up, or has a write
\* refused, with the connection open.
THEOREM ClientOwnAnswer == Spec => []OwnAnswerUnlessAbandoned
<1>1. IInv => OwnAnswerUnlessAbandoned
  BY DEF IInv, NeverMixed, OwnAnswerUnlessAbandoned
<1>. QED  BY <1>1, IInvInvariant, PTL

\* No call runs into a deadline without a reason of its own or a context that
\* ended during an earlier call.
THEOREM ClientDeadline == Spec => []DeadlineHasReason
  BY IInvInvariant, PTL DEF IInv
=============================================================================
