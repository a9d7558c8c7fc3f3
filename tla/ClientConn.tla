----------------------------- MODULE ClientConn -----------------------------
(***************************************************************************)
(* The client library, pkg/client/client.go: how its calls share one       *)
(* connection, one deadline and the contexts they are given.               *)
(*                                                                         *)
(* The goroutines are the caller (pc), which makes one call after the      *)
(* other, and one for each context that ends, which context.AfterFunc      *)
(* starts (fn).  Both set the deadline of the connection.  The server      *)
(* answers requests in order.                                              *)
(*                                                                         *)
(* Methods differ only in what they read and in what they do when that     *)
(* fails: "plain" ones read a fixed answer, "listing" ones (ReadFile,      *)
(* ReadDir, ReadDirEntry) a head and then a body, "critical" ones a body   *)
(* only; "write" is WriteFile, a loop of chunks with an answer each.       *)
(* A part of an answer is an item, and so is what is left of it when a     *)
(* read stops in the middle.                                               *)
(***************************************************************************)
EXTENDS Integers, Sequences

CONSTANT MaxCalls    \* bound: calls the caller makes

ASSUME ClientAssumption == MaxCalls \in Nat \ {0}

Kinds == {"plain", "listing", "critical", "write"}
\* What a context can do: nothing (Done() is nil), be cancelled, also expire.
Contexts == {"background", "cancel", "timed"}
Calls == 1..MaxCalls

VARIABLES
  conn,       \* "up", "hungup" by the server or the network, "closed" with
              \* Client.isClosed set
  deadline,   \* of the connection: "none", "ahead", "passed"
  n,          \* calls begun; the last one is in progress unless pc = "idle"
  pc,         \* "idle", "write", "read", "body", "return"
  kind, ctx,  \* method and context of call n while it is in progress
  fn,         \* fn[i]: the AfterFunc of call i: "none", "armed", "spawned", "ran"
  requests,   \* on their way to the server
  answers,    \* on their way to the client
  mixed,      \* history: a call took an item of the answer to another call
  abandoned,  \* history: a call gave up, or a write was refused, and the
              \* connection was left open
  cutShort    \* history: a call ran into a deadline that was not its own

netVars == <<requests, answers>>
callVars == <<n, kind, ctx>>
history == <<mixed, abandoned, cutShort>>
vars == <<conn, deadline, pc, callVars, fn, netVars, history>>

Request == [call : Calls, kind : Kinds, whole : BOOLEAN]
Item == [call : Calls, part : {"head", "body"}, ok : BOOLEAN]

\* The calls whose context ended while they were in progress.
EndedCalls == {j \in Calls : fn[j] \in {"spawned", "ran"}}

Init ==
  /\ conn = "up" /\ deadline = "none"
  /\ n = 0 /\ pc = "idle" /\ kind = "plain" /\ ctx = "background"
  /\ fn = [i \in Calls |-> "none"]
  /\ requests = <<>> /\ answers = <<>>
  /\ mixed = FALSE /\ abandoned = FALSE /\ cutShort = FALSE
-----------------------------------------------------------------------------
(* The caller.                                                             *)

\* applyContext.  On a closed client nothing more happens (fs.ErrClosed).
Begin(k, x) ==
  /\ pc = "idle" /\ n < MaxCalls
  /\ n' = n + 1
  /\ IF conn = "closed"
     THEN UNCHANGED <<pc, kind, ctx, fn, deadline>>
     ELSE /\ pc' = "write" /\ kind' = k /\ ctx' = x
          /\ fn' = [fn EXCEPT ![n + 1] = IF x = "background" THEN "none" ELSE "armed"]
          /\ deadline' = IF x = "timed" THEN "ahead" ELSE deadline
  /\ UNCHANGED <<conn, netVars, history>>

\* What WriteFile sends ends, or cannot be read.
SourceEnds ==
  /\ pc = "write" /\ kind = "write" /\ pc' = "return"
  /\ UNCHANGED <<conn, deadline, callVars, fn, netVars, history>>

\* Mutant: the methods with a head are taken for those without.
HeadlessWriteRequest ==
  /\ pc = "write" /\ conn # "closed" /\ deadline # "passed"
  /\ pc' = IF kind = "plain" THEN "read" ELSE "body"
  /\ requests' = IF conn = "up"
                 THEN Append(requests, [call |-> n, kind |-> kind, whole |-> TRUE])
                 ELSE requests
  /\ UNCHANGED <<conn, deadline, callVars, fn, answers, history>>

\* writeRequest succeeds.  On a connection the server has left the bytes may
\* be accepted and go nowhere.
WriteRequest ==
  /\ pc = "write" /\ conn # "closed" /\ deadline # "passed"
  /\ pc' = IF kind = "critical" THEN "body" ELSE "read"
  /\ requests' = IF conn = "up"
                 THEN Append(requests, [call |-> n, kind |-> kind, whole |-> TRUE])
                 ELSE requests
  /\ UNCHANGED <<conn, deadline, callVars, fn, answers, history>>

\* A call gives up: its part of the histories.
CutShort ==
  cutShort' = \/ cutShort
              \/ /\ deadline = "passed" /\ conn # "closed"
                 /\ ctx # "timed" /\ n \notin EndedCalls

Abandon == abandoned' = (abandoned \/ conn # "closed")

\* writeRequest fails, with nothing sent or with the request cut off.
WriteFails ==
  /\ pc = "write" /\ (conn # "up" \/ deadline = "passed")
  /\ pc' = "return" /\ CutShort /\ Abandon
  /\ \/ UNCHANGED requests
     \/ /\ conn = "up"
        /\ requests' = Append(requests, [call |-> n, kind |-> kind, whole |-> FALSE])
  /\ UNCHANGED <<conn, deadline, callVars, fn, answers, mixed>>

\* Client.Close: isClosed is set and the connection is closed.
Closing == conn' = "closed" /\ requests' = <<>> /\ answers' = <<>>

\* The next item is read as what the call expects.  What the item of another
\* call decodes to is anybody's guess.
Take == /\ conn # "closed" /\ deadline # "passed" /\ answers # <<>>
        /\ answers' = Tail(answers) /\ mixed' = (mixed \/ Head(answers).call # n)
        /\ UNCHANGED <<conn, deadline, n, kind, ctx, fn, requests, cutShort>>

Decoded == IF Head(answers).call = n THEN {Head(answers).ok} ELSE BOOLEAN

\* readResponse succeeds.  A negative result ends the call, as the end of its
\* answer does; WriteFile goes on to the next chunk.
ReadResponse ==
  /\ pc = "read" /\ Take
  /\ \E ok \in Decoded :
       /\ abandoned' = (abandoned \/ (kind = "write" /\ ~ok))
       /\ \/ (~ok \/ kind = "plain") /\ pc' = "return"
          \/ ok /\ kind = "listing" /\ pc' = "body"
          \/ ok /\ kind = "write" /\ pc' = "write"

ReadBody == pc = "body" /\ Take /\ pc' = "return" /\ UNCHANGED abandoned

\* The connection is closed, has no more bytes, or its deadline has passed.
CannotRead == conn = "closed" \/ deadline = "passed" \/ (conn = "hungup" /\ answers = <<>>)

\* Mutant: a critical read that fails leaves the connection open.
OpenReadFails ==
  /\ pc \in {"read", "body"} /\ CannotRead
  /\ pc' = "return" /\ CutShort
  /\ IF kind = "critical"
     THEN UNCHANGED abandoned
     ELSE Abandon
  /\ UNCHANGED <<conn, deadline, callVars, fn, netVars, mixed>>

\* Only a critical read closes the connection when it fails.
ReadFails ==
  /\ pc \in {"read", "body"} /\ CannotRead
  /\ pc' = "return" /\ CutShort
  /\ IF kind = "critical"
     THEN Closing /\ UNCHANGED abandoned
     ELSE Abandon /\ UNCHANGED <<conn, netVars>>
  /\ UNCHANGED <<deadline, callVars, fn, mixed>>

\* Mutant: the deadline of a context that has not ended is left behind.
ForgetfulReturn ==
  /\ pc = "return" /\ pc' = "idle"
  /\ kind' = "plain" /\ ctx' = "background"
  /\ fn' = [fn EXCEPT ![n] = IF @ = "armed" THEN "none" ELSE @]
  /\ UNCHANGED <<conn, deadline, n, netVars, history>>

\* The deferred stop(): the deadline is reset if the AfterFunc was stopped,
\* and left as it is if its goroutine had started.
Return ==
  /\ pc = "return" /\ pc' = "idle"
  /\ kind' = "plain" /\ ctx' = "background"
  /\ IF fn[n] = "armed"
     THEN fn' = [fn EXCEPT ![n] = "none"] /\ deadline' = "none"
     ELSE UNCHANGED <<fn, deadline>>
  /\ UNCHANGED <<conn, n, netVars, history>>

CallerStep == SourceEnds \/ WriteRequest \/ WriteFails \/ ReadResponse \/ ReadBody \/ ReadFails \/ Return

\* Client.Close, from any goroutine.
CloseClient ==
  /\ conn # "closed" /\ Closing
  /\ UNCHANGED <<deadline, pc, callVars, fn, history>>
-----------------------------------------------------------------------------
(* Contexts and time.                                                      *)

\* The context of call i ends while the AfterFunc is armed: its goroutine starts.
ContextEnds(i) ==
  /\ fn[i] = "armed" /\ fn' = [fn EXCEPT ![i] = "spawned"]
  /\ UNCHANGED <<conn, deadline, pc, callVars, netVars, history>>

\* Mutant: the function does nothing to the connection.
IdleAfterFunc(i) ==
  /\ fn[i] = "spawned" /\ fn' = [fn EXCEPT ![i] = "ran"]
  /\ UNCHANGED <<conn, deadline, pc, callVars, netVars, history>>

\* The function runs, however late: SetDeadline(time.Now()).
AfterFunc(i) ==
  /\ fn[i] = "spawned" /\ fn' = [fn EXCEPT ![i] = "ran"]
  /\ deadline' = "passed"
  /\ UNCHANGED <<conn, pc, callVars, netVars, history>>

DeadlinePasses ==
  /\ deadline = "ahead" /\ deadline' = "passed"
  /\ UNCHANGED <<conn, pc, callVars, fn, netVars, history>>
-----------------------------------------------------------------------------
(* The server, as the client sees it.                                      *)

\* A write that is refused may get answers to its data beside its own.
Answers(r) ==
  LET Answer(p, b) == [call |-> r.call, part |-> p, ok |-> b]
      refusal == Answer("head", FALSE)
      head == Answer("head", TRUE)
      body == Answer("body", TRUE)
  IN IF r.kind = "critical" THEN {<<body>>}
     ELSE {<<refusal>>}
            \cup (IF r.kind = "listing" THEN {<<head, body>>} ELSE {<<head>>})
            \cup (IF r.kind = "write" THEN {<<refusal, refusal>>} ELSE {})

\* A request is answered; one that was cut off swallows the next one.
ServerAnswers ==
  /\ conn = "up" /\ requests # <<>>
  /\ Head(requests).whole \/ Len(requests) > 1
  /\ requests' = SubSeq(requests, IF Head(requests).whole THEN 2 ELSE 3, Len(requests))
  /\ \E a \in Answers(Head(requests)) : answers' = answers \o a
  /\ UNCHANGED <<conn, deadline, pc, callVars, fn, history>>

\* The server or the network ends the connection; what was sent may arrive.
HangUp ==
  /\ conn = "up" /\ conn' = "hungup" /\ requests' = <<>>
  /\ UNCHANGED <<deadline, pc, callVars, fn, answers, history>>

Next == \/ \E k \in Kinds, x \in Contexts : Begin(k, x)
        \/ SourceEnds \/ WriteRequest \/ WriteFails \/ ReadResponse \/ ReadBody \/ ReadFails
        \/ Return \/ CloseClient
        \/ \E i \in Calls : ContextEnds(i) \/ AfterFunc(i)
        \/ DeadlinePasses \/ ServerAnswers \/ HangUp

Spec == Init /\ [][Next]_vars

\* The caller and the functions of contexts are scheduled and a deadline
\* passes; the server owes nothing and no context has to end.
FairSpec == /\ Spec /\ WF_vars(CallerStep) /\ WF_vars(DeadlinePasses)
            /\ \A i \in Calls : WF_vars(AfterFunc(i))
-----------------------------------------------------------------------------
TypeOK ==
  /\ conn \in {"up", "hungup", "closed"}
  /\ deadline \in {"none", "ahead", "passed"}
  /\ n \in 0..MaxCalls /\ pc \in {"idle", "write", "read", "body", "return"}
  /\ pc # "idle" => n > 0
  /\ pc = "read" => kind # "critical"
  /\ pc = "body" => kind \in {"listing", "critical"}
  /\ kind \in Kinds /\ ctx \in Contexts
  /\ fn \in [Calls -> {"none", "armed", "spawned", "ran"}]
  /\ requests \in Seq(Request) /\ answers \in Seq(Item)
  /\ mixed \in BOOLEAN /\ abandoned \in BOOLEAN /\ cutShort \in BOOLEAN

\* A call that is answered takes the answer to its own request, unless a call
\* before it gave up with the connection open or had a write refused.  Other
\* refusals, a critical read that fails and the end of a context after its call
\* do not put the client out of step.
OwnAnswerUnlessAbandoned == mixed => abandoned

\* A call runs into a deadline only if its own context ended or expired, or if
\* that of an earlier call ended during that call: the deadline of a context
\* that outlives its call is never left to the next.
DeadlineHasReason ==
  cutShort => \E j \in EndedCalls : j < n

\* A call whose context ends returns, silent as the server may be and whatever
\* the functions of earlier contexts do to the deadline.
CancelledCallReturns ==
  \A i \in Calls : (pc # "idle" /\ n = i /\ fn[i] = "spawned") ~> (pc = "idle" \/ n > i)
=============================================================================
