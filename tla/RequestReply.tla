---------------------------- MODULE RequestReply ----------------------------
(***************************************************************************)
(* What one connection promises its client, as pkg/proto/types.go:1-3 puts *)
(* it: the protocol is request-response.  The client has at most one       *)
(* request outstanding; the server answers it once or ends the connection, *)
(* and says nothing on its own.                                            *)
(*                                                                         *)
(* The promise covers a connection whose byte stream is in step.  Once the *)
(* server has refused a write and left its payload unread, the bytes it    *)
(* takes for commands are the client's data and any answer is possible.    *)
(***************************************************************************)
VARIABLES
  phase,    \* "idle": nothing outstanding; "asked": a request is; "over"
  inStep,   \* the server reads commands where the client wrote commands
  stray     \* an answer to no request is on its way to the client

rrVars == <<phase, inStep, stray>>

RRInit == phase = "idle" /\ inStep = TRUE /\ stray = FALSE

\* The client sends a request.
Ask == phase = "idle" /\ phase' = "asked" /\ UNCHANGED <<inStep, stray>>

\* The server answers the outstanding request; the answer may be a refusal
\* that leaves the payload of a write in the stream.
Answer == /\ phase = "asked" /\ phase' = "idle"
          /\ inStep' \in {inStep, FALSE}
          /\ UNCHANGED stray

\* The connection ends, for either side's reasons.
End == phase # "over" /\ phase' = "over" /\ stray' = FALSE /\ UNCHANGED inStep

\* Out of step, the server may answer the client's data.
Babble == /\ ~inStep /\ phase # "over"
          /\ phase' \in {"idle", "asked"} /\ stray' \in BOOLEAN
          /\ UNCHANGED inStep

\* What the server still refuses after the end is heard by nobody.
Unheard == /\ phase = "over" /\ inStep' = FALSE
           /\ UNCHANGED <<phase, stray>>

RRNext == Ask \/ Answer \/ End \/ Babble \/ Unheard

RRSafety == RRInit /\ [][RRNext]_rrVars

\* No request stays outstanding: it is answered or the connection ends.
RRSpec == RRSafety /\ WF_rrVars(phase = "asked" /\ (Answer \/ End))
=============================================================================
