------------------------------ MODULE Session ------------------------------
(***************************************************************************)
(* One client connection of the server: the request loop of                *)
(* pkg/server/server.go (serveConn, handleCommand and the handle*          *)
(* functions) together with the handlers of internal/handler/handler.go    *)
(* that keep the connection's State (internal/handler/state.go).           *)
(*                                                                         *)
(* A connection is served by one goroutine and its State is touched by     *)
(* nobody else, so a handler is one step.  What goes on around it (the     *)
(* peer, other sessions changing the file system, the disk) shows as the   *)
(* nondeterministic outcome of each call.                                  *)
(*                                                                         *)
(* The incoming bytes are a queue of items.  An item is a command, its     *)
(* 16 bytes and its path together, or one unit of the payload that follows *)
(* a write command.  The client is synchronous, as pkg/client is: it sends *)
(* a request when it has the answer to the one before.                     *)
(***************************************************************************)
EXTENDS Integers, Sequences, FiniteSets

CONSTANTS
  Id,           \* identities of the files open for this connection
  NoHandle,     \* Go's nil
  Files, Dirs,  \* what the paths of requests name
  SectorOf,     \* SectorOf[f]: what sector detection finds in f, 0 if nothing
  EntriesOf,    \* EntriesOf[d]: how many entries directory d lists
  HasTimeout,   \* Server.ReadTimeout > 0
  MaxPayload,   \* bound: units of payload a write carries
  MaxBacklog,   \* bound: items and answers in flight when a client asks
  PayloadOps    \* what a unit of payload may decode as, taken for a command

Node == Files \cup Dirs

\* An open file is known by its identity and by what it was opened on.
Handle == [id : Id, node : Node]

PathOps == {"OpenDir", "Stat", "OpenFile", "Create", "Delete", "Mkdir",
            "Rmdir", "GetDirSize"}
PlainOps == {"ReadDirEntry", "ReadDir", "CloseFile", "ReadFile",
             "ReadFileCritical", "ReadCD2048", "Write", "Unknown"}
Ops == PathOps \cup PlainOps

ASSUME SessionAssumption ==
  /\ NoHandle \notin Handle
  /\ Files \cap Dirs = {} /\ Node # {}
  /\ SectorOf \in [Node -> Nat]
  /\ EntriesOf \in [Dirs -> Nat]
  /\ HasTimeout \in BOOLEAN
  /\ MaxPayload \in Nat /\ MaxBacklog \in Nat
  /\ PayloadOps \subseteq Ops

DefaultSector == 2352

VARIABLES
  allowWrite, \* Handler.AllowWrite
  status,    \* of serveConn: "new", "serving", "closing" (deferred calls), "closed"
  peer,      \* "up" while the connection can carry bytes both ways
  stream,    \* items received and not read yet
  replies,   \* answers sent and not read by the client: whose request each answers
  waiting,   \* the client has sent a request and waits
  st,        \* handler.State
  left,      \* entries st.cwd has not handed out yet
  open,      \* handles open in the operating system
  leaked,    \* handles nobody will close
  modified,  \* the served tree has been changed through this connection
  refused,   \* a write was answered with payload of it still in the stream
  tracker    \* the idle tracker's view: "none", "connected", "disconnected"

connVars == <<status, peer, stream, replies, waiting, refused>>
handlerVars == <<st, left, open, leaked, modified>>
vars == <<allowWrite, connVars, handlerVars, tracker>>

State == [cwd : Handle \cup {NoHandle}, ro : Handle \cup {NoHandle},
          wo : Handle \cup {NoHandle}, cdSector : Nat]

Command == [op : Ops, node : Node, len : 0..MaxPayload, origin : {"client"}]
Data == [op |-> "data", node |-> CHOOSE n \in Node : TRUE, len |-> 0,
         origin |-> "payload"]

Slots(s) == {s.cwd, s.ro, s.wo} \ {NoHandle}

\* Handles that opening n can return: those of an identity that is not open
\* and not referred to by state s.  There may be none (out of descriptors).
NewHandle(n, s, o) ==
  {h \in Handle : h.node = n /\ \A g \in o \cup Slots(s) : g.id # h.id}

Init ==
  /\ allowWrite \in BOOLEAN
  /\ status = "new" /\ peer = "up"
  /\ stream = <<>> /\ replies = <<>> /\ waiting = FALSE
  /\ st = [cwd |-> NoHandle, ro |-> NoHandle, wo |-> NoHandle,
           cdSector |-> 0]
  /\ left = 0
  /\ open = {} /\ leaked = {}
  /\ modified = FALSE /\ refused = FALSE
  /\ tracker = "none"
-----------------------------------------------------------------------------
(* The client and the network.                                             *)

Payload(k) == [i \in 1..k |-> Data]

\* A request arrives.  The bound MaxBacklog matters only to a connection out
\* of step, where answers can pile up.
ClientAsks ==
  /\ peer = "up" /\ ~waiting
  /\ \E c \in Command :
       /\ c.op # "Write" => c.len = 0
       /\ c.op \notin PathOps => c.node = Data.node
       /\ Len(stream) + Len(replies) + c.len < MaxBacklog
       /\ stream' = Append(stream, c) \o Payload(c.len)
  /\ waiting' = TRUE
  /\ UNCHANGED <<allowWrite, status, peer, replies, refused, handlerVars, tracker>>

ClientReceives ==
  /\ peer = "up" /\ waiting /\ replies # <<>>
  /\ replies' = Tail(replies) /\ waiting' = FALSE
  /\ UNCHANGED <<allowWrite, status, peer, stream, refused, handlerVars, tracker>>

\* The client goes away, the network fails, or Server.Close closes the
\* connection under the goroutine; the server reads some of the bytes sent.
ConnectionBreaks ==
  /\ peer = "up" /\ peer' = "down"
  /\ \E n \in 0..Len(stream) : stream' = SubSeq(stream, 1, n)
  /\ replies' = <<>> /\ waiting' = FALSE
  /\ UNCHANGED <<allowWrite, status, refused, handlerVars, tracker>>
-----------------------------------------------------------------------------
(* serveConn: the loop around the handlers.                                *)

\* Handler.Init and the OnConnect callback.
StartServing ==
  /\ status = "new" /\ status' = "serving"
  /\ tracker' = "connected"
  /\ UNCHANGED <<allowWrite, peer, stream, replies, waiting, refused, handlerVars>>

\* Mutant: a deadline that passes is not taken for the end of the session.
PatientReadCommandFails ==
  /\ status = "serving" /\ stream = <<>>
  /\ peer = "down"
  /\ status' = "closing"
  /\ UNCHANGED <<allowWrite, peer, stream, replies, waiting, refused, handlerVars, tracker>>

\* The next command cannot be read: end of stream, or the deadline passes.
ReadCommandFails ==
  /\ status = "serving" /\ stream = <<>>
  /\ peer = "down" \/ HasTimeout
  /\ status' = "closing"
  /\ UNCHANGED <<allowWrite, peer, stream, replies, waiting, refused, handlerVars, tracker>>

\* What ReadCommand can make of the first item of the stream.
NextCommand ==
  IF stream = <<>> THEN {}
  ELSE IF Head(stream).op # "data" THEN {Head(stream)}
  ELSE [op : PayloadOps, node : Node, len : {0}, origin : {"payload"}]

\* Drop the command and n items after it.
Consume(n) == stream' = SubSeq(stream, n + 2, Len(stream))

\* handleCommand chooses the handler of command c by its operation code.
Receive(c, ops) ==
  /\ status = "serving" /\ c.op \in ops
  /\ UNCHANGED <<allowWrite, peer, waiting, tracker>>

\* The same for a command with nothing after it but its path.
ReceiveAll(c, ops) == Receive(c, ops) /\ Consume(0) /\ UNCHANGED refused

\* An answer is sent.  On a broken connection the send may go unnoticed.
Reply(c) ==
  IF peer = "up"
  THEN /\ replies' = Append(replies, c.origin)
       /\ UNCHANGED status
  ELSE /\ status' \in {"serving", "closing"}
       /\ UNCHANGED replies

\* The handler's error ends serveConn's loop; nothing is sent, or part of it.
HangUp == status' = "closing" /\ UNCHANGED replies

NoChange == UNCHANGED handlerVars
-----------------------------------------------------------------------------
(* internal/handler: directories.                                          *)

HandleOpenDir(c) ==
  /\ ReceiveAll(c, {"OpenDir"})
  /\ \/ HangUp /\ NoChange                                    \* Open failed
     \/ \E h \in NewHandle(c.node, st, open) :                \* Stat failed
          /\ open' = open \cup {h} /\ leaked' = leaked \cup {h}
          /\ HangUp /\ UNCHANGED <<st, left, modified>>
     \/ \E h \in NewHandle(c.node, st, open) :
          /\ open' = (open \ {st.cwd}) \cup {h}
          /\ st' = [st EXCEPT !.cwd = h]
          /\ left' = IF c.node \in Dirs THEN EntriesOf[c.node] ELSE 0
          /\ Reply(c) /\ UNCHANGED <<leaked, modified>>

\* Entries whose Stat fails are skipped; at the end the directory is closed.
HandleReadDirEntry(c) ==
  /\ ReceiveAll(c, {"ReadDirEntry"})
  /\ \/ /\ st.cwd = NoHandle                                  \* "no entry"
        /\ Reply(c) /\ NoChange
     \/ /\ st.cwd # NoHandle                                  \* ReadDir failed
        /\ HangUp /\ NoChange
     \/ /\ st.cwd # NoHandle /\ st.cwd.node \in Dirs         \* an entry
        /\ \E skipped \in 0..(left - 1) : left' = left - skipped - 1
        /\ Reply(c) /\ UNCHANGED <<st, open, leaked, modified>>
     \/ /\ st.cwd # NoHandle /\ st.cwd.node \in Dirs         \* end of listing
        /\ left' = 0
        /\ open' = open \ {st.cwd}
        /\ \/ /\ st' = [st EXCEPT !.cwd = NoHandle]
              /\ Reply(c)
           \/ HangUp /\ UNCHANGED st                          \* Close failed
        /\ UNCHANGED <<leaked, modified>>

\* Everything not handed out yet (State.Subdirs only sets how deep); the
\* directory stays open.
HandleReadDir(c) ==
  /\ ReceiveAll(c, {"ReadDir"})
  /\ \/ /\ st.cwd = NoHandle
        /\ Reply(c) /\ NoChange
     \/ /\ st.cwd # NoHandle /\ st.cwd.node \in Dirs
        /\ left' = 0
        /\ Reply(c) /\ UNCHANGED <<st, open, leaked, modified>>
     \/ /\ st.cwd # NoHandle                                  \* ReadDir failed
        /\ left' \in {left, 0}
        /\ HangUp /\ UNCHANGED <<st, open, leaked, modified>>

\* HandleStatFile and HandleGetDirSize: success and failure are both answered.
HandleQuery(c) ==
  ReceiveAll(c, {"Stat", "GetDirSize"}) /\ Reply(c) /\ NoChange
-----------------------------------------------------------------------------
(* internal/handler: the read-only file.                                   *)

\* Mutant: no sector size found is taken for a size.
UncheckedDetectedSectors(n) ==
  {DefaultSector} \cup {IF SectorOf[n] = 0 THEN -1 ELSE SectorOf[n]}

\* The sector size is the default unless detection finds another one;
\* detection may fail to read.
DetectedSectors(n) == {DefaultSector} \cup ({SectorOf[n]} \ {0})

\* Mutant: the file that was open is replaced without being closed.
UnclosedHandleOpenFile(c) ==
  /\ ReceiveAll(c, {"OpenFile"})
  /\ \/ Reply(c) /\ NoChange
     \/ \E h \in NewHandle(c.node, st, open) :
          /\ open' = open \cup {h}
          /\ \E size \in DetectedSectors(c.node) :
               st' = [st EXCEPT !.ro = h, !.cdSector = size]
          /\ Reply(c) /\ UNCHANGED <<left, leaked, modified>>

\* Mutant: the sector size is detected only if none is known.
CachingHandleOpenFile(c) ==
  /\ ReceiveAll(c, {"OpenFile"})
  /\ \E h \in NewHandle(c.node, [st EXCEPT !.ro = NoHandle], open \ {st.ro}) :
       /\ open' = (open \ {st.ro}) \cup {h}
       /\ \E size \in DetectedSectors(c.node) :
            st' = [st EXCEPT !.ro = h,
                             !.cdSector = IF st.cdSector = 0 THEN size ELSE @]
  /\ Reply(c) /\ UNCHANGED <<left, leaked, modified>>

HandleOpenFile(c) ==
  /\ ReceiveAll(c, {"OpenFile"})
  /\ LET s1 == [st EXCEPT !.ro = NoHandle]
         o1 == open \ {st.ro}
     IN \/ /\ st' = s1 /\ open' = o1                          \* Open failed
           /\ Reply(c) /\ UNCHANGED <<left, leaked, modified>>
        \/ \E h \in NewHandle(c.node, s1, o1) :
             /\ open' = o1 \cup {h}
             /\ \E size \in DetectedSectors(c.node) :
                  st' = [s1 EXCEPT !.ro = h, !.cdSector = size]
             /\ Reply(c) /\ UNCHANGED <<left, leaked, modified>>

\* The CLOSEFILE path.  handleOpenFile ignores the error of HandleCloseFile,
\* which keeps the closed file in the state.
HandleCloseFile(c) ==
  /\ ReceiveAll(c, {"CloseFile"})
  /\ open' = open \ {st.ro}
  /\ \/ st' = IF st.ro = NoHandle THEN st
              ELSE [st EXCEPT !.ro = NoHandle, !.cdSector = 0]
     \/ st.ro # NoHandle /\ UNCHANGED st                   \* Close failed
  /\ Reply(c) /\ UNCHANGED <<left, leaked, modified>>

\* Mutant: the error answer is sent even when the length has gone out.
ErrorAnywayHandleReadFile(c) ==
  /\ ReceiveAll(c, {"ReadFile"})
  /\ \/ Reply(c)
     \/ /\ peer = "up" /\ replies' = replies \o <<c.origin, c.origin>>
        /\ UNCHANGED status
  /\ NoChange

\* An error before the length is sent is answered.  A read of no bytes (at the
\* end of the file, or of length 0) writes nothing, so the length is never sent.
HandleReadFile(c) ==
  /\ ReceiveAll(c, {"ReadFile"})
  /\ \/ Reply(c)
     \/ st.ro \in open /\ UNCHANGED <<status, replies>>    \* no bytes read
  /\ NoChange

\* Raw bytes with no length: any error ends the connection.
HandleReadFileCritical(c) ==
  /\ ReceiveAll(c, {"ReadFileCritical"})
  /\ HangUp \/ (st.ro \in open /\ Reply(c))
  /\ NoChange

HandleReadCD2048Critical(c) ==
  /\ ReceiveAll(c, {"ReadCD2048"})
  /\ HangUp \/ (st.ro \in open /\ st.cdSector > 0 /\ Reply(c))
  /\ NoChange
-----------------------------------------------------------------------------
(* internal/handler: everything that changes the served tree.              *)

HandleCreateFile(c) ==
  /\ ReceiveAll(c, {"Create"})
  /\ LET s1 == [st EXCEPT !.wo = NoHandle]
         o1 == open \ {st.wo}
     IN \/ ~allowWrite /\ Reply(c) /\ NoChange
        \/ /\ allowWrite                      \* a directory, Stat or Create failed
           /\ st' = s1 /\ open' = o1
           /\ Reply(c) /\ UNCHANGED <<left, leaked, modified>>
        \/ /\ allowWrite /\ c.node \notin Dirs
           /\ \E h \in NewHandle(c.node, s1, o1) :
                st' = [s1 EXCEPT !.wo = h] /\ open' = o1 \cup {h}
           /\ modified' = TRUE
           /\ Reply(c) /\ UNCHANGED <<left, leaked>>

\* Mutant: one of the three does not ask whether writing is allowed.
UnguardedHandleChangeTree(c) ==
  /\ ReceiveAll(c, {"Delete", "Mkdir", "Rmdir"})
  /\ modified' \in IF allowWrite \/ c.op = "Mkdir" THEN {modified, TRUE} ELSE {modified}
  /\ Reply(c) /\ UNCHANGED <<st, left, open, leaked>>

\* HandleDeleteFile, HandleMkdir, HandleRmdir.
HandleChangeTree(c) ==
  /\ ReceiveAll(c, {"Delete", "Mkdir", "Rmdir"})
  /\ modified' \in IF allowWrite THEN {modified, TRUE} ELSE {modified}
  /\ Reply(c) /\ UNCHANGED <<st, left, open, leaked>>

\* Mutant: one unit of the payload is left out.
ShortAvailable(k) ==
  IF 0 < k /\ k < Len(stream) THEN k - 1 ELSE Len(stream) - 1

\* How many of the units that a write of length k announces are there.
Available(k) == IF k < Len(stream) THEN k ELSE Len(stream) - 1

\* The payload is read by the copy into the file and by nothing else: when
\* writing is forbidden, no file is open or the copy fails, the answer is sent
\* with the payload, or the rest of it, still in the stream.
HandleWriteFile(c) ==
  /\ Receive(c, {"Write"})
  /\ \/ /\ ~allowWrite \/ st.wo = NoHandle
        /\ Consume(0) /\ refused' = (refused \/ c.len > 0)
        /\ Reply(c) /\ NoChange
     \/ /\ allowWrite /\ st.wo \in open                       \* all copied
        /\ Consume(Available(c.len)) /\ UNCHANGED refused
        /\ modified' = TRUE
        /\ Reply(c) /\ UNCHANGED <<st, left, open, leaked>>
     \/ /\ allowWrite /\ st.wo # NoHandle                     \* Copy failed
        /\ \E n \in 0..Available(c.len) :
             /\ Consume(n) /\ refused' = (refused \/ n < c.len)
             /\ modified' = (modified \/ (n > 0 /\ st.wo \in open))
        /\ Reply(c) /\ UNCHANGED <<st, left, open, leaked>>

\* An operation code handleCommand does not know.
UnknownCommand(c) == ReceiveAll(c, {"Unknown"}) /\ HangUp /\ NoChange
-----------------------------------------------------------------------------
\* Mutant: State.Close leaves the file that is written open.
ForgetfulTeardown ==
  /\ status = "closing" /\ status' = "closed"
  /\ peer' = "down" /\ stream' = <<>> /\ replies' = <<>> /\ waiting' = FALSE
  /\ open' = open \ {st.cwd, st.ro}
  /\ st' = [st EXCEPT !.cwd = NoHandle, !.ro = NoHandle, !.cdSector = 0]
  /\ tracker' = "disconnected"
  /\ UNCHANGED <<allowWrite, refused, left, leaked, modified>>

\* serveConn's deferred calls: the connection is closed, then State.Close
\* closes what the session holds and calls OnClose.
Teardown ==
  /\ status = "closing" /\ status' = "closed"
  /\ peer' = "down" /\ stream' = <<>> /\ replies' = <<>> /\ waiting' = FALSE
  /\ open' = open \ Slots(st)
  /\ st' = [st EXCEPT !.cwd = NoHandle, !.ro = NoHandle, !.wo = NoHandle,
                      !.cdSector = 0]
  /\ tracker' = "disconnected"
  /\ UNCHANGED <<allowWrite, refused, left, leaked, modified>>

ServeCommand ==
  \E c \in NextCommand :
    \/ HandleOpenDir(c) \/ HandleReadDirEntry(c) \/ HandleReadDir(c)
    \/ HandleQuery(c)
    \/ HandleOpenFile(c) \/ HandleCloseFile(c)
    \/ HandleReadFile(c) \/ HandleReadFileCritical(c)
    \/ HandleReadCD2048Critical(c)
    \/ HandleCreateFile(c) \/ HandleWriteFile(c) \/ HandleChangeTree(c)
    \/ UnknownCommand(c)

ServerStep == StartServing \/ ReadCommandFails \/ ServeCommand \/ Teardown

Next == ClientAsks \/ ClientReceives \/ ConnectionBreaks \/ ServerStep

Spec == Init /\ [][Next]_vars

\* The goroutine is scheduled, and with a read timeout set its deadline passes;
\* the client reads what it is sent.  Nobody has to ask or to leave.
FairSpec == Spec /\ WF_vars(ServerStep) /\ WF_vars(ClientReceives)
-----------------------------------------------------------------------------
(* Properties.                                                             *)

Items == Command \cup {Data}

\* Every variable keeps its type; the queues hold commands, payload and answers.
TypeOK ==
  /\ allowWrite \in BOOLEAN
  /\ status \in {"new", "serving", "closing", "closed"}
  /\ peer \in {"up", "down"}
  /\ stream \in Seq(Items) /\ replies \in Seq({"client", "payload"})
  /\ waiting \in BOOLEAN
  /\ st \in State /\ left \in Nat
  /\ open \subseteq Handle /\ leaked \subseteq Handle
  /\ modified \in BOOLEAN /\ refused \in BOOLEAN
  /\ tracker \in {"none", "connected", "disconnected"}

\* Every open handle is in exactly one slot of the State, where the next open
\* or the end of the session will find it, or it is the one HandleOpenDir drops
\* when Stat fails; and while commands are served no slot but that of the
\* read-only file (whose failed close CLOSEFILE ignores) holds a closed handle.
HandlesAccounted ==
  /\ open \subseteq Slots(st) \cup leaked
  /\ leaked \cap Slots(st) = {}
  /\ st.cwd # NoHandle => st.cwd \notin {st.ro, st.wo}
  /\ st.ro # NoHandle => st.ro # st.wo
  /\ status = "serving" => Slots(st) \ {st.ro} \subseteq open

\* When serveConn has returned nothing of the session is open but a directory
\* lost to a failed Stat, at most one as that ends the session, and the idle
\* tracker has been told of the disconnect.
AllReleased ==
  /\ leaked # {} => /\ status \in {"closing", "closed"}
                    /\ \A g, h \in leaked : g = h
  /\ status = "closed" => open = leaked /\ tracker = "disconnected"

\* Without AllowWrite no sequence of commands changes the served tree or holds
\* a file open for writing, payload taken for commands included.
ReadOnlyUnlessAllowed == ~allowWrite => ~modified /\ st.wo = NoHandle

\* The sector size READ_CD_2048 computes offsets with was detected in the file
\* that is open now, not in one opened before (handler.go:246-264, 282).
SectorSizeOfOpenFile ==
  st.ro # NoHandle => st.cdSector \in DetectedSectors(st.ro.node)

\* Payload is taken for a command only after a write has been refused with
\* payload unread: no other handler, and no successful or short write, loses
\* the framing.
FramingLostOnlyByRefusedWrite ==
  stream # <<>> /\ Head(stream).op = "data" => refused

\* The connection is the request-response protocol of RequestReply: in step,
\* one answer for a request and none without one.
Client ==
  INSTANCE RequestReply WITH
    phase  <- IF peer = "down" THEN "over"
              ELSE IF waiting /\ replies = <<>> THEN "asked" ELSE "idle",
    inStep <- ~refused,
    stray  <- \/ Len(replies) > (IF waiting THEN 1 ELSE 0)
              \/ \E i \in DOMAIN replies : replies[i] = "payload"

ImplementsRequestReply == Client!RRSafety

\* With a read timeout set, no request stays outstanding for ever: a client
\* left without an answer (handleReadFile, no bytes read) loses the connection.
AnsweredOrHungUp == Client!RRSpec

\* types.go:1-3: the protocol is request-response, so a request is answered or
\* the connection ends, whether or not a read timeout is set.
EveryRequestAnswered == waiting ~> ~waiting

\* types.go:2-3 and 30-31: a request starts with an operation code, data that
\* follows a command belongs to it: payload is never read as a command.
PayloadBelongsToWrite == stream # <<>> => Head(stream).op # "data"
=============================================================================
