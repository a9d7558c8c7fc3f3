--------------------------- MODULE SessionProofs ---------------------------
(***************************************************************************)
(* The safety properties of Session and its refinement of RequestReply,    *)
(* for any files, directories, number of descriptors, payload bound and    *)
(* configuration.                                                          *)
(*                                                                         *)
(* The argument about handles: opening returns an identity that neither is *)
(* open nor sits in a slot, every handler that overwrites a slot has       *)
(* closed what was in it, and the only handle that is open outside a slot  *)
(* is the one a failed Stat leaves behind, after which nothing is served.  *)
(*                                                                         *)
(* About the protocol: a client that waits for its answer leaves no more   *)
(* in the stream than the request being served, so that a handler which    *)
(* takes its payload leaves the stream in step, and each answer is that to *)
(* the request before it.                                                  *)
(***************************************************************************)
EXTENDS Session, SequenceTheorems, TLAPS

\* A handle that is lost stays open.
LostStayOpen == leaked \subseteq open

\* Nothing is opened before the first command.
NewHoldsNothing == status = "new" => Slots(st) = {}

HandlesInv == /\ HandlesAccounted /\ LostStayOpen /\ AllReleased
              /\ ReadOnlyUnlessAllowed /\ SectorSizeOfOpenFile
              /\ NewHoldsNothing

IInv == TypeOK /\ HandlesInv

\* The two parts of the type invariant, one per group of variables.
ConnOK ==
  /\ allowWrite \in BOOLEAN
  /\ status \in {"new", "serving", "closing", "closed"}
  /\ peer \in {"up", "down"}
  /\ stream \in Seq(Items) /\ replies \in Seq({"client", "payload"})
  /\ waiting \in BOOLEAN /\ refused \in BOOLEAN
  /\ tracker \in {"none", "connected", "disconnected"}

HandlerOK ==
  /\ st \in State /\ left \in Nat
  /\ open \subseteq Handle /\ leaked \subseteq Handle
  /\ modified \in BOOLEAN

-----------------------------------------------------------------------------
LEMMA TypeParts == TypeOK <=> ConnOK /\ HandlerOK
  BY DEF TypeOK, ConnOK, HandlerOK

LEMMA DataItem == Data \in Items /\ Data.op = "data" /\ Data.node \in Node
<1>1. (CHOOSE n \in Node : TRUE) \in Node
  BY SessionAssumption
<1>. QED  BY <1>1 DEF Items, Data

\* What is taken for a command is one, payload included.
LEMMA NextIsCommand ==
  ASSUME ConnOK, NEW c \in NextCommand
  PROVE  /\ c.op \in Ops /\ c.node \in Node /\ c.len \in 0..MaxPayload
         /\ c.origin \in {"client", "payload"}
         /\ stream # <<>>
<1>1. stream # <<>>
  BY DEF NextCommand
<1>2. Head(stream) \in Items
  BY <1>1 DEF ConnOK
<1>3. CASE Head(stream).op # "data"
  <2>1. c = Head(stream)
    BY <1>1, <1>3 DEF NextCommand
  <2>2. c \in Command
    BY <2>1, <1>2, <1>3, DataItem DEF Items
  <2>. QED  BY <2>2, <1>1 DEF Command
<1>4. CASE Head(stream).op = "data"
  <2>1. c \in [op : PayloadOps, node : Node, len : {0}, origin : {"payload"}]
    BY <1>1, <1>4 DEF NextCommand
  <2>. QED  BY <2>1, <1>1, SessionAssumption
<1>. QED  BY <1>3, <1>4

\* What is new is neither open nor in a slot.
LEMMA NewIsNew ==
  ASSUME NEW n, NEW s, NEW o, NEW h \in NewHandle(n, s, o)
  PROVE  h \in Handle /\ h.node = n /\ h \notin o /\ h \notin Slots(s)
         /\ h # NoHandle
  BY SessionAssumption DEF NewHandle

LEMMA ConsumeType ==
  ASSUME stream \in Seq(Items), NEW n \in Nat, Consume(n)
  PROVE  stream' \in Seq(Items)
<1>1. SubSeq(stream, n + 2, Len(stream)) \in Seq(Items)
  BY SubSeqProperties
<1>. QED  BY <1>1 DEF Consume

LEMMA ReplyType ==
  ASSUME ConnOK, status = "serving", NEW c, c.origin \in {"client", "payload"},
         Reply(c) \/ HangUp
  PROVE  /\ status' \in {"serving", "closing"}
         /\ replies' \in Seq({"client", "payload"})
  BY DEF ConnOK, Reply, HangUp

-----------------------------------------------------------------------------
(* The type invariant.                                                     *)

\* Every handler reads at least its command and answers, hangs up or is silent.
HandlerFrame(c) ==
  /\ status = "serving"
  /\ \E n \in Nat : Consume(n)
  /\ Reply(c) \/ HangUp \/ UNCHANGED <<status, replies>>
  /\ UNCHANGED <<allowWrite, peer, waiting, tracker>> /\ refused' \in BOOLEAN

LEMMA AvailableType ==
  ASSUME ConnOK, NEW c \in NextCommand
  PROVE  Available(c.len) \in Nat
<1>1. Len(stream) \in Nat /\ Len(stream) # 0 /\ c.len \in Nat
  BY NextIsCommand, EmptySeq, SessionAssumption DEF ConnOK
<1>. QED  BY <1>1 DEF Available

LEMMA ServeFrame ==
  ASSUME ConnOK, NEW c \in NextCommand,
         \/ HandleOpenDir(c) \/ HandleReadDirEntry(c) \/ HandleReadDir(c)
         \/ HandleQuery(c)
         \/ HandleOpenFile(c) \/ HandleCloseFile(c)
         \/ HandleReadFile(c) \/ HandleReadFileCritical(c)
         \/ HandleReadCD2048Critical(c)
         \/ HandleCreateFile(c) \/ HandleWriteFile(c) \/ HandleChangeTree(c)
         \/ UnknownCommand(c)
  PROVE  HandlerFrame(c)
<1>. USE DEF ReceiveAll, Receive, HandlerFrame, ConnOK
<1>0. 0 \in Nat
  OBVIOUS
<1>1. CASE HandleOpenDir(c)
  BY <1>1, <1>0 DEF HandleOpenDir
<1>2. CASE HandleReadDirEntry(c)
  BY <1>2, <1>0 DEF HandleReadDirEntry
<1>3. CASE HandleReadDir(c)
  BY <1>3, <1>0 DEF HandleReadDir
<1>4. CASE HandleQuery(c)
  BY <1>4, <1>0 DEF HandleQuery
<1>5. CASE HandleOpenFile(c)
  BY <1>5, <1>0 DEF HandleOpenFile
<1>6. CASE HandleCloseFile(c)
  BY <1>6, <1>0 DEF HandleCloseFile
<1>7. CASE HandleReadFile(c)
  BY <1>7, <1>0 DEF HandleReadFile
<1>8. CASE HandleReadFileCritical(c)
  BY <1>8, <1>0 DEF HandleReadFileCritical
<1>9. CASE HandleReadCD2048Critical(c)
  BY <1>9, <1>0 DEF HandleReadCD2048Critical
<1>10. CASE HandleCreateFile(c)
  BY <1>10, <1>0 DEF HandleCreateFile
<1>11. CASE HandleWriteFile(c)
  <2>1. Available(c.len) \in Nat /\ c.len \in Nat
    BY AvailableType, NextIsCommand, SessionAssumption
  <2>2. \E n \in Nat : Consume(n)
    BY <1>11, <1>0, <2>1 DEF HandleWriteFile
  <2>. QED  BY <1>11, <2>2 DEF HandleWriteFile
<1>12. CASE HandleChangeTree(c)
  BY <1>12, <1>0 DEF HandleChangeTree
<1>13. CASE UnknownCommand(c)
  BY <1>13, <1>0 DEF UnknownCommand
<1>. QED  BY <1>1, <1>2, <1>3, <1>4, <1>5, <1>6, <1>7, <1>8, <1>9, <1>10,
             <1>11, <1>12, <1>13

LEMMA FrameType ==
  ASSUME ConnOK, NEW c \in NextCommand, HandlerFrame(c)
  PROVE  ConnOK'
<1>1. stream' \in Seq(Items)
  BY ConsumeType DEF HandlerFrame, ConnOK
<1>2. status' \in {"serving", "closing"} /\ replies' \in Seq({"client", "payload"})
  BY ReplyType, NextIsCommand DEF HandlerFrame, ConnOK
<1>. QED  BY <1>1, <1>2 DEF HandlerFrame, ConnOK

\* The steps that leave the handlers' variables alone.
LEMMA ConnSteps ==
  ASSUME ConnOK,
         ClientAsks \/ ClientReceives \/ ConnectionBreaks
           \/ StartServing \/ ReadCommandFails
  PROVE  ConnOK' /\ UNCHANGED <<allowWrite, handlerVars>>
<1>. USE DEF ConnOK
<1>1. CASE ClientAsks
  <2>1. PICK c \in Command : stream' = Append(stream, c) \o Payload(c.len)
    BY <1>1 DEF ClientAsks
  <2>2. c.len \in Nat
    BY <2>1, SessionAssumption DEF Command
  <2>3. Payload(c.len) \in Seq(Items)
    BY <2>2, DataItem DEF Payload
  <2>4. Append(stream, c) \in Seq(Items)
    BY <2>1, AppendProperties DEF Items
  <2>5. stream' \in Seq(Items)
    BY <2>1, <2>3, <2>4, ConcatProperties
  <2>. QED  BY <1>1, <2>5 DEF ClientAsks
<1>2. CASE ClientReceives
  <2>1. Tail(replies) \in Seq({"client", "payload"})
    BY <1>2 DEF ClientReceives
  <2>. QED  BY <1>2, <2>1 DEF ClientReceives
<1>3. CASE ConnectionBreaks
  <2>1. PICK n \in 0..Len(stream) : stream' = SubSeq(stream, 1, n)
    BY <1>3 DEF ConnectionBreaks
  <2>2. stream' \in Seq(Items)
    BY <2>1, SubSeqProperties
  <2>3. replies' \in Seq({"client", "payload"})
    BY <1>3 DEF ConnectionBreaks
  <2>4. peer' = "down" /\ waiting' = FALSE /\ UNCHANGED <<allowWrite, status, refused, handlerVars, tracker>>
    BY <1>3 DEF ConnectionBreaks
  <2>. QED  BY <2>2, <2>3, <2>4
<1>4. CASE StartServing
  BY <1>4 DEF StartServing
<1>5. CASE ReadCommandFails
  BY <1>5 DEF ReadCommandFails
<1>. QED  BY <1>1, <1>2, <1>3, <1>4, <1>5

-----------------------------------------------------------------------------
(* What the handlers do to the handles.                                    *)

\* A session that is being served, with the invariant unfolded for its steps.
Serving(c) == /\ HandlerOK /\ HandlesInv /\ status = "serving"
              /\ c.node \in Node /\ status' \in {"serving", "closing"}
              /\ UNCHANGED <<allowWrite, tracker>>

HandlesOK == HandlerOK /\ HandlesInv

LEMMA ServingNoLoss == ASSUME NEW c, Serving(c) PROVE leaked = {}
  BY DEF Serving, HandlesInv, AllReleased

\* Nothing but the status changes.
LEMMA IdleHandler ==
  ASSUME NEW c, Serving(c), UNCHANGED handlerVars PROVE HandlesOK'
  BY ServingNoLoss
     DEF Serving, HandlesOK, HandlerOK, HandlesInv, HandlesAccounted, LostStayOpen,
         AllReleased, ReadOnlyUnlessAllowed, SectorSizeOfOpenFile, NewHoldsNothing, handlerVars, Slots

\* Only the listing position or the mark of a change changes.
LEMMA TreeHandler ==
  ASSUME NEW c, Serving(c), UNCHANGED <<st, open, leaked>>,
         left' \in Nat, modified' \in BOOLEAN, ~allowWrite => UNCHANGED modified
  PROVE  HandlesOK'
  BY ServingNoLoss
     DEF Serving, HandlesOK, HandlerOK, HandlesInv, HandlesAccounted, LostStayOpen,
         AllReleased, ReadOnlyUnlessAllowed, SectorSizeOfOpenFile, NewHoldsNothing, Slots

\* A slot is emptied: its handle is closed.
LEMMA ClosedSlots ==
  ASSUME NEW c, Serving(c),
         \/ /\ st' = [st EXCEPT !.ro = NoHandle] \/ st' = [st EXCEPT !.ro = NoHandle, !.cdSector = 0]
            /\ open' = open \ {st.ro}
         \/ st' = [st EXCEPT !.cwd = NoHandle] /\ open' = open \ {st.cwd}
         \/ st' = [st EXCEPT !.wo = NoHandle] /\ open' = open \ {st.wo},
         left' \in Nat, UNCHANGED <<leaked, modified>>
  PROVE  HandlesOK'
<1>. USE ServingNoLoss, SessionAssumption
     DEF Serving, HandlesOK, HandlerOK, HandlesInv, State, LostStayOpen, AllReleased, NewHoldsNothing
<1>1. CASE /\ st' = [st EXCEPT !.ro = NoHandle] \/ st' = [st EXCEPT !.ro = NoHandle, !.cdSector = 0]
           /\ open' = open \ {st.ro}
  <2>1. st' \in State /\ st'.cwd = st.cwd /\ st'.ro = NoHandle /\ st'.wo = st.wo
    <3>1. CASE st' = [st EXCEPT !.ro = NoHandle]
      BY <3>1
    <3>2. CASE st' = [st EXCEPT !.ro = NoHandle, !.cdSector = 0]
      BY <3>2
    <3>. QED  BY <1>1, <3>1, <3>2
  <2>2. HandlerOK'
    BY <1>1, <2>1
  <2>3. HandlesAccounted'
    BY <1>1, <2>1 DEF HandlesAccounted, Slots
  <2>4. ReadOnlyUnlessAllowed' /\ SectorSizeOfOpenFile'
    BY <1>1, <2>1 DEF ReadOnlyUnlessAllowed, SectorSizeOfOpenFile
  <2>. QED  BY <1>1, <2>2, <2>3, <2>4
<1>2. CASE st' = [st EXCEPT !.cwd = NoHandle] /\ open' = open \ {st.cwd}
  <2>1. st' \in State /\ st'.cwd = NoHandle /\ st'.ro = st.ro /\ st'.wo = st.wo
        /\ st'.cdSector = st.cdSector
    BY <1>2
  <2>2. HandlerOK'
    BY <1>2, <2>1
  <2>3. HandlesAccounted'
    BY <1>2, <2>1 DEF HandlesAccounted, Slots
  <2>4. ReadOnlyUnlessAllowed' /\ SectorSizeOfOpenFile'
    BY <1>2, <2>1 DEF ReadOnlyUnlessAllowed, SectorSizeOfOpenFile
  <2>. QED  BY <1>2, <2>2, <2>3, <2>4
<1>3. CASE st' = [st EXCEPT !.wo = NoHandle] /\ open' = open \ {st.wo}
  <2>1. st' \in State /\ st'.cwd = st.cwd /\ st'.ro = st.ro /\ st'.wo = NoHandle
        /\ st'.cdSector = st.cdSector
    BY <1>3
  <2>2. HandlerOK'
    BY <1>3, <2>1
  <2>3. HandlesAccounted'
    BY <1>3, <2>1 DEF HandlesAccounted, Slots
  <2>4. ReadOnlyUnlessAllowed' /\ SectorSizeOfOpenFile'
    BY <1>3, <2>1 DEF ReadOnlyUnlessAllowed, SectorSizeOfOpenFile
  <2>. QED  BY <1>3, <2>2, <2>3, <2>4
<1>. QED  BY <1>1, <1>2, <1>3

LEMMA DetectedType ==
  ASSUME NEW n \in Node PROVE DetectedSectors(n) \subseteq Nat
  BY SessionAssumption DEF DetectedSectors, DefaultSector

LEMMA OpenDirHandles ==
  ASSUME NEW c, Serving(c), HandleOpenDir(c) PROVE HandlesOK'
<1>. USE DEF HandleOpenDir
<1>1. CASE NoChange
  BY <1>1, IdleHandler DEF NoChange
<1>2. ASSUME NEW h \in NewHandle(c.node, st, open),
             open' = open \cup {h}, leaked' = leaked \cup {h}, HangUp,
             UNCHANGED <<st, left, modified>>
      PROVE  HandlesOK'
  BY <1>2, ServingNoLoss, NewIsNew
     DEF HangUp, Serving, HandlesOK, HandlerOK, HandlesInv, HandlesAccounted, LostStayOpen,
         AllReleased, ReadOnlyUnlessAllowed, SectorSizeOfOpenFile, NewHoldsNothing, Slots
<1>3. ASSUME NEW h \in NewHandle(c.node, st, open),
             open' = (open \ {st.cwd}) \cup {h},
             st' = [st EXCEPT !.cwd = h],
             left' = IF c.node \in Dirs THEN EntriesOf[c.node] ELSE 0,
             UNCHANGED <<leaked, modified>>
      PROVE  HandlesOK'
  <2>. USE <1>3, ServingNoLoss, NewIsNew, SessionAssumption
       DEF Serving, HandlesOK, HandlerOK, HandlesInv, State, LostStayOpen, AllReleased, NewHoldsNothing
  <2>1. HandlerOK'
    OBVIOUS
  <2>2. HandlesAccounted'
    BY DEF HandlesAccounted, Slots
  <2>3. ReadOnlyUnlessAllowed' /\ SectorSizeOfOpenFile'
    BY DEF ReadOnlyUnlessAllowed, SectorSizeOfOpenFile
  <2>. QED  BY <2>1, <2>2, <2>3
<1>. QED  BY <1>1, <1>2, <1>3

LEMMA OpenFileHandles ==
  ASSUME NEW c, Serving(c), HandleOpenFile(c) PROVE HandlesOK'
<1>1. CASE st' = [st EXCEPT !.ro = NoHandle] /\ open' = open \ {st.ro}
           /\ UNCHANGED <<left, leaked, modified>>
  BY <1>1, ClosedSlots DEF Serving, HandlerOK
<1>2. ASSUME NEW h \in NewHandle(c.node, [st EXCEPT !.ro = NoHandle], open \ {st.ro}),
             NEW size \in DetectedSectors(c.node),
             open' = (open \ {st.ro}) \cup {h},
             st' = [[st EXCEPT !.ro = NoHandle] EXCEPT !.ro = h, !.cdSector = size],
             UNCHANGED <<left, leaked, modified>>
      PROVE  HandlesOK'
  <2>0. size \in Nat
    BY DetectedType DEF Serving
  <2>1. h \in Handle /\ h.node = c.node /\ h # NoHandle /\ h \notin {st.cwd, st.wo}
        /\ h \notin open \ {st.ro}
    BY NewIsNew DEF Slots, Serving, HandlerOK, State
  <2>. USE <1>2, <2>0, <2>1, ServingNoLoss, SessionAssumption
       DEF Serving, HandlesOK, HandlerOK, HandlesInv, State, LostStayOpen, AllReleased, NewHoldsNothing
  <2>2. st'.ro = h /\ st'.cdSector = size /\ st'.cwd = st.cwd /\ st'.wo = st.wo /\ st' \in State
    OBVIOUS
  <2>3. HandlerOK'
    BY <2>2
  <2>4. HandlesAccounted'
    BY <2>2 DEF HandlesAccounted, Slots
  <2>5. ReadOnlyUnlessAllowed' /\ SectorSizeOfOpenFile'
    BY <2>2 DEF ReadOnlyUnlessAllowed, SectorSizeOfOpenFile
  <2>. QED  BY <2>3, <2>4, <2>5
<1>. QED  BY <1>1, <1>2 DEF HandleOpenFile

LEMMA CreateFileHandles ==
  ASSUME NEW c, Serving(c), HandleCreateFile(c) PROVE HandlesOK'
<1>1. CASE NoChange
  BY <1>1, IdleHandler DEF NoChange
<1>2. CASE st' = [st EXCEPT !.wo = NoHandle] /\ open' = open \ {st.wo}
           /\ UNCHANGED <<left, leaked, modified>>
  BY <1>2, ClosedSlots DEF Serving, HandlerOK
<1>3. ASSUME NEW h \in NewHandle(c.node, [st EXCEPT !.wo = NoHandle], open \ {st.wo}),
             allowWrite,
             open' = (open \ {st.wo}) \cup {h},
             st' = [[st EXCEPT !.wo = NoHandle] EXCEPT !.wo = h],
             modified' = TRUE, UNCHANGED <<left, leaked>>
      PROVE  HandlesOK'
  <2>1. h \in Handle /\ h # NoHandle /\ h \notin {st.cwd, st.ro}
        /\ h \notin open \ {st.wo}
    BY NewIsNew DEF Slots, Serving, HandlerOK, State
  <2>. USE <1>3, <2>1, ServingNoLoss, SessionAssumption
       DEF Serving, HandlesOK, HandlerOK, HandlesInv, State, LostStayOpen, AllReleased, NewHoldsNothing
  <2>2. st'.wo = h /\ st'.cdSector = st.cdSector /\ st'.cwd = st.cwd /\ st'.ro = st.ro
        /\ st' \in State
    OBVIOUS
  <2>3. HandlerOK'
    BY <2>2
  <2>4. HandlesAccounted'
    BY <2>2 DEF HandlesAccounted, Slots
  <2>5. ReadOnlyUnlessAllowed' /\ SectorSizeOfOpenFile'
    BY <2>2 DEF ReadOnlyUnlessAllowed, SectorSizeOfOpenFile
  <2>. QED  BY <2>3, <2>4, <2>5
<1>. QED  BY <1>1, <1>2, <1>3 DEF HandleCreateFile

LEMMA ReadDirEntryHandles ==
  ASSUME NEW c, Serving(c), HandleReadDirEntry(c) PROVE HandlesOK'
<1>1. CASE NoChange
  BY <1>1, IdleHandler DEF NoChange
<1>2. ASSUME NEW skipped \in 0..(left - 1), left' = left - skipped - 1,
             UNCHANGED <<st, open, leaked, modified>>
      PROVE  HandlesOK'
  BY <1>2, TreeHandler DEF Serving, HandlerOK
<1>3. CASE /\ left' = 0 /\ open' = open \ {st.cwd}
           /\ st' = [st EXCEPT !.cwd = NoHandle]
           /\ UNCHANGED <<leaked, modified>>
  BY <1>3, ClosedSlots
<1>4. CASE left' = 0 /\ open' = open \ {st.cwd} /\ HangUp /\ UNCHANGED <<st, leaked, modified>>
  BY <1>4, ServingNoLoss
     DEF HangUp, Serving, HandlesOK, HandlerOK, HandlesInv, HandlesAccounted, LostStayOpen,
         AllReleased, ReadOnlyUnlessAllowed, SectorSizeOfOpenFile, NewHoldsNothing, Slots
<1>. QED  BY <1>1, <1>2, <1>3, <1>4 DEF HandleReadDirEntry

LEMMA CloseFileHandles ==
  ASSUME NEW c, Serving(c), HandleCloseFile(c) PROVE HandlesOK'
<1>1. CASE st.ro = NoHandle /\ UNCHANGED handlerVars
  BY <1>1, IdleHandler
<1>2. CASE st' = [st EXCEPT !.ro = NoHandle, !.cdSector = 0] /\ open' = open \ {st.ro}
           /\ UNCHANGED <<left, leaked, modified>>
  BY <1>2, ClosedSlots DEF Serving, HandlerOK
<1>3. CASE open' = open \ {st.ro} /\ UNCHANGED <<st, left, leaked, modified>>
  BY <1>3, ServingNoLoss
     DEF Serving, HandlesOK, HandlerOK, HandlesInv, HandlesAccounted, LostStayOpen,
         AllReleased, ReadOnlyUnlessAllowed, SectorSizeOfOpenFile, NewHoldsNothing, Slots, State
<1>4. st.ro = NoHandle => open \ {st.ro} = open
  BY SessionAssumption DEF Serving, HandlerOK
<1>. QED  BY <1>1, <1>2, <1>3, <1>4 DEF HandleCloseFile, handlerVars

LEMMA WriteFileHandles ==
  ASSUME NEW c, Serving(c), HandleWriteFile(c) PROVE HandlesOK'
<1>1. CASE NoChange
  BY <1>1, IdleHandler DEF NoChange
<1>2. CASE allowWrite /\ modified' \in BOOLEAN /\ UNCHANGED <<st, left, open, leaked>>
  BY <1>2, TreeHandler DEF Serving, HandlerOK
<1>3. NoChange \/ (allowWrite /\ modified' \in BOOLEAN /\ UNCHANGED <<st, left, open, leaked>>)
  BY DEF HandleWriteFile, Serving, HandlerOK
<1>. QED  BY <1>1, <1>2, <1>3

LEMMA ServeHandles ==
  ASSUME NEW c, Serving(c),
         \/ HandleOpenDir(c) \/ HandleReadDirEntry(c) \/ HandleReadDir(c)
         \/ HandleQuery(c)
         \/ HandleOpenFile(c) \/ HandleCloseFile(c)
         \/ HandleReadFile(c) \/ HandleReadFileCritical(c)
         \/ HandleReadCD2048Critical(c)
         \/ HandleCreateFile(c) \/ HandleWriteFile(c) \/ HandleChangeTree(c)
         \/ UnknownCommand(c)
  PROVE  HandlesOK'
<1>1. CASE HandleReadDir(c)
  <2>1. left' \in Nat /\ UNCHANGED <<st, open, leaked, modified>>
    BY <1>1 DEF HandleReadDir, Serving, HandlerOK, NoChange, handlerVars
  <2>. QED  BY <2>1, TreeHandler DEF Serving, HandlerOK
<1>2. CASE HandleChangeTree(c)
  <2>1. modified' \in BOOLEAN /\ (~allowWrite => UNCHANGED modified)
        /\ UNCHANGED <<st, left, open, leaked>>
    BY <1>2 DEF HandleChangeTree, Serving, HandlerOK
  <2>. QED  BY <2>1, TreeHandler DEF Serving, HandlerOK
<1>3. CASE HandleQuery(c) \/ HandleReadFile(c) \/ HandleReadFileCritical(c)
             \/ HandleReadCD2048Critical(c) \/ UnknownCommand(c)
  <2>1. UNCHANGED handlerVars
    BY <1>3 DEF HandleQuery, HandleReadFile, HandleReadFileCritical,
                HandleReadCD2048Critical, UnknownCommand, NoChange
  <2>. QED  BY <2>1, IdleHandler
<1>. QED  BY <1>1, <1>2, <1>3, OpenDirHandles, ReadDirEntryHandles, OpenFileHandles,
             CloseFileHandles, CreateFileHandles, WriteFileHandles

\* The deferred calls release what the slots hold, which is all but the lost.
LEMMA TeardownInv == ASSUME IInv, Teardown PROVE IInv'
<1>1. st' = [cwd |-> NoHandle, ro |-> NoHandle, wo |-> NoHandle, cdSector |-> 0]
  BY DEF Teardown, IInv, TypeOK, State
<1>2. open' = leaked /\ leaked' = leaked
  BY DEF Teardown, IInv, HandlesInv, HandlesAccounted, LostStayOpen
<1>3. TypeOK'
  <2>1. stream' \in Seq(Items)
    BY DEF Teardown
  <2>2. replies' \in Seq({"client", "payload"})
    BY DEF Teardown
  <2>3. st' \in State
    BY <1>1 DEF State
  <2>. QED  BY <1>2, <2>1, <2>2, <2>3 DEF Teardown, IInv, TypeOK
<1>4. HandlesAccounted' /\ LostStayOpen' /\ AllReleased'
  BY <1>1, <1>2 DEF Teardown, IInv, HandlesInv, HandlesAccounted, LostStayOpen, AllReleased, Slots
<1>5. ReadOnlyUnlessAllowed' /\ SectorSizeOfOpenFile' /\ NewHoldsNothing'
  BY <1>1 DEF Teardown, IInv, HandlesInv, ReadOnlyUnlessAllowed, SectorSizeOfOpenFile, NewHoldsNothing
<1>. QED  BY <1>3, <1>4, <1>5 DEF IInv, HandlesInv

-----------------------------------------------------------------------------
LEMMA InitIInv == Init => IInv
<1>. SUFFICES ASSUME Init PROVE IInv
  OBVIOUS
<1>1. TypeOK
  <2>1. stream \in Seq(Items)
    BY DEF Init
  <2>2. replies \in Seq({"client", "payload"})
    BY DEF Init
  <2>3. st \in State
    BY DEF Init, State
  <2>. QED  BY <2>1, <2>2, <2>3 DEF Init, TypeOK
<1>2. HandlesInv
  BY DEF Init, HandlesInv, HandlesAccounted, LostStayOpen, AllReleased,
         ReadOnlyUnlessAllowed, SectorSizeOfOpenFile, NewHoldsNothing, Slots
<1>. QED  BY <1>1, <1>2 DEF IInv

LEMMA IInvStep == IInv /\ [Next]_vars => IInv'
<1>. SUFFICES ASSUME IInv, [Next]_vars PROVE IInv'
  OBVIOUS
<1>0. ConnOK /\ HandlerOK /\ HandlesInv
  BY TypeParts DEF IInv
<1>1. CASE ClientAsks \/ ClientReceives \/ ConnectionBreaks
             \/ StartServing \/ ReadCommandFails
  <2>1. ConnOK' /\ UNCHANGED <<allowWrite, handlerVars>>
    BY <1>0, <1>1, ConnSteps
  <2>2. /\ status' = status \/ (status = "new" /\ status' = "serving")
                           \/ (status = "serving" /\ status' = "closing")
        /\ status = "closed" => UNCHANGED tracker
    BY <1>1 DEF ClientAsks, ClientReceives, ConnectionBreaks, StartServing, ReadCommandFails
  <2>3. HandlerOK'
    BY <1>0, <2>1 DEF HandlerOK, handlerVars
  <2>4. status = "new" => Slots(st) \ {st.ro} \subseteq open
    BY <1>0 DEF HandlesInv, NewHoldsNothing
  <2>5. HandlesInv'
    BY <1>0, <2>1, <2>2, <2>4
       DEF handlerVars, HandlesInv, HandlesAccounted, LostStayOpen, AllReleased,
           ReadOnlyUnlessAllowed, SectorSizeOfOpenFile, NewHoldsNothing, Slots, ConnOK
  <2>. QED  BY <2>1, <2>3, <2>5, TypeParts DEF IInv, TypeOK, ConnOK, HandlerOK
<1>2. CASE ServeCommand
  <2>1. PICK c \in NextCommand :
             \/ HandleOpenDir(c) \/ HandleReadDirEntry(c) \/ HandleReadDir(c)
             \/ HandleQuery(c)
             \/ HandleOpenFile(c) \/ HandleCloseFile(c)
             \/ HandleReadFile(c) \/ HandleReadFileCritical(c)
             \/ HandleReadCD2048Critical(c)
             \/ HandleCreateFile(c) \/ HandleWriteFile(c) \/ HandleChangeTree(c)
             \/ UnknownCommand(c)
    BY <1>2 DEF ServeCommand
  <2>2. HandlerFrame(c)
    BY <1>0, <2>1, ServeFrame
  <2>3. ConnOK'
    BY <1>0, <2>2, FrameType
  <2>4. c.node \in Node /\ c.origin \in {"client", "payload"}
    BY <1>0, NextIsCommand
  <2>5. status' \in {"serving", "closing"}
    BY <1>0, <2>2, <2>4, ReplyType DEF HandlerFrame
  <2>6. Serving(c)
    BY <1>0, <2>2, <2>4, <2>5 DEF Serving, HandlerFrame
  <2>7. HandlesOK'
    BY <2>1, <2>6, ServeHandles
  <2>. QED  BY <2>3, <2>7, TypeParts DEF HandlesOK, IInv, TypeOK, ConnOK, HandlerOK
<1>3. CASE Teardown
  BY <1>3, TeardownInv
<1>4. CASE UNCHANGED vars
  BY <1>4 DEF vars, connVars, handlerVars, IInv, TypeOK, HandlesInv, HandlesAccounted,
              LostStayOpen, AllReleased, ReadOnlyUnlessAllowed, SectorSizeOfOpenFile, NewHoldsNothing
<1>. QED  BY <1>1, <1>2, <1>3, <1>4 DEF Next, ServerStep

LEMMA IInvInvariant == Spec => []IInv
  BY InitIInv, IInvStep, PTL DEF Spec

-----------------------------------------------------------------------------
\* The variables of a session keep their types, payload read as commands
\* included.
THEOREM SessionTypeCorrect == Spec => []TypeOK
  BY IInvInvariant, PTL DEF IInv

\* No handler loses a handle or keeps a closed one in a slot it can serve from.
THEOREM SessionHandles == Spec => []HandlesAccounted
  BY IInvInvariant, PTL DEF IInv, HandlesInv

\* The end of a session releases everything but one directory at most.
THEOREM SessionReleases == Spec => []AllReleased
  BY IInvInvariant, PTL DEF IInv, HandlesInv

\* Without AllowWrite the served tree is never changed.
THEOREM SessionReadOnly == Spec => []ReadOnlyUnlessAllowed
  BY IInvInvariant, PTL DEF IInv, HandlesInv

\* The sector size is that of the file that is open.
THEOREM SessionSectorSize == Spec => []SectorSizeOfOpenFile
  BY IInvInvariant, PTL DEF IInv, HandlesInv

-----------------------------------------------------------------------------
(* The protocol: a stream in step holds the request being served and        *)
(* nothing else, since the client waits for its answer.                    *)

\* What is left of one request: its command, followed by no more than its payload.
OneRequest ==
  stream # <<>> => /\ Head(stream) \in Command
                   /\ Head(stream).op # "Write" => Head(stream).len = 0
                   /\ Len(stream) <= 1 + Head(stream).len

\* A request that is still in the stream has no answer yet, and there is at most
\* the one answer to it.
AnswersInStep ==
  /\ peer = "up" /\ stream # <<>> => waiting /\ replies = <<>>
  /\ replies \in {<<>>, <<"client">>} /\ (~waiting => replies = <<>>)

\* Nothing is under way on a connection that is down.
DownIsSilent == peer = "down" => replies = <<>> /\ ~waiting

ProtocolInv == DownIsSilent /\ (~refused => OneRequest /\ AnswersInStep)

\* In a stream in step the first item is the client's command.
LEMMA InStepCommand ==
  ASSUME ConnOK, OneRequest, NEW c \in NextCommand
  PROVE  /\ c = Head(stream) /\ c.origin = "client" /\ c.op # "data"
         /\ c.len \in Nat /\ stream # <<>> /\ Len(stream) \in Nat \ {0}
<1>1. stream # <<>>
  BY DEF NextCommand
<1>2. Head(stream) \in Command
  BY <1>1 DEF OneRequest
<1>3. Head(stream).op # "data" /\ Head(stream).origin = "client" /\ Head(stream).len \in Nat
  BY <1>2, SessionAssumption DEF Command, Ops, PathOps, PlainOps
<1>4. c = Head(stream)
  BY <1>1, <1>3 DEF NextCommand
<1>. QED  BY <1>1, <1>3, <1>4, EmptySeq DEF ConnOK

\* What a handler does to the queues: it answers, or says nothing and leaves the
\* framing; and unless it refuses payload it reads all of its request.
LEMMA ServeAnswers ==
  ASSUME ConnOK, NEW c \in NextCommand,
         \/ HandleOpenDir(c) \/ HandleReadDirEntry(c) \/ HandleReadDir(c)
         \/ HandleQuery(c)
         \/ HandleOpenFile(c) \/ HandleCloseFile(c)
         \/ HandleReadFile(c) \/ HandleReadFileCritical(c)
         \/ HandleReadCD2048Critical(c)
         \/ HandleCreateFile(c) \/ HandleWriteFile(c) \/ HandleChangeTree(c)
         \/ UnknownCommand(c)
  PROVE  /\ UNCHANGED <<peer, waiting>> /\ (refused => refused')
         /\ Reply(c) \/ UNCHANGED <<replies, refused>>
         /\ ~refused' => \E n \in Nat : Consume(n) /\ (c.op = "Write" => n >= Available(c.len))
<1>1. CASE HandleWriteFile(c)
  <2>1. c.len \in Nat /\ Len(stream) \in Nat \ {0}
    BY NextIsCommand, EmptySeq, SessionAssumption DEF ConnOK
  <2>2. Available(c.len) \in Nat /\ Available(c.len) <= c.len
    BY <2>1 DEF Available
  <2>3. UNCHANGED <<peer, waiting>> /\ (refused => refused') /\ Reply(c)
    BY <1>1 DEF HandleWriteFile, Receive, ConnOK
  <2>4. ASSUME ~refused'
        PROVE  \E n \in Nat : Consume(n) /\ n >= Available(c.len)
    <3>1. CASE Consume(0) /\ refused' = (refused \/ c.len > 0)
      <4>0. ~(c.len > 0)
        BY <2>4, <3>1, Zenon
      <4>1. c.len = 0
        BY <2>1, <4>0
      <4>2. Available(c.len) = 0
        BY <2>1, <4>1 DEF Available
      <4>. QED  BY <3>1, <4>2
    <3>2. CASE Consume(Available(c.len))
      BY <2>2, <3>2
    <3>3. ASSUME NEW n \in 0..Available(c.len), Consume(n), refused' = (refused \/ n < c.len)
          PROVE  \E m \in Nat : Consume(m) /\ m >= Available(c.len)
      <4>0. ~(n < c.len)
        BY <2>4, <3>3, Zenon
      <4>1. n \in Nat /\ n >= Available(c.len)
        BY <2>1, <2>2, <4>0
      <4>. QED  BY <3>3, <4>1
    <3>. QED  BY <1>1, <3>1, <3>2, <3>3 DEF HandleWriteFile
  <2>. QED  BY <2>3, <2>4
<1>2. CASE ~HandleWriteFile(c)
  <2>. USE DEF ReceiveAll, Receive
  <2>1. /\ UNCHANGED <<peer, waiting, refused>> /\ Consume(0) /\ c.op # "Write"
        /\ Reply(c) \/ UNCHANGED replies
    <3>1. CASE HandleOpenDir(c)
      BY <3>1 DEF HandleOpenDir, HangUp
    <3>2. CASE HandleReadDirEntry(c)
      BY <3>2 DEF HandleReadDirEntry, HangUp
    <3>3. CASE HandleReadDir(c)
      BY <3>3 DEF HandleReadDir, HangUp
    <3>4. CASE HandleQuery(c)
      BY <3>4 DEF HandleQuery
    <3>5. CASE HandleOpenFile(c)
      BY <3>5 DEF HandleOpenFile
    <3>6. CASE HandleCloseFile(c)
      BY <3>6 DEF HandleCloseFile
    <3>7. CASE HandleReadFile(c)
      BY <3>7 DEF HandleReadFile
    <3>8. CASE HandleReadFileCritical(c) \/ HandleReadCD2048Critical(c)
      BY <3>8 DEF HandleReadFileCritical, HandleReadCD2048Critical, HangUp
    <3>9. CASE HandleCreateFile(c)
      BY <3>9 DEF HandleCreateFile
    <3>10. CASE HandleChangeTree(c)
      BY <3>10 DEF HandleChangeTree
    <3>11. CASE UnknownCommand(c)
      BY <3>11 DEF UnknownCommand, HangUp
    <3>. QED  BY <1>2, <3>1, <3>2, <3>3, <3>4, <3>5, <3>6, <3>7, <3>8, <3>9, <3>10, <3>11
  <2>2. 0 \in Nat
    OBVIOUS
  <2>. QED  BY <2>1, <2>2
<1>. QED  BY <1>1, <1>2

\* A request in step is read to its end, and has one answer at most.
LEMMA ServeKeepsProtocol ==
  ASSUME ConnOK, ProtocolInv, ServeCommand
  PROVE  ProtocolInv'
<1>1. PICK c \in NextCommand :
           \/ HandleOpenDir(c) \/ HandleReadDirEntry(c) \/ HandleReadDir(c)
           \/ HandleQuery(c)
           \/ HandleOpenFile(c) \/ HandleCloseFile(c)
           \/ HandleReadFile(c) \/ HandleReadFileCritical(c)
           \/ HandleReadCD2048Critical(c)
           \/ HandleCreateFile(c) \/ HandleWriteFile(c) \/ HandleChangeTree(c)
           \/ UnknownCommand(c)
  BY DEF ServeCommand
<1>2. /\ UNCHANGED <<peer, waiting>> /\ (refused => refused')
      /\ Reply(c) \/ UNCHANGED <<replies, refused>>
      /\ ~refused' => \E n \in Nat : Consume(n) /\ (c.op = "Write" => n >= Available(c.len))
  BY <1>1, ServeAnswers
<1>3. DownIsSilent'
  BY <1>2 DEF ProtocolInv, DownIsSilent, Reply
<1>4. ASSUME ~refused'
      PROVE  OneRequest' /\ AnswersInStep'
  <2>1. OneRequest /\ AnswersInStep
    BY <1>2, <1>4 DEF ProtocolInv
  <2>2. /\ c = Head(stream) /\ c.origin = "client"
        /\ c.len \in Nat /\ stream # <<>> /\ Len(stream) \in Nat \ {0}
    BY <2>1, InStepCommand
  <2>3. PICK n \in Nat : Consume(n) /\ (c.op = "Write" => n >= Available(c.len))
    BY <1>2, <1>4
  <2>4. Len(stream) <= 1 + c.len /\ (c.op # "Write" => c.len = 0)
    BY <2>1, <2>2 DEF OneRequest
  <2>5. n + 2 > Len(stream)
    <3>1. CASE c.op # "Write"
      BY <2>2, <2>3, <2>4, <3>1
    <3>2. CASE c.op = "Write"
      BY <2>2, <2>3, <2>4, <3>2 DEF Available
    <3>. QED  BY <3>1, <3>2
  <2>6. stream' = <<>>
    BY <2>2, <2>3, <2>5, SubSeqEmpty DEF Consume
  <2>7. CASE peer = "up"
    <3>1. waiting /\ replies = <<>>
      BY <2>1, <2>2, <2>7 DEF AnswersInStep
    <3>2. replies' = <<"client">> \/ replies' = <<>>
      BY <1>2, <2>2, <2>7, <3>1 DEF Reply
    <3>4. OneRequest'
      BY <2>6 DEF OneRequest
    <3>5. AnswersInStep'
      BY <1>2, <2>6, <3>1, <3>2 DEF AnswersInStep
    <3>. QED  BY <3>4, <3>5
  <2>8. CASE peer # "up"
    <3>1. UNCHANGED replies
      BY <1>2, <2>8 DEF Reply
    <3>. QED  BY <1>2, <2>1, <2>6, <3>1 DEF OneRequest, AnswersInStep
  <2>. QED  BY <2>7, <2>8
<1>. QED  BY <1>3, <1>4 DEF ProtocolInv

\* A client in step asks when it has its answer, and nothing of the last request
\* is left.
LEMMA AskKeepsProtocol ==
  ASSUME ConnOK, ProtocolInv, ClientAsks
  PROVE  ProtocolInv'
<1>1. peer = "up" /\ ~waiting /\ waiting' /\ UNCHANGED <<peer, replies, refused>>
  BY DEF ClientAsks
<1>2. ASSUME ~refused
      PROVE  OneRequest' /\ AnswersInStep'
  <2>1. stream = <<>> /\ replies = <<>>
    BY <1>1, <1>2 DEF ProtocolInv, AnswersInStep, ConnOK
  <2>2. PICK c \in Command : /\ c.op # "Write" => c.len = 0
                             /\ stream' = Append(stream, c) \o Payload(c.len)
    BY DEF ClientAsks
  <2>3. c.len \in Nat /\ c \in Items
    BY <2>2, SessionAssumption DEF Command, Items
  <2>4. Payload(c.len) \in Seq(Items) /\ Len(Payload(c.len)) = c.len
    BY <2>3, DataItem DEF Payload
  <2>5. Append(stream, c) = <<c>> /\ <<c>> \in Seq(Items) /\ Len(<<c>>) = 1
    BY <2>1, <2>3
  <2>6. stream' = <<c>> \o Payload(c.len)
    BY <2>2, <2>5
  <2>7. stream' \in Seq(Items) /\ Len(stream') = 1 + c.len /\ stream'[1] = c
    BY <2>3, <2>4, <2>5, <2>6, ConcatProperties
  <2>8. stream' # <<>> /\ Head(stream') = c
    BY <2>3, <2>7
  <2>. QED  BY <1>1, <2>1, <2>2, <2>7, <2>8 DEF OneRequest, AnswersInStep
<1>. QED  BY <1>1, <1>2 DEF ProtocolInv, DownIsSilent

LEMMA OthersKeepProtocol ==
  ASSUME ConnOK, ProtocolInv,
         ClientReceives \/ ConnectionBreaks \/ StartServing \/ ReadCommandFails \/ Teardown
  PROVE  ProtocolInv'
<1>1. CASE ClientReceives
  <2>1. /\ peer = "up" /\ waiting /\ replies # <<>> /\ replies' = Tail(replies)
        /\ waiting' = FALSE /\ UNCHANGED <<peer, stream, refused>>
    BY <1>1 DEF ClientReceives
  <2>2. ASSUME ~refused
        PROVE  OneRequest' /\ AnswersInStep'
    <3>1. OneRequest /\ AnswersInStep
      BY <2>2 DEF ProtocolInv
    <3>2. stream = <<>>
      BY <2>1, <3>1 DEF AnswersInStep
    <3>3. replies = <<"client">>
      BY <2>1, <3>1 DEF AnswersInStep
    <3>4. replies' = <<>>
      BY <2>1, <3>3
    <3>5. OneRequest'
      BY <2>1, <3>2 DEF OneRequest
    <3>6. AnswersInStep'
      BY <2>1, <3>2, <3>4 DEF AnswersInStep
    <3>. QED  BY <3>5, <3>6
  <2>. QED  BY <2>1, <2>2 DEF ProtocolInv, DownIsSilent
<1>2. CASE ConnectionBreaks
  <2>1. PICK n \in 0..Len(stream) : stream' = SubSeq(stream, 1, n)
    BY <1>2 DEF ConnectionBreaks
  <2>2. peer' = "down" /\ replies' = <<>> /\ waiting' = FALSE /\ UNCHANGED refused
    BY <1>2 DEF ConnectionBreaks
  <2>3. ASSUME ~refused
        PROVE  OneRequest'
    <3>1. OneRequest
      BY <2>3 DEF ProtocolInv
    <3>2. CASE n = 0
      <4>1. stream' = <<>>
        BY <2>1, <3>2, SubSeqEmpty
      <4>. QED  BY <4>1 DEF OneRequest
    <3>3. CASE n > 0
      <4>1. stream # <<>> /\ Len(stream) \in Nat \ {0}
        BY <2>1, <3>3 DEF ConnOK
      <4>2. Len(stream') = n /\ Head(stream') = Head(stream) /\ n <= Len(stream)
        BY <2>1, <3>3, <4>1 DEF ConnOK
      <4>3. Head(stream).len \in Nat
        BY <3>1, <4>1, SessionAssumption DEF OneRequest, Command
      <4>. QED  BY <2>1, <3>1, <3>3, <4>1, <4>2, <4>3 DEF OneRequest
    <3>. QED  BY <2>1, <3>2, <3>3
  <2>. QED  BY <2>2, <2>3 DEF ProtocolInv, DownIsSilent, AnswersInStep
<1>3. CASE StartServing \/ ReadCommandFails
  <2>1. UNCHANGED <<peer, stream, replies, waiting, refused>>
    BY <1>3 DEF StartServing, ReadCommandFails
  <2>. QED  BY <2>1 DEF ProtocolInv, DownIsSilent, OneRequest, AnswersInStep
<1>4. CASE Teardown
  BY <1>4 DEF Teardown, ProtocolInv, DownIsSilent, OneRequest, AnswersInStep
<1>. QED  BY <1>1, <1>2, <1>3, <1>4

LEMMA ProtocolInvariant == Spec => []ProtocolInv
<1>1. Init => ProtocolInv
  BY DEF Init, ProtocolInv, DownIsSilent, OneRequest, AnswersInStep
<1>2. TypeOK /\ ProtocolInv /\ [Next]_vars => ProtocolInv'
  <2>. SUFFICES ASSUME TypeOK, ProtocolInv, [Next]_vars PROVE ProtocolInv'
    OBVIOUS
  <2>1. ConnOK
    BY TypeParts
  <2>2. CASE UNCHANGED vars
    BY <2>2 DEF vars, connVars, ProtocolInv, DownIsSilent, OneRequest, AnswersInStep
  <2>. QED  BY <2>1, <2>2, AskKeepsProtocol, OthersKeepProtocol, ServeKeepsProtocol DEF Next, ServerStep
<1>. QED  BY <1>1, <1>2, SessionTypeCorrect, PTL DEF Spec

\* Whatever the client sends and wherever the connection breaks, payload is taken
\* for a command only after a write was refused with payload unread.
THEOREM SessionFraming == Spec => []FramingLostOnlyByRefusedWrite
<1>1. ProtocolInv => FramingLostOnlyByRefusedWrite
  BY DEF ProtocolInv, OneRequest, FramingLostOnlyByRefusedWrite, Command, Ops, PathOps, PlainOps
<1>. QED  BY <1>1, ProtocolInvariant, PTL

-----------------------------------------------------------------------------
(* The refinement of RequestReply.                                         *)

phaseBar == IF peer = "down" THEN "over"
            ELSE IF waiting /\ replies = <<>> THEN "asked" ELSE "idle"

strayBar == \/ Len(replies) > (IF waiting THEN 1 ELSE 0)
            \/ \E i \in DOMAIN replies : replies[i] = "payload"

\* On a connection in step no answer strays, nor on one that is down.
LEMMA NoStray ==
  ASSUME replies \in {<<>>, <<"client">>}, ~waiting => replies = <<>>
  PROVE  strayBar = FALSE
<1>1. CASE replies = <<>>
  BY <1>1 DEF strayBar
<1>2. CASE replies = <<"client">>
  BY <1>2 DEF strayBar
<1>. QED  BY <1>1, <1>2

\* The steps in terms of the abstract protocol; out of step anything goes while the
\* connection is up.
StepBar ==
  \/ phaseBar = "idle" /\ phaseBar' = "asked" /\ UNCHANGED <<refused, strayBar>>
  \/ /\ phaseBar = "asked" /\ phaseBar' = "idle"
     /\ (refused => refused') /\ UNCHANGED strayBar
  \/ phaseBar # "over" /\ phaseBar' = "over" /\ strayBar' = FALSE /\ UNCHANGED refused
  \/ refused /\ refused' /\ peer = "up" /\ peer' = "up"
  \/ phaseBar = "over" /\ refused' /\ UNCHANGED <<phaseBar, strayBar>>
  \/ UNCHANGED <<phaseBar, refused, strayBar>>

LEMMA StepBarIsStep ==
  ASSUME TypeOK, TypeOK', StepBar
  PROVE  [Client!RRNext]_(Client!rrVars)
<1>1. CASE refused /\ refused' /\ peer = "up" /\ peer' = "up"
  <2>1. phaseBar \in {"idle", "asked"} /\ phaseBar' \in {"idle", "asked"}
    BY <1>1 DEF phaseBar
  <2>2. strayBar' \in BOOLEAN
    BY DEF strayBar
  <2>3. UNCHANGED (~refused)
    BY <1>1
  <2>4. Client!Babble
    BY <1>1, <2>1, <2>2, <2>3 DEF Client!Babble, phaseBar, strayBar
  <2>. QED  BY <2>4 DEF Client!RRNext
<1>2. CASE phaseBar = "idle" /\ phaseBar' = "asked" /\ UNCHANGED <<refused, strayBar>>
  <2>1. Client!Ask
    BY <1>2 DEF Client!Ask, phaseBar, strayBar
  <2>. QED  BY <2>1 DEF Client!RRNext
<1>3. CASE /\ phaseBar = "asked" /\ phaseBar' = "idle"
           /\ (refused => refused') /\ UNCHANGED strayBar
  <2>1. (~refused)' \in {~refused, FALSE}
    BY <1>3 DEF TypeOK
  <2>2. Client!Answer
    BY <1>3, <2>1 DEF Client!Answer, phaseBar, strayBar
  <2>. QED  BY <2>2 DEF Client!RRNext
<1>4. CASE phaseBar # "over" /\ phaseBar' = "over" /\ strayBar' = FALSE /\ UNCHANGED refused
  <2>1. Client!End
    BY <1>4 DEF Client!End, phaseBar, strayBar
  <2>. QED  BY <2>1 DEF Client!RRNext
<1>5. CASE phaseBar = "over" /\ refused' /\ UNCHANGED <<phaseBar, strayBar>>
  <2>1. (~refused)' = FALSE
    BY <1>5
  <2>2. Client!Unheard
    BY <1>5, <2>1 DEF Client!Unheard, phaseBar, strayBar
  <2>. QED  BY <2>2 DEF Client!RRNext
<1>6. CASE UNCHANGED <<phaseBar, refused, strayBar>>
  BY <1>6 DEF Client!rrVars, phaseBar, strayBar
<1>. QED  BY <1>1, <1>2, <1>3, <1>4, <1>5, <1>6 DEF StepBar

\* Every step of the session is one of the protocol or a stutter of it.
LEMMA StepRefines ==
  ASSUME TypeOK, TypeOK', ProtocolInv, ProtocolInv', [Next]_vars
  PROVE  StepBar
<1>1. ~refused => replies \in {<<>>, <<"client">>} /\ (~waiting => replies = <<>>)
  BY DEF ProtocolInv, AnswersInStep
<1>2. ~refused => strayBar = FALSE
  BY <1>1, NoStray
<1>3. peer = "down" => strayBar = FALSE /\ phaseBar = "over"
  BY NoStray DEF ProtocolInv, DownIsSilent, phaseBar
<1>4. peer' = "down" => (strayBar = FALSE)' /\ (phaseBar = "over")'
  <2>1. peer' = "down" => replies' = <<>> /\ ~waiting'
    BY DEF ProtocolInv, DownIsSilent
  <2>2. peer' = "down" => (strayBar = FALSE)'
    BY <2>1 DEF strayBar
  <2>. QED  BY <2>2 DEF phaseBar
<1>5. ~refused' => (strayBar = FALSE)'
  <2>1. ~refused' => replies' \in {<<>>, <<"client">>} /\ (~waiting' => replies' = <<>>)
    BY DEF ProtocolInv, AnswersInStep
  <2>2. ASSUME ~refused' PROVE (strayBar = FALSE)'
    <3>1. CASE replies' = <<>>
      BY <3>1 DEF strayBar
    <3>2. CASE replies' = <<"client">>
      BY <2>1, <2>2, <3>2 DEF strayBar
    <3>. QED  BY <2>1, <2>2, <3>1, <3>2
  <2>. QED  BY <2>2
<1>6. peer \in {"up", "down"} /\ (peer = "up" => phaseBar # "over")
  BY DEF TypeOK, phaseBar
<1>7. CASE ClientAsks
  <2>1. peer = "up" /\ ~waiting /\ waiting' /\ UNCHANGED <<peer, replies, refused>>
    BY <1>7 DEF ClientAsks
  <2>2. CASE ~refused
    <3>1. replies = <<>>
      BY <1>1, <2>1, <2>2
    <3>2. phaseBar = "idle" /\ phaseBar' = "asked"
      BY <2>1, <3>1 DEF phaseBar
    <3>. QED  BY <1>2, <1>5, <2>1, <2>2, <3>2 DEF StepBar
  <2>. QED  BY <2>1, <2>2 DEF StepBar
<1>8. CASE ClientReceives
  <2>1. peer = "up" /\ waiting /\ replies # <<>> /\ ~waiting' /\ UNCHANGED <<peer, refused>>
    BY <1>8 DEF ClientReceives
  <2>2. phaseBar = "idle" /\ phaseBar' = "idle"
    BY <2>1 DEF phaseBar
  <2>3. CASE ~refused
    BY <1>2, <1>5, <2>1, <2>2, <2>3 DEF StepBar
  <2>. QED  BY <2>1, <2>3 DEF StepBar
<1>9. CASE ConnectionBreaks
  BY <1>4, <1>6, <1>9 DEF ConnectionBreaks, StepBar
<1>10. CASE Teardown
  <2>1. peer' = "down" /\ UNCHANGED refused
    BY <1>10 DEF Teardown
  <2>. QED  BY <1>3, <1>4, <1>6, <2>1 DEF StepBar
<1>11. CASE UNCHANGED vars \/ StartServing \/ ReadCommandFails
  <2>1. UNCHANGED <<peer, replies, waiting, refused>>
    BY <1>11 DEF vars, connVars, StartServing, ReadCommandFails
  <2>. QED  BY <2>1 DEF StepBar, phaseBar, strayBar
<1>12. CASE ServeCommand
  <2>0. ConnOK
    BY TypeParts
  <2>1. PICK c \in NextCommand :
             \/ HandleOpenDir(c) \/ HandleReadDirEntry(c) \/ HandleReadDir(c)
             \/ HandleQuery(c)
             \/ HandleOpenFile(c) \/ HandleCloseFile(c)
             \/ HandleReadFile(c) \/ HandleReadFileCritical(c)
             \/ HandleReadCD2048Critical(c)
             \/ HandleCreateFile(c) \/ HandleWriteFile(c) \/ HandleChangeTree(c)
             \/ UnknownCommand(c)
    BY <1>12 DEF ServeCommand
  <2>2. /\ UNCHANGED <<peer, waiting>> /\ (refused => refused')
        /\ Reply(c) \/ UNCHANGED <<replies, refused>>
    BY <2>0, <2>1, ServeAnswers
  <2>3. CASE refused /\ peer = "up"
    BY <2>2, <2>3 DEF StepBar
  <2>4. CASE ~refused /\ peer = "up"
    <3>1. OneRequest /\ AnswersInStep
      BY <2>4 DEF ProtocolInv
    <3>2. c.origin = "client" /\ stream # <<>>
      BY <2>0, <3>1, InStepCommand
    <3>3. waiting /\ replies = <<>>
      BY <2>4, <3>1, <3>2 DEF AnswersInStep
    <3>4. phaseBar = "asked"
      BY <2>4, <3>3 DEF phaseBar
    <3>5. CASE Reply(c)
      <4>1. replies' = <<"client">>
        BY <2>4, <3>2, <3>3, <3>5 DEF Reply
      <4>2. phaseBar' = "idle"
        BY <2>2, <2>4, <4>1 DEF phaseBar
      <4>3. strayBar' = FALSE
        BY <2>2, <3>3, <4>1 DEF strayBar
      <4>. QED  BY <1>2, <2>2, <2>4, <3>4, <4>2, <4>3 DEF StepBar
    <3>6. CASE UNCHANGED <<replies, refused>>
      BY <2>2, <3>6 DEF StepBar, phaseBar, strayBar
    <3>. QED  BY <2>2, <3>5, <3>6
  <2>5. CASE peer = "down"
    <3>1. phaseBar = "over" /\ strayBar = FALSE /\ phaseBar' = "over" /\ strayBar' = FALSE
      BY <1>3, <1>4, <2>2, <2>5
    <3>2. refused' \/ UNCHANGED refused
      BY <2>2 DEF TypeOK
    <3>. QED  BY <3>1, <3>2 DEF StepBar
  <2>. QED  BY <1>6, <2>3, <2>4, <2>5
<1>. QED  BY <1>7, <1>8, <1>9, <1>10, <1>11, <1>12 DEF Next, ServerStep

\* A connection, seen by its client, is the request-response protocol, whatever the
\* client sends, the handlers meet and the network does: one request outstanding, one
\* answer for it, none without one, until a refused write takes the stream out of step.
THEOREM SessionRefinesRequestReply == Spec => ImplementsRequestReply
<1>1. Init => Client!RRInit
  BY DEF Init, Client!RRInit
<1>2. TypeOK /\ TypeOK' /\ ProtocolInv /\ ProtocolInv' /\ [Next]_vars
        => [Client!RRNext]_(Client!rrVars)
  BY StepRefines, StepBarIsStep
<1>. QED  BY <1>1, <1>2, SessionTypeCorrect, ProtocolInvariant, PTL
          DEF Spec, ImplementsRequestReply, Client!RRSafety
=============================================================================
