# ps3netsrv-go in TLA+

A verification project for ps3netsrv-go, the server that serves PlayStation 3
images and directories over TCP: TLA+ modules translated from its source, TLC
configurations that check them on small instances, and TLAPS proofs about them
for every instance. Paths are relative to the repository; `PROJECT.json` maps
every definition to the lines it models.

## 1. Inventory

The program accepts TCP connections and serves each from one goroutine. A
request is a 16-byte command, sometimes followed by a path or by data; a handler
changes the state of the connection and the server answers. Files come from a
chain of openers and wrappers that make virtual, decrypted and decompressed
images look like plain files.

| Component | State it keeps | Operations | What makes it hard | What makes it correct |
|---|---|---|---|---|
| Session: `pkg/server` `serveConn`, `handleCommand`; `internal/handler` | `handler.State`: directory, read-only file, write-only file, sector size; the position in the byte stream | one handler per operation code, deferred calls | every call may fail in the middle; payload shares the stream with commands; errors are answered or end the session, depending on what has been sent | no handle lost or used after its close; sector size belongs to the open file; read-only means read-only; one answer for a request |
| Server: `pkg/server` `Serve`, `Close`; `pkg/iprange/filtering_listener.go` | `inShutdown`, `listenerGroup`, `activeConn`; the limit listener's semaphore; the socket | `Serve`, `serveConn`'s opening and end, `Close` | goroutine per connection, `Close` from another goroutine, double closes | limit neither exceeded nor lost; shutdown terminates and reaches every session |
| Idle tracker: `cmd/ps3netsrv-go/server.go:400-442` | atomic client count, timer | `Connected`, `Disconnected`, `Cancel` | each call is two steps without a lock | last client out arms the timer; a server in use is not stopped |
| Application: `cmd/ps3netsrv-go/server.go` `Run` | contexts, error group | build the listeners, start, wait | who cancels whom, in which order | idle shutdown closes the server; errors stop everything |
| Client library: `pkg/client` | connection, deadline of the context in force | one method per command | cancellation, late answers | an answer belongs to its request |
| File system chain: `pkg/fs` | openers, wrappers | `Open`, `Stat`, directory wrapping | a step of several fails; each layer decides by the name another gives | nothing left open; what is announced is what is opened; an image is decrypted by its key and masked once |
| Virtual ISO: `pkg/fs/viso`, `internal/iso9660` | directories, records, path tables and files with their places; offset, files opened so far | layout at open; `Read`, `Seek`, `Close` | sizes computed before anything is encoded; boundaries of header, files, padding, parts | the records lead to where things were put; any read equals the slice of one ideal image |
| CSO/ZSO: `pkg/fs/cso` | index cache, block cache, offset | `Read`, `Seek` | caches filled on demand, short last block, small buffers | any read equals the slice of the original image |
| Encrypted and 3k3y ISO: `pkg/fs/encryptediso`, `iso3k3y` | regions, key, offset | `Read`, `Seek` | offsets inside sectors, region borders | exactly the encrypted regions are decrypted; exactly the key area is masked |
| CHD: `pkg/fs/chd` | current hunk, offset | `Stat`, open, `Read`, `Seek`, `Close` | stale hunk, foreign calls, size worked out twice in two ways | as CSO; a reader comes to the end; the size is the one announced |
| IP ranges: `pkg/iprange/iprange.go` | ranges | parse, `Contains` | borders, two address families | exactly the addresses the text means |
| Copying: `internal/ioutil` | pooled buffers | `CopyN`, `FillBuffer` | short reads and writes | the count says what was moved |
| Tools, configuration, services, OS support | - | single runs | - | not modelled (section 8) |

Interactions: `Run` starts `Serve`; `context.AfterFunc` calls `Close` when the
context ends (signal, idle timer, or `Serve` returning, through the error
group). `Serve` gets connections through the whitelist, which gets them through
the limit listener. Each session calls the idle tracker on connect and on close.
Handlers call `pkg/fs`, which calls the operating system. Nothing in a session
is shared with another but the served tree.

`PROJECT.json` lists the hazards, each at its line.

## 2. Plan

Order: what every client depends on first, then what decides the bytes it gets.

1. *Done*: `Session` with the abstract `RequestReply`; `Server`; `IdleTracker`;
   their proofs.
2. *Done*: `ClientConn`, the other end of the connection, and its proofs.
3. *Done*: `CsoFile`, the first image reader.
4. *Done*: `Iso9660` (sizes), `VisoLayout` (what is built when a virtual image is
   opened) and `VisoFile` (reading it).
5. *Done*: `ChdFile`; `EncryptedISO` (the two layers that change what is read);
   `FsChain`, which decides by name and content which of all these a file gets;
   `Images`, which puts them together, with the proofs of each reader.
6. *Left*: `ServerApp`, `Server`, `IdleTracker` and the sessions composed as `Run`
   composes them: an idle shutdown ends with everything closed; errors of the
   debug server end the same way.
7. *Left*: `IPRange`, the formats as sets of addresses over a small address width;
   the walk of GET_DIR_SIZE.

Theorems: every invariant and every safety property that a passing run checks is
proved, and the refinement of `RequestReply` with its steps (section 6). What is
left to TLC is liveness.

## 3. Modules

### RequestReply (abstract)

What one connection promises (`pkg/proto/types.go:1-3`): at most one request is
outstanding, it is answered once or the connection ends, and nothing is said
unasked. `inStep` says whether the server reads commands where the client wrote
commands; the promise ends when it does not (`Babble`).

### Session

One connection. `status` is where `serveConn` stands, `st` is `handler.State`,
`open` what the operating system has open for this session, `stream` the bytes not
read yet, `replies` the answers not received yet. An item of `stream` is a whole
command (16 bytes and path) or one unit of a write's payload. `allowWrite` is
chosen at the start and kept. A session has one goroutine and nobody else touches
its state, so a handler is one action, `Handle*` for `handleX` of
`pkg/server/server.go` and `HandleX` of `internal/handler/handler.go` together.
What the file system does is nondeterministic: an open, a stat, a read, a copy or
a close may fail, and the action follows the code's error path for each.

| Action | Code |
|---|---|
| `StartServing`, `ReadCommandFails`, `Teardown` | `serveConn` 80-142 and its deferred calls, `State.Close` |
| `HandleOpenDir`, `HandleReadDirEntry` (both versions), `HandleReadDir` | directory commands, `State.CwdHandle` |
| `HandleQuery` | STAT and GET_DIR_SIZE: answered whatever happens |
| `HandleOpenFile`, `HandleCloseFile` | OPEN_FILE, whose path `CLOSEFILE` means close; sector detection |
| `HandleReadFile`, `HandleReadFileCritical`, `HandleReadCD2048Critical` | reads; which errors are answered and which hang up |
| `HandleCreateFile`, `HandleWriteFile`, `HandleChangeTree` | everything behind `AllowWrite` |
| `ClientAsks`, `ClientReceives`, `ConnectionBreaks` | the peer, synchronous as `pkg/client` is |

Handles have identities that are reused once closed, as descriptors are: a stale
handle in a slot would be found by `NewHandle` returning a handle of the same
identity. `leaked` is the directory that HandleOpenDir (handler.go:57) drops
when `Stat` fails after `Open`. Session counts the handles that `FS.Open`
*returns*; what `FS.Open` itself may leave open is in `FsChain`.

### Server

The goroutines of `Serve` (`srv`), of each connection (`phase[c]`) and of
`Close` (`closer`). The sections under `Server.mu` never block and are one step
each; between any two of them everything else may run. `AcquirePlace` and
`CloseConns` model `netutil.LimitListener` from its use (external): a place is
taken before `Accept` on the socket and given back at the first close of the
connection. `Filter` is `filteringListener.Accept`. `serveConn`'s deferred calls
are separate steps in the order Go runs them. What a session does in between is
`Session`. Run may return, and the process exit, as soon as `Serve` has
returned, before `Close` has swept: exit is not modelled, so `Server` says what
`Close` does when it is given the time.

### IdleTracker

`Connected` and `Disconnected` are two steps each, the atomic addition and then
the timer operation on what it returned; `pc` says who is between them.

### ClientConn

The client library. The caller's goroutine is inside one method at a time (`pc`:
writing the request, reading the head or the body of the answer, running the
deferred calls); the function of `context.AfterFunc` runs in a goroutine of its
own and may be late (`fn[i]`: armed, spawned, ran). Both set the deadline of the
one connection. Methods are told apart by what they read and by what they do
when that fails (`Kinds`); contexts by what can end them (`Contexts`). The server
is as free as the protocol lets it be: it may be silent, hang up, or be out of
step because a request was cut off.

| Action | Code |
|---|---|
| `Begin`, `Return` | `applyContext` 533-548 and the function it returns |
| `WriteRequest`, `WriteFails`, `SourceEnds` | `writeRequest`, and the source of `WriteFile` |
| `ReadResponse`, `ReadBody`, `ReadFails` | `readResponse` and what each method does with the result; only `ReadFileCritical` and `ReadCD2048Critical` close the connection when a read fails |
| `ContextEnds`, `AfterFunc`, `DeadlinePasses` | the context, its function, the clock |
| `CloseClient`, `ServerAnswers`, `HangUp` | `Close`, the server, the network |

`mixed`, `abandoned` and `cutShort` are history: what a call took, and why it may
have. The model has one caller: methods called from two goroutines at once would
interleave their requests, and nothing in the library allows for it.

### CsoFile

One compressed image, from `Read` and `Seek` down to the index cache. `Read` is
one action for each stage that touches the file, with the failures of each;
`Lookup` is `IndexEntryCache.ValueOf` and returns every state the cache may be
left in, with an outcome. Bytes carry what they stand for (`image`, `file`,
`old`), so decoding over the compressed bytes and copying from a stale block
show as wrong bytes. The cache's `array` is its memory, which a reslice exposes.
Compression is abstracted to sizes: a block takes its size or less, and is stored
raw when it takes its size. A failed partial fill is cut at a whole entry. The
behaviour ends where `Read` panics or uses bytes that are not what it takes them
for (`astray`): nothing said of it afterwards would be about the code. `isClosed`
is left out, as `Session` closes a file once; so are reads into no bytes, which
no caller makes. `last` says of the last block how much of it is the image's, what
it decodes to (more where the compressor padded it) and whether deflate, which
fills its destination or fails, has to decode it.

### FsChain

What `FS.Open` and `FS.Stat` (`pkg/fs/fs.go`) make of one name, with the openers
and wrappers in the order `cmd/ps3netsrv-go/server.go` gives them. `pc` walks down
that list, one step for each opener and wrapper, and each has a second action for
its failures: `OpenViso`/`VisoFails`, `OpenChd`/`ChdFails`, `OpenCso`/`CsoFails`,
`OpenZst`/`ZstFails`, `OpenNative`/`NativeFails`, then `StatOpened` and the
directory wrapper, `WrapTimes`, `ExtractKey` (`KeyExtractionFileWrapper`),
`Decrypt` and `Mask` (the two `FileWrapper`s). A name is its extensions and a
file its form, its 3k3y mark and whether it begins with a region map, since
nothing else decides. `layers` is the file from the inside out; `lost` says where
a handle was given up without a close; `announced` is what `Stat`, and so every
listing, said before. Session sees all of this as one open that succeeds or fails.
Relative paths (`relaxed_root.go`) pass through and are left out.

### Iso9660, VisoLayout, VisoFile

`Iso9660` has the sizes in bytes and sectors. `VisoLayout` is `NewVirtualISO`, in
its order: `StatRoot`, `GetTitleID`, `ScanDirectory` for each directory,
`MakeIsoEntries` and `MakeJolietEntries` for each, `MakePathTables`, `Place` (the
places, `calculateSizes` and `fixLBA`), `WriteHead`, `WritePathTables`,
`WriteDirectories`. `entries` holds both tables' records of each directory, in the
order of `rootDir`. Sizes and places are added up by `Folded`, a recursive
function, which a proof can unfold. The code works out every size and place first and encodes
afterwards; the model does both, in the code's two ways, and keeps in `written`
where each thing really was encoded. A record is its identifier, its kind and its
extent; its bytes, the time stamps and the order of bytes are left out.

`VisoFile` is `Read`, `Seek` and `Close` of the image so built. `Begin` copies from
the structures, `ReadFile` is one turn of the loop over `filesToRead` (`FileAt` is
its binary search; `quota` and `ahead` are the counters the iterator keeps apart
from the loop's own), `ReadPad` the zeros of the end. Files are opened on the way
and may be missing or shorter by then (`FileFails`). It ends where `Read` panics
(`PaddingPanics`).

### ChdFile

`Stat` reads the file by itself and `Open` asks libchdr, so `announced` and `Size`
are computed in two ways, as in the code. `LoadHunk`, `Copy` and `DirectRead` are
one turn of the loop of `File.Read` or of `CDFile.Read`; a decoding that fails
leaves garbage in the buffer and the number of the hunk before (`LoadHunkFails`).
`libHandle` is what becomes of libchdr's own handle. libchdr is external.

### EncryptedISO

The two layers as a read passes them: `EncryptedISO` of `pkg/fs/encryptediso`
(`keyed`) inside `ISO3k3y` of `pkg/fs/iso3k3y` (`masked`). `Accepts` is the test
of the region map; `Decrypted` is the set of sectors that `decryptData` decrypts
in the buffer and `IsEncrypted` what the map says, stated apart. Which sector a
buffer's bytes come from, what is cut out of the buffer and where it panics is
kept; the cipher is a byte's kind, with the one thing that matters of a block
cipher, that part of a block decrypts to junk.

### Images, MCImages

`Images` puts all files a session may have open into one specification. A behaviour
is that of one component, `kind`; `Next` is that component's next step, the
variables the others own stay empty, and the properties are those of the components
under that kind. Nothing is composed: a layer calls the one below it, and what it
does with the answer does not depend on how the other came by it, as each reader's
module lets the file below fail in any call. `MCImages` holds the trees, images,
disks and maps that TLC is given.

Where the proofs of a component are a module (`ChdFileProofs`, `VisoLayoutProofs`,
`CsoFileProofs`), `Images` instantiates that, which adds no state and lets
`ImagesProofs` cite its theorems. What a component's theorems assume of its
constants is an operator there (`ImagesAssumption`, `DisksAssumption`,
`SizesAssumption`) and an `ASSUME` of `Images` under the names of its own constants,
so that TLC evaluates it for the values of the run.

## 4. Runs

| Run | Bounds | What it shows |
|---|---|---|
| SessionSafety | 4 descriptors, 1 image, 1 directory, payload of 1, backlog 2, writing allowed and not | `HandlesAccounted`, `AllReleased`, `SectorSizeOfOpenFile`, `ReadOnlyUnlessAllowed` (also when refused payload is taken for commands), `FramingLostOnlyByRefusedWrite` under every order of commands, failures and disconnects |
| SessionProtocol | 2 descriptors, read timeout set, fairness | the refinement of `RequestReply`: safety (`ImplementsRequestReply`) and its liveness (`AnsweredOrHungUp`) |
| SessionNoAnswer | no read timeout, fairness | *violated*: READ_FILE that reads nothing is never answered |
| SessionPayload | writing allowed | *violated*: payload of a refused write is read as commands |
| Server | 4 clients, 3 in the whitelist, limit of 2, fairness | places, late sessions, no accept after `Close`, shutdown terminates |
| Idle | 3 clients, fairness | count, arming, idle shutdown |
| IdleFires | 3 clients | *violated*: the timer may run out beside a client |
| ClientConn | 2 calls, every method and context, fairness | `OwnAnswerUnlessAbandoned`, `DeadlineHasReason`, and `CancelledCallReturns` on a server that owes nothing |
| Images, kind chain | names .iso, .bin, .cso, .cso.iso, .zst.iso, .chd; files that are what they say or not, with every mark, map and key file; every failure | `ChainOpensAsAnnounced`, `ChainNothingElseLost`, `ChainMarkMaskedOnce`, `ChainDecryptedByItsKey` |
| Images, kind layout | 148 trees of up to two levels, in PS3 mode and not; sector 512, parts of 512 from 1023 up, 4 directories in a path table | `VisoDirectoriesFound`, `VisoFilesFound`, `VisoPathTablesLead` |
| Images, kind viso | up to 3 files of 0, 4 or 5 bytes with a sector of 4, buffers up to 9 | `VisoReadsTheImage`, `VisoTidyReadsFill` |
| Images, kind chd | 13 images, whole and with hunks missing, data and CD; hunks of 6, units of 3, buffers up to 8 | `ChdReadsTheImage`, `ChdReadsOn`, `ChdSizeAsAnnounced` |
| Images, kind encrypted | 7 region maps, 23 bytes in sectors of 4, cipher blocks of 2, mask over 3 to 5, buffers up to 9 with 0 or 3 of capacity behind | `EncryptedReadsTheImage`, `EncryptedTidyReadsSucceed` |
| Images, kind cso | 3 blocks of 2 bytes, every size of each, the last one whole, padded or short, an index cache of 2 entries, buffers up to 6 with 1 of capacity behind | `CsoReadsTheImage`, `CsoTidyReadsSucceed` under every sequence of reads, seeks and failures |
| VisoEncoders | the images of Images | *violated*: a tree whose names fail the encoders' own checks |
| RedumpIso | the images of Images | *violated*: an .iso beside its key file is not decrypted |
| CsoBuffer | as kind cso, buffers up to 7, capacity of 0 or 2 | *violated*: a buffer smaller than a compressed block is overrun |

Why the bounds are enough. A session has three slots and holds one more handle
only inside HandleOpenDir, so four identities make every open succeed or fail;
with fewer, opens also fail for want of descriptors. One image with a detectable
sector size and one node without are the two cases of sector detection. A
payload of one unit is refused, copied or cut off; a longer one may also be cut
in its middle, after which the stream is out of step as it is after any cut
(with two units and a backlog of three the run has 9.6 million states, takes
three minutes, and finds nothing else). The client is synchronous, so a backlog
of two holds a request and its payload; more matters only out of step. Two
clients racing for the last place of the limit, one waiting behind them and one
rejected are all the roles `Server` has; in `IdleTracker` two clients interleave
their calls while the third is present. What one call of a client leaves behind
meets the next one, so two calls show each pair; the proofs are for any number.

In the images' run each reader's numbers keep the order and the divisions of the
code's. cso: three blocks are an unaligned start, a whole block and a rest; an
index cache of two entries moves its window on almost every block, where the
code's 257 move it every 256, and six bytes reach beyond the end from anywhere
but the start. viso: files of no sector, one, and one with a rest; a buffer of
nine starts in one file and ends in the next but one. layout: two directories
whose names differ in case, a name so long that records fill sectors and that
the length of a Joliet identifier does not fit its byte, files of no, one and
several parts at, below and beyond the largest part; a path table of four cuts
the list of directories off. chd: a hunk of two units of which a CD takes two
bytes in three, so that sectors, hunks and what is left out do not line up.
encrypted: adjacent regions, a region at the end and maps refused for each
reason; the mask begins in one sector and ends in the next, as 0xF70 and 0x1070
do. chain: every answer any layer can give for a name. The symmetry of
SessionSafety permutes descriptors, which no action tells apart; no other run
uses any.

Violated runs are disagreements between the code and its own text; `findings`
quotes both.

Deadlock is not checked where the system may really stop: a closed session, a
server that has shut down, a client that has made its calls, a read that
panicked. The idle tracker never stops.

## 5. Fairness

- `Session!FairSpec`: the session's goroutine is scheduled (`ServerStep`), which
  with `HasTimeout` includes the deadline of `serveConn` passing; the client
  reads what it is sent. Nobody is obliged to ask, to leave or to break.
- `Server!FairSpec`: each goroutine is scheduled; a session whose connection has
  been closed finds out (`LoopEnds` for `c \notin open`, a read on a closed
  connection fails at once); an `Accept` on a closed socket fails; the return of
  `Serve` cancels the context, as errgroup does. No client is obliged to connect
  or leave and no `Accept` to succeed.
- `IdleTracker!FairSpec`: a call that has begun is finished and an armed timer
  runs out. Nobody is obliged to come or go.
- `ClientConn!FairSpec`: the caller goes on when it can, the function of a
  context that has ended runs at last, a deadline passes. No server has to
  answer and no context to end.
- The modules of the images have no liveness: a session's goroutine calls them, and
  each of their loops is bounded by its buffer. That a caller who reads to the end
  gets there is `ReadsOn` of `ChdFile`, a property of single steps.

## 6. Proofs

Every theorem is proved for all values of the constants, from the `ASSUME`s of
its module alone (TLC evaluates these on each run). They ask no more than that
sizes are numbers, that blocks, hunks, units and sectors are not empty, and what
each module says of the images it is given.

- `SessionProofs`. Inductive invariant `TypeOK /\ HandlesInv`. `HandlesAccounted`
  and `AllReleased` are not inductive alone: that a lost directory stays open
  (`LostStayOpen`) is what keeps `NewHandle` from handing out its identity again,
  and a session not yet started holds nothing. `ReadOnlyUnlessAllowed` and
  `SectorSizeOfOpenFile` are proved from the type invariant, action by action.
  `SessionFraming`: unless a write was refused or cut short, the stream holds the
  one request that is being served, a command and no more than the payload it
  announces (`OneRequest`), which has no answer yet (`AnswersInStep`). That takes
  the client to wait for its answer. `SessionRefinesRequestReply` builds on it:
  each action is mapped to the step of `RequestReply` it is, or to none.
- `ServerProofs`. Inductive invariant: `TypeOK`, `Control` (what each place of one
  goroutine says of the others: `listenerGroup` is 1 exactly between
  `trackListener`'s two calls, `Close` past its wait means `Serve` is out of its
  loop), `FilteredOne` (one connection at most stands between Accept and its
  goroutine), `PlacesAccounted` and `SweepMissesOnlyLate`. Cardinality facts come
  from FiniteSetTheorems.
- `IdleTrackerProofs`. Nothing is assumed of the set of clients, which is the
  code's case: every request of a life of the server is another client. That
  finitely many of them have connected is part of the invariant (`Counting`), next
  to `CountExact`; `NeverStuckUnarmed` and `ArmedWithClientOnlyByLateReset` are
  strengthened with what the last client's place between the two steps says of the
  timer.
- `ClientConnProofs`. Inductive invariant: `TypeOK`; `InStep` (unless a call
  abandoned its answer, what is on the way in either direction belongs to the
  call in progress, whole and no more than its method reads); `NeverMixed`;
  `DeadlineOwned` (a deadline that is set belongs to the context in force or to
  one that ended during its call); and `DeadlineHasReason`.
  `OwnAnswerUnlessAbandoned` follows from `InStep`.
- `ChdFileProofs`. `ReadsTheImage` is about what has been copied and says nothing of
  the next hunk; the invariant adds that the buffer holds the hunk of
  `currentHunkNum`, garbage or nothing, and garbage a Read may copy was there when
  it began. `SizeAsAnnounced` compares two recursive functions over the tracks, by
  their least disagreement.
- `CsoFileProofs`. The bytes filled so far are the image's, up to where the next
  block begins, at every stage of Read. For `TidyReadsSucceed` it is the decoding
  in place: what is still compressed lies at the end of the buffer and does not
  begin before what is decoded ends, because k blocks take at most k blocks' size
  in the file (`EntriesGrow`). The index cache gives right entries until a fill of
  it has failed, whatever its window is. That what it holds are entries of the index
  at all, wrong ones included, is another invariant (`TypedCaches`): a fill that fails
  in the middle leaves some of the new window and some of the old.
- `VisoLayoutProofs`, for every tree of directories and files, every size of sectors,
  parts and pads and every length of names. None of the three properties is
  inductive: records are made before anything has a place, name their parents'
  places, and are moved when the places are known. The inductive invariant `Inv` says,
  stage by stage, how far the image has come:
  - `ScanInv`: the directories known, scanned or still in the queue, have paths of
    their own, and the parent of each comes before it (`PathsKnown`). Both are needed
    to find the one record in the parent's list that is filled in for a directory, and
    a parent in the path table before its children. Files lie one behind the other
    from the start of the files on (`FilesPlaced`).
  - `EntriesMade`: a directory that has its records has those of `Listing`, which are
    read off the tree, but for the extents of the ones that lead to directories:
    these point behind the sizes of all directories before (`Made`). That stays true
    when they are moved, because a record's size depends on its identifier alone, so
    `fixLBA` changes no size; and when the next directory is made, whose parent's
    list gets its place without growing.
  - `Tables`, `Placed`, `EncodedSoFar`: the path tables are those of the records, the
    descriptors and the padding follow from the sizes, and what the encoder has
    written begins where the sizes said it would. A directory's size is counted from
    nothing, all of them behind each other from nothing again, and the encoder goes on
    from where it is in the image, with a test of its own of when a record has to
    begin a new sector. That the three agree when they begin at a whole sector is the
    heart of it.
  - `Counted` and `Stage`: which of these exist yet.

  The exceptions stay those of the properties: the names that clash in upper case.
- `ImagesProofs` carries all of this to `Images`: a behaviour of a kind is one of
  that component (`VisoBehaves`, `ChdBehaves`, ...), as no other component's step
  touches its variables. `ImagesTypeOK` is the same for their types. Its first
  sections are the proofs of the three components that have no module of theirs:
  `EncryptedISO`, `VisoFile` and `FsChain`. `EncryptedISO`: `decryptData` walks the
  regions and cuts each with the buffer, `IsEncrypted` asks of one sector whether it
  lies between two regions; that the same sectors come out takes the order of the
  map, which `Accepts` gives. `VisoFile`: `quota` and `ahead`, which the iterator of
  `filesToRead` keeps for itself, agree with how far the buffer is filled (`OnFile`),
  though the loop and the iterator count apart; a file of no sector can only be one
  the read comes to, never where it began; and the search finds the file that holds
  the offset because the places follow one another (`PlacesOrdered`).
  `FsChain`, for every served directory and name. Inductive invariant (`ChainInv`): no
  file without layers (`NoFile`); a handle is of the name asked for or of the one
  without `.iso` (`HandleOfName`); the key in a file is found where its mark says
  (`KeyInFile`) and before the file is decrypted, which fits its map (`KeyFits`);
  and `NothingElseLost`. Without `HandleOfName` a wrapper could fail over a file
  that is neither, and nothing would tie the loss to a key. What a wrapper keeps
  is stated once, for any layers it adds (`WrapKeepsFile`).
  `ChainOpensWhatItAnnounces` and `ChainMasksOnce` need more (`ChainAskedInv`): the
  openers asked so far are those `Stat` passes by for the same name (`OpenersPassed`,
  `Told`), an Open that failed without a failure of the system had a reason in the
  file (`FailedForReason`), and what the mark has led to at each wrapper
  (`MarkMet`), with one mask at most (`MaskedOnce`). The second asks of the disks
  only that a file's mark is one of the three there are.

Three of these are about recursive functions: `TotalFrames` of `ChdFile`, `Starts` of
`VisoFile` and `Folded` of `VisoLayout`. The library's induction theorems take an
operator, which no prover here can instantiate; what they are needed for is proved
for the one function by the least number it would fail at (`LeastOf`, from the
well-foundedness of < on Nat). `VisoFile` and `VisoLayout` state their places as
recursive functions for this, not with the library's folds. In `VisoLayoutProofs` the
step is always the same: what holds of the sum up to k holds up to k + 1, by what one
element adds (`UpTo`).

Only model-checked: liveness and ENABLED (`AnsweredOrHungUp`, `ShutdownCompletes`,
`SweptSessionsEnd`, `IdleShutdown`, `CancelledCallReturns`), which are out of this
prover's reach. Liveness holds under the fairness of section 5; the theorems ask for
none. The runs that expect a violation are counterexamples, and nothing of them is
to be proved.

## 7. What the checks found

- READ_FILE that reads nothing is never answered (`handler.go:307`,
  `server.go:338-361`): the length is sent by the first write of the data.
- A write that is refused, or whose copy fails, leaves its data in the stream,
  and it is read as commands (`handler.go:402`).
- The idle timer can run out beside a client (`server.go:432`).
- Found on the way, and part of the models rather than findings of their own: a
  directory whose Stat fails stays open until the process ends (handler.go:57);
  CLOSEFILE ignores a failed close and keeps the closed file (server.go:313); a
  connection accepted just before `Close` sweeps is never closed by it
  (server.go:81 after 192), and is the only kind `Close` misses.
- A read of a CSO image into a buffer smaller than the compressed block panics
  (`cso.go:276`), which the comment above the call rules out.
- In `CsoFile`, and the reason `TidyReadsSucceed` says what it says: a read that
  goes beyond the end of the image panics in the index (`cso_items.go:99`); one
  whose length is neither a part of a block nor a multiple runs out of compressed
  blocks (`cso.go:163`); an offset inside the last blocks cannot be read when the
  file ends within a block's size of it (`cso.go:243`); a short last block that
  deflate has to decode is refused (`cso.go:363`), and one that is not is followed,
  in a buffer that goes on, by what the block cache held before; and an index fill that fails leaves the
  cache with wrong entries (`cso_items.go:112`).
- A folder whose name is longer than 16 characters, or a TITLE_ID longer than 31,
  panics while the volume descriptors are encoded, and a Joliet name of 128
  characters or more while the path tables are (`iso9660_encoder.go:83`,
  `iso9660.go:281`); run VisoEncoders. A TITLE_ID shorter than four characters
  panics before that. None of it is recovered.
- The wrapper for Redump images looks for a key file for everything *but* .iso
  (`encryptediso/wrapper.go:50`), against its own comment and the README; run
  RedumpIso. The test of the 3k3y wrapper is the same way round
  (`iso3k3y/wrapper.go:79`): an .iso that was decrypted by its own key keeps its
  mark, the exception in `MarkMaskedOnce`.
- In `FsChain`, the exceptions of `NothingElseLost`: `FS.Open` does not close what
  it opened when `Stat` or a wrapper fails (`fs.go:88`), nor do the openers of
  compressed and zstd images when the content is not what the name says
  (`cso/opener.go:53`, `seekablezstd/opener.go:57`); a listing announces what
  `Open` then refuses, the exceptions of `OpensAsAnnounced`.
- In `VisoFile`, what `Tidy` leaves out: a read that begins inside the zeros behind
  a file gets all of them again, and all that follows is shifted; one that ends
  inside them panics (`virtual_iso.go:728-735`); one that meets an empty file
  between others is refused.
- In `VisoLayout`: of directories whose names differ only in case the ISO table
  leads to one (`Clashes`).
- In `ChdFile`: after a hunk failed to decode, the next read of the hunk before it
  returns what is in the buffer (`ReadsTheImage`'s exception); the sizes announced
  for versions 1 and 2 are counted in units of the header's length
  (`chd.go:223`) and those for tracks under several tags are not those opened
  (`SizeAsAnnounced`'s exceptions); an image whose codecs are mixed or whose data
  are inconsistent leaves libchdr's file open (`libchdr.go:89`).
- In `EncryptedISO`: a read that begins inside an encrypted sector panics, or in
  the last one of a region is left encrypted, one that ends inside one writes
  behind what was asked for, and one that begins inside the 3k3y area panics
  (`encrypted_iso.go:181`, `3k3y_iso.go:81`): what `TidyReadsSucceed` leaves out.
- In `ClientConn`: the deadline that the function of a cancelled context sets is
  not reset by that call, so a next one without a deadline of its own fails at
  once, the deferred `CloseFile(context.WithoutCancel(ctx))` of the
  callers included (`client.go:549-553`); a refused write leaves an answer too
  many, which the next call takes (`OwnAnswerUnlessAbandoned`'s exception).

## 8. Not modelled

Sequential input and output without a protocol of their own: the layout of
messages and names (`pkg/proto/write.go`), parsing of flags and configuration, the
command line tools, services, socket activation, logging, the foreign-function
glue and the paths of `relaxed_root.go`. Libraries: the reader of seekable zstd
images, libchdr, the cipher; the modules take their outcomes. IP ranges and the
composition of `Run` are in the plan.

Of what is modelled: the characters of names (a name is its extensions, or its
length and its upper-case form), time stamps, the fields of PARAM.SFO, the byte
that holds a record's length (`iso9660.go:207` and `237`, which wraps for Joliet
names of about 106 characters; `VisoLayout` keeps such records whole), the contents of
damaged headers and indexes. Process exit and panics: `serveConn` has no recover, so
a panic in any handler ends every session; the modules of the images end there.
