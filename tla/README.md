# WispShell: specifications, model checks and proofs

WispShell gives an Android phone a shell on the user's own Linux machine. This
directory holds TLA+ modules that model the parts of the repository in which
order, concurrency, failure or stale state decide whether it is correct, the
TLC configurations that check them on small instances, and TLAPS proofs of the
safety properties that hold. Line numbers below are those of the
commit the modules were written from; `PROJECT.json` maps every definition to
its lines.

## 1. The system

```text
 Android app (Kotlin)                cloud register (axum)             Linux agent (wispshelld)
 PairScreen, WispRepository --HTTP-> tables, SQLite, event sockets <-HTTP-- pair command, presence
 TerminalScreen, terminal view                                              agent-state.json
 NativeP2pTerminalConnection                                                commands: pair, devices, status
 android_jni.rs (tokio tasks) <==== iroh QUIC stream: handshake, then frames ====> transport_iroh.rs
                                                                            transport_stream.rs, session.rs, pty.rs
```

| component | state it keeps | operations | what makes it correct |
|---|---|---|---|
| cloud register (`components/cloud`) | five tables under one mutex: devices, QR sessions, code sessions, bindings, presence | register, presence, start, claim, approve, start_code, resolve_code, approve_code, revoke; readers rendezvous, bindings_for_client, ... | one active binding per pair of devices; a code is redeemed once; what was confirmed stays true; revoked bindings are not served |
| cloud persistence (`db.rs`) | a SQLite file, rewritten whole after every change; a failure is only logged | open, load, save | a restart forgets nothing that was confirmed |
| cloud events (`ws.rs`) | a broadcast channel of 128 events per daemon | subscribe, forward | a claim reaches the daemon or the app learns that it did not |
| agent sessions (`session.rs`, `pty.rs`) | one PTY "main", a scrollback ring, a broadcast channel of 256 chunks, the input owner, sizes | attach_or_create, input, resize, detach; the reader thread | every attached client sees all output in order; only the owner types; the ring and its replay are the newest bytes |
| agent streams (`transport_stream.rs`, `transport_local.rs`) | per connection: a frame loop, an output task, the id attached to | one handler per frame | frames in order, tasks end with their connection |
| agent state (`state.rs`, `pairing.rs`, `main.rs`) | `agent-state.json`: identity and trusted clients; no lock | load_or_create, save; run, pair, status, devices list, devices revoke | only approved clients are trusted; nothing confirmed is lost; revoked clients stay out |
| agent iroh transport (`transport_iroh.rs`) | the state read at startup; nonces of a handshake | accept, authenticate, publish presence | both ends agree on who they are, on the binding and on fresh nonces |
| client core and native bridge (`wispshell-core`) | a table of terminals; per terminal a reader, a writer, a heartbeat and a path task | connect, send, resize, close | no command lost after attach, no terminal leaked, a dead peer is noticed |
| Android terminal (Kotlin) | connection handle, pending resize, local echo, tab state | connect, resize, send, close, reconnect | the PTY gets the size of the view; the screen shows what the shell printed; a lost connection comes back |
| Android pairing | identity, a code session | start a code, poll for the binding, revoke | polling stops for the daemon that was just paired |
| protocol crate | none | frames, codes, signatures | decoding undoes encoding, limits agree on both sides |

The components talk over HTTP (requests may be handled concurrently and their
answers lost), over one QUIC stream per terminal (ordered, may break), through
channels and callbacks inside a process, and, on the Linux side, through a file.

What is hard to test here, with its lines, is the list `hazards` of
`PROJECT.json`. In short: handlers that change the tables and save them in two
steps; a session that is snapshot and subscribed to in two steps, its owner
checked and its PTY written in two steps; receivers that lag; a state file that
several processes read, change and truncate; and, on the phone, callbacks that
arrive after the object they belong to was closed.

## 2. What is modelled

### CloudRegistry (and DurableFacts)

`db` is `AppState.inner`, `disk` the SQLite file, `work[w]` the place worker
`w` is at in its handler. A handler is four actions. The first (`Register`,
`UpdatePresence`, `Start`, `Approve`, `StartCode`, `ApproveCode`, `Revoke`, all
through `Change`) is its section under the lock, with every check and every
table it writes; `Save` or `SaveFails` is `persist_or_log`, which takes the
lock again and so saves what is there *by then*; `Reply` is the answer. `Crash`
loses memory, and every handler, and loads the file. Expiry is compared with
`now`, which `Tick` moves. A rejected request changes nothing and is not a
step. Names, keys, certificates and addresses are left out; the checks of the
certificate are kept as "it names the client of the session".

The caller chooses the identifiers of sessions and bindings, and no handler looks
whether a row has one already: `Start`, `Approve`, `StartCode` and `ApproveCode`
put their row in its place, whatever it was. The app and the agent draw
identifiers at random, so this happens when a request is repeated or comes
late; the model lets any request do it, at any time.

`approved` and `durable` are history: what callers were told, and what they
were told after their handler's save had succeeded. When a request names an
identifier anew, what was told about the row it replaces (`About`), or is about
to be told by a handler in flight, was true until then and is dropped from both.
Nothing else is, so what the properties say is that *only* such a request, and only
for its own identifier, takes anything back: no other handler's change or save, no
failed save and no crash. `DurableFacts` says what such a store promises with
nothing of handlers: a request makes facts visible (`Learn`), or starts over with
one identifier (`Replace`); `Save` stores all that is visible; what is visible and
stored may be promised (`Promise`); a `Crash` leaves what is stored.
`CloudRegistry` is checked and proved to implement it, with `visible` and `stored`
mapped to the facts in memory and in the file and `promised` to `durable`.

### Session

The one session "main", its reader thread, and connections that attach to it.
Actions follow the locks: `ReadChunk` and `Broadcast` are the two halves of an
iteration of the reader; `AttachEnter`, `AttachOwn`, `AttachSnapshot`,
`AttachSubscribe` are the steps of `attach_or_create` between which other
threads run; `InputCheck`/`InputWrite` and `ResizeFields`/`ResizePty` likewise.
`Deliver`, `OutputEnds` and `WriteFails` are the output task; `Eof` aborts it and
`ReadFails` and `InputRefused` do not, as in the code. A broadcast receiver is
its position in the sequence of chunks; it lags when `Capacity` chunks follow
the one it is at. Output is a sequence of numbered chunks, so what a client got
is a sequence of numbers. `stale` is history: writes a connection made since the
owner last changed, while not its owner.

### AgentStream

Session with its other end. `client[c]` is where the client is with connection
`c`, from `connect()` and its ten seconds (`client.rs`) to the reader and writer
tasks of the native bridge; `agent[c]` is where the agent's task is, in the
handshake of `transport_iroh.rs` or in the frame loop, whose steps are Session's
actions. `asked` counts what the client has written, and `shown` the frames it
has read. The handshake is strictly alternating, so these say which frame is
under way; what is modelled of it is who waits for whom while either end may
give up at any frame, the agent without a timeout of its own. Each action of
Session is taken when the other end lets it happen: `AgentAttach` once Attach
was written, `ClientFrame` while the client is attached, `AgentNotices` when it
has left, `AgentOutput` as long as the stream can be written. A connection in
`Local` is one over TCP, which begins with Attach (`transport_local.rs`). The client
hears of an end as in the code: by the end of the stream (`ReadEnd`), which comes
only when frame loop *and* output task have let go, by its ping (`WriterFails`),
or by the timer of the attach (`AttachTimesOut`).

### Scrollback

`append_scrollback` and `replay_scrollback` in bytes, against what they are for.
`ReadPty` is a read of the PTY that pushes its chunk; then each step is one round
of a loop, with the count the code keeps in `total`: `SumUp` adds the lengths,
`DropOldest` pops while there is too much, and after `ReplayScrollback` each `Select`
takes a chunk, newest first, whole or cut (`Newest`), until `Give`. A call holds
the ring's lock throughout, so there is one at a time (`call`). Bytes are named by
their position in the output. `RingIsNewest` ties the state down to a suffix of the
reads, which is why the module has no separate type invariant. Session counts the
same ring in chunks.

### Framing and FrameLength

The bytes of one direction of a stream: `Write` is what `write_json`,
`encode_binary_frame` and `encode_short_binary_frame` put on it, `Arrive` brings one byte
to the reader, `EndOfStream` cuts it anywhere, by an orderly end or because the
connection is lost (`broken`), which the reader learns as an error wherever it asks
for more, between two frames too, and `Read` is one call of
`read_client_stream_frame` (or, with `ToAgent` false, its counterpart in
`android_jni.rs`) on what has arrived: a frame, an orderly end, an error, or not
yet. `ends` is history, where each frame written ended. `FrameLength` is the length of a short frame, a number in base 128, with
its encoder and its decoders, which the code has as separate loops with limits of
their own: those of the two streams, and that of a slice in the protocol crate,
which only its tests use.

### TrustStore

`agent-state.json`, the running daemon and the commands typed next to it. Every
process runs `Begin`, then `Load` (or `LoadFails`, or `Generate` at the very
first start), then its own step (`Approve`, `RevokeClient`, `Serve`), then
`Truncate` and `Write`, the two halves of `std::fs::write`. If a longer text
was written in between, the shorter one leaves its tail and the file does not
parse (`Torn`). The two calls `pair` makes of the cloud are one step,
`Approve`, whose answer may be lost; `bound` is what the cloud then holds.
The daemon's handshake is two steps, since it waits for the client in between, as
long as the connection lives: `JudgeClient` checks the trust, by the file read again
or, when that fails, by the state read at startup (`Judge`), and sends the
challenge; `EnterSession` has the answer and lets the client in. `conn` is how far
a client is and by what it was judged; "overtaken" is history, a client judged by
the file and waiting while its revocation is reported. `Die` kills a process
anywhere. `orderly` is history: no command overlapped another and none died.

### NativeTerminal

One remote terminal of the app. `holder` is the view and what the holder knows
of its size, `kt` the fields of `NativeP2pTerminalConnection`, `queue` and
`worker` its executor, `rust` the entry in `TERMINALS` with the tasks of
`android_jni.rs`, `net` the stream, the agent and its PTY. Three threads call
`resize()` and `close()` at once (the UI thread, the timer, and the reader task,
whose callbacks run Kotlin), without a lock, so these methods are modelled field
by field: `ResizeConnectionToView`, `Mark`, `Pend` or `Enqueue`, and `Close`,
`CloseTakesHandle`, `CloseShutsDown`. `RunConnect` to `SendPendingResize` is the
executor's `connect` task, which hands over to the tasks (`SpawnTasks`) before it
has a handle; `ReadAttached` and `ReportAttached` are the reader and the callback it
makes. An exception that no one catches (`RunResize` after the writer has ended;
a task given to an executor that was shut down) ends the app: `Crashed`.

Taken from outside the code: a link may go `down` (nothing arrives any more) or
turn out `broken`; a heartbeat of ten seconds leaves the reader time to finish a
callback; a PTY may have any size when it is attached to, since a running
session keeps its own; an endpoint that is dropped ends its stream. Left out: input, which goes the way of a
resize except that none is kept for later; the task that shows the path; a Ping
behind another; and the next connection of the same holder, which is `TabPane`'s.
A change of the rows alone is never sent (`WispTermuxTerminalView.kt:659`).

### TabPane

A terminal tab (`TerminalTabPane`, `TerminalScreen.kt:338`). `tab` is what it remembers:
the daemon's address (`rend`), whether the cloud gave none, what it last heard
of its connection. `seen` is the tab as it was composed last, `bumped` the nonces
that changed since, and `timers` the effects that are waiting for a request or a
delay. `Compose` is one composition: it cancels the effects whose keys changed,
runs their bodies in the order of the source up to the first delay, and replaces,
closes or makes the holder (`ComposeView`). `FetchSucceeds`, `FetchFails`, `Reconnect`,
`NetworkRetry` and `Refetch` are what the effects do after their delays; `Retry`,
`Select`, `Resume` and `NetworkChanges` what the user and the system do. The holder's
connection is here only what it reports (`ConnStarts` to `ConnErrs`), since its
inside is `NativeTerminal`; a closed connection goes on reporting (`Late`,
`LateOver`), to its own holder, which it may mark as lost, and to the tab. `gen` is the agent's
address, new at each start, `published` the one the cloud has
(`publish_presence`); an address that is not the agent's is never reached.

### MCStream and MCApp: runs of several parts

AgentStream, Scrollback and Framing share no state, nor do CloudRegistry and
TabPane, so nothing is learnt from their interleavings. `MCStream` and `MCApp`
extend them (their names are chosen so that they can be, and what the runs check is
the very definition the theorems state), choose one part in their initial state
(`part`) and let only that part move:
every behaviour is one of one part, the state spaces add up instead of
multiplying, and one run checks them all. `ConnectingTabEnds` and
`TabFetchRecovers` are TabPane's `ConnectingEnds` and `FetchRecovers`, stated of the
behaviours in which the tab moves: where the register does, it waits for ever.
Where parts do interact they are composed: AgentStream contains Session, and takes from it when a client is shown
what the shell printed.

## 3. The runs

Each was chosen as the smallest instance in which the case it is about happens;
the mutants in `PROJECT.json` confirm that it does: for each property, a
plausible slip in one definition makes TLC report it.

| run | instance | shows |
|---|---|---|
| cloud_codes | 2 handlers, 1 QR session, 1 code, 2 bindings, 1 pair of devices, at most 5 requests, saves may fail | TypeOK, AtMostOneActive, DurableKept, RevokedNotServed, BoundIsServed, SavedCodeSingleUse, and the refinement StoreSpec |
| app, part "cloud" | 2 handlers, 1 code, 1 binding, fair, saves succeed | EventuallySaved |
| app, part "tab" | 2 addresses of the agent, 3 events, fair | TabTypeOK, AttachedIsTrue, ConnectingTabEnds, TabFetchRecovers, ResumeReconnectsHeld |
| app_reconnect | the tab alone, fair | **violates** ResumeReconnects |
| cloud_lost_save | 1 handler, at most 3 requests, saves may fail | **violates** CodeSingleUse |
| session_output | 2 clients, 3 chunks, a channel of 1, 2 writes | TypeOK, LiveContiguous, AtMostOneRepeated, AtMostOneStaleWrite |
| stream, part "stream" | 2 clients, one of them local, 1 chunk, 1 input, fair | StreamTypeOK, EndsAgree, ScreenReaches, ClientHearsOfEnd, AgentLetsGo |
| stream, part "ring" | 8 bytes in reads of 1 to 4, both limits 0 to 6 | RingIsNewest, ReplayIsNewest |
| stream, part "frames" | every 2 of 11 frames, cut anywhere | FramesArrive, NeverWaitsInVain, LengthsUndone |
| session_hole | 1 connection, 3 chunks | **violates** NoHole |
| trust | the daemon and 3 commands, 2 clients, 2 identities | TypeOK, TrustsOnlyBound, DaemonOwnsFile, ParsesAtRest, PairedIsStoredInTurn, RevokedGetsInOnlyLate |
| trust_lost_update | the daemon and 2 commands | **violates** PairedIsStored |
| native_sizes | 2 sizes, 1 layout, 1 heartbeat | TypeOK, QueuedSizeArrives |
| native_live | 1 size, 1 layout, 1 heartbeat, fair | AttachedHasSession, LeakedOnlyByRace, CrashesOnlyWhenLost, SilenceIsReported, TasksEnd |
| native_view_size | as native_sizes | **violates** ViewSizeReachesPty |

Why the bounds are enough. Cloud: a lost update needs two handlers, a second
redemption two bindings, a forgotten replacement two bindings of one pair, and
an expiry one tick. Since identifiers may be named again, the register runs for
ever; `MCCloudRegistry` counts the requests that change a table (`MaxRequests`), and
leaves saves, failures and crashes unbounded. Five of them are enough to start a
code, approve it, revoke the binding, approve it again by QR and replace it by the
other binding, or to start the code again and approve it a second time; the proofs
below remove all bounds. Session: a
hole or a repeat needs one chunk on each side of a step, a lag `Capacity` more
than the position, a stale write a second client; a third chunk after a lag is
what an output task that went on would write out of order. Streams: each property
is about one connection, disturbed by at most one other that takes the input
or by a timeout; one chunk is printed before, during or after an attach, and
more of them is what session_output and the proofs are about. Frames: the
payloads and ids hold the magic bytes of frames, a newline and a brace, and one
payload needs a length of two digits; the second frame is there to be taken for
part of the first, and lengths are checked at every boundary of their encoding. Tab: three
events suffice for each case the effects are written for (the network goes and
comes back, and a resume or a retry falls between), and two addresses for one
that is out of date. Trust: pair, revoke
and one more command to truncate the file is the longest scenario a property
speaks of; overlapping needs two. NativeTerminal: a size is lost, overtaken or
sent twice with two sizes and one layout besides the size the agent sets; a timeout by
silence needs one beat without a Pong instead of three, and the proofs remove both
bounds from every safety property. Scrollback: limits below, at and above a
chunk, up to six of eight bytes, so that with every limit something is dropped in
some behaviour; that the limits exceed everything printed happens in those that
print less, and the proofs remove these bounds and those on frames. Symmetry is used only where all properties
are safety properties and the permuted constants are interchangeable. Deadlock
is not checked where the bounds stop the model; the real programs do not stop there.

Fairness. `CloudRegistry!FairSpec`: a handler that was started is driven to its
end (there is no await in it, and the runtime polls its tasks); nothing obliges
a client to send a request or a server to crash. `AgentStream!StreamFairness`: the reader
thread, once it has read a chunk, broadcasts it; tokio polls the tasks of both
ends; a connection that is gone is noticed by the other end, since QUIC has an
idle timeout; a ping is written every ten seconds, and the ten seconds of an
attach end. Nobody is obliged to print, to type, to attach or to hang up, and
an agent in the handshake need not answer. `TabPane!TabFairness`: frames are composed and
delays end; a request is answered or fails, and does not fail for ever while the
network is there (the one strong fairness, `FetchSucceeds`: it says that the
cloud is there); connecting ends within the twenty seconds of its timer; a
closed connection falls silent; the agent publishes its address every thirty
seconds. `NativeTerminal!FairSpec`: a thread goes on with the call it is in, the
executor and the tasks are scheduled, and a stream that broke, or whose endpoint
was dropped, ends for its reader; no link has to fail or to work, no agent has to
answer, no user has to leave. With a silent agent only the heartbeat ends the
wait, which is what `SilenceIsReported` is about; it is limited to attached
terminals, as `TasksEnd` is, because a heartbeat that never saw a session runs on
for ever (`android_jni.rs:406`).

### What the violated runs say

* cloud_lost_save: `persist_or_log` swallows the error, the approval is answered
  with 200, and after a restart the same code is approved again (`TASK.md:6`
  promises single use). What does hold, whatever saves fail, is
  `SavedCodeSingleUse`.
* session_hole: output between the scrollback snapshot (`session.rs:92`) and the
  subscription (`:103`) reaches the client in neither. Subscribing first would
  turn the hole into a repeat.
* trust_lost_update: two overlapping commands; the second to finish writes the
  state it read before the first, and a client "approved and stored" is gone.
* native_view_size: a size counts as sent once it is handed to the connection
  (`WispTermuxTerminalView.kt:675`), but `resize()` can store it in `pendingResize`
  just after `connect()` took what was there, and a resize that reaches the writer
  before the session is attached is dropped (`android_jni.rs:453`). The PTY then
  keeps another size than the view until the columns change again. What does hold
  is `QueuedSizeArrives`.
* app_reconnect: two seconds after a connection ended without an error, and by
  Retry with an unchanged address, `reconnectNonce` changes. It is a key of the
  remembered holder (`WispTermuxTerminalView.kt:71`), so the old holder is closed
  and a new one made; but a holder gets its view and its connection in the factory
  of the AndroidView (`:112`), which runs only when a view is put on the screen, and
  the view on the screen stays. Nothing connects, and on a resume
  `reconnectIfDisconnected` returns because there is no view (`:246`).
  `ResumeReconnectsHeld`, and the exception in `ConnectingEnds`, say that this is the
  only way in which a resume leads nowhere.

Further disagreements with the handoff document are in the models but have no run
of their own:

* A receiver that lags ends its output task (`while let Ok`,
  `transport_stream.rs:106`), and the connection stays up and silent; line 774
  wants all attached clients to receive output. `ScreenReaches`, checked with a
  channel that is long enough, fails with two chunks and a channel of one.
* While a command has truncated the state file the daemon falls back to what it
  read at startup and lets a revoked client in (`transport_iroh.rs:164`; line 1022).
  And the handshake checks trust once, then waits for the client's answer without
  a timeout (`:196`): a client that was judged before its revocation, and answers
  after it, is let in. `RevokedGetsInOnlyLate` says that, while commands run one at a
  time, these two are the only ways.
* The QR approval looks neither at `used_at` (`pairing.rs:183`; line 282 wants single
  use) nor at the row of its binding: repeated after a revocation, it puts the binding
  back in service (`:193`). In the same way a code that is started again is unused
  (`:220`). `RevokedNotServed` and `SavedCodeSingleUse` hold up to such a request.
* An input whose owner check was passed is written even if the owner changes
  before the write (`session.rs:114`; line 775); `AtMostOneStaleWrite` bounds the
  damage.

And two that no document speaks of: a key or a change of the size after the
writer task has ended is an exception that ends the app, and so is leaving a
terminal whose handle was assigned after the timer had closed it.
`CrashesOnlyWhenLost` says that it cannot happen to a connection that is open.

## 4. What is proved

Every safety property and action property that a passing run checks is a theorem,
and so is the refinement of the store; each of these modules proves an inductive
invariant and takes its properties from it. What TLC alone shows is at the end of
this section.

`CloudRegistryProofs` proves, for every number of workers, devices, sessions,
bindings, any bound on time and with saves that may fail:

* `TypeCorrect`: `TypeOK`.
* `OneActiveBinding`: `AtMostOneActive`.
* `RepliesAreDurable`: `DurableKept`.
* `RevokedUntilApprovedAgain`: `RevokedNotServed`.
* `RegisterImplementsStore`: `Spec => StoreSpec`, the refinement.

The only assumption is `ConstantsAssumption` of `CloudRegistry`: the empty row
is no row and no binding id, QR and code sessions have different ids. None of the
properties is inductive by itself. `DurableKept` says that promised facts are in
memory and on disk, but a `Crash` replaces memory by the file and a `Save` the
file by memory, and a promise is only recorded at `Reply`; so the invariant
`IInv` adds what must hold in between: the promise of every handler in flight is
true in memory, and once its save has succeeded also on disk. What makes it
inductive is that between two requests that name the same identifier the rows about
it only grow (`Grows`), and that a request which names it withdraws what was
promised of it. The step lemma is one lemma per handler, each showing that the
handler lets all other rows grow, keeps one active binding (`BindReplaces`) and
makes its promise true, and one per other action. The refinement follows from the
same facts: a handler is a `Learn`, or a `Replace` of the identifier it names,
`Save` and `Crash` are themselves, `Reply` is a `Promise` or a stutter.

* `SavedApprovalIsOnly`: `SavedCodeSingleUse`, since a row has one `used`.
* `SavedBindingIsServed`: `BoundIsServed`.

The last needs more than promised facts, since what rendezvous wants is another
table. `CodesInv` says of memory and of the file alike that a binding made from a
code stands next to the row of its daemon: both are written under one lock and
saved in one transaction, so no crash keeps one without the other.

`NativeTerminalProofs` proves, for every set of sizes, every number of heartbeats
and of layouts, from `SizesAssumption` (sizes are pairs of numbers, bounds are
numbers):

* `TypeCorrect`: `TypeOK`.
* `LeaksAreRaces`: `LeakedOnlyByRace`.
* `OpenTerminalDoesNotCrash`: `CrashesOnlyWhenLost`.
* `AttachedKnowsSession`: `AttachedHasSession`.
* `LastQueuedSizeArrives`: `QueuedSizeArrives`.

The invariant has six parts beside the types. `SessionInv`: the reader stores the
session before its callback. `ClosedInv`: whatever only `close()` does shows that
`closed` is set, and the timer and the view close at most once each. `OpenInv`: a
handle, wherever it is (assigned, read by a `resize()` or a `close()`, queued with a
resize), is that of a terminal that was made with a writer, so a resize that
throws finds it removed or its writer ended. `LeakInv`: where the handle of an open
terminal can be (about to be assigned, assigned, in the hand of a `close()`, queued
for the native close), and that a handle found after a `close()` was assigned too
late. `StartInv`: nothing is queued for a session before there is one. Steps that
are no part of `close()` preserve these by one lemma, `KeptStep`. `FollowInv`
orders the two queues a size goes through, the executor's and the writer's: the
size queued last is the last resize in the first of them that holds any, or the
PTY has it already, and no `pendingResize` still waits to overtake it.

`SessionProofs` proves, for any connections, clients and sizes, any amount of output
and any channel, ring and replay, from `SessionAssumption`:

* `TypeCorrect`: `TypeOK`.
* `NoHoleNoRepeat`: `LiveContiguous`.
* `OneChunkRepeated`: `AtMostOneRepeated`.
* `OneStaleWrite`: `AtMostOneStaleWrite`.

That the next chunk delivered follows the last one is the receiver's doing, so
the invariant ties the end of what was delivered to the receiver's position. The
reader thread is at most one chunk ahead of the channel (`ReaderOneAhead`), which
bounds what a snapshot can hold that the receiver will bring again. And a
client that is not the owner and has made its stale write is past its owner
check, so that it makes no other.

`AgentStreamProofs` extends this to both ends, for any connections, local or not:

* `StreamTypeCorrect`: `StreamTypeOK`.
* `EndsAlwaysAgree`: `EndsAgree`.

`EndsAgree` is inductive with the types of the handshake. That a client shows no
more frames than were written to it needs Session's invariant; every step of the
composition is one of Session's, or leaves it alone, but for `AgentWriteStopped`,
which is treated by itself.

`TrustStoreProofs` proves, for any number of commands, clients and identities, from
`TrustAssumption` (the daemon is no command, clients are finitely many):

* `TypeCorrect`: `TypeOK`.
* `OnlyBoundTrusted`: `TrustsOnlyBound`.
* `FileIsDaemons`: `DaemonOwnsFile`.
* `AtRestItParses`: `ParsesAtRest`.
* `PairedStays`: `PairedIsStoredInTurn`.
* `RevokedJudgedOut`: `RevokedGetsInOnlyLate`.

The first two need only to know which processes hold a state (`StateInv`). The
others are promised while commands run one at a time, and are not inductive,
since they speak of the file between commands: `TurnInv` says what the one busy
process knows of the file at each place of its command. It has just read it; or
is about to write it back but for its own client; or has emptied it, and then
what it holds in its hand agrees with the daemon's identity and with every
earlier report. The step lemma is one lemma per action, over one (`TurnStep`) that
leaves of each only the moving process and the file. For the last, `LateInv` says
that a client which waits as "reread" has not been reported as revoked: it was
judged by a file that agrees with the reports, and a revocation reported later
makes it "overtaken".

`FramingProofs` proves, for any JSON texts none of which begins another, any ids and
payloads the encoders accept, any number of frames and either direction, from
`FramingAssumption` (the texts have no control character, ids and payloads keep the
encoders' limits):

* `FramesAreReturned`: `FramesArrive`.
* `NoVainWait`: `NeverWaitsInVain`.
* `LengthsAreUndone`: `LengthsUndone`, from two theorems that range over more than the
  run can: `DecodingUndoes` (both decoders give back every length up to 16 MiB and
  take exactly its digits, whatever bytes follow) and `DecodersAgree` (on any bytes
  at all).

The invariant `StreamInv` says that the wire is the encoded frames one after
another (`WireInv`), that the frames returned are the first of those written
(`TakenInv`), and that the reader stands where the last of them ends, unless the
stream ended just before the newline of a JSON line, which nothing follows
(`ReaderInv`). So what the reader looks at begins with the next frame or is a
beginning of it; one lemma for each kind of frame (`JsonTaken`, `BinaryTaken`,
`ShortTaken`) says what a call then returns. That no text begins another is needed
for that cut: JSON without its newline is taken, and it must be the whole text. For
lengths, a sequence of digits ends at one position only, so the decoders' choice is
the same, and digits times their powers of 128 add up to the length.

`ScrollbackProofs` proves, for any reads and any limits, from `ScrollbackAssumption`
(the bounds are numbers):

* `RingKeepsTheNewest`: `RingIsNewest`.
* `ReplayIsTheNewest`: `ReplayIsNewest`.

Both speak of the end of a call; the invariant says where its loop is. `KeptInv`:
the ring is the last reads, whole, and the one before them does not fit. `LoopInv`:
`total` is the number of bytes between the place the loop has come to and the end
of the output, or the replay's limit once a chunk was cut, and the chunks selected
hold exactly the last `total` bytes.

`TabPaneProofs` proves, for any number of addresses and events, from
`TabPaneAssumption` (the bounds are numbers, the agent has an address):

* `TabTypeCorrect`: `TabTypeOK`.
* `FetchNeverStops`, `ConnectingNeverHangs`, `AttachedIsTold`: the safety halves of
  `FetchRecovers`, `ConnectingEnds` and `AttachedIsTrue`.

Beside the types the first says that there is a view exactly when an address has been
composed, that only a view's holder has a connection, and that only it can be lost.
It is not inductive: a late report may mark a holder as lost, so the invariant
`TabInv` adds that a closed connection of the present holder reports only while that
holder has its view, which `CloseHeld` sees to.

The others say that a tab which waits waits for something. Where the liveness
property promises an end, something is under way that can bring it: a
composition, an effect before its delay, a connection being made, or a closed one
that has yet to report. What is left to fairness is that it happens, and that it
helps. `WaitInv` follows each promise from the step that makes it to the one that
keeps it. `AskInv`: a request that failed leaves an error, whose composition starts
the effect that asks again, also if the tab was hidden meanwhile; it needs that a
request begun anew has its error composed away before it can fail. `TryInv` lists
what can have made a tab connecting (a retry, a new holder, a network that went)
and what then comes of it. `AttachedAttended` is inductive as it stands. The run
checks the liveness properties with three events; these theorems hold for any
number, and are stated in `TabPaneProofs` itself.

Left to TLC, for good, are the liveness properties, whose fairness and ENABLED the
provers do not handle: `EventuallySaved`, `AttachedIsTrue`, `ConnectingTabEnds`,
`TabFetchRecovers`, `ResumeReconnectsHeld`, `ScreenReaches`, `ClientHearsOfEnd`,
`AgentLetsGo`, `SilenceIsReported` and `TasksEnd`. The loops of Scrollback are proved
as steps, not as functions: what a recursive definition computes would need
induction over data, which is out of reach.

## 5. What is not modelled

* Rendering, layout, settings and preferences of the app; HTTP encoding; the SQL
  text; the file of the agent's configuration.
* Cryptography: signatures are taken as unforgeable, nonces as fresh, and a
  binding as what its fields say. iroh, QUIC and TCP themselves: a stream is
  ordered and may break.
* The request-signature middleware (`auth_device.rs`), which no route uses, and the
  events of claimed pairings (`ws.rs`): neither the agent nor the app opens that web
  socket or calls `claim`, so what should become of an event is not in the
  repository.
* The app's pairing screen, which is one coroutine that polls and stops at any
  binding it finds, and the local echo, which is drawn and never sent.
* The words of a pairing code, a table with its inverse.
* The blocking of a PTY whose shell does not read, and a second `Attach` on one
  connection, which no client of this repository sends.

Assumed in `TabPane`, from outside the repository: the factory of an AndroidView runs
once per view on the screen; an answer of the cloud does not come before the
frame that is being composed; where there is no address, the TCP
fallback to 127.0.0.1:7777 finds nothing on a phone; a closed connection
reports its end. `ConnectingEnds` and `ResumeReconnectsHeld` except a view whose holder
was replaced, which is what app_reconnect is about.

## 6. Plan

What the parts above leave open, most worthwhile first:

1. `Pairing`: the pairing screen, the two calls of `pair`, the cloud's table, the
   agent's save and the first connection, composed: when the app says "paired",
   which daemon will accept it; a revocation at the cloud against one at the
   agent. Its parts are in CloudRegistry and TrustStore; what is missing is what
   the screen is waiting for.
2. An abstract output feed ("a client gets a contiguous part of the output") that
   Session and AgentStream refine.
3. `AgentEvents`, once the agent or the app listens to them.
4. Proofs: the output feed of 2, and, as for TabPane, the safety halves of what
   AgentStream and NativeTerminal promise to happen: what is under way when an end
   has let go and the other has not.

## 7. Running

`tlc -workers 2 -config CloudCodes.cfg MCCloudRegistry` (the module of each run is
in `PROJECT.json`), and `tlapm` on each of `CloudRegistryProofs.tla`, `SessionProofs.tla`,
`AgentStreamProofs.tla`, `FramingProofs.tla`, `ScrollbackProofs.tla`,
`TrustStoreProofs.tla`, `NativeTerminalProofs.tla` and `TabPaneProofs.tla`. No run takes more than about three
minutes.
