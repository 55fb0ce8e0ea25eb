# A TLA+ verification of LyreSDK

LyreSDK is a Go client and service SDK: a client dials a server, authenticates,
calls capabilities and hosts handlers, all over one RDGProto connection that
many goroutines share. This directory holds TLA+ specifications of that code,
TLC configurations that check them on small instances, and proofs, checked by
TLAPS, of the results that matter most for every instance. The Go code under
`src/` is the reference for every definition; `PROJECT.json` maps each
definition to the lines it stands for, each property to a mutant of the code
that breaks it, and lists what is hard to test in this code with the properties
that watch over it.

To repeat the checks, in this directory:

    tlc -workers 2 -config Client_controls.cfg MCClient.tla
    tlapm ClientProofs.tla

## 1. The system

| component | source | state it keeps | operations |
|---|---|---|---|
| connection engine | `client.go` | `pending`, `control` and its types, the control and the write slot (`controlLock`, `writeLock`), `done`, `closeOnce`, `authenticated` | `Call`, `Request`, `Send`, `Close`, the goroutine `readLoop`, `shutdown` |
| service lifecycle | `service.go` 69-269 | `connectMu`, `client`, the gate of each connection, a heartbeat goroutine for each | `Connect`, `ConnectContext`, `Close`, `RunPersistent` |
| request dispatch, event callbacks | `service.go` 319-390, `client.go` 269-285, `auth.go` 179-222 | the worker pool, the handlers | `dispatch`, `respond`, `event` |
| authentication | `auth.go` | `authenticated`, `userID`, `token` of the client | `Authenticate`, `Login`, `LoginWithToken`, `LoginAgent`, `Logout`, `Register`, `VerifyEmail` |
| WebSocket stream | `transport.go` 146-316 | `remaining`, `fragmented`, `messageBytes`, `writeMu` | `Read`, `Write`, `frame` |
| dialing | `transport.go` 37-136, `client.go` 110-120 | socket, deadline, AfterFunc, byte limit and reader of one handshake | `Dial`, `DialTransport` |
| payload codecs | `wire/*.go` | none | `Marshal`, `Unmarshal` of some fifty payloads |
| identity objects | `identity_objects.go` | page, cursor and result of one listing; the inventory is the server's | `IdentityObjects`, `AttachServer`, `ListIdentityServers` |
| references | `reference.go` | none | `ParseReference`, `String` |
| custom messages | `wire/custom.go` | a table of schemas, and RDGProto's process-wide one | `Register`, `Unregister`, `ValidatePayload`, `Marshal`, `Unmarshal` |

How they interact. Every operation of a client ends in `send`, which takes the
write slot, arms a `context.AfterFunc` that shuts the client down, and hands a
frame to RDGProto, which writes it on the stream (`websocketStream` or a plain
socket). `readLoop` is the only reader: it routes the answer of a call by
message ID, the answer of a control by its type to the one control under way, an
uncorrelated Error to everybody, and hands unasked messages to a pool of
workers. A handler in the pool may call capabilities through the same client.
A `Service` owns one `Client` at a time and replaces it when it ends.
`Authenticate` holds the control slot over several exchanges and a user
callback.

What is hard about it: answers race with cancellation and with the release of
the slot they are meant for; a write may end anywhere inside a frame; `shutdown`
may be begun by any goroutine at any time and everybody blocked must come out;
the reader itself has to send; the service publishes its connection while the
server may already use it; and two goroutines write on one WebSocket.

What makes each part correct, in a sentence:

* *engine*: an answer goes to whom it belongs or to nobody; no frame follows part
  of one; whoever is canceled or disconnected returns.
* *service*: at most one open connection, none that nobody can close; no handler
  before its connection is published; `RunPersistent` reconnects on its schedule
  and stops when told.
* *dispatch*: slots are given back, requests answered once, and the reader is
  never stuck behind the pool it serves.
* *authentication*: client and server agree on the session, and a code is
  submitted to the challenge it was asked for.
* *stream*: `Read` is the byte stream of the server's data frames; refused is
  exactly what RFC 6455 and `maxFrameBytes` do not allow; frames do not mix.
* *codecs*: what is written is read back; a cut or longer payload shifts no field.
* *dialing*: it ends, a failed one leaves nothing open, and the handshake neither
  takes bytes of the stream nor breaks it later.
* *identity objects*: a listing has everything that stayed active, once, and
  nothing that was never active while it ran.
* *references*: no part of a text is dropped, moved or split elsewhere, and what
  is sent names what the call was to name.
* *custom messages*: what arrives is kept, what is valid can be sent, and the two
  tables agree.

## 2. The modules

    Exchange        what a client promises its callers
       ^  refined by (PromiseSpec, theorem PromiseKept)
    Client          the connection engine         MCClient
    ClientInductive, ClientProofs

    Service         the life of a provider's connections   MCService
    ServiceInductive, ServiceProofs
    Dialing         the handshake below it        MCConnecting (with Service)
    DialingInductive, DialingProofs

    Dispatch        worker pool and reader        MCDispatch
    DispatchInductive, DispatchProofs
    Auth            sessions                      MCAuth
    AuthInductive, AuthProofs
    WsStream        WebSocket framing             MCWsStream
    WsStreamInductive, WsStreamProofs

    Wire            payload layouts            -+
    Custom          custom messages, on Wire    |
      WireInductive, CustomInductive            |
      PayloadProofs                             |
    Reference       capability references       +- MCLibrary
    IdentityList    ListIdentityServers        -+  MCIdentityList
      ReferenceInductive, IdentityListInductive
      LookupProofs

Each module models one part in full detail and the parts below it by what they
promise. Service takes a connection as something that is open until it is not
and, once accepted, receives requests; Dispatch takes `send` as its slot, its
timeout and a write that succeeds or closes the connection; Auth takes the control slot of Client
and adds the fields and the server. What they assume of `send` and `Request` is
what Client and Exchange show. Service takes a dial as a step that ends with its
context at the latest and leaves a connection or none; Dialing shows why.
IdentityList takes a control as one request on the connection and the next
answer or Error on it, which is what Client shows, the exception included.

`X`Inductive holds the inductive invariant of `X`, a conjunction of named parts, and
`X`Proofs the theorems about it (section 4). `PayloadProofs` has the theorems of
Wire and Custom, `LookupProofs` those of Reference and IdentityList.

`MCLibrary` and `MCConnecting` check several modules in one run: a variable `turn`
says whose behaviour it is, and the variables of the others keep an initial value.
The behaviours are the sum of those of the parts, not their product, since the
parts share nothing.

In every module a comment `Mutant of X` marks a definition that no behaviour
uses: it is X with a plausible mistake, and putting it in the place of X breaks
the property `PROJECT.json` names with it.

### Client

An operation is one API call in a goroutine of its own with a context of its
own. `Calls` are correlated (`Client.call`), `Controls` are serialized
(`Client.Request`), `Posts` await nothing (`Client.Send`). `pc` follows the
goroutine through `send` (`locking`, `locked`, `writing`, `written` or `broken`,
`failing`) and the final `select` (`waiting`, for a control that gives up
`expiring`, then `leaving`, which is the deferred functions). `after` is the
AfterFunc of the write window, which may fire late. `chan[o]` is the reply
channel of capacity 1. `shut` follows the one `shutdown` through its critical
section, `conn.Close` and `close(done)`, because a goroutine can be anywhere in
between; `sync.Once` makes later callers wait for the first. The reader looks up
a channel under `mu` (`ReadAnswer`) and fills it without (`Deliver`): the two
are separate actions. `torn` records that the stream ends in part of a frame.

The peer answers an operation at most once, with its answer or with an Error,
in any order, or never; `FailRead` is a lost connection or a message that does
not decode. An RDGProto connection does not lose, duplicate or reorder bytes, so
nothing else happens to an answer. Which answers `readLoop` already buffered
when the connection is closed is left open: it may still read any of them.

`Exchange` has no goroutines, locks or channels. It says: an operation goes on
the wire at most once, never on a closed connection, never behind part of a
frame; it returns once; what it returns as an answer answers something that was
sent, is returned to nobody else, and for a call is its own. Client implements
it with `open <- ~Severed`: the connection is closed for Exchange when
`conn.Close` has returned, not when somebody has begun to shut down.

### Service

`pc` follows each goroutine that connects through `ConnectContext` under
`connectMu`, then through the loop of `RunPersistent`. `hooked`, `accepted`,
`authed` and `ready` are the connections past each stage of the set-up;
`request[c]` is one request of the server on connection `c` and whether it is
held at the gate; `beat[c]` is the heartbeat goroutine. `ended` is a history
variable, the attempts that ended since a connection was last up, with which
`BackoffFollowsSchedule` states what the delay must be without repeating the
code's arithmetic. Dialing can fail at every step, the server can refuse, and a
connection can end between any two steps.

### Dispatch

`stage[m]` follows one message of the server: a request whose handler may make a
nested call (`Nesting`), a request that does not parse or does not decode, an
event. A message is handled by a worker, which holds a slot of the pool, or by
`readLoop` itself (`reader = m`), which answers bad requests and those that find
the pool full, and cannot read meanwhile. `dropped` are the responses given up
because their timeout ended the wait for the write slot (`respond` ignores the
error of `send`).

### Auth

A token and its user are named by the login they were given to. `slot` and
`entry` are the control slot and the channel of the exchange under way; `note`
is what a goroutine carries from one exchange to the next: the challenge ID of a
login, the token a logout read before it had the slot. The server keeps one
session (`served`) and one `challenge` for the connection; this much can be seen
from how the client uses it. It may challenge again, accept, refuse, send an
Error, answer with something that does not decode, or not answer.
`overlapped` are the logouts during which a login succeeded: `Logout` clears the
client after it has given the slot back, so such a login may be forgotten, and
`SessionKept` excepts it.

### WsStream

`stream` holds frames the server sent with their payload behind them; a data
byte is its own position in the stream, which makes order and loss visible. The
three codings of a length keep their structure with smaller boundaries (`Short`
for 125, `Long` for 65536, `Limit` for `maxFrameBytes`). `out` is what was put
on the connection, each frame `partial`, `whole` or `torn`. `writeMu` is `mu`.
`writer` is whoever holds the write slot of the client; between its failed write
and the `shutdown` of `send` there is a state, `failed`.

### Wire

Each payload is two lists of fields, what its `Marshal` writes and what its
`Unmarshal` reads, in the order of the code, with the optional tails, counted
lists and dropped errors of the code. A small machine writes a payload, cuts it
at any byte or appends to it, and reads it. Values differ from field to field,
so that two strings in the wrong order are noticed. One field of a payload may be
longer than the 4096 bytes of `identity_objects.go`: `Marshal` refuses it if it is
metadata, `Unmarshal` in either case. `marks` and `received` are history: what was
left to be written and how long the data was, before each field and at the end, and
how many bytes arrived. The lists have up to 100 rows, the smallest limit of any list
(`WireAssumption`).

### Custom

`DynamicPayload` writes the fields of a schema with the codings of Wire. `schema`
and `fields` range over every schema of two fields and every map of Go values
for it, a wrong type, `nil` and a missing entry among them; the Go values are a
constant, `GoValues`. A `Marshal` is one step per field, and `ends` records where
each ends. An `Unmarshal` is one step per field too, because each may fail by itself:
an optional field that cannot be read becomes zero, and how many bytes a failed read
has used up is left open.

`CustomMessageRegistry` keeps `schemas`; `table` is RDGProto's. `Register` is its
checks, its write to the one and its write to the other, three steps, and
`Unregister` two. A registry has one goroutine, since its map has no lock.
`disturbed` are the types that two registries registered at a time, or that one
unregistered without having registered it: the code does not prevent either, and
`TablesAgree` speaks of the other types.

### Reference

A text is a sequence of tokens, one for each character the parser tells apart
and one for runs of others. Two digits that are not zeros in front are the most a
version holds; they stand for 32 bits. A text has up to three parts at its `@`s; what
is behind a third `@` is one part too many. The actions extend a text part by part and then make
one of the calls of the service with it; `meant` is the Reference the call builds,
`sentText` what goes on the wire.

### IdentityList

`stage`, `page`, `after` and `out` follow `ListIdentityServers`; `using` is the
connection `Service.connection` returned for the page, which may be gone when the
request is sent. `asked` and `answers` are the two directions of that connection.
The server serves a page from the inventory of that moment. `lasting` and `shown`
are history: the objects active all the time since the listing began, and at some
time. `leftover` says that an answer to an earlier listing was still due. Pages are
what is behind the cursor, put in order (`InOrder`): the element with `k` members of
the set up to it is the `k`-th.

### Dialing

`dial` follows `Client.Dial` through `DialTransport`. A byte of the server is its
position, so what bufio has taken (`taken`), what the stream reads next (`next`)
and what it has read (`heard`) can be compared. `watcher` is the AfterFunc,
which may have fired and not yet run. `response` is how long the handshake's
response is, up to one byte beyond the limit, and whether it is right.
`endedInTime` is history: whether the context had ended when `DialTransport`
returned. The context can end between its check and `stop`; the AfterFunc then
closes a stream that was returned as good, and the first read fails.

## 3. What the runs check and show

| run | instance | what it shows |
|---|---|---|
| `Client_controls` | 2 controls of one type, 1 post | the inductive invariant `IInv`; `StaleNeedsError`; `TornIsFinal`; Client implements Exchange (`PromiseSpec`) |
| `Client_live` | 1 call, 1 control, fair | `CallsCorrelate`, `NoAnswerLost`; whoever is canceled (`CancelUnblocks`) or disconnected (`DisconnectUnblocks`) returns |
| `Service_safe` | a `Connect`, a `RunPersistent`, a `Close`; 2 connections, 3 delays | `SInv`, `OneConnection`, `NoLeak`, `GateOrder`, `RunnerLeavesNothing`, `BackoffFollowsSchedule` |
| `Service_live` | a `Connect` and a `RunPersistent`, 1 connection; one dial; fair | `GateOpens`, `RunnerStops`, `RunnerReconnects`; `DialEnds`, `NothingLeftBehind`, `StreamIntact` |
| `Service_beat` | one `RunPersistent` | *violated*: `HeartbeatsGoOn`, finding 2 |
| `Dispatch_pool` | 2 nesting requests, 2 bad ones, a Ping; pool of 2, fair | `PoolInv`, `AnsweredOnce`, `EventsRunOrClose`, `ReaderReturns`, `NestedAnswered`, `SlotsReturn` |
| `Auth_session` | 2 logins, 1 logout, 2 challenges, 1 fault, fair | `SessionInv`, `SubmitNamesChallenge`, `SessionKept`, `SlotReturns` |
| `Auth_device` | a server that sends NewDeviceMFA | *violated*: `SubmitNamesChallenge`, finding 3 |
| `WsStream_duplex` | 3 frames in, 2 out, the answers to control frames | `WritersInv`, `InOrder`, `RejectsExactly` |
| `WsStream_torn` | 1 frame in, 1 out | *violated*: `FramesWhole`, finding 4 |
| `Library`, Wire | every registered payload, up to 2 rows | `WholeIsKept`, `CutIsNoticed` |
| `Library`, Custom | every schema of 2 fields; 2 registries, 2 types, 3 registrations | `CustomIsKept`, `TablesAgree` |
| `Library`, Reference | texts with parts of up to 3 tokens, arguments of up to 2 | `ParsedIsText`, `SentIsMeant` |
| `Library`, IdentityList | 5 objects, 2 pages of 2; 2 listings, 2 changes, 1 fault | `FreshIsRight` |
| `Listing_stale` | 3 objects, 2 pages of 2; 2 listings, 1 change, 1 fault | *violated*: `NeverTruncated`, finding 1 |

Some of these are conjunctions of named parts, which the modules state one by
one: `IInv` and `SInv`, the inductive invariants, with `TypeOK`; `PoolInv` (`TypeOK`,
`SlotsMatch`), `SessionInv` (`TypeOK`, `ViewIsServed`), `WritersInv` (`TypeOK`,
`SenderStops`); `StreamIntact` (`StreamBegins`, `StreamLives`); `WholeIsKept`
(`RoundTrip`, `LongerIsSame`), `CutIsNoticed` (`CutReadsPrefix`, `CutFails`);
`CustomIsKept` (`ValidMarshals`, `ArrivedIsKept`, `RequiredIsKept`); `FreshIsRight`
(`FreshIsComplete`, `FreshIsActive`, `FreshListsOnce`, `LimitIsReal`). `PROJECT.json` lists
mutants for the parts named here; one, a wrong cursor, breaks both `FreshListsOnce`
and `LimitIsReal`.

TLC's coverage of `Library` and `Service_live` shows every action of the modules
they combine taken, except `Close` in Service, which is in `Service_safe`.

**The bounds and why they are enough.** A stale control answer needs two
controls and something that makes the server send an Error: the post. A torn
frame needs two writers. The two-call case of correlation is covered by the
proof, which has no bound; the run has a call beside a control, whose answers
are the others it could take. A leak or a second connection needs two
connections and two goroutines that connect, with `Close` beside them; the two
connections are dialed once each, so a run sees one reconnection, and three
delays let the backoff run past the end of its schedule. A pool of two can be
full of handlers that wait for nested answers, with `readLoop` in the middle of
refusing a further request; one of the bad requests closes the connection, the
other is answered by the reader. Two logins and a logout are what it takes for
one exchange to be between the rounds of another. Three frames are a fragment, a
control frame in it and its continuation, or a message whose continuation goes
past the limit; boundaries at 1, 3 and 3 keep every coding of a length
with at least one length of its own and one on each side. Up to two rows make a
list empty, single, and long enough that a row can be read from the next.
Schemas of two fields have every pair of neighbours, so a field read out of step
has a field to shift. Two registries and three registrations make both collisions
possible, with a registration after them; type 20 is below the custom range, 21
its first. Parts of three tokens are `a.a` with a dot too many or too few; two
parts behind the capability are as many as the parser takes. Two pages of two
with five objects have a full last page, a short one, an empty one, and one
object beyond the limit; two changes revoke and restore one object, or touch
two. A handshake of up to four bytes with a limit of three, and three bytes
behind it, let bufio take none, some or all of the stream's first bytes, and stop
at the limit inside a response that is too long.
Symmetry is used only where a run checks no liveness.

**Deadlock** is checked for Client, where `Finished` is the one end. Elsewhere
the bounds end the behaviours (no connection left to dial, no message left to
read), so `CHECK_DEADLOCK FALSE`; that nobody waits in vain is what the liveness
properties say.

**Fairness.** Go runs every goroutine that can run, so each operation, callback
goroutine, the steps of `shutdown` and a delivery under way are weakly fair.
Nothing else is assumed: callers need not call, contexts need not end, the peer
need neither read nor answer, and a blocked write need not succeed. In Client, a
read fails for certain only once the connection is closed. In Service, dialing
and authentication end because their context does (30 seconds, `service.go`
125-131 and 242); the server need not accept. In Dialing, connecting ends
with the context or the dialer's 30 seconds (`transport.go` 60), and I/O ends once
the socket is closed or past its deadline; nothing is assumed of the server.
In Dispatch, `respond` and the
Pong are bounded by `Config.Timeout`; that handlers return is assumed only in
`SlotsReturn`, as its antecedent (`HandlersReturn`): README.md:102-103 asks it of
them. In Auth, callbacks return, since nothing the SDK does can end one.

## 4. What is proved

Every theorem is about the specification the runs check, and holds for every
value of the constants its module's assumption allows. None assumes fairness.

| module | assumes | theorems, and the property each states |
|---|---|---|
| `ClientProofs` | operations, `NoOp` and `Failure` distinct | `Invariance` (`IInv`), `TypeCorrect`, `Correlation` (`CallsCorrelate`), `ControlFreshness` (`StaleNeedsError`), `AnswersKept` (`NoAnswerLost`), `FrameBoundaries` (`TornIsFinal`), `PromiseKept` (`PromiseSpec`: Client implements Exchange) |
| `ServiceProofs` | goroutines, connections and delays as `ServiceAssumption` has them | `ServiceInvariance` (`SInv`), `ServiceTypes`, `Leakless` (`NoLeak`), `AtMostOne` (`OneConnection`), `NothingLeft` (`RunnerLeavesNothing`), `GateHolds` (`GateOrder`), `BackoffOnSchedule` (`BackoffFollowsSchedule`) |
| `DispatchProofs` | kinds of message disjoint, capacity a positive number | `DispatchInvariance` (`DInv`), `PoolHolds` (`PoolInv`), `OneAnswer` (`AnsweredOnce`), `NoEventLost` (`EventsRunOrClose`) |
| `AuthProofs` | logins and logouts distinct | `AuthInvariance` (`AInv`), `SessionHolds` (`SessionInv`), `CodeNamesChallenge` (`SubmitNamesChallenge`), `NothingForgotten` (`SessionKept`) |
| `WsStreamProofs` | `Short`, `Long`, `Limit` in order, codes above them (`WsAssumption`) | `WsInvariance` (`WsInv`), `WritersApart` (`WritersInv`), `StreamInOrder` (`InOrder`), `RefusesExactly` (`RejectsExactly`) |
| `DialingProofs` | a limit and bytes behind the response | `DialInvariance` (`DialInv`), `FailedDialLeavesNothing` (`NothingLeftBehind`), `StreamHandedOver` (`StreamIntact`) |
| `LookupProofs` | a page and a limit of at least one; bounds on texts are numbers | `ListInvariance` (`ListInv`), `FreshListing` (`FreshIsRight`); `RefInvariance` (`RefInv`), `ParsedKept` (`ParsedIsText`), `SentMeant` (`SentIsMeant`) |
| `PayloadProofs` | registered types, up to 100 rows (`WireAssumption`); registries and types, Go values of their sizes (`CustomAssumption`, `GoAssumption`) | `WireInvariance` (`WireInv`), `WholeKept` (`WholeIsKept`), `CutNoticed` (`CutIsNoticed`); `PayloadInvariance` (`PayloadInv`), `PayloadKept` (`CustomIsKept`); `RegistryInvariance` (`RegistryInv`), `RegistriesAgree` (`TablesAgree`) |

One theorem has a hypothesis besides: `CodeNamesChallenge` is about a server that
issues no new-device challenge. Without it the statement is false, as finding 3
shows; the runs `Auth_session` and `Auth_device` are the two sides of it.

None of these properties is inductive by itself. What each needs:

*Client.* That a
call gets its own answer depends on what the reader may be holding
(`RouteInv`); that no answer is returned twice needs an answer to be in one
place at a time, still owed, held by the reader, in one channel, or returned
(`PlaceInv`). Freshness is the subtle one. `FreshInv` says that as long as no
control was failed by an Error, every answer in flight to a control belongs to
the control that has the slot, or the connection is down and the one that has
the slot is past awaiting anything. It survives a timeout because the slot is
given back only after `shutdown` has returned (`EndInv`), and a control that is
registered after that never gets its frame on the wire. Frame boundaries rest on
`TornInv`: behind part of a frame the write slot stays taken until the
connection is severed.

*Service.* `LockInv` makes `connectMu` a lock. `AloneInv`: from
its check to its publication the holder is alone, since nobody else sets
`client` and a connection that is closed does not open again. `UsedInv` says a
connection not dialed yet is referred to nowhere, so a fresh dial cannot be
anyone's. `RunnerInv` follows the two connections a runner may leave behind, the
one it made and the one it watches, which need not be the same. `GateInv` carries
what `ConnectContext` did, stage by stage, to the moment it opens the gate: a
connection whose gate is open was published, hooked and authenticated, or is
closed. `ScheduleInv` says at which point of the loop the attempt and the ends
counted so far differ, by one and in which direction.

*Dispatch.* `SlotsMatch` is nearly enough for the pool; its capacity needs
`workers` to be a finite set, because a slot is counted. `StageInv` says by whom a
message in each stage is answered, readLoop or the goroutine with its slot, so
that no step of the other touches it, and `AnswerInv` that no response is written
before the one that finishes the message.

*Auth.* `FlightInv`: while the connection is open and the server makes no fault,
at most one frame or answer is under way, it is that of the holder of the control
slot, and it says what the server has decided. A timeout does not break it, since
`Expire` closes the connection with the slot still taken. `ChallengeInv` adds
that a login past its challenge holds the one the server waits for, `ViewInv`
and `KeptInv` where client and server may differ: while an acceptance or its
effect at the client is due. A logout that runs is the delicate case: the server serves the token it has read, or
nobody, as long as no login succeeds meanwhile, so an accepted logout
leaves it serving nobody and `Clear` forgets nothing.

*WsStream.* For writers, `TornInv`: a goroutine whose frame is torn has failed or
the connection is closed, so the torn frame is the last of its writer, and
`writeMu` is held by whoever wrote the last frame. For `Read`, `PendingInv`
relates the whole frame at the head of the stream to what `Read` remembers of the message so far,
for each of the codings a length may have; it has to carry that the server
conforms exactly if that frame is not to be refused. `TakenInv` says that what
is left of a frame whose header was read continues the stream.

*Dialing.* `SocketInv` says who can still close the socket at each point,
`WatcherInv` when the AfterFunc can, and `ReaderInv` that what is left of the byte limit
covers whatever the server may still send, so a good stream does not end at the
limit of its handshake.

*IdentityList.* A page is true only of the moment it was made, so `Right` says what
remains true of it while it is on its way: what lasts only shrinks, and what exists
or was shown only grows. `UnderwayInv`: a fresh listing has its own request under
way, or the one page that answers it, never two. `GatheredInv` is what
the loop has established behind its cursor, in order, with the count
that makes a reported limit real. Underneath are lemmas about `InOrder`, that it
lists every member of a finite set once and increasing (`Ordered`). They take
induction over the size of the set, which is stated without an operator
parameter: a set of numbers that has 0 and each successor is `Nat` (`Induction`, from
the well-foundedness of `<`).

*Wire.* The layouts are data, and one lemma is about them: `PayloadsConform`, payload
by payload, that `Unmarshal` reads the fields `Marshal` writes, in their order, with
codings that fit (`Matches`), and drops the error of a last field only. The rest is
about any two lists that match. `MarksInv` keeps what was left to be written behind
each field, and `GotInv` says where `Unmarshal` can be: `InStep` (what it has left to
read matches what `Marshal` had left at that place, and the data is what lies behind
it), `Starved` (the payload was cut and no data is left) or `Passed` (behind a last
field whose error was dropped). A step keeps this because a field that arrived whole
is read as it was written (`ReadsWhole`), a cut one is not (`FailsCut`), and the fields
that follow one match again, the rows of a list and an omitted server included
(`FollowingMatch`). Only long texts of identity payloads are refused (`FieldDecodes`).

*Custom.* Of payloads, `InStepInv`: as long as every field read has arrived whole,
what is left is what stands behind that field of the bytes that arrived. So the
first read that fails is of the field that was cut, and `ReadInv` has what
`CustomIsKept` asks of the fields before it. That a refused `Marshal` had a field it
cannot write is in `WrittenInv`. Of registries, `OwnInv`: a schema belongs to the registry it was given to and to no
other, so `Unregister` does not take another's entry out of the table, except
for a type that is `disturbed` by it. `StepInv` says how far a registration is.

*Reference.* `RefInv` says how what was meant and what was sent are made of the
text; the work is in two lemmas about the parser, for texts of any length. `ParseIs`: a
text that was taken apart and is written again is itself, but for white space and
the zeros before its version. It puts together what is known of `Parts` (`PartsAre`), of
one part (`ParsePartIs`) and of numbers (`Parsing`). `PrintedParts`: a Reference whose
parts are identifiers is read as it was written, since its first `@` and its first dot
are those `String` put there (`PartsBehind`, `ProviderRead`, `VersionRead`). Neither takes
induction: a text has three parts at most, and the place of a token is a least
element (`Least`). Concatenation is hidden behind `Cat` where only its
associativity matters.

`IInv` and `SInv` are invariants of runs; TLC finds the other inductive invariants to hold on the
instances of the runs as well, named in the place of a configuration's `INVARIANTS`.

Every safety and action property of a passing run is stated by a theorem.

**Only model-checked** is liveness, which needs fairness and `ENABLED`, beyond the
provers here: `CancelUnblocks`, `DisconnectUnblocks`, `GateOpens`, `RunnerStops`,
`RunnerReconnects`, `DialEnds`, `ReaderReturns`, `NestedAnswered`, `SlotsReturn`,
`SlotReturns`.

No module has a RECURSIVE operator.

## 5. Findings

1. **A listing can return a page of an earlier one as the whole inventory**
   (`Listing_stale`; `identity_objects.go:57`). An Error names no request and fails
   the control under way (`client.go:228`), which frees the slot with its own
   answer still to come and the connection open. The next listing's first request
   takes that page; a short one ends it, without what was attached since.
   `identity_objects.go:51-52` says that "a caller never receives a silently
   truncated authorization inventory", README.md:99-100 that control exchanges are
   serialized and close on timeout "to avoid matching stale responses". Theorem
   `ControlFreshness` shows an Error is the only way, and `FreshIsComplete` that
   nothing else truncates a listing.
2. **Heartbeats stop on an open connection** (`Service_beat`; `service.go:203`). The
   heartbeat goroutine ends on any error of `send`, also when its timeout ended
   the wait for the write slot, which leaves the connection open.
   README.md:78-79 says `RunPersistent` sends heartbeats.
3. **A NewDeviceMFA challenge is answered with the wrong ID** (`Auth_device`;
   `auth.go:35`). It is decoded as an `MFARequiredPayload`, whose third string is
   the ID; in the `NewDeviceMFAPayload` that was sent it is the device text.
4. **A control frame can follow a torn frame** (`WsStream_torn`;
   `transport.go:262`). `frame` gives `writeMu` back after a write that failed part
   way; a Pong or close echo that waits for it is written inside the torn
   frame's payload, before `send` has shut the client down.

## 6. What is not modelled

* JSON encoding and decoding of inputs and results, and the JSON inside
  capability declarations: the data of one exchange.
* Time. A timeout is a context that may end at any moment; delays have an order,
  not a length. That a Pong can wait for `writeMu` for `WriteTimeout` is
  therefore visible only as a wait that ends.
* Masking, UTF-8 and close-code checks of the WebSocket adapter: one flag `bad`.
* RDGProto and the Lyre server: external, as far as the SDK relies on them.
* In Reference, the limit of 100 characters, and the 32 bits of a version, for which
  two digits stand. In Wire, the limits on list lengths (100 objects, 10,000 users;
  `Marshal` of an `AdminResponsePayload` does not check its own) and on the bytes of an
  identity payload: lists stay within them. In Dialing, which check of the URL or the response failed, and TLS.
* `Register`, `VerifyEmail`, `SendMessage`, `Ping`, `AttachServer`: one control or
  post of Client each, with no state of their own.
* `extensions.go`, `caller.go`: declarations. The examples.

Simplifications that matter when reading the models: operations happen once (a
new call is a new operation); a message ID is the call's identity, since
`requestID` draws it from `crypto/rand` and two that are equal are not
considered; handlers and callbacks are registered before the connection is used.

Corners the models show, and that their properties leave room for because the
code says nothing else:

* a required custom field behind an optional one may be read out of step, as long
  as bytes are left (`wire/custom.go:71-73`; `RequiredIsKept`);
* a number too large for a uint32 field loses its upper half (`wire/custom.go:104`;
  `ArrivedIsKept`), and an absent optional field of an unknown type passes
  `ValidatePayload`, not `Marshal` (`ValidMarshals`);
* a reference is sent as it was given, with white space and zeros before its
  version; a provider with a dot, an argument with `@`, and an empty provider with an
  implementation name something else than the arguments say (`SentIsMeant`);
* revoked objects count to the limit of a listing, and an inventory that ends with
  a full tenth page is reported as exceeding it (`LimitIsReal`);
* identity strings beyond 4096 bytes are written and then refused by the peer
  (`RoundTrip`);
* a dial whose context ends in its last steps may return a stream that is about to
  be closed (`StreamLives`).

## 7. Plan

Done, in this order: Client with Exchange and its proofs; Service and its
proofs; Dispatch; Auth; WsStream; Wire; IdentityList; Custom; Reference; Dialing;
then the proofs about Dispatch, Dialing, Custom's registries, WsStream, Auth,
IdentityList, Custom's payloads, Wire and Reference.

Next, to extend the model: a composition of Service with Client's promise, in
which the heartbeat and the requests of a connection go through Exchange.

Next, to prove: what that composition promises, from `PromiseKept` and the
invariants of Service. The liveness properties stay with TLC.
