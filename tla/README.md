# A TLA+ verification of udp2raw-ng

udp2raw-ng carries UDP datagrams through a tunnel of authenticated frames. A
client engine and a server engine, both synchronous state machines, agree on a
session with a PSK handshake, seal records in it, and restore conversations in
a new session when the client reconnects. A managed service runs an engine on
Tokio tasks, and a transport (in memory, or raw sockets that look like TCP)
carries the frames. This directory models all of these, checks them with TLC on
small instances and proves part of them with TLAPS for all instances.

## 1. The system

| Part | Code | State | Operations |
|---|---|---|---|
| Replay window | `replay.rs` | highest number, bit words | `accept`, `shift_left` |
| Record layer | `record.rs` | next packet number; replay window | `seal`, `open` |
| Handshake messages | `handshake.rs` | none | create, verify, cookie, credential |
| Wire format | `protocol.rs` | none | encode, decode |
| Client engine | `engine.rs` 116-866 | state, handshake, session, conversations, queue | `TunnelEvent`s |
| Server engine | `engine.rs` 868-1525 | pending, sessions, resumable, rate buckets | `TunnelEvent`s |
| Rate limiter | `engine.rs` 1481-1519 | a token bucket per peer | hello, timer |
| Handles | `engine.rs` 155-216 | two maps and a counter per session | allocate, bind, remove |
| Managed service | `udp2raw-ng/src/lib.rs` | channels, routes, tasks | select loop, receiver tasks, shutdown |
| In-memory transport | `net/memory.rs` | two bounded queues, wakers | send, poll, drop |
| FakeTCP transport | `net/linux.rs` | paths, sequence numbers, queues | send, poll, receiver thread |
| Configuration, ids, errors, crypto, secrets, CLI | the rest | none that changes | |

The service calls an engine under one lock, so a handler of an engine is atomic;
what interleaves is the handlers of the two engines, the network, the timers and
the clock. Around the engine less is atomic: the service executes the returned
actions one by one while other tasks run, and both transports are shared between
threads. The behaviours that are hard to test are frames lost, repeated or
overtaken between handlers, a path change or an expiry in the middle of a
handshake, two handshakes that compete for one session, replies that arrive while
a route is moved, a wake-up or a shutdown between two polls, and segments of an
earlier connection. `PROJECT.json` lists these hazards line by line.

## 2. The modules

| Module | Models |
|---|---|
| `ReplayBits` | the word vector: `get`, `set`, the effect of `shift_left` |
| `ReplayWindow` | `accept`, with a history of what it granted |
| `ReplayShift` | `shift_left`, one step per loop iteration |
| `ReplayFilter`, `ReplaySpec` | the abstract filter: a set of accepted numbers |
| `RecordLayer` | `seal` and `open` of one direction, on top of the three above |
| `TokenBucket`, `RateLimit` | the rate limiter, and its use by several peers |
| `Wire` | clock, frames, cookies, credentials, records, network |
| `Maps`, `ConversationHandles` | partial maps; `SessionConversationHandles` |
| `ClientEngine`, `ServerEngine` | the engines, one action per event and outcome |
| `Tunnel` | both engines on the network, and the properties |
| `SessionRegistry` | abstract: what the server engine promises its host |
| `UpstreamRoutes` | the server service on `SessionRegistry`: routes and receiver tasks |
| `MemoryTransport` | the in-memory transport, one step per critical section |
| `ServiceTasks` | loop, poller and sender of a service on `MemoryTransport` |
| `PacketPipe` | abstract: a bounded FIFO pipe that delivers |
| `FakeTcp` | both ends of the FakeTCP transport, hosts and receiver threads |
| `MC*` | instances for TLC |
| `*Proofs` | theorems |

Three refinements hold the parts together:

* the replay window implements `ReplaySpec`, whose verdicts `Wire` uses;
* the server engine implements `SessionRegistry`, on which `UpstreamRoutes` runs the
  service, so that the service is checked against everything the engine may do
  without its clock, keys and frames;
* the in-memory transport with the tasks that poll it implements `PacketPipe`.

How the state corresponds to the code:

* **Variables** carry the field names of the structs (`by_peer`, `pending`,
  `resumable`, `route_tasks`, `pending_packets`, ...). History variables
  (`datagrams`, `dropped`, `refused`, `delivered`, `upstream`, `replies`, `admitted`,
  `sealed`, `arrived`, `produced`, `handled`, `forwarded`, and `sequenced` and
  `accepted` of a FakeTCP path) record what happened; no guard but a bound reads
  them.
* **Network.** `c2s`, `s2c` and `net` hold everything ever sent. Any of it may be
  delivered at any time, again or never: this covers loss, duplication and
  reordering. A client frame carries the path (`PeerId`) it was sent from.
* **Cryptography is perfect.** Cookies, credentials and tags are records of what
  they cover, and exist only if an engine made them. A session key is the
  transcript it is derived from. `RecordLayer` delivers records also with one wrong
  header field.
* **Random values** (hello, session and conversation ids) are counters: they do
  not collide. A failing random source is modelled where the code handles it
  (`begin_reconnect`); elsewhere the event fails and nothing changes. Initial
  sequence numbers of FakeTCP are constants, far enough apart.
* **Payloads** are the number of the datagram or frame, so that histories can be
  compared; a FakeTCP frame has a length of one or two.
* **Opener.** `Wire` keeps the set of opened packet numbers and uses the verdict
  of `ReplayFilter`; that the bit vector gives this verdict is theorem `Implements`.
* `expires_at` of a server session is always its last activity plus the idle
  timeout, so only the activity is kept. `attempts` saturates at the limit it is
  compared with. An event that returns an error without changing anything is no
  step; one that returns an error after it changed something (a record opened
  and refused) is. `HandleEarlyRecord` is such a step of the code that no frame of
  the modelled server takes: it seals nothing but the acknowledgement before the
  client's first record. `Close` records are left out, because no engine sends one.
* **Tasks.** A step of a task goes from one await or lock to the next. A task that
  waits in `select!` hears `notify_waiters`; one that is elsewhere does not, and a
  notice that loses against another ready branch is gone. An aborted task runs on
  until the runtime cancels it. The transport's mutex is held while `send` calls a
  waker, which is why the poller cannot run then. In `ServiceTasks` the engine is
  left open (a frame, none, or an error); in `UpstreamRoutes` it is the registry.
* **FakeTCP.** A host call flushes, releases the lock and takes it again; the
  receiver thread may run in between. A raw send belongs to the step before it,
  because a delay or an error of the socket is one of the network.

## 3. The runs

All runs take at most three minutes. Deadlock is checked everywhere but in three
runs whose subject may really stop: a service that has ended (`service_tasks`,
`upstream_routes`), and two FakeTCP hosts that have nothing more to send, because
nothing is retransmitted (`faketcp`).

| Run | Question | Properties |
|---|---|---|
| `record_layer` | do sealer, opener and window keep numbers unique and in step? | `WindowMirrorsHistory`, `NeverAcceptedTwice`, `ShiftsAllBits`, `NumbersNeverReused`, `WindowFollowsSealer`, `ImplementsFilter` |
| `rate_limit` | is the rate bounded although buckets are forgotten? | `RateBounded` |
| `handshake` | do handshakes with cookies and retries end on both sides? | `HandshakeEnds`, `PendingEnds` |
| `roaming` | two paths compete for places and sessions, which go stale; a queue that fills, expires and is given up | `TypeOK`, `SessionIdsExclusive`, `WithinLimits`, `ClientNonceUnique`, `DatagramsAccountedFor` |
| `resumption` | three peers for two conversations, handles bound late, two reconnects, resumed or not | `NoCrossTalk`, `WithinLimits`, `SentInOrder`, `DeliveredOnce`, `ServerNonceUnique` |
| `expiry` | close, expiry and retention on both sides; the promise to the host | `ClientHandlesConsistent`, `ServerHandlesConsistent`, `KeysAgree`, `ConversationOwnedOnce`, `ImplementsRegistry` |
| `service_tasks` | do the tasks of a service lose a wake-up, a frame or their end? | `NoLostWakeup`, `FramesAccountedFor`, `ImplementsPipe`, `PollerGoneEndsService`, `StopReleasesTransport` |
| `upstream_routes` | do routes and receivers follow the engine? | `RoutesMirrorEngine`, `OneReceiverPerRoute`, `DeadReceiversCounted`, `RepliesStayWithConversation`, `MovedAtomically`, `StopEndsReceivers` |
| `faketcp` | are frames delivered in order, and do the ends agree? | `TypeOK`, `FramesInOrder`, `SequencesAgree`, `ParkedOnlyWhenEmpty`, `EstablishedTogether` |

What the runs show, beyond the names:

* `WithinLimits` is asked twice. In `roaming` the limits on pending handshakes, on
  sessions and on the queue are reached; in `resumption` there are more local peers
  than conversations on either side, so that the client refuses and drops for lack of
  room, also in the middle of a flush, and the server refuses data whose handle it
  does not know yet.
* `RoutesMirrorEngine`: although the service learns of conversations only through
  actions, the route table is exactly what the engine holds, in sessions or for
  recovery, whenever the loop waits. `MovedAtomically` is the promise of `lib.rs:255`.
* `DeadReceiversCounted` is the most that can be said of receivers that end at an
  error while their route stays: the counters show it.
* `PollerGoneEndsService` says why most shutdowns work although the loop may miss
  the notice: the poller hears it, drops its channel and the loop ends.
* `FramesInOrder` holds across a restart of the client on the same address, resets
  and stale segments; progress is not claimed, see the disagreements.

**Bounds.** The replay window has 5 bits in words of 2 (three words, one unused
bit) and packet numbers end at 10, so the window moves by less than, exactly and
more than its width and the sealer runs out. The rate limiter sees 13 ticks of
time for a burst of 2 and an interval of 3, more than a full retention period,
with two peers for one place in the table. The tunnel runs bound hellos, session
ids, datagrams, replies and the clock (`Max*`, `HostHorizon`); two hellos and two
session ids give one reconnect with one competitor (three ids in `roaming`, three
of both in `resumption`, for a second reconnect). `resumption` has three local
peers and three datagrams for limits of two conversations and two places in the
queue, and room for two sessions on the server, so that a reconnect that is not
resumed is established beside the session it left; `roaming` has two datagrams for
a queue of one, and a client that repeats its hello under the new path or gives up. Timeouts are one
to three ticks where the run is about them and out of reach (9) where it is not,
so that each run asks one question. Cookies are required in `handshake`, which has
one path; two paths occur in `roaming`, without cookies. `service_tasks` has
channels of one and a transport of two places, so that each of them fills, with
two frames in and three out. `upstream_routes` has two sessions and two
conversations, hence one migration with up to two routes, and two replies, one
of which may be in the hands of a task that is replaced. `faketcp` restarts the
client once, with sequence numbers modulo 16 whose first connection wraps, three
frames from the client (one more than a queue holds), one from the server, and
one reset. The properties compare pairs of frames, conversations, sessions or
tasks, and pairs occur.

**Symmetry.** `resumption`, `roaming` and `rate_limit` treat peers and paths as
interchangeable; they check invariants only.

**Fairness.** In the tunnel `FairSpec` assumes that the clock advances and that
both timers fire. Both services call `TimeAdvanced` from an interval of 50 ms in
their select loop (`lib.rs` 190 and 280), and nothing else is assumed: no frame is
ever delivered for sure. `PendingEnds` leaves out handshakes begun at the very end
of the modelled time, and a server that has panicked. In `ServiceTasks` every task
that can run does (weak fairness, what the runtime gives), and a branch of the
loop's `select!` that is ready again and again is taken some day (strong fairness
of `MainPacket` and `MainStops`), because `select!` picks among ready branches at
random. The peer only keeps polling and calling the wakers it took; it need not
send. In `UpstreamRoutes` only the cancellation of aborted tasks is fair.

**Mutants.** Beside a definition, an operator commented `Mutant` changes it as a
plausible bug would; each property of a passing run is violated by one of them.

### Disagreements

Three runs are expected to end in a violation; each states what a document or a
comment of the repository says.

| Run | Property | What happens |
|---|---|---|
| `credential_refresh` | `NoPanic` | a resumed session inherits conversations without handles; a data record makes the refresh of credentials due before all are rebound, and `expect("active conversation has a wire handle")` fails |
| `second_reconnect` | `CredentialHonoured` | a client that was resumed reconnects again before new credentials arrive; its new hello names a session that is gone and is not resumed, although the server holds the conversation |
| `recovery_window` | `RetainedAfterIdleClose` | conversations expire before their session is examined, so under the default order of timeouts an idle session is closed and nothing is retained |

The last one contradicts `implementation-status.md:27`, `:30` and `:118`,
`next-stage-plan.md:57` and the comment at `lib.rs:255`, which say that the server
keeps conversations and upstream sockets after an idle close until the recovery
window ends. By default conversations expire after 180 s and sessions after 300 s,
and a conversation is never more recently active than its session. Theorem
`WindowUnused` shows that nothing is retained for any timeouts in this order; only
a conversation timeout above the session timeout, as in the test of the feature and
in `expiry`, opens the window.

Others were met while modelling and have no run of their own. The models behave
as the code does in all of them.

* A reconnect that had no credential to offer keeps its conversations in a session
  that is not resumed (`engine.rs:453`; `implementation-status.md:29` says mappings
  are kept only after `resumed=true`).
* A conversation with traffic only from upstream is reclaimed in use
  (`engine.rs:1386`; `udp2raw-ng-spec.md:465` speaks of no sending or receiving).
* A hello repeated after its handshake completed opens a second handshake
  (`implementation-status.md:51` says it gets the same ServerHello).
* A session is retired by its own idle time although it has conversations with a
  longer one (`udp2raw-ng-spec.md:508` says only an empty session is).
* A shutdown signalled while neither the loop nor the poller waits, for example
  before they first run, is lost (`lib.rs:141` uses `notify_waiters`; `lib.rs:167`
  says the service runs until the handle is signalled).
* An engine error on a single frame ends the service and skips the cleanup after
  the loop; receivers of upstream routes run on (`lib.rs:198`).
* A receiver that ends at an engine error leaves a deaf route (`lib.rs:579`).
* Dropping one end of the in-memory transport does not wake the other end's parked
  receiver (`memory.rs:133`; `implementation-status.md:80` lists drop and waking).
* FakeTCP accepts data only with exact sequence and acknowledgement numbers, so one
  lost segment, or data of both ends that crosses, silences a direction for good
  (`linux.rs:418`; `udp2raw-ng-spec.md:713` says the numbers only keep up
  appearances). SYN and SYN|ACK are sent once, and a SYN from a known source is
  ignored, so a client restarted on its address cannot connect before a reset.

## 4. The proofs

TLAPS proves the following for every value of the constants, from the named
assumptions of the modules (sizes and timeouts are positive, as `validate` in
`config.rs` demands; `None` is no number).

* **Replay window** (`ReplayBitsProofs`, `RecordProofs`). The lemmas say
  what `Set`, `Clear` and `ShiftLeft` do to each bit, for every width and word
  size. With them `TypeOK /\ WindowMirrorsHistory /\ NeverAcceptedTwice` is
  inductive: a number is granted only if its bit is clear, and the bits are the
  history. `Implements` shows the refinement of `ReplaySpec` from it.
* **In-place shift** (`ReplayShiftProofs`). The loop invariant says that bits
  above the loop variable are shifted and those below are original, which holds
  because the loop runs downwards; `ShiftCorrect` follows, for every
  content of the vector and not only those the run reaches.
* **Rate limiter** (`RateLimitProofs`). `RateBounded` is not inductive. The
  invariant adds the tokens still in a bucket to what it has admitted: a refill
  pays for its tokens with the time since the last one, and a bucket is forgotten
  only when the time since its last refill pays for a full one.
  The types (`RateTypeCorrect`) include the bound of the table.
* **Server engine** (`ServerProofs`). `ServerInv` joins the types, id exclusivity,
  ownership, the handle maps and `RecoveryWindowUnused`, which is proved and has no
run of its own (`recovery_window` shows what it means). The last one needs that
  the activity of a conversation is never later than that of its session;
  ownership needs that new conversation ids are larger than all in use; both need
  exclusivity. One lemma per handler shows that it keeps the invariant. No step
  uses what the client sends: the theorems hold for any content of `c2s`.
* **Server nonces** (`NonceProofs`). `NonceInv` adds that every record sent is
  older than the next packet number of its sealer, that its session is no longer
  pending, and that the stored acknowledgement is the one that was sent.
* **Session registry** (`RegistryProofs`). `EngineImplementsRegistry` shows that
  every step of the tunnel is a step of `SessionRegistry` or none. It uses
  `ServerInv` (conversations have one owner, so closing one in every session closes
  it in its own) and that a pending handshake resumes a session older than its
  own, so that old and new id differ; one lemma per handler names the registry's
  step. With it the results of `UpstreamRoutes` rest on the engine's code and not on
  a guess about it.
* **Record layer** (`RecordProofs`). `RecordInv` says that every record was sealed
  under a number its sealer has used up and that its tag covers its header. Then a
  new number is new (`NonceNeverReused`), and what authenticates was sealed by the
  peer under the number it shows (`WindowSafe`). Hence `open` hands only packet
  numbers to `accept` (`RecordsUseWindow`: `RecordSpec` implies the window's `Spec`),
  and what is proved of the window alone holds where the code uses it
  (`OpenedOnce`, `RecordsImplementFilter`).
* **Upstream routes** (`RoutesProofs`). `RepliesStay` shows that a reply is sealed
  only for the conversation its socket was opened for, for any number of sessions,
  conversations and tasks. The invariant says that every table entry, every receiver
  that has not ended and the table a migration has taken out and not yet given new
  tasks pair a key with a socket of the same conversation, and that the loop's list
  of actions is finite. An aborted receiver that is still running needs no special
  case: its key names an old session, its socket still the same conversation.

Only model-checked: everything about the client and about both engines together
(the acknowledgement handler folds over the queue, and properties of folds need
an induction the provers cannot do; so does FakeTCP, whose numbers are sums over
frames), the service except for `RepliesStay`, both transports, `WithinLimits`, and
all liveness, which includes the part of `ImplementsPipe` that says packets are
read.

## 5. What is not modelled, and why

* **Byte formats**: the layout of frames, handshake messages, IPv4 and TCP headers,
  their checksums and decoding errors. They are pure conversions, refused input
  changes no state, and unit tests with fixed bytes reach them.
* **Cryptography and secrets**: key derivation, HMAC and storage are assumed
  perfect; a state machine shows nothing about them.
* **Configuration and command line**: `validate` appears as the assumptions of the
  modules; the command line checks its arguments and then declines to run. The
  service's builder only stores values.
* **Exhaustion of wire handles** after 2^32 allocations, and collisions of random
  ids.
* **Several peers of one FakeTCP server**: paths of different sources share only the
  inbound queue, the queue of segments and the waker; one peer and its restarts
  exercise each of them.
* **A poisoned lock**: the sections that hold a transport's lock have no panic of
  their own.
* **The engine inside the service tasks**: composing the full engines with the tasks
  is out of reach for TLC; the registry and an open engine stand in for them.
