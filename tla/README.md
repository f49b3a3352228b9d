# FixEngine: a TLA+ verification project

FixEngine is a FIX 4.4 engine in C++: sessions that log on, number, store, send
and receive messages, recover what a lost connection swallowed, and log through
a lock-free ring. This directory models it in TLA+, checks small instances with
TLC, and proves the main safety properties for every instance with TLAPS.
Paths below are relative to the repository (`src/Session.cpp`,
`include/fix/...`).

## 1. Inventory

| Component | State | Operations | Talks to |
|---|---|---|---|
| **Session** (`Session.cpp`) | `state_`, `stopped_`, `reconnecting_`, `conn_`, four timers, `write_q_`, `awaiting_test_request_response_` | `start`, `stop`, `stop_with_logout`, `set_connection`, `send_from_app`, `dispatch` with one handler per MsgType, four timer handlers, `on_transport_down_` | all on its own strand; the connection, the manager (reconnect callback), store, cache, factory, logger |
| **SeqProvider** | `next_in`, `next_out` | `update_in/out`, `reset`, `acceptor_reset` | Session, MessageFactory |
| **MessageStore / ResendStream** | `outbound_index_`, blob buffer | `store_outbound_message`, `get_resend_stream`, `next` | Session |
| **RecoveryCache** | 512 slots into one byte buffer, `base_offset_`, `size_` | `start`, `insert`, `get`, `consume`, `clear` | Session |
| **MessageFactory** | scratch buffer | one method per message; `stamp_header_` takes the next number | Session, SeqProvider |
| **SessionManager** | configurations, pool, its own strand | `create_session`, `reconnect_session_impl_`, `send`, `stop_session`, `stop_all`, `remove_session` | factory, sessions |
| **SessionPool** | slots, ids | `emplace_session`, `remove`, `get`, `get_all` | SessionManager |
| **AsioConnectionFactory** | attempt counter, backoff timer per operation | connect with 8 attempts, listen with 6 | SessionManager's handlers |
| **LogCore / MpscRing / SessionLogger** | cells with epochs, `head_`, `tail_`, `sem_`, drain thread | `push`, `try_push`, `drain`, destructor | every strand, LogFileSink |
| **LogFileSink** | nodes, LRU list of open files | `write`, `add_session`, `evict_one`, `shutdown` | drain thread; `add_session` from the manager |
| **Framer / LinearBuffer / Ring** | bytes not yet framed, completed messages | `append`, `get`, `consume`, `reset` | Session's read handler |
| **Arena / WireWriter** | blocks and handles | allocate, write, release | Session's write path |
| **Parser / Validator / schemas** | the validator's `results_` and `tagscratch_`, reused for every message | parse, validate | Session |

What is hard here: the interleaving of two strands with connections that break
at any moment (gaps on both sides, duplicates, resends during recovery); work
that reaches a session when its connection is gone; completions that a cancel
came too late for; handles of sessions that were removed; resets of the numbers
against a store that keeps its contents; timers that race messages; and the
ring, where only epochs keep producers and consumer apart and where permits and
entries must stay in step. `PROJECT.json` lists these under `hazards`, each at
its line, with the properties that cover it.

What makes each part correct: every application message is taken once and in
order (Session); store and numbers agree (MessageStore, SeqProvider); what is
resent agrees with what was first sent (ResendStream); the cache is a map
(RecoveryCache); no wait is for ever (timers); the ring delivers in ticket
order without a data race, and nothing is lost at shutdown (LogCore); messages
are the same however the bytes were cut into reads (Framer); the verdict is that
of the schema whatever was validated before (Validator); a connection has one
read and at most one write under way and carries whole messages (the I/O of
Session); a handle reaches its own session or none, and a session has one
connect under way at most (SessionManager, SessionPool); each session's file is
one JSON array of its entries (LogFileSink).

## 2. Modules

| Module | Content |
|---|---|
| `Session` | The record of one session and every handler of `Session.cpp` as an operator from record to record. Handlers call each other inline on the strand, so a whole handler is one composition of operators. The resend loop and the drain of the recovery cache are one step per turn (`ResendStep`, `DrainStep`); while one is unfinished (`Busy`) the strand runs nothing else. |
| `SessionPair` | An initiator and an acceptor, a connection that may break, the manager's connect and reconnect, the four timers, applications and an operator who stops sessions. Holds the properties of the protocol. |
| `MCSessionPair` | Gives `HeartBtInt` its value. |
| `SessionPairProofs` | Contracts of the `Session` operators (lemmas), the two inductive invariants of `SessionPair` and the theorems. |
| `RecoveryCache`, `RecoveryMap` | The slot array and the reused byte buffer, and the map it promises to be; `ImplementsMap` is the refinement. `MCRecoveryCache` gives two messages of different length. |
| `LogCore` | `MpscRing`, the drain thread and the destructor, one atomic operation per step. |
| `LinearBuffer`, `Ring`, `Framer` | The byte buffer and the ring of windows as operators on records, and `append`, `get_message`, `consume_message` and `reset` as the read handler uses them; each outcome of `parse_buffer` is an action. `Messages` is the reference: the messages of a byte sequence, defined without reads, buffer or scan position. `MCFramer` gives the streams. |
| `Validator` | `validate_message` from clearing the results to the verdict, one action per way through it, and what `dispatch` makes of the verdict. `Conforms` is the reference: a statement about positions and schema, without loops or bits. `MCValidator` gives a part of the header, two message types and the messages. |
| `Arena` | The blocks, the list of free ones that runs through them, and the handles of the messages in `write_q_`, as operators on a record. |
| `SessionIO` | Uses `Arena`: `conn_`, `write_q_`, `write_inflight_` and the asynchronous operations of one session: an operation completes on the `io_context` (`ReadSome`, `WriteSome`, `Fails`, `Hiccup`), its handler runs on the strand later (`ReadHandler`, `WriteHandler`, ...), and `close` aborts only what is not yet complete. A write takes its bytes from the block of its message when it completes. |
| `SessionPool`, `LogFileSink` | The slots with their free list, and the files with the LRU list and its iterators, as operators on records. |
| `SessionManager` | Composes both: the caller's thread (`create_session` in two steps, `remove_session`, posts), the manager's strand, the connect handlers, the sessions as far as their lifetime goes, the drain thread, the destructor. |
| `LogCoreProofs`, `RecoveryCacheProofs`, `FramerProofs`, `SessionIOProofs`, `SessionManagerProofs`, `ValidatorProofs` | The inductive invariant of each of these modules, the lemmas about the operators under it, and the theorems. |
| `InductionLemmas` | Induction over the natural numbers, and what the recursive functions and folds of the models compute along it. |

How `Session`'s record corresponds to the code: `conn` is `conn_` (`"closed"` is
a connection `stop_` closed and kept); `out` is what `send_bytes_` accepted and
the peer has not read; `store` is `outbound_index_`; `cache` and `base` are the
occupied slots and `base_offset_`; `armed` is the set of timers that are
waiting; `rsCur..rsEnd` is the rest of the ResendStream in use; `delivered` is
history (the numbers `handle_custom` took); `fault` is `"none"` until the
process ends at an assert, a null `conn_` or an index outside the store.

Abstractions, and why they are sound for the properties:

* In `Session`, Parser and Validator are their verdict (`check`). Messages that FixEngine
  itself sends pass, except an application type without a schema.
* One received message per step. The read handler may process several frames in
  one go; more interleavings are allowed here than there.
* `write_q_` and the socket are one queue (`out`). Any suffix of what was written
  may be lost: after `Fail`, the reader learns of the loss at any moment
  (`TransportDown`), before or after it has read what is left.
  `start_after_reconnect_` clears `write_q_`, and with it what was sent after
  `set_connection` and is not yet written; the pair keeps this in `out`, and
  `SessionIO` has the loss (`early`).
* Handlers already queued for an old connection run before those of the new one.
  Completions that race a cancel are in `SessionIO`.
* A timer may fire at any moment after it is armed; durations are not modelled.
* Asserts are enabled (`CMakeLists.txt` sets no build type); where one fails the
  session is at fault and takes no further step. A Release build goes on from the
  same state with an index that no longer matches.
* In `LogCore`, epochs are stored with release and loaded with acquire order, so
  interleaving semantics is exact as long as no two threads touch one cell's
  data at once, which is the invariant `DataRaceFree`. Producers have finished
  before the destructor runs, as the language requires.
* In `Framer` a byte is one of a few symbols; the first field has two, the length
  tag one, the trailer one. Like "8=FIX.4.4|", the first field ends in the byte
  that ends the length and does not overlap itself. `body_len` is used within one
  call only and left out of the context. Bytes behind a reset buffer are
  unreachable and become `Junk`; a grown array holds `Junk` where `new` wrote
  nothing.
* In `Validator` no group holds a group (no schema of the Registry has one), so
  the recursive call and the test for a repeated tag inside an entry are left out.
  Values are classes (`Digits`, `Plus`, `Minus`) with a number; `IntMax` and
  `SeqNumMax` are the largest `int` and `uint64_t`, so that `parse_int` and the
  `from_chars` of MsgSeqNum fail out of range as they do in the code.
* In `SessionIO` the protocol is its traffic: what was read needs no answer, one
  answer, or is a Logout. Handlers of aborted operations and of a stopped session
  return at once and have no step. Where `conn_` is null or `write_q_` empty and
  the code does not look, the process ends (`fault`). Wire and messages are recorded
  until one of the races of section 6 has happened, which is as far as `WireIntact`
  goes. A released block still has its message but for the index over the first
  bytes; all of it is taken to be damaged.
* In `SessionManager` roles and protocol are left out, and what a task posts to a
  session's strand takes effect at once. The log is a short queue in front of the
  sink; `LogCore` has its ring. The pool is used by two threads without a lock, as
  is the sink: each call is one step, so a data race inside a call is outside the
  model (listed as a hazard). One call of the sink opens one file, or is refused.

## 3. Runs

| Run | States | Shows |
|---|---|---|
| `pair_recovery` | 1 168 465 | two application messages (one type without a schema included), two lost connections, no resets: exactly-once delivery, store and numbers in step, faithful resends, parked messages ahead of `next_in`, `next_in` never back; `Inv` is the invariant of the proofs |
| `pair_live` | 46 980 | fairness; both sides reset at Logon, one message, one timeout, one lost connection, one operator stop: delivery, end of logouts, end of logon waits |
| `log_core` | 356 418 | two producers, ring of 2, three calls each of `push` or `try_push`, destructor at any point |
| `recovery_cache` | 64 444 | window of 3, buffer of 2 bytes that must grow, numbers 0 to 4 |
| `framer` | 123 751 | 90 streams of two or three pieces (messages, one with a body that looks like a header, a length that runs into the next message, four kinds of wrong header, garbage), every cut into reads, resets at any point: same messages as the reference, absolute positions right after every move, nothing held back unless the ring was full |
| `validator` | 16 039 | six messages that conform and every one with a field left out, swapped, put in or changed, in any order through one validator: verdict as the reference, the reported error true, and a message that passed has one MsgSeqNum and is handled exactly if `from_chars` takes it |
| `session_io` | 1 120 670 | both roles, two connections, messages in two pieces, two messages besides the Logons, a transient error, stops and failures at any point: one read and at most one write, whole messages in order, no use of a null connection, no socket left behind, each up to the races of section 6; the arena's blocks are free or hold one queued message, in all states |
| `manager` | 1 475 983 | two sessions with a lost connection, a refused file and every task on the strand overtaken by a removal; or three sessions over two files: handles reach their own session, slots, connects, registration, the LRU list and the files |
| `pair_mutual_wait`, `pair_store_assert`, `pair_null_conn`, `log_burst` | - | counterexamples, see section 6 |

Bounds. `MaxApp`, `MaxTicks`, `MaxFailures`, `MaxStops` are budgets in the guards
of their actions. Two messages and two failures are the least with which a gap
spans an application message and a Logon, a resend is itself interrupted, and a
duplicate of a resent message arrives. `Window = 4` exceeds any gap these
budgets can open; a smaller window belongs to a peer that sends what it likes.
`Capacity = 2` with six tickets makes the ring wrap twice and fill;
`Burst = 3` is reached within a round. `MaxBytes = 7` lets the buffer grow twice
and be reused. `StartCapacity = 13` bounds reads and buffer as in the code: the
rest of a message and a full read make it grow, and three messages of six bytes
in one buffer fill the ring of `MaxCompleted = 2` with one left over. `WordBits = 4`
makes the messages of `validator` end inside, at and behind a word of TagScratch;
`IntMax = 2` and `SeqNumMax = 3` put values at, above and between the two limits.
`Size = 2` is the least with a message half written; `MaxConns = 2` the least with
a handler of an earlier connection; `MaxSends = 2`
bounds the messages besides the Logons, whose numbers come after it. With `block_count = 2` a Logon and two
messages exhaust the arena. In `manager` the second session often takes
the slot of the first, and the third is the first that makes the sink evict, with
`MAX_LRU_CACHE_SIZE = 2`; `ring` bounds the entries at which the engine still goes
on. Deadlock checking is off where the system really may stop (sessions ended,
the log destroyed) and on in `recovery_cache`, `framer` and `validator`.

Fairness (`SessionPair!Fairness`, `LogCore!Fairness`). The `io_context` runs every
handler that is ready: completions, expired timers, work queued on a strand. The
two loops of a handler run to their end. A connect meets a listen or runs out of
its attempts. Threads of `LogCore` are scheduled. Nothing is assumed of the
network, the application, the operator, or of when the destructor is called.

Every property of a passing run has a mutant in `PROJECT.json`: a plausible slip
in one definition (a comment says "Mutant", just above the definition) with which TLC finds the
property violated.

## 4. Proofs

Every theorem is for all values of the constants that satisfy the named
assumptions of the module; those are types and positive sizes, except where it
is said below. Every `Spec => []P` follows from an inductive invariant: `Init`
implies it, every action preserves it, it implies `P`.

### Two sessions (`SessionPairProofs`)

For all reset options, windows, heartbeat intervals, kinds of application
messages and budgets:

* `Invariance`: `Spec => []Inv`
* `TypeCorrect`: `Spec => []TypeOK`
* `ExactlyOnce`: `Spec => []ExactlyOnceInOrder`
* `StoreMatches`: `Spec => []StoreMatchesSeq`
* `Faithfulness`: `Spec => []WireFaithful`
* `NoRegress`: `Spec => NextInNeverRegresses`
* `ParkedAhead`: `Spec => []ParkedIsAhead`
* `ParkInvariance`: `Spec => []ParkInv`, the second invariant

The argument. Exactly-once is not inductive: whether a message may be taken
depends on what the wire and the cache carry, and that depends on the sender's
store. `Inv` adds that everything on the wire or parked is `Faithful` to the
sender's store (a stored message, the PossDup copy of an application message, or
a gap fill over administrative messages only), that `next_in` never passes what
the peer has stored, that each store holds number *i* at index *i*, no
SequenceReset and a reset Logon only as number 1, and that a session waiting for
its first connection has received nothing. Resets are compatible with this
because a reset Logon is number 1 of its sender's store: a receiver that takes
it in sequence had `next_in` 1. When a reset meets a store that is not empty the
process ends (`store_seq`, section 6); the invariant is about behaviours up to
that point, and says so (`fault = "none"`, `NoFault`).

Each operator of `Session` has a contract over records alone. `Extends`:
the store and the wire only grow, by faithful messages. `Quiet`: nothing
received has changed. `Takes`: what consuming one message does to `next_in`,
`delivered` and `cache`, given that the message is vouched for by the peer's
store. `Own` is what survives of these when the session ends in a fault. Loops
of calls (handler, logout, store, write) compose contracts. The specification
then needs three arguments only: a session changes by its own step (`StepInv`),
its peer sees a store that has grown (`CommitSound`), or the transport changes
aside (`AsideInv`). The least element for the end of a run of administrative
messages (`RunEnd`) comes from well-founded induction on the naturals.

`ParkedAhead` is not a matter of one session: that a gap fill does not pass over a
parked message depends on the order in which the sender wrote resent and new
messages, and on the requests under way in the other direction. `ParkInv`, inductive
together with `Inv`, says of everything on its way to a session, on the wire or
parked (`OnWay`): first sendings rise (`Rising`); what is sent again ends below every
first sending (`Wire`), because ResendRequests under way or parked (`Asked`) and the
rest of a resend loop (`Answering`) end below them; and a gap fill that starts ahead
of `next_in` starts behind an application message (`AppBefore`), because it covers a
maximal run. So two gap fills ahead of `next_in` do not overlap, and consuming one
message passes over no other (`PassesNothing`). `Parks` is what this gives of the
cache: one message per number, none below `next_in`, and at `next_in` only while
the drain loop runs. A ResendRequest can promise its end because the message that
revealed the gap is below every first sending that follows it. The contracts are
`Passive` (nothing is received), `Turn` (a message is ignored, consumed at its number
or parked) and `Streams` (a turn of the resend loop); over a broken connection each
holds of the record without what it sent (`MutedTurn` and the like).

### The log ring (`LogCoreProofs`)

For any set of producers, capacity of at least 2, burst cap and mix of calls:

* `TicketOrder`: `Spec => []InTicketOrder`
* `RaceFreedom`: `Spec => []DataRaceFree`
* `NothingIsLost`: `Spec => []NothingLost`
* `RingInvariance`: `Spec => []RingInv`, the invariant

`RingInv` looks at the `Capacity` tickets from `tail` on (`Lap`), one for each cell.
The epoch of such a cell is the ticket, or one more when its entry is there
(`CellsInv`); two producers with tickets of one lap are therefore at different
cells, and one whose ticket is of a later lap finds an epoch that is not its own.
`TicketsInv` and `RefusedInv` say so of pending and refused tickets, `AccountInv`
that each ticket is consumed, published, refused or pending, `DrainInv` that what
was written is the log up to `tail`, `LastInv` that the last loop still has a round
for everything in the ring, up to the first ticket that was refused (`Ends`). The assumption `Capacity >= 2` is needed: with one
cell, the epoch "published for ticket *t*" is also "free for ticket *t* + 1", and
TLC finds `DataRaceFree` violated. The code has 1024 cells.

### The recovery cache (`RecoveryCacheProofs`)

For any window, sizes of messages, initial capacity and growth:

* `CacheTypes`, `SizeIsExact`, `MessagesApart`: `TypeOK`, `SizeExact`, `RegionsApart`
* `CacheIsAMap`: `Spec => ImplementsMap`, the refinement of `RecoveryMap`
* `CacheInvariance`: `Spec => []CacheInv`, the invariant

`CacheInv` is these three with the type of the bytes and that a slot in use has
a size greater than 0 (otherwise it could not be told from an empty one). The
refinement is proved action by action: the bytes in a region change only by the
`insert` that creates it, so every other parked message reads as before, also
when the buffer grows or is reused after the cache has become empty.

### The framer (`FramerProofs`)

For all streams, all cuts into reads, any sizes of buffer, ring, field and trailer,
given that fields are not empty and that the byte that ends a field is no digit:

* `FramerTypes`, `BufferIsStream`, `WindowsAreReadable`: `TypeOK`, `BufferHoldsStream`, `WindowsInBuffer`
* `InOrder`: `Spec => []MessagesInOrder`
* `Complete`: `Spec => []NothingHeldBack`
* `FramerInvariance`, `FramesInvariance`: the two invariants

`FramerInv` is about positions: the readable bytes are the stream from `First(buf)`
to `fed`, after every compaction and growth (`Feed`); the scan stands among them
(`Position`); windows lie one behind the other before the scan (`Windows`).
`FramesInv` is about messages. `Account`: for every *f* from `fed` to the end
of the stream, the messages of the first *f* bytes are those taken, those waiting
in the ring, and those the reference finds from the scan position on. It must be
said of every *f* and not of `fed` only, because a header that is not complete
yet is decided by bytes that come later. `BodyKnown` says that the message
whose end is awaited is the next of the stream, `AllFound` that `append` stops only
when a scan finds nothing more or the ring is full, `Standing` that the bytes
`parse_buffer` keeps for a first field that may have begun never lie before the scan.

### One session's input and output (`SessionIOProofs`)

For any number of blocks, connections, messages and pieces of a message:

* `BlocksAreExact`: `Spec => []BlocksExact`
* `OneReadAndOneWrite`: `Spec => []OneReadOneWrite`
* `NoUndefinedUses`: `Spec => []NoUndefinedUse`
* `StopClosesSocket`: `Spec => []StopLeavesNoSocket`
* `WireIsIntact`: `Spec => []WireIntact`
* `IOInvariance`: `Spec => []IOInv`, the invariant

`IOInv` says of the arena that the free blocks form one chain through their links,
that this chain and the handles in `write_q_` are a partition of the blocks, and
that no two items of the queue have the same handle (`Sane`, all states). `Numbered`
keeps a new message apart from those on the heap, `Placed` says where `conn_` is
among the connections, whatever has happened. `Tracked` is what holds until
one of the races of section 6 has happened: a live session has one read on its
connection, and a write exactly when `write_inflight_` says so. Each operator has
a contract over the record of the session with its arena and its operations.

`WireIsIntact` needs more, because the bytes of a write are taken from the block
of its message when the write completes. `WireInv` adds, until one of those races:
what a connection got begins the messages sent to it, each in `Size` pieces
(`Laid`); operations under way are on `conn_` (`Current`); and on the current
connection (`Flows`) the last messages sent are those in the blocks of `write_q_`,
the first of which is written up to `sent` and the *n* pieces of a write whose
handler has not run yet (`Backlog`), while the one write takes the front of the
queue from there (`WriteOps`). Allocation and release leave the blocks of the
other queued messages as they are (`AllocateReads`, `ReleaseReads`), which is
where `BlocksExact` is used. That `Laid` is a prefix of `FlattenSeq` is an
induction over the messages (`LaidWhole`, `LaidIsPrefix`).

### The manager (`SessionManagerProofs`)

For any number of sessions, posts, lost connections and refusals, any number of
open files and any bound of the log:

* `SlotsAreExact`: `Spec => []SlotsExact`
* `HandlesAreOwn`: `Spec => []OwnHandleOnly`
* `LogAfterRegistration`: `Spec => []RegisteredFirst`
* `OneConnect`: `Spec => []OneConnectInHand`
* `DeadSessions`: `Spec => DeadStaysDead`, an action property
* `LruIsExact`: `Spec => []LruExact`
* `FilesAreWellFormed`: `Spec => []FilesWellFormed`
* `ManagerInvariance`, `SinkInvariance`: the invariants `ManagerInv` and `SinkInv`

`ManagerInv`: the slots hold exactly the sessions that are not removed, each with
the handle it was given, and the free list the other slots (`Slots`); tasks,
connects and connections are those of sessions that have a config (`Queued`), which
comes after the registration with the sink (`Registered`); what a session received
was meant for it and it is stopped only when asked (`Owned`); a session that is
connected has no connect and no reconnect outstanding, one that is down has exactly
one of them (`AtMostOne`). That a handle never reaches the next tenant of its slot
follows from the numbers of handles, which only grow.

`SinkInv` is about the log. `SinkControl` ties the nodes of the sink to the configs,
and the order of shutdown. `SmallSink` holds when there are no more sessions than
files that may be open (with more, section 6): every node on the list is found
at its iterator (`Lru`) under its own id (`Named`), and for every session that
was not refused a file there is a *k* such that the file has the first *k* entries
and the ring the others, in order (`FileOf`, `Pending`). `Named` is given up when
the shutdown begins: `close_file` opens with the default id, so that it holds of
the list only until then; the counts still hold, and they are what keeps
`ensure_open` from evicting during the shutdown.

### The validator (`ValidatorProofs`)

For all header, trailer and body schemas, registries, word sizes, limits of the
integer types and messages:

* `TypeCorrect`, `FirstErrorIsTrue`: `TypeOK`, `FirstErrorTrue`
* `PassedSeqNumRead`: `Spec => []PassedSeqNum`
* `RegistryFinds`: `Registry::get` finds a type exactly if the sorted array has it
* `ValidatorInvariance`: `Spec => []ValidatorInv`, the invariant

Assumed of the constants are the types of the tables, that the registry is sorted,
and `SchemaAssumption`: a field inside a group is no field of the message itself,
and MsgSeqNum is a field of the header. The tables of the repository satisfy it;
without it an error about a group could name a tag that the message has elsewhere,
and a second MsgSeqNum could hide in a group. The loops over fields, entries and
groups are folds; `Iterates` and `FoldIterates` say that what each turn keeps holds
at the end. What they keep: bits are set inside the message, and for a tag of the
message level only at the first field that has it (`Asked`); errors are only
appended, and a tag of the message level is reported missing only when it is. With
`FullIsAll`, that `full` means all bits, a message that passed has one MsgSeqNum: the
one that was checked (the last) is the one that is read. The binary search is an
induction over the width of its window.

### Induction over data

What a recursive definition computes is shown through `InductionLemmas`: the
numbers for which the claim holds are a set, and a set that has 0 and with *n* also
*n* + 1 has them all (`SetInduction`, from the well-foundedness of <). `FoldOfExists`
and `WalkExists` give from it that a recursive function over subsets or positions
is defined everywhere and equal to its body; `from_chars` and the reference
`Messages` of `Framer` are used that way.

### Only model-checked

* Liveness (`EventualDelivery`, `LogoutEnds`, `LogonResolves`, `EventuallyWritten`,
  `DestructorReturns`), which is out of the prover's reach.
* `VerdictExact`. It compares the validator's loops, which consume positions from
  left to right, with a statement about positions; the equivalence is an induction
  over the nested structure of groups and entries that was not carried out.

## 5. Not modelled

Byte layout, body length, checksums and time stamps (formatting); console and
configuration (I/O); `LoopbackTransport` (a test double); the parser, a split
into fields that keeps nothing (its results are the inputs of `Validator`); the
tables of error classes but for what a session does with them; `AsioTimer` and
`Reactor` (wrappers of asio, present only as armed timers), timer handlers that a
cancel comes too late for, and the backoff between attempts to connect. A
counterparty that does not keep to the protocol is not modelled either: the
hazards that need one have no property. Without a caller are
`SessionManager::start_all`, `SessionPool::get_all_at_start`,
`discard_n_from_head` and the growing and overwriting policies of `Ring`.
The buffer of `FactoryScratch` (positions, padding and the checksum of a message
being formatted) is left out with the byte layout.

## 6. Where the code and the repository's own words differ

* **Two gaps block each other** (`pair_mutual_wait`). In `RECOVERING_RESEND`
  `dispatch` parks everything ahead of `next_in`, the peer's ResendRequest too. If
  one lost connection swallowed a message of each side, both park the other's
  request and wait. `EventualDelivery` excepts exactly this state.
* **A reset leaves the store as it was** (`pair_store_assert`). An initiator with
  `initiator_reset_on_logon` whose application sends between `set_connection` and
  `start` stores that message, resets its numbers (`seq_provider_.reset()` in
  `start_normal_`) and fails the store's assert with its Logon. `acceptor_reset` does
  the same to an acceptor that has stored anything and then takes a Logon with
  ResetSeqNumFlag.
* **A send while reconnecting uses a null `conn_`** (`pair_null_conn`).
* **The burst cap loses a wake-up** (`log_burst`). Past the cap the drain thread
  pops one entry per permit; a permit spent while the entry at `tail_` is not yet
  published is missing, and a published entry waits for the next push.
  `EventuallyWritten` excepts exactly this sleep, and tickets `try_push` refused
  on a full ring (nobody publishes them, so `pop` waits for good).

What the passing runs except, because the code does it:

* `SessionIO`. A handler that was already queued when `close` was called runs with
  `conn_` null, on an empty `write_q_` or on the next connection (`stale`); a
  message is sent without a connection (`bare`) or between `set_connection` and
  `start`, which then clears the queue with a write under way (`early`). The
  properties hold until one of these has happened (`Undisturbed`). A session that
  is stopped before its connection arrives keeps the socket open (`late`).
* `SessionManager`. `stop_all` between `emplace_session` and `add_session` makes a
  session log that is not registered, and `write` throws in the drain thread
  (`overtaken`). When the factory has given up, a session stays down (`gaveUp`).
* `LogCore`. `sem_` is a `counting_semaphore<1024>`. `push` may release it above that
  maximum, and the destructor's `release(1024)` does whenever a permit is left. The
  standard leaves this undefined; the usual libraries count in a machine word and
  add, which is what the model does (`sem` has no bound).
* `LogFileSink`. With more sessions than `MAX_LRU_CACHE_SIZE`, the eviction
  touches its victim before it drops the back of the list, so that another
  session's iterator dangles, or a closed victim makes it recurse.
* `Validator`. A MsgSeqNum with a sign, or too large for `uint64_t`, passes
  `is_int_type` and fails `from_chars`; `dispatch` drops the message, where its comment
  expects that the validator has caught it. `PassedSeqNum` says that these are the
  only ones.

## 7. Plan

Done: every module of section 2, and the proofs of section 4.

Next, a theorem:

* `VerdictExact`: that a message passes exactly when it conforms.
