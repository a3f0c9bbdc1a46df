# fiver in TLA+

fiver is a small RabbitMQ client: a `Broker` that owns one AMQP connection and
hands out channels, `Publisher`s and `Consumer`s that use them, and `Message`s
through which an application acknowledges what it was given.  Everything runs
in one Node.js event loop over `amqplib`; what is hard about it is what happens
between two steps of an asynchronous call.  This directory models that, checks
it with TLC and proves the main safety properties with TLAPS.

## The system

| Component | State it keeps | Operations |
|---|---|---|
| `Broker` (`broker.ts`) | `$connection`, `channels.normal`, `channels.confirming`, `$publisher` | `connect`, `channel`, `confirmChannel`, twelve operations that await a channel and a reply (`assertQueue` ... `prefetch`), `publisher`, `publish`, `sendToQueue`, `close` |
| `PublisherImpl` (`publisher.ts`) | `$channel`, the middleware | `channel`, `publish`, `use`, `close` |
| `Consumer` (`consumer.ts`) | `$channel`, `consumerTag`, the middleware | `channel`, `consume` and its delivery callback, `cancel`, `close` |
| `Message` (`message.ts`) | `$channel`, `$ackState`, `$state`, `$log`, content | `ack`, `nack`, `reject`, `reply`, `set`, `get` |
| middleware (`publisher-middleware.ts`, `consumer-middleware.ts`) | none (but see the shared headers) | encode, compress, checksum and back |
| `parseDestinations` (`util.ts`) | none | an address to a list of exchange and routing key |

How they interact.  `Publisher` and `Consumer` ask a `ChannelProvider` (the
broker, or a consumer's publisher) for a channel and cache it.  Each cache
empties itself by a cleanup task on the emitter's `'close'` event, which checks
that the cache still holds that emitter.  `'close'` and `'error'` propagate
from connection and channels to broker, publisher and consumer.  The server
acts on all of them by closing channels and connections, by delivering and
confirming.  The source of amqplib and cleanup-util is not in the repository;
they are modelled from how this code uses them.

What is hard.  Every cache is read before an await and written after it.  An
emitter can die before anybody listens to it.  `close()` overlaps other calls.
Messages outlive their channel, whose delivery tags start again at 1.
`publish()` waits for `drain` in the middle of a loop while the channel may
close.  Confirms are waited for per channel, not per call.  `PROJECT.json`
lists these hazards, each at its line with the properties about it.

## What makes the components correct

* Broker: nothing dead in a cache that it could have heard die; cleanup of a
  replaced emitter spares its replacement; one connection; `close()` releases
  and closes everything; every call settles.
* Message: a job leaves the queue only by the application's verdict on that
  very job; an acknowledgement never carries a tag the server does not wait
  for; `needsAck` tells the truth; no job waits for a verdict that nobody can
  give; every job is settled in the end.
* Publisher: copies go out in order, each once; a fulfilled publish is
  complete and answered; the write buffer stays bounded; no wait is for what
  cannot come any more; every call settles.
* Consumer: a closed consumer has no subscription left, and a subscription gets out
  of `cancel()`'s reach only by what another `consume()` or `cancel()` does.
* Clients, the publishers and consumers of one broker: none keeps or is handed a
  channel that it heard close, and the broker keeps its publisher.
* Middleware: the consumer's undoes the publisher's, and publishes do not see each
  other's checksum, correlation or persistence.
* `parseDestinations`: an address means the same read from left to right, and what
  it has read is read back as it is.

## Modules

### `Broker`

One action for every stretch of code between two awaits.  `call[c].at` says at
which await a caller stands: `connecting` (amqplib's `connect()` is pending),
`connected` (its promise is settled, the code after the await has not run yet),
`creating` (about to call `createChannel()`), `opening`, `opened`, `using`
(holding a channel for an operation), `replying`, `closing` and `closed`.  The
gap between `connecting` and `connected`, `opening` and `opened` is real:
amqplib 0.8 settles bluebird promises, whose continuations run in a later turn
of the event loop.  Everything else an async function does up to its next
await is one step, since nothing can interleave.

| Code | Definition |
|---|---|
| `$connection`, `channels` | `connection`, `channels` |
| listeners and cleanup tasks of this broker | `watched`, `EvictConnection`, `EvictChannels` |
| `connect()` up to / after its await | `Connect`, `OpenConnection`, `ReuseConnection` / `ConnectResumes` |
| `channel()`, `confirmChannel()` | `Channel`, `CreateChannel`, `ChannelResumes` |
| the operations of lines 174-241 and `prefetch` | `Rpc`, `SendRpc` |
| `close()` | `Close`, `CloseResumes` |
| amqplib and the server | `ConnectionOpens`, `ConnectionRefused`, `ChannelOpens`, `RpcReply`, `ChannelCloses`, `ConnectionCloses` |

What is taken of amqplib: listeners attached to an emitter that has closed
never run; a connection's end closes its channels first, in one burst of
events; the promise of `cn.close()` is settled by the server's close-ok only;
calls on a connection or channel that is closing or closed throw; pending
replies are rejected when their channel closes.  A call that finds what it
wants in the cache returns it and changes nothing, so it is no action.

### `Message`

The application's view of deliveries with the consumer's delivery callback, and
the queue at the server.  A `Message` is identified by the number of its channel
and its tag.  `Consume` and `Receive` are `consumer.ts`; `Ack`, `Nack` and
`Reject` share `Settle`, as the three methods share their body; `Deliver`,
`ServerSettles`, `ServerEnds` and `ConnectionLost` are RabbitMQ: tags from 1 on
every channel, prefetch, `multiple`, redelivery of what is unacknowledged when
the channel closes, and an unknown tag closing the channel.  `told` is a history
of what the application called first on a Message; the code has no such field.

### `Publisher`

`publish()` from the middleware to the confirms.  `Send` is the loop over the
destinations up to its next await: `Burst` copies are written before the loop is
over or the buffer is full.  The promise a full buffer waits for is a native one,
so the continuation runs before the next event (`Quiet`).  `Waiting` are the
calls with a `drain` listener, `Fails` those whose `close` listener rejects.
Whether amqplib settles `waitForConfirms()` when the channel closes is left open
(both outcomes of `ChannelCloses`).  `received` and `drained` are histories.
The provider may hand out a channel that it opened for others, or one that died
before anybody listened to it.  `use()` is in `PublishPipeline`, `close()` in
`Clients`: neither touches what `publish()` reads once it has started.

### `ChannelProvider` and `Clients`

`ChannelProvider` is the abstract specification: what `common.ts` lets publishers
and consumers expect of `channel()` and `confirmChannel()`.  It has the two cached
channels, the channels it listens to, their status and the calls that wait
(`ask`); connections do not exist.  `Broker` implements it: `Provider` is the
instance, the provider's `ask` is `AskOf(c)`, what a call is for while it stands
at one of the awaits `Asking`; a call's connecting and reconnecting is a stutter,
the end of a connection is `Close` of all its channels at once.

`Clients` composes this provider with any number of publishers and consumers, so
its callers are the `Calls` that are waited in, not the clients.

| Code | Definition |
|---|---|
| `publisher()`, `createPublisher()`, `publish()`, `sendToQueue()` of the broker | `MakeShared`, `Pool`, `Publishers` |
| the listener and cleanup task of the broker's publisher | `Drop`, `Hears` |
| `channel()` of publisher and consumer, `options.publisher` | `Asker`, `Kind`, `GetCached`, `GetNew`, `Handed`, `Failed`, `Adopt` |
| `channel()` of the broker for its own operations | `AskBroker` |
| `close()` of a publisher and of the broker | `ClosePublisher`, `CloseBroker` |
| a channel's `'close'` at all who listen | `ChannelsClose`, `Evicted` |

A consumer with a publisher waits in turn: the publisher awaits the broker, the
consumer the publisher.  Those promises are native, so all of them continue before
the next event, and `Handed` is one step.

### `Consumer`

`consume()`, `cancel()` and `close()` on one consumer, which has one `consumerTag`
for however many subscriptions.  A call stands at `asking` (for a channel),
`subscribing` (a microtask, see `Quiet`), `asked` and `subscribed` (before and after
the server's answer), `cancelling` and `canceled`, or `closed`.  A subscription's
callback called with null calls `cancel()` itself: `Who` therefore contains the tags
beside the callers.  `cancel()` clears the tag up to three times, at its await, in the
listeners of `'canceled'` and in its last line; `BeginCancel` and `CancelResumes`
say where.  `careful`, chosen in `Init`, is a discipline of the application and not of
the code: it lets `consume()` start only when nothing is under way or subscribed, and
starts nothing during it.  Everything is checked for both kinds of application;
only `CloseEnds` speaks of the careful one.  The delivery callback is in `Message`.

### `PublishPipeline`

What a message says, from `publish()` to the application.  The heap is explicit:
`opt` holds the options objects, the callers' own and the one each call may make,
`crc` what `x-crc32` is in the headers objects, and `head` points from one to the
other.  A content is where it comes from, its form, and the compressions on it, outermost
last; its checksum is that very content.  `Publish` runs the middleware, whose
stages are operators of the same name, in one step; `Send` writes one copy, with
whatever its options object holds by then.  `Crc32` and `PersistentMessages` write
into objects that callers may share; `EncodeString` and `EncodeObject` may copy the
options but not the headers; `Correlate` is `reply()`.  The consumer's middleware
are functions of the copy.  `mates` is a history: the later uses of a call's
options, and for a publisher without the default middleware also the earlier ones.
`Exposed` calls are those with mates that own neither the options nor the headers
they send from.

### `ParseDestinations`

`Parse` is `util.ts` as written, with `Split` and `Trim`.  The reference is a scanner
that reads the characters one by one; the state machine writes every array of
strings over a letter, the blank and the three separators, and lets the scanner
read along.

## Runs

| Run | Instance | Shows |
|---|---|---|
| `broker` | 2 callers, 2 connections, 2 channels, fair | `CacheIsLive`, `CloseReleases`, `EvictsOnlyTheDead`, `OrphanedOnlyByOverwrite`, `ImplementsProvider`, `CallsSettle` |
| `broker_serial` | 1 caller, 3 connections, 3 channels | `OneConnection`, `CloseLeavesNothingOpen` |
| `message` | 2 jobs, both kinds of subscription, `ack` and `nack`, prefetch 2, 2 channels, 3 tags, fair | `TagsAreKnown`, `OneLiveMessage`, `NeedsAckIsTrue`, `EveryJobSettles` |
| `message_all_up_to` | subscriptions with acknowledgements, `allUpTo`, `ack` and `reject` | `VerdictsHonoured`, `NoJobIsStranded` |
| `message_omitted` | `consume()` without options | a violation, below |
| `message_stale` | `ack(true)` | a violation, below |
| `publisher` | 2 calls, up to 2 destinations, buffer of 2, 2 channels, confirms, fair | `CacheIsLive`, `FulfilledIsDone`, `NackMissedOnlyInDrain`, `SentInOrder`, `BufferBounded`, `NobodyWaitsInVain`, `PublishSettles` |
| `clients` | 2 calls, 2 publishers the broker may make, 1 confirming publisher, 1 consumer of it, 3 channels | `CachesAreLive`, `NeverHandedTheDead`, `DivergesOnlyByOverlap`, `SharedIsKept` |
| `consumer` | 2 callers, 2 tags, 3 channels, careful or not | `CacheIsLive`, `CloseEnds`, `OrphanedByAnother` |
| `pipeline` | 3 calls over one options object, one without the default middleware, two persisting, 2 copies, three lists of encodings | `RoundTrip`, `ChecksumIsOwn`, `AddressedRightly` |
| `pipeline_shared` | 2 calls over one options object | a violation, below |
| `destinations` | every array of strings up to six characters | `ParsesAsScanned`, `ParseIsStable` |

One run of every module that keeps types checks its `TypeOK` too.  `broker`, `message` and `publisher` check
safety and liveness over one and the same state space, so they use no symmetry.

Why these bounds suffice.  The broker's races are between two calls, or a call
and the server; a second connection and a second channel are what an overwrite,
a late cleanup or a reconnect needs, and the third of the serial run is a second
reconnect.  A call only starts while the channels left suffice for all calls in
flight, so that running out of model values is never mistaken for a call that
hangs.  In `Message` two tags make `allUpTo` and order matter, the third a
redelivery on the same channel after a nack, the second channel makes tags start
again.  In `Publisher` two calls of two copies fill a buffer of two, so that one or
both wait for `drain`, in the loop or after it, on one channel or on two.  In
`Clients` two calls are an overlap, the third channel a replacement for a replaced
one, the second publisher of the pool what the broker makes after dropping the first.
In `Consumer` two tags are what overwrites one another, two callers with the
null callbacks are up to four calls at a time, and the channels are a first, an
overlapping and a later one.  In `PublishPipeline` the third call is the one
without middleware among two that share, two copies leave a gap between sending,
and the encodings are none, two to be undone in order with one between them that is
passed over, and a list with an unknown one.  Six characters hold two parts of
every shape, a second colon and a second key included.

`CHECK_DEADLOCK FALSE` everywhere: a bounded system ends when its channels, tags or characters are used up or its calls
are settled, and an idle broker may stay idle.

Mutants.  Every property of a passing run is known to fail for a plausible bug:
the operators whose names differ from the code's (`EvictChannelsNever`,
`ReachesAny`, `BurstIgnoresFull`, ...) are those bugs, each next to the
definition it stands in for.

### Fairness

Only `Broker`, `Message` and `Publisher` state fairness, where the code waits for
somebody.

`Broker`: the event loop runs every continuation (`Resume`), the server answers
what is asked or the heartbeat ends the connection (`Answer`, and the close of
what is closing).  Nothing says a caller calls again, or that open connections
fail.  `Message`: deliveries and frames arrive, the consumer consumes again when
its channel is gone, and the application settles a message it holds as long as
`needsAck` says that it can; lost connections are bounded by `MaxChannels` and
never required.  A job that is refused again and again may outlive the tags, which is
the excuse `nextTag > MaxTag` in `EveryJobSettles`.  `Publisher`: middleware and provider settle, a live
channel drains and is confirmed, a closing one closes.

### What the code does against its documentation

* `message_omitted`: `consume(queue)` without options subscribes with
  acknowledgements, but its Messages think none is needed (`consumer.ts:96-99`):
  `ack()` returns and does nothing, against README.md:190.
* `message_stale`: after `ack(true)` earlier Messages still claim `needsAck`,
  against the comment at `message.ts:65`; acknowledging one closes the channel.
* `pipeline_shared`: `publisherCrc32` writes into the headers of the caller's options
  (`publisher-middleware.ts:82`): publishes that share options and overlap send each
  other's checksum, and the consumer rejects a message that nothing happened to,
  against publisher.spec.ts:91 ("sends what is published").

Known limits the passing properties delimit: overlapping first calls of the
broker lose a connection (`OrphanedOnlyByOverwrite` says this is the only way,
the serial theorems that it cannot happen to calls that do not overlap); a nack
is missed while `publish()` waits for `drain` (`NackMissedOnlyInDrain`); `close()`
hangs if the socket is lost first (`CallsSettle`); a publish may wait for the
confirms of a closed channel (`PublishSettles`); two `consume()` calls, one after the
other or overlapping, or a `cancel()` of another subscription, be it called by the
application, by `close()` or because the server cancelled, leave a subscription that
nothing cancels (`OrphanedByAnother` says which steps can do it and that no others can,
`CloseEnds` that careful applications are spared); a consumer
leaves its publisher's channel when first calls overlap (`DivergesOnlyByOverlap`);
options may be shared only by calls that do not overlap, or that end up sending from
objects of their own (`Exposed`).

## Proofs

The theorems hold for every number of callers, connections, channels, jobs, tags,
publishes and destinations, publishers and consumers, options objects, encodings and
copies, addresses of every length, and
every high-water mark, under the assumptions the
modules name (`None` is no other value, no content type either, connections are not channels, tags are not
callers, a client is either publisher or consumer, options and verbs are the code's,
bounds are natural numbers, and publishes are finitely many, so that those that wait can be counted).

`BrokerProofs`.  `CacheIsLive` is not inductive: whether what a call is about to
cache is alive depends on what the call holds.  The invariant `IInv` adds: a
channel in use has a connection, and a live one a live connection
(`ChannelsNeedConnections`); what is listened to has been opened
(`WatchedHaveOpened`); what is cached and alive is listened to
(`CachedAreWatched`); at each await the call's connection and channel are in the
status that await implies (`ConnectionCalls`, `ChannelCalls`); a channel that is
being opened belongs to one call (`OneCreator`).  One lemma per action shows it
preserved.  `TypeCorrect`, `CacheLiveness` and `CloseReleasesItsConnection`
follow; `EvictionIsExact` and `OrphansAreOverwritten` are action properties from the
invariant, the identity checks and what each action does to a connection.  With one
caller (`Serial`) the invariant `SerialInv` on top of it, that everything alive is cached or held by the caller, gives
`SerialOneConnection` and `SerialClose`.

The second half of the module is the refinement.  `BrokerIsAProvider` shows it step by step on top of the
broker's invariant: `AskingCalls` says what a call is for until it has a channel, and
then every action of the broker maps to the provider's action of the same meaning or
leaves the provider's variables alone.  `IInv` is needed where the provider
is stricter than the broker's text: `ChannelCalls`, the status that a call's channel has
at each await, shows that a channel is opened for the call that waits, and that a closing
connection rejects exactly those calls whose channel was still being opened.

`MessageProofs`.  `AtLeastOnce` needs that a frame on its way is backed by a call
on the Message it settles, or on a later one with `allUpTo` (`FramesAreVerdicts`);
that a Message, the server's tag and a delivery in flight agree on the job
(`SameJob`); that deliveries are received in the order of their tags (`InOrder`,
`FutureIsBlank`), so that everything below an acknowledged tag has been received;
and that a call recorded is the first (`FirstCall`).  For an application that
never passes `allUpTo` (`NoAllUpTo`), the invariant `OneByOne` ties the three
places a tag can be, on its way out, held, on its way back, to the server's table;
`KnownTags`, `NeedsAckTells` and, with `OneTag`, `OneLive` follow.  `NobodyStrands`, the
safety half of `EveryJobSettles`, holds whatever the application calls: the server
waits for a job under exactly one tag (`OneTag`), and that tag is in flight as one to
acknowledge, or its Message still needs it, or a frame with it is on its way
(`Answerable`).  Its one hypothesis, that no subscription omits its options, is the
first of the code's disagreements above: there the Message does not know that it is
waited for, and the job is stranded.

`PublisherProofs`.  `SentInOrder` speaks of the sequence a channel carries
(`received` followed by `buffer`): it is kept by a burst because what a live channel
carries is exactly what its calls have written, `Complete` in the one direction and
`LogsAreWritten` in the other; a close cuts that sequence off, and a prefix of it is
still without gaps.  `BufferBounded` follows from what one burst can come to
(`BurstFacts`) and from counting the waiting calls.  `FulfilledIsDone` and
`NackMissedOnlyInDrain` need that a call which waits awaits every copy of its own
that has no answer (`ConfirmsAreSeen`), and that a copy not yet written has none
(`UnwrittenIsUnanswered`): so a call that never waited for `drain` starts to await
before any of its copies can be refused.
`NobodyWaitsInVain` is the safety half of `PublishSettles`: `WInv` adds what each wait
is for.  A wait for `drain` begins with a write and so with something in the buffer,
and a flush of the last of it ends the wait (`DrainsAreDue`); what a call awaits was
written to that very channel and leaves the set when it is answered, and the call
goes on when the set is empty (`AwaitsTheWritten`).  That the waits then end takes
fairness, and stays with TLC.

`ConsumerProofs`.  The invariant ties each point of a call to what it holds
(`CallsAreSound`), the status of watched channels (`WatchedAreUsed`) and of subscriptions
(`SubscriptionsAreSound`).  `CloseIsComplete` needs, for careful applications, that
a `consume()` is alone but for the cancellation it may provoke (`ConsumesAlone`), that
the one subscription is at hand afterwards (`IsAtHand`), and that every `cancel()`
under way is for it (`CancelsTheLiving`).  `OnlyOthersOrphan` rests on the lemma that
reach is kept while what reaches is left alone (`ReachIsKept`), and on a second invariant
on top of the first: a tag that is held was given out, and a `cancel()` that came back
has ended the subscription it was for (`TagsAreGiven`), so that only the end of a
`cancel()` of something else can take a living one out of reach.

`ClientsProofs`.  `HandsOutTheLiving` needs that whatever is cached was open once
(`HandedOutAreUsed`), that a channel being opened is known to its call alone
(`NewAreFresh`), that nobody listens to what the broker never listened to
(`ListensAreHeard`), and that a cached channel is alive exactly if all that cache it
would hear it close (`CachedAreHeard`).  `PartsOnlyByOverlap` needs that a consumer never
waits without its publisher (`PublishersWaitToo`), and `PublisherIsKept` follows from
the types and the identity check, action by action.

`PipelineProofs`.  Each stage of the middleware has a lemma that says which objects it
may write (`Keeps`, `Alike`, `Does`, `SumsUp`) and what it makes of the content
(`OfString`, `OfObject`, `Encoded`).  The invariant `PInv` then follows headers
through the heap: those in a caller's options are the caller's or a user's of these
options (`GivenHeads`), those in a call's own options its own or the given ones
(`OwnHeads`), unused ones hold no checksum (`UnusedAreClean`), and what a call that is
not exposed sends next is as good as what it has sent (`SendsWell`).  Good includes that
a copy says how it is to be read (`Tells`): its type names the form that was encoded, and
its content is that form compressed by the very encodings it lists.  `RoundTripHolds` then
is a fact about the consumer's functions alone (`ToldIsHeard`): `Uncompressed` undoes one
`Compressed` (`OneInverse`), hence the one fold undoes the other when it runs over the
reversed list (`AllInverse`), and the decoders turn the form back (`Restored`).
`TypeCorrect` rests on `PInv` and on every call having a content (`TInv`).

`ParseProofs`.  `AddressesAreScanned` is the proof that splitting at `;`, `:` and `,`,
trimming and defaulting is the same as reading from left to right.  What `Split`, `Trim`
and the parts of an address become when one character is appended are its lemmas; the
invariant `ScanInv` says that the scanner, after what has been written so far, holds the
destinations of the strings and parts that are over and stands at the end of the part `p`
that is not.  `ParsedIsReadBack` holds for every array of strings over the alphabet,
written by the state machine or not: a destination contains no separator and no outer
blanks, so that written out it is one string of one part with one key; `ParsingIsStable`
is its instance.

`FoldProofs` is what both of them need about recursion over sequences.  `FoldLeft` and
`FlattenSeq` of the community modules choose a recursive function, so the proofs first
show that such a function exists (`Accumulator`) and that any other with the same steps
ends where it does (`FoldAgrees`).  The induction theorems of the library take an operator as a
parameter and cannot be used, so `Induction` and `SequenceInduction` are proved for sets
instead, from the least element of a set of natural numbers.  A model's fold over an
operator is tied to the fold over a function once (`SplitIsFold`, `CompressedIsFold`,
`UncompressedIsFold`), then `FoldAppend`, `FoldCons` and `FoldInverse` apply.

Every invariant and every action property of a passing run is stated by a theorem, and so
is the refinement.  Model-checked only: liveness (`CallsSettle`, `EveryJobSettles`,
`PublishSettles`), which is out of the prover's reach, and the three violations.

## Not modelled

* `set()`, `get()` and the log of a `Message`: one assignment each, which nothing in the
  library reads.  (`get()` tests the wrong way round, see the hazards.)
* That the delivery callback awaits its middleware, so that a rejected message may be
  reported after later ones: it takes a count of microtasks per middleware.
* The `'error'` handlers that the cleanup tasks remove from the wrong emitter: no state
  here depends on them.
* What happens without a listener for `'error'`: the handlers of broker, publisher and
  consumer re-emit errors, and Node's `emit('error')` throws when nobody listens.  The
  models assume an application that listens, so that a failing channel or connection
  runs its cleanup tasks and nothing else.
* Liveness of `Consumer`: its calls wait for the same answers as those of `Broker`,
  and end with their channel.
* The wording of events and errors, debug output, interfaces and exports, examples,
  tests, generated documentation and packaging.

`prefetch()` is an operation of the broker in `Broker` and a constant in `Message`.
