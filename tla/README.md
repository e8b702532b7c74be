# Formal verification of iov-core

TLA+ models of the parts of iov-core that keep state over several asynchronous
steps, TLC configurations that check them on small instances, and TLAPS proofs
for all instances. iov-core is a TypeScript client library for several
blockchains: a web or Node.js application links it, connects to a node over
WebSockets or HTTP, keeps keys in a profile, signs transactions and follows the
chain. All of its code runs on the JavaScript event loop, so everything between
two `await`s, callbacks or timers is one atomic step and everything else
interleaves. That is the granularity of all models here.

## 1. Inventory

| Package / component | State | Operations | Interacts through | What is hard | What makes it correct |
| --- | --- | --- | --- | --- | --- |
| iov-socket `SocketWrapper` | one WebSocket, a timer, the `connected` promise | connect, send, disconnect, four WebSocket handlers, timeout | callbacks to StreamingSocket | timer races open/close/error; events after disconnect | the timer never hits an established connection |
| iov-socket `StreamingSocket` | the `events` stream | error and close handling | stream | error followed by close; clean and unclean close | ends once |
| iov-socket `QueueingStreamingSocket` | request queue, `isProcessingQueue`, connection status, current socket | queueRequest, processQueue, connect, disconnect, reconnect | status updates | concurrent loops on one queue, failing sends, callbacks of replaced sockets | every request in one place; status describes the current socket |
| iov-socket `ReconnectingSocket` | retry timer and its delay | connect, disconnect, queueRequest | owns the stack | updates that come twice or not at all | a lost connection is always retried |
| iov-tendermint-rpc `WebsocketClient` | pending calls, event producers per query | execute, listen, disconnect, producer start and stop | a ReconnectingSocket shared by all calls | lost answers, re-used ids, stop and restart | calls settle; one event is delivered once; server subscriptions follow listeners |
| iov-tendermint-rpc `Client`, adaptors | none (detected version) | one method per RPC call, `txSearchAll` | RpcClient | the chain grows between two pages | nothing is lost over pages |
| iov-stream `concat`, `dropDuplicates`, promises | queues, keys | stream operators | used by all connections | order of sources, buffering, restarts | output is the concatenation |
| iov-stream `DefaultValueProducer`, `ValueAndUpdates`, `Reducer` | current value | update, waitFor | `blockInfo`, `connectionStatus`, `wallets` | subscribe and unsubscribe in callbacks | last value is never stale |
| iov-bcp `AtomicSwapMerger` | open and settling pools | process, openSwaps | BnsConnection, EthereumConnection | claims overtake offers | merges to the state of the chain |
| iov-bns `BnsConnection` | tokens cache | postTx, searchTx, listenTx, liveTx, getSwaps, watchSwaps, watchAccount, getNonces | tendermint `Client` | commits between search and subscription | no transaction missed, repeated or reordered |
| iov-keycontrol `Keyring`, wallets | wallets with identities and labels | add, createIdentity, labels, serialize | UserProfile | suspended createIdentity calls | identities unique |
| iov-keycontrol `UserProfile`, `DatabaseUtils`, `KeyringEncryptor` | unlocked keyring, published wallet infos, database | storeIn, loadFrom, lock, keyring operations, signing | LevelUp database | partial writes, overlapping stores, crash, lock during a store | a resolved store can be loaded |
| iov-multichain `MultiChainSigner` | known chains | addChain, signAndPost, shutdown | connections, profile | nonces of concurrent posts, shutdown during connect, lost answers | what a call answers is what happened at the node |
| iov-multichain `SigningServerCore`, `JsonRpcSigningServer` | posted transactions | getIdentities, signAndPost, handleUnchecked | callbacks of the wallet application | many requests under way at once, malformed messages, callbacks that throw | nothing is signed without authorization; every request is answered once |
| iov-lisk, iov-ethereum, iov-cosmoshub connections | poll timers, last event, height of the next search, subscription IDs | postTx, watchAccount, watchBlockHeaders, liveTx, listenTx, getSwaps | HTTP, WebSocket, scraper | overlapping polls, answers out of order, sources out of sync, restarts | reports are true, feeds are complete and without duplicates, timers end |
| iov-bns codec, generated classes | none | bytesToSign, bytesToPost, parseBytes, parsers of the state | called by BnsConnection, the chain signs and checks the same bytes | default values, absent fields, number ranges | parsing recovers what was built; the chain accepts what was signed |
| iov-jsonrpc | request id counter | `JsonRpcClient.run` | message stream | answers of concurrent calls | answers reach their call |
| other codecs (iov-lisk, iov-ethereum, iov-cosmoshub), iov-encoding | none | encode, decode, number ranges | called by connections | number ranges | decode inverts encode |
| iov-crypto, iov-bns-governance, iov-faucets, iov-cli, iov-utils, iov-bcp types | none | pure functions, one HTTP call, REPL | | | |

`PROJECT.json` lists every component with its status, and under `hazards` the
places of the code where a test would hardly reach, each with the properties
that watch it.

## 2. Modules and the code they model

| Module | Code | State and actions |
| --- | --- | --- |
| `SocketWrapper` | `socketwrapper.ts` | a pool of wrappers (`readyState`, `socket`, `timeoutId`, `closed`, `connected`); one operator per handler. A slot whose wrapper can report nothing any more is used again for a later instance. |
| `StreamingSocket` | `streamingsocket.ts` | `events`: how the stream of a wrapper has ended |
| `QueueingStreamingSocket` | `queueingstreamingsocket.ts` | queue, status, current socket; `writes[s]` are the `processQueue()` loops suspended in a `send()` on socket `s`; `accepted` and `sent` are histories |
| `ReconnectingSocket` | `reconnectingsocket.ts` | retry timer and index, the user's calls; composes the three modules above into `Next` |
| `RequestTransport` | | abstract specification of the stack: life cycle of the status, requests waiting and transmitted |
| `WebsocketClient` | `rpcclients/websocketclient.ts` | calls and event producers on top of `RequestTransport`, with the server's subscriptions and messages |
| `Keyring` | `keyring.ts`, `wallets/*.ts` | wallets as sequences of labelled identities; `calls` are the suspended `createIdentity()` calls |
| `UserProfile` | `userprofile.ts`, `utils.ts`, `keyringencryptor.ts` | extends `Keyring`; the database with its three keys, `storeIn()` and `loadFrom()` suspended at every access to it, lock and crash |
| `StreamOperators` | `concat.ts`, `dropduplicates.ts`, `promise.ts` | the operators as functions on their state |
| `Sublists` | `Array.filter` | the elements of a list that belong to a set, as a recursive function that can be reasoned about |
| `ConcatStream` | `concat.ts` | concat between its sources and a listener that stops and comes back |
| `TxSearch` | `tx_search` of Tendermint | the pages of a list of results |
| `LiveTx` | `bnsconnection.ts` (`searchTx`, `listenTx`, `liveTx`), `client.ts` (`txSearchAll`) | request and message queues of one connection, a node that commits blocks and has an order of its own for search results (`rank`, a place for every transaction), the search promise, the streams |
| `AtomicSwaps` | `atomicswapmerger.ts`, `bnsconnection.ts` (`getSwaps`, `watchSwaps`) | the merger's pools, two live streams at their own pace, a `getSwaps()` with its two searches, page by page over a growing chain in any order of the node's results, and the merge that may throw |
| `MultiChainSigner` | `multichainsigner.ts` | chains and connectors under way, `signAndPost()` suspended at nonce, signature and post, over nodes with committed nonces and a mempool; lock, shutdown |
| `SigningServer` | `signingservercore.ts`, `jsonrpcsigningserver.ts`, iov-jsonrpc | extends `MultiChainSigner`; one handling per message with the user's decision, the response, and the client's `run()` |
| `PostTx` | `postTx()` of the four connections, `defaultvalueproducer.ts`, `valueandupdates.ts` | the value, listeners that come and go, the interval timer with overlapping polls, the two streams of BNS |
| `Watchers` | `liskconnection.ts`, `ethereumconnection.ts`: the polled streams | starts of a producer with their timers and heights, polls under way, the variables shared by all starts |
| `AddressFeed` | `liveTx()`, `listenTx()` of Lisk and Ethereum for an address | `minHeight` per source, searches under way with the requests not answered yet (the logs are asked twice, and answered at different heights), a scraper that lags |
| `NewHeads` | `EthereumConnection.watchBlockHeaders` | subscriptions at the node, two queues, delayed fetches |
| `SwapLogs` | `EthereumConnection.getSwaps` | the logs of two contracts, a query with its two requests, words of the ABI; which tokens are configured with a checksummed address, as the query by ID compares |
| `Protobuf` | the `encode` and `decode` that protobufjs generates | a generic writer and reader over a schema: varint ranges, default values, repeated and nested fields |
| `BnsSchema` | `generated/codecimpl.js` | one line per class: names, numbers, types of its fields |
| `BnsTypes` | `types.ts` | which properties transactions have; small sets of values for each |
| `BnsEncode`, `BnsDecode` | `encodemsg.ts`, `encodinghelpers.ts`, `decodemsg.ts`, `decodinghelpers.ts`, `decodeobjects.ts` | one row per property: the field it goes to and the conversion, with what throws |
| `BnsCodec` | `bnscodec.ts`, `encode.ts`, `decode.ts`, `util.ts` | a transaction from its properties to the signature, the post, the check of the chain and back |
| `BnsObjects` | `bnsconnection.ts` (`createParser` and the list queries) | objects of the chain's state and what the ten queries make of them |
| `BnsMessages` | `generated/codecimpl.js` | a message of any class sent by a newer program |
| `ReconnectingSocketProofs`, `WebsocketClientProofs`, `UserProfileProofs`, `SigningServerProofs`, `AddressFeedProofs`, `ProducerProofs`, `SwapsProofs`, `StreamsProofs` | | theorems about the module each extends (section 5); `UserProfileProofs` also about `Keyring`, `ProducerProofs` about `PostTx`, `Watchers` and `NewHeads`, `SwapsProofs` about `AtomicSwaps` and `SwapLogs`, `StreamsProofs` about `ConcatStream`, `LiveTx` and the composition |
| `MC...` | | instances for TLC; `MCWebsocketClient` also instantiates the socket stack for the liveness it owes the client |

The generated classes and the codec are tables in the code, and tables in the
models: `Protobuf` has one `Encode` and one `Decode` for all classes, `BnsSchema`
the fields of each class, `BnsEncode` and `BnsDecode` the rows of each
transaction kind. A conversion is an operator with two directions of its own;
numbers keep a width (`Word`, a small power of two in place of 2^32 and 2^64, so
that what is cut off is within the bounds).

`MCStreams` explores eight specifications that share no variable in one run.
`part` is chosen at the start; the variables of the other specifications keep
their initial values, in which no action with fairness is enabled, so that their
properties hold there trivially and say something exactly in their own part.

Outside the repository and modelled by how the code uses them: WebSocket
(isomorphic-ws), xstream, the Tendermint node, the BNS chain, LevelUp. What is
abstracted everywhere: payloads, key material, wording of errors, logging.
A request, identity, label or transaction is a model value or a number. A
secret of `UserProfile` is a password with a format version; a keyring decrypts
with exactly the password and version it was encrypted with.

## 3. Runs

Passing runs:

| Run | Bounds | Shows |
| --- | --- | --- |
| `rs_safety` | 3 socket slots, 2 requests, 1 `disconnect()`, symmetric | `EachRequestOnce`: no request is lost, duplicated or in two places, with several `processQueue()` loops and failing sends. `RetryScheduled`: Disconnected always has a running timer with the delay of its attempt. `TimeoutOnlyWhileConnecting`, `StaleSocketsAreSilent`, `StatusIsAccurate`: races between the timer, late callbacks of replaced sockets and the status. `ImplementsTransport`: refinement of `RequestTransport`. |
| `ws_safety` | 1 call, 1 query, 3 starts, 2 events, inbox of 3; the stack with 3 slots, 1 request, 1 `disconnect()` | calls settle when the client disconnects, are resolved only by an answer to a transmitted request; the server's subscriptions follow the listeners on the first connection (`ServerFollowsListeners`); of the stack below, `AttemptsGoOn`: every attempt ends, every lost connection is tried again |
| `kr_safety` | 4 wallets (2 HD wallets of one mnemonic, 2 Ed25519), 2 added, 2 identities, 2 overlapping calls | no wallet has an identity twice, Ed25519 wallets are disjoint, wallets and identities are only appended |
| `up_safety` | 1 HD wallet with 1 identity, 2 labels, 1 password, 2 overlapping `storeIn()` | the wallet list shown is current; format version and encryption agree; a `storeIn()` that resolved is durable over locks, loads and crashes |
| `ss_safety` | 2 requests of any form, 2 chains with one identity each, 2 `addChain()` calls | what a node accepted was authorized; a response tells what happened (`AnswersAreTruthful`), the list shown to the user follows the responses; a transaction is refused only when another one of the identity overlapped; a call is answered unless it waits for its user or for a node for ever (`CallsAreAnswered`) |
| `bc_safety` | transactions of 29 kinds with the boundary values of each property, 126 classes, pairs of objects | `ParseRecovers`, `SignBytesBind` (two transactions that differ do not sign the same bytes), `OnlyDefaultsAreRejected` (the chain rejects a signature for no other reason than a default value written outside of coins, memos and timeouts), `ListsTheState` (objects are equal in a list exactly when they agree in the key and in what `types.ts` shows of them; an object with a value in every field is listed), `MessagesArrive` |
| `st_safety` | see below | concat: `OutIsConcatenation`. Swaps of BNS: `WatchFollowsChain` (the merger never throws and ends in the state of the chain), `GetSwapsIsConsistent` (a state of the interval of the call; rejected only when results moved behind a page that was read). `liveTx()` of BNS: `EmittedOnceInOrder`, `PromisedIsEmitted`. `postTx()`: `ReportIsTrue`, `ReportAdvances`, `WaitIsSettled`. Polled streams: `FirstListenerFollows`. Feeds of an address: `FeedIsExact` (nothing repeated or out of range; nothing left behind but in blocks between the two log answers of one search). New heads: `HeadsExact`. Swaps of Ethereum: `SwapsAreTrue`, by filter and by ID. Timers and subscriptions of the producers: `NothingStaysBehind` |

Bounds of `st_safety`: 3 sources with 2 values each; 2 swaps; 4 transactions
with at most 2 before the call, pages of 1, two orders of results for `liveTx()`
and every order for `getSwaps()`; a chain of
4 blocks, 2 polls and 1 fault for `postTx()`; 3 blocks, 2 states of the account, 2 listeners, 2 polls
and 1 fault for the polled streams; 2 transactions, 2 blocks, 2 queries and 2
searches for the feeds; 3 heads, 2 starts and 1 fault for new heads; 3 swap IDs,
one of them used by both contracts, 3 offers, 2 tokens,
one of them configured in lower case, and 2 values of `minHeight` for the swap logs.

A property that joins several claims is the conjunction of named parts, each of
which can be put into the configuration alone. So can the type invariants that
the modules state: the runs do not list them, and all of them are proved, except
the one of `BnsCodec`.

Why the bounds are enough. Three socket slots let two replaced sockets with
events to come coexist with the current one; the retry index saturates at 6,
from where the delay is constant. Two requests let one loop fail while another
holds the next request. Three producer starts let a restarted stream restart
again with answers of the earlier rounds under way. Two calls and wallets that
share a mnemonic are what a collision takes. Two stores are what an overlap
takes, and the database has only three keys. Four transactions and pages of one
let the pages shift twice during a search, and the positions stand for heights
8 to 11, the smallest at which the order by digits differs. Two swaps show that
pools keep swaps apart; each swap has its complete life. Two polls are what an
overlap takes; with one fault, the run covers a failure before and after any
other event. A second listener or start is what brings late answers of the
first one. Three blocks let one come before, during and after a poll of a
watcher. Two blocks of a feed let one come before and one during a search, between
its two answers too; the proof covers every height.

Deadlock checking is off (`CHECK_DEADLOCK FALSE`) where the bounded instance
really ends: all requests sent and nothing left to fail, all transactions
committed and received.

Runs that end with a violation, each a finding in `PROJECT.json`:

| Run | Property | What the trace shows |
| --- | --- | --- |
| `rs_stuck` | `RequestsAreProcessed` | a connection that opens with an empty queue leaves `isProcessingQueue` set; requests queued later are never sent |
| `kr_twice` | `NoDuplicateIdentity` | the collision check of the keyring and the push of an HD wallet are separated by an await; the keyring stored then cannot be loaded |
| `lt_gap` | `NothingIsMissed` | a transaction committed between the answer of the search and the subscription is in neither |
| `pt_failed` | `FailureIsReported` | `postTx()` of Ethereum and Cosmos Hub says Succeeded of a transaction that is in a block and failed: neither asks for the outcome |
| `hd_dup` | `NoDuplicateHeaders` | polls of `watchBlockHeaders()` on Lisk overlap; the late answer differs from `lastEvent` and is emitted again |

Places where the code does less than one would expect, and which a property of a
passing run therefore excludes by name rather than by its instance:

- `GetSwapsIsConsistent`: a paged search may have a transaction on two pages when
  results move between the requests. Nothing removes it, `process()` throws for an
  offer that comes twice, and `getSwaps()` is rejected. It takes a node whose
  results do not come in the order of the chain; `txSearch` sorts for that reason.
- `FeedIsExact`: `minHeight` of the logs moves past transfers in a block that came
  between the answers to the two requests of one search; they never reach the
  listener, against "we assume we got all matching transactions from block
  `item.height` now".
- `SwapsAreTrue`: by its ID, a swap of a token whose address was configured in
  lower case has an amount of Ether.
- `OnlyDefaultsAreRejected`: `encodinghelpers.ts` "normalizes the zero value to null
  as expected by weave", but only coins, memos and timeouts pass through it.
  `hasSuperuser: false`, an empty account name or weight 0 are written, and the chain,
  which leaves them out, does not accept the signature. The general claim is
  `SignedIsAccepted`, which does not hold.
- `ListsTheState`: a zero value in one object, or one proposal of a kind the
  decoder does not know, makes the whole list fail.
- `ReportIsTrue`: only BNS tells a failed transaction from one that succeeded
  (`pt_failed`).
- `CallsAreAnswered` and `WaitIsSettled`: an answer that is lost with its
  connection settles nothing, and `liveTx()` may miss the transaction (`lt_gap`).

Further properties that tests or comments state and that do not hold are kept
in the modules, without a run; adding one to the configuration named reproduces
the trace. `ReconnectingSocket`: `SentInOrder` (`rs_stuck` with `MCRequests`;
two loops put rejected requests back in reverse order),
`ReconnectsWhenBrokenOff` (`rs_stuck`; a clean close is not noticed),
`DisconnectIsFinal` (`disconnect()` causes a Disconnected update, which starts the
retry timer, which connects again) and `DisconnectCompletes` (`disconnect()`
throws after a connection timeout). `WebsocketClient`: `EventsReceivedOnce` (`ws_safety`; a stream that is
listened to again delivers every event twice), `CleanCloseEndsStreams` (with
`FairSpec`). `SigningServer`: `ShutdownDisconnects` (a chain that is added during
`shutdown()` stays connected). `BnsCodec`: `SignedIsAccepted` (a default value that
is written explicitly is signed in bytes the chain does not derive),
`AbsentStaysAbsent` (bytes that are not set are read back as an empty address). `OutIsConcatenation` does not hold when `undefined` is among the
values (`Value` containing `Undefined`). The comment in `wallet.ts` that the
same secret gives the same wallet id differs from the code, which generates
random ids; `Keyring` follows the code and lets a serialized copy keep its id.

Seen while modelling, and followed by the models as the code has it:

- Cosmos Hub passes the height of the response as the current height, so that
  its confirmations are always 1.
- `watchBlockHeaders()` of Lisk emits nothing to a second listener while the
  height is that of `lastEvent` and stays at it, since `watchHeight` is only
  incremented with an event.
- Timers that are never cleared: `watchAccount()` of Ethereum and
  `waitForTransaction()` of Lisk do not keep the handle; `watchBlockHeaders()` of
  Lisk sets it after an await in which the listener may leave.
- `EthereumConnection.watchBlockHeaders`: a listener that leaves before the
  subscription ID has arrived reaches "Subscription ID not set. This should not
  happen.", and the subscription stays at the node.
- `getSwapsById()` gives the swap of a token that is not configured as one of
  Ether, where the query by filter leaves it out.
- `storeIn()` erases the database before it rejects a key of another format
  version; a signature that is under way is finished after `lock()`; a rejected
  `del()` while the database is cleared leaves `storeIn()` unsettled.
- In `AddressFeed` every request is answered at one moment with whole blocks, and
  the chain does not reorganize. The transactions that the logs name are asked
  for by ID afterwards, which changes neither the set nor the heights.
- The list decoders ignore some fields of the state (the broker of an account, the
  addresses of swaps and election rules, `tallyTaskId`, the limits of a tally) and all
  amounts but the first of a proposal to release an escrow. `types.ts` has no property for them;
  `Unlisted` and `Shown` of `BnsObjects` name them.

## 4. Fairness

- `ReconnectingSocket.FairSpec`: weak fairness of the retry timer, the
  connection timer, the close event of a WebSocket that is CLOSING (the library
  has a close timeout of its own) and the callbacks of writes. These are timers
  and callbacks of the event loop. Nothing is assumed of the server, of the
  network or of the user; in particular no connection has to succeed.
- `SigningServer.FairSpec`: the profile signs, errors are caught, responses are
  made and arrive: callbacks of the event loop and the message channel between the
  two. Neither the user nor a node is under an obligation to answer, since
  a lost answer leaves `WebsocketClient.execute` pending; `CallsAreAnswered` says that a
  call is answered or waits for one of them.
- `PostTx.PostFairness`: the interval timer fires and a poll is answered, whatever
  it is answered. Polls may fail up to the bound, listeners come and go as they
  like. Nothing is assumed of `liveTx()`, which may miss the transaction (`lt_gap`).
- `Watchers.WatchFairness`: timers fire, the oldest poll is answered. Younger
  polls may be answered before it.
- `NewHeads.HeadFairness`: the socket's queues are worked off, headers arrive.
- `LiveTx.LiveFairness`: the node answers requests, messages that arrived are
  handled, callbacks of settled promises run. Blocks need not be committed, and
  nobody has to call or listen. `PromisedIsEmitted` allows the stream to fail.
- `WebsocketClient.FairSpec`: messages are handled, the timer with which xstream
  stops a producer fires.

## 5. Proofs

Eight modules hold theorems, each next to the components it extends. They hold for
every value of the constants that satisfies the named assumptions of the
component's module, which TLC evaluates on every run. Each proof has the same
shape: an inductive invariant that is a conjunction of named parts, one lemma or
step per action, and a last temporal step. The inductive invariants that are
not obvious were checked with TLC on the instances of the runs before they were
proved.

`ReconnectingSocketProofs`: any set of sockets and requests, any first slot among
them (`FirstSocketAssumption`), any bound on `disconnect()` calls
(`MaxDisconnectsAssumption`).

- `TypeCorrect`: `Spec => []TypeOK`.
- `RetryIsScheduled`: inductive relative to the types. Every step that sets the
  status to Disconnected also starts the timer, and the only step that stops the
  timer leaves that status.
- `TimeoutIsBounded`, `StaleSocketsStaySilent`, `StatusStaysAccurate`: the three
  invariants about the current and the replaced sockets. None is inductive
  alone: a replaced socket is silent because it was when it was replaced, which
  holds because the status was Disconnected then (the timer runs only in that
  status), and what that status says about the current socket depends on
  silence of the others. `StatusInv` puts these facts together.
- `RequestsStayOnce`: `EachRequestOnce` is inductive relative to the types. The
  lemmas say where one request goes when a loop turns, a `send()` resolves or a
  `send()` is rejected; `OffSocket` is the fact all of them need, that the oldest
  write of a socket is nowhere else.
- `TransportIsImplemented`: `Spec => ImplementsTransport`. Every step is a step of
  `RequestTransport` or leaves its variables unchanged; `WebsocketClient` is
  built on that specification, so that what is proved there rests on the code
  of the stack. The invariant `UnconnectedInv` excludes a `disconnect()` before the
  first connection.

`WebsocketClientProofs`: any calls, queries, starts, events and messages
(`Disjointness`: calls are not queries; `RequestShape`: which requests there are;
`Bounds`).

- `TypeCorrect`, with `ProducerInv`: every stop of a producer belongs to a start.
- `CallsStayRight`: `CallsSettleRightly`. An answer under way belongs to a
  transmitted request.
- `ServerStaysInStep`: `ServerFollowsListeners`. The server applies what is
  transmitted, in order; `FollowInv` says which requests of a query were made
  for its number of starts and stops, that a request is transmitted after the
  ones before it, and that the server is subscribed between a subscribe and its
  unsubscribe.

`UserProfileProofs`, the keyring: any wallets, identities, reaches and any number of overlapping
`createIdentity()` calls (`WalletAssumption`: HD wallets are wallets, reaches are
sets of identities, `undefined` is a label).

- `KeyringTypeCorrect`, `IdentitiesStayUnique`, `PlainWalletsStayDisjoint` and
  `KeyringGrows` (the action property `KeyringOnlyGrows`). The inductive
  invariant `KeyringInv` adds one fact to the first three: a call that stores
  its identity after another await belongs to an HD wallet. Without it, such a
  call could store in an Ed25519 wallet an identity that another one got
  meanwhile, which is what `kr_twice` shows for HD wallets. The operations fall
  into three kinds, with one lemma each: those that change labels, those that
  push an identity, those that only change suspended calls; `add` has its own.

`UserProfileProofs`, the profile: any number of
overlapping `storeIn()` calls, loads, locks, failures and crashes.

- `ProfileTypeCorrect`, `PublishedStaysCurrent`, `VersionStaysRight`
  (`VersionMatchesKeyring`), `ResolvedStoreStays` (`ResolvedStoreIsDurable`) and
  `ProfileKeyringStaysGood`: the invariants of the keyring also hold after it was
  stored and loaded, because what is in the database, in a load and in every
  store under way serializes a good keyring and is read back as it was.
- The invariant `ProfileInv` follows a store through its stages (`StoreInv`): the
  values of an older release are erased before anything is written
  (`ErasesOld`), a store that runs alone has written every key that is not on its
  list any more (`Writes`), and what it will write contains the identities it
  promises. `VersionMatchesKeyring` is not inductive without the first of these:
  with it, no interleaving of overlapping stores pairs a new version with an old
  keyring.

`SigningServerProofs`: any requests, identities, chains and connections
(`ChainAssumption`: every identity belongs to a chain).

- `TypeCorrect`, `OnlyAuthorized` (`OnlyAuthorizedIsAccepted`), `AnswersStayTruthful`
  (`AnswersAreTruthful`) and `RefusedByOverlap` (`RefusedOnlyByOverlap`).
- `ServerInv` ties the handling of a message, its `signAndPost()` and its response
  together: what runs was authorized and is not answered, and an accepted
  transaction waits for its answer, has it or has lost it. `NonceInv` says that a
  call which overlaps with no other one holds the nonce the node expects.

`ProducerProofs`: the streams that start and stop timers and subscriptions. Any
height of the chain, any finite set of slots for polls of `postTx()`
(`PostTxAssumption`), any number of listeners, starts, polls, heads and faults.

- `postTx()`: `PostTypeCorrect`, `ReportStaysTrue` (`ReportIsTrue`), `StopAlwaysReleases`
  (`StopReleases`, the part of `NothingStaysBehind` about `postTx()`) and
  `ReportOnlyAdvances` (the action property `ReportAdvances`).
- `ReportIsTrue` needs that a poll which was answered knows the height of the
  transaction and a depth it has reached (`CallInv`), `ReportAdvances` that
  without an overlap there is one poll and it is not behind the value
  (`OrderInv`), and that headers follow a reported success (`HeaderInv`).
- Polled streams: `WatchTypeCorrect`, `WatchTimersStop` (`TimersStop`) and
  `WatchHeadersConsecutive` (the action property `HeadersConsecutive`). `WatchInv`
  says what may run before a stream was asked for and which starts there were
  (`StartedInv`), and that without an overlap there is one poll, for the block
  after the last header (`HeightInv`).
- New heads: `HeadTypeCorrect`, `HeadsGivenOnce` (`HeadsOnce`) and
  `HeadsAlwaysUnsubscribed` (`HeadsUnsubscribed`). In `HeadInv`, a subscription
  that was made or asked for is the one of the running producer or its
  cancellation follows (`CancelInv`); the announcements of a head come together
  (`AnnouncedTogether`), so that a head which was fetched for one subscription is
  announced to no other one whose ID the client will know by then (`FetchedOnce`).

`AddressFeedProofs`: any finite set of transactions, any heights, any queries and
room for at least two searches under way (`FeedAssumption`).

- `FeedTypeCorrect` and `FeedStaysExact` (`FeedIsExact`).
- That nothing is left behind, but for blocks between two answers of one search, is
  the hard part. `minHeight` moves past a block
  when a transaction in it or above it was found, so a search must have found
  whole blocks of its range without a hole below what it has found, or the hole is
  one of those blocks (`SearchGood`), at every stage between its start, the
  answers to its requests and its delivery. That nothing
  is repeated on Lisk needs that without an overlap there is one search and it
  begins above everything given (`OnceInv`). The lemma `MaxOfBounded`, a bounded
  set of naturals has a maximum, is what makes the new `minHeight` a number. It is
  proved from a least counterexample, since the induction theorems of the
  library cannot be used with these provers.

`SwapsProofs`: the lists of atomic swaps. Any number of swaps, transactions, pages
and logs within the assumptions of the modules.

- Swaps of BNS: `SwapTypeCorrect`, `WatchSwapsFollowsChain` (`WatchFollowsChain`)
  and `GetSwapsConsistent` (`GetSwapsIsConsistent`). `SwapInv` says what the chain
  accepts (`ChainInv`), what the merger's pools and the output are for a set of
  delivered transactions (`WatchSwapsInv`), and what a query has read (`QueryInv`): the pages
  so far have every early transaction among the places read, and are those
  places unless results moved (`PagesRead`); so a finished search has all that was
  there when the call began (`FoundIs`). The merge of a whole list is followed
  position by position, a repeated offer included, where it throws.
- `getSwaps()` of Ethereum: `SwapsStayTrue` (`SwapsAreTrue`), for any swaps, offers,
  known tokens, of which any are checksummed, and heights. In `SwapLogsInv`, the logs of a contract and every answer
  cut from them are a history in which a swap is opened once and settled at most once,
  later and with the terms of its offer (`HistoryOf`). The reduction over a history is
  followed position by position (`ReduceLogsIs`): after n events the list holds what
  it held before and, once each, the swaps these events opened, in the state they
  left them in (`Reduced`). Swaps of the other contract stay untouched although
  their IDs may be the same, since IDs are compared with their prefix (`Foreign`).
- The lemmas on sequences (what `Those`, `FlattenSeq`, `dropDuplicates` and a sort
  by places return, keep and leave out) are proved from least counterexamples.

`StreamsProofs`: concat, `liveTx()` and the composition. Any number of sources,
values, transactions and listeners.

- concat: `ConcatTypeCorrect` and `ConcatJoinsAll` (`OutIsConcatenation`), for
  values other than `undefined`, a hypothesis of both theorems (section 3 says why
  it is needed). `ConcatInv`: while it runs, the output is what the streams up to
  the active one sent and the queues hold what the later ones sent.
- `liveTx()` of BNS: `LiveTypeCorrect` and `LiveTxOnceInOrder`
  (`EmittedOnceInOrder`), for transactions that are not `undefined`. That a
  transaction is given once follows from `dropDuplicates`; the order needs
  `LiveInv`: the search has one request or one answer under way (`OneRequest`,
  `OneAnswer`), updates come in the order of the chain (`UpdatesInv`) and wait
  until the history is delivered (`WaitingInv`), the pages received so far are the
  beginning of the chain (`PagesInv`), and an update that was not given yet comes
  after all that were (`EmittedInv`). The last two hold for a node that orders
  results by height; `lt_gap` shows that the chain may still have holes.
- `StreamsAreIndependent`: a behaviour of the composition is a behaviour of each
  stream, so that all of the above holds in it; with `StopReleases` of `PostTx`
  this gives `NothingEverStaysBehind` (`NothingStaysBehind`).

Only model-checked:

- Liveness under fairness: `AttemptsGoOn`, `CallsAreAnswered`, `WaitIsSettled`,
  `PromisedIsEmitted`, and the liveness halves of `FirstListenerFollows` and
  `HeadsExact`. Out of reach of the prover; the safety halves are proved.
- `ParseRecovers`, `SignBytesBind`, `OnlyDefaultsAreRejected`, `ListsTheState` and
  `MessagesArrive`: the codec is recursive over its schema and its bytes, with
  RECURSIVE operators.

## 6. Not modelled, and the plan

Not modelled, with the reason in `PROJECT.json`: the codecs of Lisk, Ethereum and
Cosmos Hub and the decoding of the Tendermint adaptors (layouts of bytes and
JSON), iov-encoding and iov-crypto (mostly libraries), iov-bns-governance (builds
transactions from its arguments), types, faucets, CLI and utils. Of the
generated classes, `verify`, `fromObject`, `toObject` and `toJSON` are left out:
no package calls them. Of the connections, calls that are one request and the
parsing of its answer are left out. Reconnections under `NewHeads` are those of
`ReconnectingSocket` and are not repeated.

Planned: pure parts as operators against a reference (`Decimal` and the integer
types of iov-encoding, CAIP-5 and swap offer encodings of Ethereum).
