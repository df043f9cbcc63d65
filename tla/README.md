# A TLA+ development of Aperture

Aperture is a reverse proxy that asks for a Lightning payment before it lets a
request through (the L402 protocol), and a HashMail server: mailboxes through
which two LNC peers exchange encrypted messages. This directory holds TLA+
models of its parts, the TLC configurations that check them on small instances,
and TLAPS proofs about them for any instance. Every definition is translated
from the Go source; `PROJECT.json` names the lines, the hazards the properties
are about, and for each property a mistake in the code that would break it.

## The system and its modules

| Part | Source | Module |
|---|---|---|
| HashMail registry: the map of mailboxes, handles, occupancy flags, stale timers, teardown | `hashmail_server.go` | `HashMailServer` |
| HashMail data path: two pipes, two goroutines, message framing, `SendStream`, `RecvStream` | `hashmail_server.go` | `HashMailStream` |
| Challenger: invoices at lnd, the cache of their states, calls that wait for a state | `challenger/` | `LndChallenger`, implements `InvoiceOracle` |
| Request path: proxy, authenticator, mint, secrets, freebies, prices, headers | `proxy/`, `auth/`, `mint/`, `freebie/`, `pricer/`, `services.go`, `l402/header.go`, `l402/server_interceptor.go` | `Gateway` |
| Caveats and their verification | `l402/caveat.go`, `satisfier.go`, `service.go` | `Caveats` |
| L402 client: payments, the token files, resumption | `l402/client_interceptor.go`, `store.go`, `token.go` | `L402Client`, implements `TokenCell` |
| Database stores: operations, transactions, retries, pool | `aperturedb/` | `StoreOps`, `ApertureDB`, implements `AtomicStore` |
| LNC connection: the session and the handshake callbacks | `lnc/` | `NodeConn` (on top of `ApertureDB`) |
| Life cycle: configuration, `Start`, certificates, servers, `UpdateServices`, `Stop` | `aperture.go`, `config.go`, `proxy/proxy.go` | `Aperture` |

How they interact. `Aperture` brings up the challenger, the proxy and the
HashMail server and takes them down. A request goes from the proxy to the
authenticator, which asks the mint (is this token one of ours, do its caveats
allow this?) and the challenger (is its invoice settled?). The mint keeps its
secrets in the stores. With an LNC backend the challenger talks to lnd over a
connection whose session is in the stores as well. `NodeConn` composes the
connection with the transactions below it; `Gateway` composes proxy,
authenticator, mint, secrets, freebies, pricer and the backend's interceptor
and keeps of the challenger what `InvoiceOracle` promises: it vouches only for
invoices whose payment it has seen, and what it has seen it does not forget.
The two models meet in that module: `LndChallenger` implements it, and what
`Gateway` does with invoices are steps of it. This is about the lnd backend. With
the lnc backend the cache is fed by two subscriptions, and a late event of one
can undo what the other has shown; there `VerifySound` still holds (no unpaid
invoice is vouched for), and `SettlementArrives` says that it ends well.

### State and actions

* `HashMailServer`. Streams are objects, identifiers are keys, so an identifier
  can be used again. `job` is what the holder of the write lock is tearing down,
  `pending` a callback that waits in `Lock` (and, as in Go, keeps new readers
  out), `pc = "taking"` a handler inside `RLock`. Taking and returning a handle
  are two steps each, where the code changes the channel and the flag separately.
* `HashMailStream`. Bytes are named by their offset, so a buffer is an interval
  and framing is about where it starts and ends. `io.Pipe` is a rendezvous: a
  Write lasts until everything it wrote has been read. The server never closes
  `h.quit`, so the branches that wait for it are not there. `kept` says that it
  was `Stop` that tore the stream down: it stays in the map, and clients that
  come later get its handles.
* `LndChallenger`. lnd is an external log of events: the add and the settle
  index of an invoice are places in the log. The lnc backend calls `Start`
  twice. Steps under `invoicesMtx` are atomic. `View` is the refinement mapping
  to `InvoiceOracle`: an invoice is open once lnd has it, paid once lnd has
  settled it, seen once the cache has it as settled; `Vouched` is what each call
  that returned without an error has been told.
* `Gateway`. A request is a handler with a program counter through `ServeHTTP`
  and a record of its locals; an action ends where the code calls a store, the
  challenger, the price server or another goroutine can see the difference. The
  two halves of `Accept` are `Verify` and `Status`; `CanPass`, `TallyRead` and
  `TallyWrite` are the unsynchronised accesses to the freebie counter; `Mint`
  and `MintError` end `MintL402`, whose deferred revocation is in the latter. A
  token, its identifier, its payment hash and its invoice are one value.
  Limits are kept per name and configured price: of services that share both,
  the last one's capabilities and timeout count, and the constraints of all. A
  constraint has a condition of its own, none of those the mint uses itself.
  Configured headers are added behind those of the request, so `Director`
  appends the configured Authorization.
* `Caveats` is operators only. A caveat list is a sequence. Names are sequences
  of symbols, in which `:`, `,` and `=` are what the encodings use as separators
  and do not escape: `DecodeServices` splits a name as `decodeServicesCaveatValue`
  does. Other values decode or do not.
* `L402Client`. Four files: the paid and the pending token and their names in an
  older version. `os.WriteFile` truncates before it writes, so a file can be
  torn; a crash can come between any two file or lnd operations, and lnd goes on
  with a payment meanwhile. `TokenCell` is the promise: one cell with one token,
  and payments only for the token in the cell. The mapping is the operator `Cell`.
* `StoreOps` says what an operation of the three stores does when nothing else
  runs. `AtomicStore` lets it take effect at one moment between call and return.
  `ApertureDB` runs it as `ExecTx` does: a connection of the pool, the body,
  the commit; serialization failures and retries, other errors, commits whose
  answer is lost. The SQL engine is external: serializable, so a transaction
  commits only if the rows it depends on are as it saw them, and it may refuse
  one as not serializable also after the other one has ended. The body of
  `PrivateKey` does not use its transaction and asks the pool for a second
  connection (`HasConn`); who waits for one is woken by its deadline, which
  secrets and `SetExpiry` do not have (`HasDeadline`).
* `NodeConn`. `NewNodeConn` loads or adds the session; the mailbox library calls
  back with the remote key and the authentication data; each callback is a store
  operation of the module below. Several instances may share a passphrase.
* `Aperture`. `pc` is where `run`, `Start` or `Stop` is; `a` the struct and what
  it started; `file` the certificate and key, which survive a crash. Every step
  of `Start` has its failure. `a.pricers` are the lists whose services refer to
  open price clients, `a.lost` those whose clients were replaced unclosed.
* `MC*` modules instantiate these for TLC. Operators that end in `_bug` are
  variants of the definition after them with a plausible mistake; with the
  variant in its place a property fails.

## What the runs check

| Run | Properties | Instance |
|---|---|---|
| `registry` | `SingleHolder`, `NoIdleLeak`, `PanicOnlyAfterStop`, `RemovedIsClosed`; live: `TearDownCompletes`, `StaleReclaimed` | one identifier, two stream objects, two handlers |
| `stream_data_path` | `ReceivedInOrder`, `SkipsOnlyFullBuffers`; live: `GoroutinesEnd`, `HandlersReleased`, `ShortMessagesDrain` | three messages of length 1, 2 and 5, buffers of 2 and 4 |
| `challenger_safety` | `VerifySound`, `NoLostWakeup`, `NeverUnsettled`, refinement `ImplementsOracle` | two invoices, pages of one, lnd backend |
| `challenger_liveness` | `SettlementArrives`, `CallsReturn`, `StopTerminates` | one invoice, both backends |
| `client` | `NeverPaysTwice`, `PaidIsRemembered`, `SentIsPaid`, refinement `ImplementsCell`; live: `PendingIsResolved` | two calls, three invoices, two crashes |
| `gateway` | `ForwardIsEarned`, `PaidTokenWorks`, `BackendSeesVerified`, `FreebiesBounded`, `AttenuationNarrows` | two requests, two tokens, four configurations, restarts |
| `storage` | `SingleOnionKey`, `UsesStoredSession`, refinement `ImplementsAtomicStore`; live: `CallsReturn` | two callers of one store, or two LNC instances; two attempts, one crash |
| `lifecycle` | `ServesStoredPair`, `AllReleased`, `UserFilesKept`; live: `FailureEndsProcess` | eleven configurations, two starts |

Each module has a type invariant as well, checked in its run or proved. The
comment above each property says what it means for the code.

Four more runs show where the code and what is written beside it disagree:

* `settlement_missed_at_start`: `Start` subscribes from the largest settle index
  of all pages, so a settlement between two pages can be in no page and in no
  update ("We need to keep track of all invoices").
* `timeout_from_startup`: the timeout caveat is computed when the process
  starts, not at the "creation of the L402"; a token can be born expired.
* `onion_service_removed`: the deferred stop of the Tor controller runs when
  `Start` returns, so the onion service is gone while aperture serves behind it.
* `update_services_ignored`: `UpdateServices` never assigns the list that
  requests are matched with.

Some behaviours are in the models without a run of their own, since no line of
the repository promises otherwise. A stale callback does not look at the
occupancy flags again, nor at which incarnation of the mailbox armed the timer.
`Stop` of the HashMail server tears down without deleting, so a later teardown
closes a closed channel (`PanicOnlyAfterStop` says that nothing else does). A
message whose encoding fills the 4096-byte buffer is glued to its successor,
which is dropped (`SkipsOnlyFullBuffers` says that nothing else is). A `Write`
that waits for a receiver does not see its client hang up. An error of the
invoice stream is lost unless main already waits for it. Overlapping requests
may get more free requests than configured. A crash that tears the paid file
hides the pending token from every later call, which then fails instead of
paying again. After `Stop` of the HashMail server a receiver still finds its
mailbox, and waits until its client hangs up. A token for a path with a colon or
a comma can be paid for and never verifies (`PaidTokenWorks` says that every
other one does). Price clients that `UpdateServices` opens are never closed,
although `Close` speaks of "any remaining open connections" (`AllReleased` says
that no others are left). A configured Authorization comes behind the client's
instead of "overwriting" it (`proxy/service.go:65`); the backend's interceptor
reads the last one (`BackendSeesVerified`). A freebie service with a price server
asks it for the price and charges the configured one.

### Bounds

Two stream objects under one identifier are the least for a late timer of one
to meet the other; two handlers are the two sides of a mailbox, or two holders
of one side in turn. `MaxFired` bounds the callbacks of one timer that wait for
the lock at once. The message lengths fall short of the read buffer, fill it,
and exceed both buffers; with three messages a skipped one can lie between two
received ones. Two invoices and pages of one are the least for which a
settlement falls between two pages. Three invoices let a payment fail, be
replaced and be replaced again; two crashes let the recovery from a crash crash.
In `gateway` a clock of three values with a timeout of two tells a token minted
at the start from one minted later; `CountRange = 4` lets the freebie counter
reach the end of its type; the four configurations have a paid and a free
service of one name and price, the one with a timeout and the other with
constraints and capabilities, freebies with a whitelisted path, a price server,
and two services that may match the same request, one of them with a configured
Authorization. One of the two paths has a colon in it. In `storage` the three tables are independent,
so each deployment uses one of them; a pool of two connections is exhausted by
two callers that need two each. In `lifecycle` the configurations cover both
backends, the three databases, Tor, HashMail, autocert, insecure mode, static
files, and some that are refused at different places; the second start finds the
files the first one left. The proofs hold without these bounds.

### Fairness

Weak fairness for the steps of a goroutine that can run: the Go scheduler gives
it. Clients owe nothing: they may never return, hang up or come back.

* `HashMailServer`: timers run out; strong fairness for a callback that calls
  `Lock`, as `sync.Mutex` hands the lock to a waiter that starves.
* `HashMailStream`: a Send to a client ends with success or an error.
* `LndChallenger`: a Recv on a connection that was closed fails; nothing is
  assumed of lnd or of connections that stay up.
* `L402Client`: lnd resolves what it has in flight, the client is started and
  used again. Strong fairness says that the server, lnd and the disk do not fail
  every single time they are asked; without it no retry needs to succeed.
* `NodeConn`: a transaction goes on; strong fairness for getting a connection,
  as `database/sql` serves waiters in turn. A body that needs a second
  connection gets one or runs into its deadline.
* `Aperture`: the main goroutine goes on unless it waits; a server that was
  closed returns; a goroutine whose error can be received, or that sees `quit`,
  goes on. A server that is open need not fail, and no signal need come.

## What is proved

Each theorem holds for every value of the constants that satisfies the named
assumption of its module (the assumptions say that nil values are not members
of the sets they are nil for, that bounds are natural numbers, and that
configurations and operations have the fields the code reads). Each proof
module states an inductive invariant `IInv`, one lemma for the initial states,
one step per action for its preservation, and derives the properties. TLC checks
the same properties on the instances above. A leaf that SMT does not prove
quickly names Zenon.

* `HashMailServer_proofs`: `TypeOK`, `SingleHolder`, `NoIdleLeak`,
  `PanicOnlyAfterStop`, `RemovedIsClosed`. The invariant adds: the map holds a
  stream under its own identifier (`MapOK`); objects that are not allocated are
  blank (`FreshOK`); a busy handler has a stream (`HandlerOK`); during a
  teardown nobody is inside the lock and what is torn down is in the map
  (`JobOK`); a set flag belongs to a handler that will clear it (`FlagOK`),
  which is why a timer that does not run has a handler that will start it
  (`TimerOK`); a closed stream of the map is in the last step of its teardown
  (`ClosedOK`). The converse of `FlagOK` is false: a handler's flag can be
  cleared by the previous holder, who returned the handle first.
* `HashMailStream_proofs`: `TypeOK`, `ReceivedInOrder`, `SkipsOnlyFullBuffers`,
  for any lengths and buffer sizes. Positions in the stream are the ends of the
  messages written so far; nothing is summed, they only increase (`Increasing`).
  Every position where the copier or the reader stops is the end of a message or
  whole reader buffers after its start, and what the copier holds is of one
  message (`CopierOK`): the copy buffer is a multiple of the reader's. So a
  buffer of the reader starts where a message does, and goes past the end of a
  message only if that one fills its buffers exactly (`ReaderOK`). What was
  received lies before the reader's buffer (`ReceivedOK`), and what lies before
  it and was not received was hidden by its predecessor (`HiddenOK`).
* `LndChallenger_proofs`: `TypeOK`, `VerifySound`, `NoLostWakeup`, for both
  backends; `NeverUnsettled` and the refinement of `InvoiceOracle` for one
  subscription. An invoice was added once, before anything else happened to it,
  and an event says what is still so at lnd (`LogOK`); the cache and what a call
  has seen follow it (`CacheSound`, `SeenSound`); no call exists while `Start`
  writes the cache (`CallOK`): `Start` does not broadcast. That a settlement
  stays is about indices: a challenger of its own is started once (`StartOK`),
  and the add event of an invoice that the cache has as settled is behind the
  add index subscribed from or behind the stream (`NoReplay`). For the
  refinement a call that has seen a settled state finds it in the cache when it
  answers, although the lock was released in between (`SeenCached`).
* `L402Client_proofs`: `TypeOK`, `NeverPaysTwice`, `PaidIsRemembered`,
  `SentIsPaid`, and the refinement of `TokenCell`. `Files` says which file may
  hold what and that a torn paid file has its pending file beside it; `Ledger`
  that lnd knows no payment the cell does not hold; `Mutex` and `Locals` what
  the call that holds the mutex knows of the cell at each of its steps. Every
  action is then a step of `TokenCell` or leaves cell and payments alone.
* `GatewayInv_proofs`, first part: adding a caveat never allows more
  (`Attenuation`), and a caveat nobody speaks for changes nothing
  (`UnknownCaveatIgnored`), for any chain. No induction is needed: two
  neighbours among the relevant caveats of the old chain are neighbours in the
  new one. Then the encoding of names: what `Split` returns for a name without
  separators, and that a name with one is never among what it decodes to
  (`DecodedPlain`, `PlainDecodes`). Then lemmas about the limits and headers.
* `GatewayInv_proofs` and `Gateway_proofs`: `TypeOK`, `ForwardIsEarned`,
  `PaidTokenWorks`, `BackendSeesVerified`, `FreebiesBounded`,
  `AttenuationNarrows`. The invariant: a request is only where the
  authentication level of its service lets it be (`RouteOK`); a token that was
  handed out has its secret stored and caveats of the shape the mint gives them
  (`TokensOK`); requests mint distinct tokens (`MintOK`); a request past
  `VerifyL402` holds a delivered token that lists its resource (`AcceptOK`); and
  without a race the counter equals the free requests given (`FreebieOK`).
  `PaidTokenWorks` follows from `TokensOK`, which is about what is stored and
  handed out, and so survives restarts; the lemmas about the encoding say for
  which names.
  `OracleUsed` says that every step of the gateway is one of `InvoiceOracle`, or
  leaves invoices and accepted requests alone: minting adds an invoice that was
  not there before (`TokensOK`), `Status` accepts only what the oracle has seen.
* `NodeConn_proofs`: `TypeOK`, `SingleOnionKey`, `UsesStoredSession`, and that
  the transactions under the connections implement `AtomicStore`. What makes it
  inductive: the rows a transaction saw allow its operation, and at the commit
  they are still the same (`Isolated`); a session that exists keeps its local
  key, and what a node read of it is still there (`NodeOK`).
* `Aperture_proofs`: `TypeOK`, `ServesStoredPair`, `AllReleased`,
  `UserFilesKept`. The invariant says which certificate is loaded and whose
  files are there at each step of `getTLSConfig` (`Certificates`), what each
  step of `Start` has acquired and each step of `Stop` released (`Releases`),
  which price clients are open when `UpdateServices` was not called (`Pricers`),
  and what `Start` has spawned when it returns (`Servers`).

Only model-checked: the liveness properties (fairness is out of the prover's
reach) and the four disagreements. `OracleUsed` is proved and in no run, as it
would make the longest one, `gateway`, much longer.

## Not modelled

* Generated code (`pricesrpc/`, `aperturedb/sqlc/`), migrations and connection
  strings: input and output of libraries. Opening a database succeeds or fails.
* Logging, metrics, CORS headers, gRPC trailers: they hold no state that
  another part reads.
* Encodings and cryptography: a macaroon, a preimage or an identifier is a model
  value, a header parses to a token or to none. The exception is the services
  caveat, whose encoding decides which resource a token is good for. A
  preimage is known exactly when its invoice is paid.
* AMP invoices and malformed hashes in `LndChallenger`; the rate limiter of
  HashMail, which only delays a message.
* Request bodies: the gRPC pricer reads the body of a request before it is
  forwarded, and a request of the model has none.
* `wg.Add` of a verification call that races `wg.Wait` of `Stop` at zero: what
  the runtime does is outside the model, which lets calls arrive until
  `wg.Wait` returns.
* The etcd onion store: three single requests to etcd. The etcd secret store is
  modelled as `Gateway` uses it.
* `AllTokens` of the client's token store, which only lists files.
