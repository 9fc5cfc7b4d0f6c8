# Verification of mpp-go

mpp-go implements the Machine Payments Protocol for HTTP and MCP: a server
answers `402 Payment Required` with *challenges*, a client pays one of them and
repeats its request with a *credential*, the server settles the credential and
serves the resource with a *receipt*. The Tempo method pays by transactions on
the Tempo chain.

This directory holds TLA+ models of the parts of it where money can be lost,
the TLC configurations that check them, and machine-checked proofs of the
properties that matter most. `PROJECT.json` maps every definition to the lines
it stands for, and lists the hazards the properties are aimed at.

To run one instance or check one module's proofs:

    tlc -config MC_Settlement_safety.cfg MC_Settlement.tla
    tlapm SettlementProofs.tla

## Inventory

| Component | Code | State | Operations | What is hard | What makes it correct |
|---|---|---|---|---|---|
| Charge settlement | `pkg/tempo/server/charge.go` | claimed keys, validated credential per call; replay store and chain shared | validate, broadcast (claim, co-sign, look up, send, wait, conclude, release) for hash, proof, transaction and sponsored credentials | several replicas race; every RPC and store call may fail, or succeed unnoticed; clients disconnect; retries after unknown outcomes; keys that expire | one receipt per payment, no paid credential locked out, a consumed credential stays consumed |
| Replay store | `pkg/tempo/store.go`, `redisstore/` | keys with expiries | Get, Put, PutIfAbsent, PutIfAbsentUntil, Delete | lazy eviction, sweeps, whole-second expiry in Redis | a key is never free before its expiry |
| HTTP client transport | `pkg/client/transport.go`, `client.go` | retries, credentials per challenge, last credential, unknown-outcome record | RoundTrip rounds, redirects, `Client.Do` | a server answers anything in any order; timeouts replace errors; the caller has a credential of its own | no challenge paid twice, unknown outcomes reported, termination |
| Charge method (client) | `pkg/tempo/client/method.go`, `policy.go` | in-flight signings per challenge | CreateCredential | concurrent calls, cancelled contexts, panics, lost broadcasts | one settleable transaction for calls that share a signing |
| Challenge verification | `pkg/server/verify.go`, `lifecycle.go` | none (stateless HMAC) | VerifyOrChallenge, ValidateCredential, BroadcastCredential | which failure is answered by which challenge decides whether a client pays again | a credential is accepted only for the route, body and time it was issued for |
| Charge server core | `pkg/server/server.go`, `flow.go`, `events.go` | configuration | Charge, ChargeRequest, event hooks | hook panics, several offers | events match what was answered |
| Composed offers | `pkg/server/compose.go` | none | route a credential to its offer | offers that differ in one field | the offer charged is the one echoed |
| Middleware, gin, echo, fiber | `pkg/server/middleware.go`, ... | receipt writer: header written, hijacked | WriteHeader, Write, Flush, Hijack | any order of calls | a receipt goes out with a 2xx status only |
| Relay, hosted fee payer | `relay.go`, `hosted_fee_payer.go`, `envelope.go` | none | validate, broadcast, fill | the remote side acts before the exchange fails | an unproven outcome is never reported as a refusal |
| MCP client and server | `pkg/mcp/` | credentials per tool call | tool-call retry loop, result mapping | as for the transport, over another protocol | as for the transport |
| Wire format, requests, attribution, proofs | `pkg/mpp/`, `pkg/tempo/*.go` | none | parse, format, HMAC, attribution memos | strings and encodings | round trips, canonical forms |
| RPC client cache, examples, test helpers | `rpccache/`, `examples/`, `tests/` | a map of at most 16 clients | Get | little | little |

How they meet. The transport calls the method's CreateCredential when a
challenge has to be paid, and sends the credential. The middleware runs the
charge server core, which runs VerifyOrChallenge, which hands an authentic,
unexpired credential to the Tempo intent. The intent settles it against the
replay store, which replicas share, and the chain. Its answer (a receipt, a
replay, a failure, an unknown outcome) becomes a response that tells the
transport to stop, to resend or to pay anew. Nothing else is shared: challenges
are stateless, and their keys and transactions are bound to the challenge's id
by an attribution memo.

## Modules

| Module | What it is |
|---|---|
| `PaymentOnce` | abstract: each payment made for a challenge yields at most one receipt, after it was included, succeeded and satisfies the charge |
| `Settlement` | charge settlement, in detail; implements `PaymentOnce` |
| `ExpiringStore` | abstract: what a replay store promises of a key and its expiry |
| `ReplayStore` | MemoryStore and the Redis store; implements `ExpiringStore` |
| `PaymentTransport` | `Client.Do`, redirects and the RoundTrip loop |
| `SigningFlight` | concurrent CreateCredential calls that share a signing |
| `ChargeServer` | the charge server: routes, composed offers, verification, hooks |
| `ReceiptWriter` | the paid response and the receipt in it; part of `ChargeServer` |
| `TransferMatching` | which transfers pay a charge: `matchTransfers`, for calls and for logs |
| `ChargeCredential` | one charge from its request to its verdict, client and server side by side; extends `TransferMatching` |
| `McpPayment` | a tool call that is paid for, client and server together |
| `SettlementProofs`, `ReplayStoreProofs`, `PaymentTransportProofs`, `SigningFlightProofs`, `TransferMatchingProofs`, `ChargeCredentialProofs`, `McpPaymentProofs` | theorems of the module they are named for |
| `ChargeServerProofs` | theorems of `ChargeServer`, its `ReceiptWriter` included |
| `MC_*` | instances for TLC |

Definitions whose comment says *mutant* are never part of a specification. Each
is the definition that follows it with a plausible mistake, and shows that the
property paired with it in `PROJECT.json` would notice that mistake.

### Settlement

A worker is a goroutine that runs `Intent.Broadcast` for a credential of one
challenge, in any replica. `pc` names the call it is about to make; one action
is the code between two external calls. `store`, `chain` and `pool` are shared.
`claimed` is `claimedKeys`, `seen` is the receipt a worker holds
(`includedReceipt`, `receiptMap`), `token` the envelope it handles: a sponsored
payment has one envelope per fee token, since a fee payer re-signs the same way
for the same token. `receipts` only serves the properties.

| Code | Actions |
|---|---|
| `validateHash`, `settleHash` part of `settleCredential` | `ValidateHash`, `ClaimHash` |
| proof credentials | `ValidateProof`, `ClaimProof` |
| transaction credentials the payer pays gas for | `CheckUsed`, `Screen`, `ClaimCharge` |
| sponsored transaction credentials | `CheckSponsored`, `ClaimSponsored`, `CosignIncluded`, `CosignReady`, `CosignAbort` |
| `SendRawTransaction`, `fetchReceipt`, `lookupConfirmedReceipt` | `Send`, `Await`, `Recover` |
| receipt matching, the final claim, the deferred release | `Conclude`, `ClaimFinal`, `Release` |
| process death; the payer's own broadcasts; the chain; time | `Crash`, `Push`, `Include`, `Tick` |

Whether a transaction is acceptable (decoding, policy, simulation, transfer
matching) is one nondeterministic outcome, except where the outcome depends on
modelled state; `ChargeCredential` decides most of it. `charge.paidBy` fixes
which payments satisfy the charge. One challenge at a time is enough: keys and
transactions name the challenge.

### ReplayStore

`backend` tells the two stores apart. For MemoryStore, `values`, `expiries` and
`lastSweep` are its maps and its sweep; each call holds the mutex, so it is one
action, eviction and sweep included. For Redis, PutIfAbsentUntil is two steps,
`Send` and `SetNX`: the caller compares the expiry with its clock, and the command
takes effect when it reaches the server, in any order. `due` is when the
last claim of a key ends, as its caller asked; the properties compare what the
store does with it. `ExpiringStore` is the contract of the interface's comments.
Its answers carry the expiry the caller asked for, and `asked` the requests that
wait for theirs, so that what is kept, granted or refused is measured against what
was asked: a claim is granted exactly if its key is missing, is kept from then
until that expiry and for at most `slack` longer, and is refused only if the key
is taken or the expiry had passed. `asked` is `pending`: the caller's clock is read
when a command leaves, and the store's content when it arrives.

### ChargeServer and ReceiptWriter

The server keeps nothing between requests: a challenge is bound by its HMAC, so
`IdMatches` is all there is of the wire format. A request is answered in steps,
`Arrive`, then one of the refusals or `Dispatched`, then, if a credential was
handed to the method, `Settled` or `NotSettled`, with time passing meanwhile.
`issued` and `served` are the history properties speak of. `Echoes` is
what a client may send: a challenge that was handed out, one it has altered, or
one issued elsewhere under the same key. Requests arrive over HTTP, with two
header fields, or over MCP (`via`), with one credential and no scope or body. A
body that is too large, or cannot be read, is refused before anything else and
without a hook. `Answer` is what goes out: over HTTP every challenge of the
answer, over MCP only one when a credential was refused (`Delivered`), though the
hooks have told of all by then. `ReceiptWriter` then runs the handler, which may
call the writer in any order, under net/http, Gin, Echo or Fiber. Its `early`
says that the framework has taken an informational status for the final one:
Gin commits a pending 103 as if it were final, and an Echo response writer may
(whether it does is left open), so the final status is left to net/http, whose
implicit 200 has the header map as it is at that point.

### TransferMatching and ChargeCredential

`TransferMatching` has the greedy match as the code runs it (particular transfers
first, each taking the first candidate left), the logs a call leaves, and the
match of a receipt. `Satisfies`, the reference, asks for a bijection. A receipt
tells a payment to the account that collects fees from a fee only if the charge
expects it: `receiptMatches` passes over the others, on which `transactionMatches`
refuses a transaction. `NotFees` says so.
`ChargeCredential` takes one charge through both sides. Each reads its own clock
where the code does: the client when it resolves the kind, when it
fixes `valid_before` and before it signs (`Authorize`, `Prepare`, `Sign`), the
server on arrival, on validation, and before and after the fee payer signs
(`Expire`, `Validate`, `CoSign`, `Submit`). Time is counted in fractions of a
second (`Sec` instants), since the two sides round differently. `Stranger` is
any other client: it pays any list of transfers in `Spellings`. `Relay` is one
exchange with the relay; `RelayVerdict` is what is made of its answer. The node may
fail wherever the server asks it (`NodeFails`), answer the submission with an error
or another hash, or not show a receipt in time (`Outcomes`), whatever became of the
transaction; claims may fail or lose (`NotClaimed`, and the last one in `Outcomes`).
These end the charge with "node", "reverted" or "claim", so that the properties can
tell them from the rules.

### PaymentTransport

The server, network, methods and hooks are the environment and may answer
anything at any time. A step is what the code does between two calls of it.
`wire` is the credential of the request that is out (`sent`, `sentCred`), `cache`
the credentials map, `recorded` the unknown outcome that `Client.Do` restores
when net/http's own timeout error replaces RoundTrip's. The ordering of
candidates, origins and header names come down to which challenge is chosen,
which is left open. Properties about payments hold *per round trip*: a redirect
is a round trip of its own for net/http and starts with the caller's headers,
so across redirects a second payment is possible, and is what the code does.

### SigningFlight

`signing` is the map entry of one challenge. A signing is named after the call
that leads it, since a call leads at most once. `signed` holds the transactions
that left the method, as credentials or by broadcast; `Nonces` is what
`GetTransactionCount` may return, given that any of these may be on chain.
Zero-amount proofs have nothing to settle and are left out.

### McpPayment

The middleware waits for each answer, so client and server alternate. `honest`
says whose server it is: this package's (`Demand` to `Settles`, each one outcome
of `Charge`), or one that asks for anything, relays other servers' offers and
redirects. `config` and `session` are a client's callbacks and transport, fixed
per call. `cache` is the map of credentials of this call; `made`, `paid`, `spoiled`
and `strayed` are history.

The MCP client is simpler than the HTTP transport: it neither stops after a
hash credential nor protects a credential the caller put in the request. So
`PaidOnce` is about credentials the call made itself and transactions. It also
excludes runs where an inclusion did not look like the payment (`amiss`): that
credential is refused though it is on chain, and is replaced once its challenge
expires.

## Runs

| Run | What it shows |
|---|---|
| `settlement_safety` | every kind of charge, two workers, two fee tokens, expiring keys, one fault: all safety properties, and `ImplementsPaymentOnce` |
| `settlement_recovery` | `Recovery`: a payer that keeps retrying gets its receipt, unless the challenge expires first |
| `settlement_lost_reply` | *violation*: a claim whose reply is lost is never released |
| `store_contract` | every sequence of calls of either store: no key is claimed twice while its claim lasts, and `ImplementsExpiringStore`: each claim is answered as its key, value and expiry deserve |
| `store_expired` | *violation*: Redis answers an entry whose claim has ended |
| `transport_mixed` | any server, clients that make one kind of credential or both: no challenge is paid twice, an expired caller credential is not replaced, doubt is reported, hash-only clients never pay after a hash (`HashPaidLast`); `Terminates` |
| `transport_hash_then_other` | *violation*: `NoPaymentAfterHash` for a client that makes both kinds |
| `signing_calls` | three concurrent calls, every way of paying: all safety, `EveryCallReturns` |
| `signing_push` | *violation*: a broadcast cut short is repeated by a waiting call |
| `server_routes` | two requests to four routes of two handlers: a credential serves only what it was offered for, an offer can be paid, a credential that was taken on and not settled brings no fresh challenge for its own request, hooks and receipt agree with the response |
| `charge_rules` | both sides of a charge agree on transfers, chains, kinds and deadlines; the greedy match is exact; a policy bounds what is signed; no rule refuses a submitted payment that is on chain |
| `mcp_call` | a tool call pays a challenge once, reaches the chain once, for one offer; proofs stay with their session; every call ends |

### Bounds

- Settlement: two workers show every race between two attempts; the proofs
  cover more. One payment: keys and envelopes of different
  payments are disjoint, and no action reads another payment's. Two fee tokens
  are needed for the look-up of the other token's envelope. The clock passes
  the sponsored deadline (1), the challenge's expiry (2) and the keys' expiry
  (3), in this order, which is the order `replayClaimExpiryGrace` gives.
  `MaxFaults = 1`: one lost reply, failed delete or crash in any place;
  `settlement_recovery` has none, since each may lock a paid credential out (the
  first finding).
  `MaxClock` and `MaxFaults` are the only bounds on behaviours, and the proofs
  do without their values.
- ReplayStore: two keys, so that a sweep meets one that stays and one that goes;
  two instants per second, so that an expiry may fall between two seconds; two
  requests on their way to Redis, so that they can be reordered.
- PaymentTransport: three challenges, so that one can be rejected, one resent
  and one new; three retries, the default, which are the
  rounds these orders need; one redirect. States are finite without other bounds.
- SigningFlight: three calls, so that a waiting call can join a newer signing
  after the one it waited for; each call leads at most once.
- ChargeServer: two requests, one that obtains a challenge and one that echoes or
  alters it on any route; a third would only do again what the second does,
  since nothing is kept. A challenge lives for two instants, and there are
  three. The routes have one offer in two currencies, offers that differ in
  method, header, handler or scope, one with a fixed expiry, and a path too long
  to be put in a challenge.
- ChargeCredential: three instants per second; a minimum validity of 2 seconds,
  a window of 5 and a server's window of 7, in the order of the code's 15, 60 and
  900; challenges that end at a whole second and between two (6, 11, 14 and 20
  instants), so that either limit of `valid_before` is the smaller one. Thirteen
  requests cover amounts with and without splits, equal recipients, memos (one of
  them that of another challenge), splits for the account of the fees, modes,
  sponsorship and missing chains; a stranger pays one of some 1100 lists of
  transfers. A stranger's credential is judged at once: time adds nothing there.
- McpPayment: three offers of two methods, one of them a proof; challenges that
  live for one of two instants; three attempts, the code's constant.

The proofs cover every value of these constants, under the named assumptions.

### Fairness

- `Settlement.LiveSpec`: goroutines are scheduled (weak fairness of `Step`). The
  payer retries for as long as it has no receipt, and store calls and look-ups
  do not fail *forever* (strong fairness of the outcome that succeeds, as it is
  only enabled again and again). Nothing is assumed of sends, waits, the fee
  token the balance picks, or hash credentials. Hosted fee payers are excluded
  from `Recovery`: a remote signer may build another envelope at each attempt and
  its deadline is checked before the look-up, and the changelog promises
  recovery for a local fee payer only. Time need not pass; if the challenge
  expires, nothing more is promised, since `Broadcast` refuses every later retry
  (`validateChallengeExpiry`, and `verify.go:228` before it).
- `PaymentTransport.LiveSpec`: every call the code waits for returns; each takes
  the request's context, which a caller can bound.
- `SigningFlight.LiveSpec`: each goroutine is scheduled, and RPC calls and
  policies return, for the same reason.
- `McpPayment.FairSpec`: the middleware runs, and a request that is out is
  answered or its context ends (weak fairness of `Client` and of `Server`, whose
  `Fails` is always possible). Nothing is assumed of which answer it is.

### Findings

1. `settlement_lost_reply`. A replay key joins `claimedKeys` only after the store
   said yes. When the store records it and the answer is lost, nothing is on
   chain, nothing is released, and each retry is answered as a replay, against
   the comments at `charge.go:706` and `charge.go:725`.
2. `transport_hash_then_other`. RoundTrip knows a hash credential only while it is
   the last one sent. If the server then offers an earlier challenge again, its
   cached transaction credential is resent, and the next 402 may be paid
   although the hash credential's transfer is on chain.
3. `signing_push`. A hash credential's transaction is broadcast with the leading
   call's context. If the node took it and the context ends before the answer, a
   waiting call signs and broadcasts a second one, with the next nonce.
4. `store_expired`. The Redis store rounds an expiry up to a whole second, so `Get`
   returns an entry for up to a second after `expiresAt`, against the comment at
   `store.go:42`. The claims do not suffer: a key that is held longer is only
   refused longer.

The comment at `client/method.go:642` says that a credential that arrives before
the challenge expires keeps enough validity. `SignedIsAccepted` needs one more
condition for challenges that live longer than the window: `valid_before` is
60 seconds after it is chosen and the server wants 15 seconds left, rounded up,
so acceptance is certain for 44 seconds from then, not until the challenge
expires.

Two more comments say more than the code does. They are modelled as the code is,
and named where the properties make their exceptions:

- `events.go:29` says that ChallengeCreated is never called for an offer that is
  not returned. Over MCP, `rejected` (`mcp/internal/payment/payment.go:133`)
  delivers one challenge after all of the answer's were told. `HooksAgree` asks for
  equality over HTTP, and over MCP unless a credential was refused.
- `gin/middleware.go:77` says that the receipt is added to a 2xx response. A
  handler that commits a 103 through Gin's writer gets an implicit 200 without it.
  `ReceiptWithSuccess` makes the exception (`early`).

## Proofs

TLAPS checks, for all values of the constants under the assumptions named in
the modules:

- **Settlement** (`SettlementProofs`): `TypeOK`, `OneReceiptPerPayment`,
  `OneSettlerPerPayment`, `NoStrandedClaim`, `ConsumedStaysClaimed` and the
  refinement `Spec => PaymentOnce!Spec`. None of these is inductive. `IInv` adds:
  a settling worker holds exactly the claim its place implies, which is in the
  store and nobody else's (`ClaimsInv`); without a fee payer there is one envelope
  per payment (`EnvelopeInv`); what a worker's place says about its payment,
  envelope and receipt (`PlaceInv`); and a receipt that was handed out has its
  transaction's, or the challenge's, key in the store, claimed by nobody
  (`ReceiptInv`). Keys may expire at any time relative to the challenge: what
  keeps a second receipt away after that is that `PutIfAbsentUntil` refuses a
  deadline that has passed, so nothing can be claimed any more. (The model keeps
  expired keys in `store`, where `Visible` and `Claimable` no longer see them.)
- **ReplayStore** (`ReplayStoreProofs`): `TypeOK`, `ClaimsExclude` and the refinement
  `Spec => ExpiringStore!Spec`. The invariant relates an entry's expiry to the end
  of its claim: the store never drops a key while `due` lasts, and keeps it for
  less than a second longer.
- **PaymentTransport** (`PaymentTransportProofs`): `TypeOK`,
  `OneCredentialPerChallenge`, `ExpiredCallerNotReplaced`, `DoubtReported`, and
  `HashPaidLast`.
  `BudgetInv` (payments per challenge, against the refusals and the cache),
  `CreateInv`, `WireInv` (the credential that is out is cached or the caller's) and
  `DoubtInv` make them inductive.
- **SigningFlight** (`SigningFlightProofs`): `TypeOK`, `OneSigning`, `HandedOutOnce`,
  `CredentialIsSigned`, `LiveCallNotCancelled`, from: the map holds exactly the call
  that leads (`RegisterInv`), outcomes appear when a signing concludes
  (`OutcomeInv`), a transaction that left a leader that does not broadcast is a
  credential (`SignedInv`), and a call moves on only from signings whose context
  ended (`JoinedInv`).
- **TransferMatching** (`TransferMatchingProofs`): `MatchTransfersIsExact` and
  `ReceiptIsExact`, for any transfers, calls and logs. A transfer may be taken by a
  want that another needs more. It is not, because wants are laminar in the order
  they have: of two that accept one transfer, the later accepts all that the
  earlier does (`LaterAcceptsMore`; here it counts that a primary transfer accepts
  the challenge's attribution memo only). So when nothing is left for a want,
  all of its transfers were taken by wants that accept no others, which
  with it are one too many (`AllAreTaken`). Only that the particular come
  first is used of the order (`SortedAre`), since the code's sort leaves the
  rest of it open. For receipts, each memo log is paired with a plain one of its
  recipient and amount, perhaps that of another call; the plain logs that remain
  are as many, of each recipient and amount, as the calls without memo
  (`RestIsAlike`), so there is a bijection of the canonical logs with the calls.
  `Sums`, `Taken` and the like are functions defined by recursion. Their induction
  is over sets of naturals (`SetInduction`, from the least element of a set), which
  needs no operator as a parameter.
- **ChargeCredential** (`ChargeCredentialProofs`): every property of the module.
  `MatchingIsExact` follows from the above. `PaysOneChallenge`: a transaction that
  matches carries its challenge's memo (`PrimaryIsBound`), and no other attribution
  memo than those the splits name (`BoundIsNamed`). So it pays two challenges only
  if each request names the other's ID; an ID is a hash of its request, so the code
  cannot issue such a pair, and the property says no more than that.
  `SpendsWhatWasAllowed`: what the client builds adds up to the amount
  (`BuiltAddsUp`), and since `OwnInv` a credential with transfers was authorized.
  `SignedIsAccepted` and `PaidIsNotRefused` hold for every length of a second,
  minimum, window and sub-second expiry that `WindowsAssumption` allows, and rest on
  the arithmetic of whole seconds: `FloorShift`, and `DeadlineOfOwn`, that a
  `valid_before` which leaves the client its minimum leaves the server's rounded
  minimum too. That a client's transfers match and a transaction's receipt is
  accepted, which both need, are lemmas (`CallsAre`, `MatchingOf`). Both are about
  rules: a node that fails, a transaction that reverts and a claim that is not
  taken may refuse what was signed, and the first and the last even what is on
  chain, though the last not if the payer paid its own fee, since its transaction is
  claimed before it is sent.
  `RequestsAssumption` and `SpellingsAssumption` say that transfers and splits are
  lists whose amounts are naturals and whose memos are of a known form, as the parser
  and the decoders leave them. `FeesAssumption`: the payer is not the account of the
  fees, and no charge expects exactly the fee of its own transaction to be paid to
  that account (else the receipt's log of the fee counts as a transfer).
- **McpPayment** (`McpPaymentProofs`): `TypeOK`, `OneCredentialPerChallenge`, `PaidOnce`,
  `OneOfferPaid` and `ProofsStayHome`. The invariant adds: a credential that left
  the cache is spoiled, and none is cached for the challenge one is being made
  for (`CacheInv`); with an honest server, every offer in the answer and the one
  chosen are that of the first payment (`OfferInv`); once a payment was given to
  the chain, nothing payable is answered (`PaidInv`); what is chosen or out
  passed the origin check with the realms of this round (`OriginInv`). That all
  server actions keep it is proved once, of what they have in common (`Answers`).
- **ChargeServer** (`ChargeServerProofs`): `TypeOK`, `ServedAsAsked`,
  `SettlingNotRepaid`, `HooksAgree`, `ReceiptWithSuccess` and `OffersCanBePaid`, for
  any routes and offers. The invariant says what every challenge out was made for
  (`IssuedInv`, `RespInv`), what was checked of a credential that is being settled
  (`SettlingInv`), that nothing is reported before the answer (`HookInv`), and how a
  status and a receipt go together while the handler runs, up to an informational
  status that was taken for the final one (`WriterInv`). `SettlingNotRepaid` is
  about credentials the payment method took on: one that comes back after its
  challenge expired no longer gets there, and is answered by a fresh challenge even
  if its transaction was or will be included. Six of the actions answer a request;
  that an answer keeps the invariant is proved once, of what these have in common
  (`Allowed`). `MatchingIsExactly` says that a credential goes to an offer it
  matches whenever there is one. Three assumptions are about configuration: an
  offer's own scope is not the scope of a route and can be serialized
  (`ScopesAssumption`; else a challenge of the one passes for the other's, as its
  configuration asks, or is not issued at all), nothing issued elsewhere with the
  same key has this server's realm, intent and an expiry (`ElsewhereAssumption`),
  and, for `OffersCanBePaid`, offers of one method are read from one header
  (`OneHeaderPerMethod`; else a credential of one route, sent in the other's header,
  is not read). TLC evaluates all three for the instance.

`ConsumedStaysClaimed` is an action property and is proved from the same
invariant. Only model-checked: `Recovery`, `Terminates` (of two
modules) and `EveryCallReturns`, since liveness is out of the prover's reach. The four
properties that are violated are checked by TLC as such.

## Not modelled

- Byte-level work: encodings, HMAC, parsers, hashes, memos, decimals. The models
  take "same id" or "malformed" as data.
- Transport: when a retry names another credential header, the caller's own
  header stays on it; a bare `Transport` under a foreign `http.Client`
  does not restore a replaced error (`NewHTTPClient`). Only `Client.Do` is modelled.
- Charge server: `ValidateCredential` and `BroadcastCredential` called directly,
  handlers that fail to be configured, MCP tools that call `Mpp.Charge` themselves,
  `ChargeResult.ServeHTTP`, requests built from the request's own headers, keys that
  differ between handlers, and the bodies Fiber cannot decode.
- Charges: gas, fee caps, access keys and the fee token a client picks; what a
  simulation finds (that it may fail is modelled). The relay consumes a credential
  once: a retry through it is answered as used, and only the first delivery is
  modelled.
- Clock skew between replicas beyond what `KeyExpiry >= Expires` leaves; client and
  server of a charge share one clock too, of which they see whole seconds or
  fractions.
- The RPC client cache, the examples and the test helpers, for the reasons in
  `PROJECT.json`.

## Plan

Done, in this order: money on the server (`PaymentOnce`, `Settlement`), on the client
(`PaymentTransport`), concurrency on the client (`SigningFlight`), the decision
table of the charge server (`ChargeServer`, `ReceiptWriter`), the replay stores
(`ExpiringStore`, `ReplayStore`), the rules both sides share (`TransferMatching`,
`ChargeCredential`), tool calls (`McpPayment`).

What remains:

1. `EndToEnd`: the HTTP transport against `ChargeServer` and `PaymentOnce` on one
   chain. Property: one request buys at most one resource, and pays once unless it
   is told that an earlier payment failed. `McpPayment` shows this for tool calls;
   over HTTP a hash credential and a caller's own make it harder.

Each module keeps its bounds small enough for TLC to finish in a minute or so, and
avoids recursive operators so that it can be proved about.
