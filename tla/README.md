# TLA+ models of unhardcoded

Specifications, model-checking configurations and machine-checked proofs for the
parts of this repository where a mistake moves money, loses an audit record,
answers a caller wrongly or wedges a process. The modules are translated from the source; every definition
that stands for code is listed with its lines in `PROJECT.json` under `map`.

Run things from this directory:

    tlc -workers 2 -config KeeperTopup.cfg MCWalletKeeper.tla
    tlc -workers 2 -config Routing.cfg MCRouting.tla
    tlapm WalletKeeper_proofs.tla

## 1. Inventory

unhardcoded is an LLM router: an HTTP proxy (`auth_proxy.py`) admits a caller and
forwards to the host app (`shim.py`, `llm_router_host.py`), which asks a decision
engine (the `core/` submodule, not in this checkout) which offer to try and calls
it through a provider adapter. One family of offers is bought on the AntSeed
market by a sidecar container (`antseed/`) out of an on-chain escrow; the wallet
keeper (`wallet_keeper.py`) keeps that escrow funded. State that must survive or
be shared between replicas is in PostgreSQL (`host_store.py`).

| Component | State | Operations | What must hold |
|---|---|---|---|
| Wallet keeper (`wallet_keeper.py`) | none of its own between cycles; locals of one cycle | reconcile, settle, reclaim, top up | spending limits whatever fails; breakers and halts bind; every intent resolved |
| wallet_ops ledger (`host_store.py` 2315-2583) | rows with outcomes, halt rows | begin, finish, the reads behind cap, cooldown, breakers | the row of a broadcast never says `failed`; closed rows stay closed |
| Sidecar control server (`antseed/control.js`, `queue.js`, `broadcast.js`) | promise chain, timers, child processes | deposit, withdraw, reclaim phases, scan, status | one mutation at a time; a refusal proves non-execution; bounded answers |
| Reclaim script, status writer (`antseed/reclaim.mjs`, `entrypoint.sh`) | chain, `buyer_status` row | set-operator, request-close, withdraw, poll | acts on the named channels only |
| Dashboard wallet handlers (`shim.py`) | none | manual deposit and withdrawal, clear-halt | same ledger discipline as the keeper |
| Calls ledger, usage export (`host_store.py` 535-640, 1700-1731) | write queue, pending timestamps, `calls` rows | enqueue, write, page, watermark | a settled watermark skips no call |
| Subject budgets (`host_store.py` 1735-1818, `auth_proxy.py`) | usage row, reservations | reserve, settle with retries, sweep | the limit holds; each cost booked once |
| Ingress (`auth_proxy.py`) | capacity semaphore, counters, rate buckets, API key records | admit, queue, forward, stream, release; issue, rotate, revoke | every admission is released and settled once; replicas share one quota; a revoked key stays revoked |
| Control-plane client (`control_plane_client.py`) | resolve cache, in-flight futures | resolve, grace, evict | a revoked key stops within its lifetime; verdicts never go back |
| Peer capacity (`openai_compatible.py`, `host_store.py` 960-1040) | leases with expiry, semaphores | acquire, renew, release, expire, evict | no more than `cap` live calls per peer; no slot held without a call |
| Streamed answers (`shim.py`, `streaming.py`, `provider_adapters/`) | task, delta queue, generator | wait, relay, fail over, finish, disconnect | one speaker; every delta once and in order; every request ends |
| Flow runner (`flow_runner.py`, `flow_data.py`, `flow_routing.py`, `llm_router_host.py`) | node outputs, traces | run, route, rescue, skip, time out | inputs before nodes; a cost told as known leaves out no node |
| Provider adapters (`codex_backend.py`, `responses_api.py`, `provider_adapters/`) | the fold of one stream; none between calls | translate a conversation, fold a stream | the provider is told what was said; an answer is all that was said |
| Policy choice (`policy_selection.py`, `decision_providers/jev.py`) | the trace of one decision | ask, retry, time out, recheck | a legal policy runs; the cost told is the whole cost |
| AntSeed offers (`sources/antseed.py`, `sources/__init__.py`, `host_store.py` 1091-1230) | route observations, credits | list, cool down, bind names, gate on money | cooldowns served and ended; a name keeps its model; no routing on spent money |
| Codex login (`codex_auth.py`, `codex_invites.py`, `codex_broker.py`) | auth files, objects per account, invites | refresh, write back, reload, sign in by link | a change that was reloaded stays; a link signs in once |
| Operator configuration (`settings.py`, `provider_overlay.py`, `auth_proxy.py`, `shim.py`, `serve.py`) | overrides, provider overlay, key file, the router's copies | set, add, replace, reload, restart | what was reported saved is stored and runs |
| Analytics (`scripts/rollup_analytics.py`, `host_store.py` 1953-2260, `auth_proxy.py`) | hourly aggregates, shared page snapshot | roll up, compute, share | each call counted once; no page that could be read loses a call |
| Read-only endpoints, templates, pages, scripts, manifests | - | data conversion | - |

Interactions. Keeper and dashboard are coroutines of one process and reach the
sidecar over HTTP; all three share the ledger and the `buyer_status` row. The
proxy's replicas share PostgreSQL only; the dashboard asks the router over HTTP to
take up a change. Inside one process handlers are coroutines of one event loop,
and store calls run in worker threads that finish even if their caller is
cancelled. The hard behaviour is the same
everywhere: an answer that does not come, a process that dies between an intent
and its outcome, state read before an await and used after it, and store calls
of which one fails while its neighbours work. `PROJECT.json` lists each place
under `hazards`.

## 2. Modules and how they correspond to the code

**`WalletLedger`** is the `wallet_ops` table as a sequence of rows, with one
operator per function of `host_store.py` (`Begin`, `Finish`, `Open`, `SpentSince`,
`NewestSettled`, `NewestTerminal`, ...). It has no variables, so that the lemmas
about it (at the head of `WalletKeeper_proofs`) are about plain sequences.

**`WalletKeeper`** composes, around that ledger, everything that touches it:

| Actions | Code |
|---|---|
| `CycleStart`, `Settle`, `ReclaimGate`, `FireReclaim`/`ReclaimDeclined`, `TopupFired`/`TopupRefused` | `cycle_provider` and the functions it calls, in their order |
| `DepositHeard`, `TxHeard`, `ManualHeard` (through `Heard`) | the code after the await on the sidecar |
| `ReplyLost` | timeout, reset, unreadable answer: `attempted` is assumed |
| `ManualFired`, `ClearHalt` | the dashboard handlers of `shim.py` |
| `CliBroadcasts`, `ReclaimRuns`, `JobSucceeds`, `JobRefused`, `JobFails`, `LandsLate`, `StatusWritten` | the sidecar, as the keeper can observe it |
| `ChannelOpens`, `ChannelSettles` | routed traffic on payment channels (external) |
| `Crash`, `Shutdown` | the process dies; the task is cancelled at an await |

One asyncio task runs between two awaits without interruption, but a crash may
fall anywhere, so the code between two awaits is cut at the functions of a cycle
(`pc`), and everything else moves only while the keeper is at an await
(`Yielded`). Each action is the whole function: `Settle` for instance closes
orphans, scores every due deposit and reads both breakers in one step.
A failing store call is a choice inside the action that makes it: each action
ranges over the sets of its calls that fail and pays one unit of `faults` when
that set is not empty. What a failed call returns is the code's answer: `[]` for
the breaker reads, "already spent" for the cap, "halted" for the flag, no row for
`wallet_op_begin`.

**`FundingPromise`** is the contract in four actions: commit (spaced by the
cooldown, bounded by the cap), execute only what is committed, release only what
was not executed, let time pass. `WalletKeeper` implements it with
`held` := the deposit rows that count as spent and `executed` := the deposit
rows whose transaction was broadcast.

**`ControlQueue`** is the sidecar's HTTP server in its own time scale:
`serialize()` with its timer and gate, the child process and its kill timeout,
the status refresh, and the clients' timeouts. Gates are microtasks: the model
lets nothing else on the event loop run while a gate is due (`LoopIdle`). It
discharges what `WalletKeeper` assumes of the sidecar: one mutation at a time
(`MayRun`), `refused` only without a broadcast (`JobRefused` needs a job that did
not broadcast), and an end within `Budget`.

**`UsageExport`** is the `calls` ledger between its writers and its consumer.
Each replica has its queue, the call in its writer's hand and its pending set
(`Enqueue`, `Take`, `Insert`, `Commit` or `WriteFails`, `Done`); a row gets id and
`recorded_at` at `Insert` and is visible after `Commit`. The export is cut at its
statements, because the writer thread runs between them: `AskExport` (the clock),
`ReadPage`, `ReadOldest`, `AnswerExport` (the pending set); so is `/internal/usage`
(`ReadTotals`, `AnswerUsage`). The consumer keeps the cursor, the rows and the
highest watermark it was given. `raced` is a history variable: the rows that
became visible between an answer's last read and its watermark.

**Before the router** (`MCAdmission`):

| Module | What a state and a step are |
|---|---|
| `SubjectBudget` (rows and parameters in `BudgetState`) | the usage row, one reservation per call, and the settle jobs of `_submit_settle`'s worker pool; a transaction is a step, its answer may be lost |
| `Ingress` | the stages of each call in `proxy()`; what runs between two awaits is a step. Its pump, drain timer, permits and waiters are state, and so is a waiter that was woken, or whose wait lapsed, and has yet to run (`HandOut`, `Lapse`); it uses `SubjectBudget` through `Store == INSTANCE`, and `StoreService` says it uses it only as the store allows |
| `RateBucket` (row in `BucketState`) | the bucket row, and per worker the time stamp it read before it got the lock |
| `KeyAdmin` | records, digest table, each replica's map and mirror, the handler under way on each replica |
| `ControlPlane` | the versions of the truth, one cache entry, the leader and followers of a resolve |
| `Analytics` | calls, hourly aggregates with the hours they cover, the job between its transactions, viewers of one snapshot, which is made of reads that may fail |
| `OperatorConfig` | the three stores, the router's copies of them, each request between its reads and writes |

**Behind it** (`MCRouting`):

| Module | What a state and a step are |
|---|---|
| `ChatStream` | handler, run, backend of the current attempt, delta queue, and what is on the wire |
| `FlowRun` | finished nodes with their values, the node under way with the providers tried for it, its trace entries, what was billed, and what of that no trace can say |
| `Conversation` | the history as the client holds it (chat messages or Responses items) and as each of five providers is told it |
| `CodexStream` | the fold of `aggregate_codex_sse` after each event, with both deadlines of the call |
| `AutoPolicy` | one decision: the legal policies now and when they were shown, its attempts, the cost told |
| `MarketOffers` | the newest observations of the sellers; cooldowns, health and the kept sellers are operators on them, as in the code; a rank whose read failed sees none of it |
| `ServiceNames` | a catalogue, an alias and a service name, and how `_bind` resolves it |
| `FundingGate` | escrow, the sidecar's row, the credits of the router and its refresh task |
| `PeerLeases` | calls, lease rows with their heartbeats, or the semaphores of a single process |
| `CodexAccounts` | account files, that of an older release among them, the objects with the file each was made for, the refresh in flight |
| `CodexInvites` | links, device codes, the visits to the onboarding page between their awaits |

These components share no state that the models keep, so each of the two MC
modules is a sum: its variable `which` picks one component, whose steps are the
steps of the behaviour, while the others stay as they began. A property of the MC
module is that of the component. Only `Ingress` and `SubjectBudget` truly compose.

`MCWalletKeeper`, `MCControlQueue` and `MCUsageExport` hold model values only. `*_proofs` modules
hold the theorems: `WalletKeeper_proofs`, `ControlQueue_proofs`, `UsageExport_proofs`,
`SubjectBudget_proofs` and `Ingress_proofs` those of one component each,
`Admission_proofs` and `Routing_proofs` those of the other components of the two sums,
which they reach through the instances of the MC modules. `FoldTheorems` holds what
they share about least and greatest numbers and sums over finite sets. Definitions whose comment begins with "Mutant of" are faulty
variants, used to show that a property can fail.

## 3. What the runs check

| Run | Question | States |
|---|---|---|
| `keeper_topup` | may deposits exceed cap, cooldown, breakers or halts, be written off, overlap, or leave `FundingPromise`, with one store failure, one crash and one operator reset anywhere? | 0.84 M |
| `keeper_reclaim` | the same for the reclaim phases, with traffic on a channel, a sidecar that ignores the selection and top-ups in the same cycle | 1.9 M |
| `keeper_live` | is every intent row closed, and does a wedged keeper raise its alarm? | 137 k |
| `queue` | serial execution, truthful refusals, sufficient budgets, progress | 413 k |
| `usage_export` | does the cursor skip a row, or a watermark pass a call that is held back, beyond the page, queued or in the writer's hand? | 5.6 M |
| `usage_live` | is every row delivered and passed by the watermark in the end, after drops, failed writes and crashes? | 116 k |
| `admission` | do budgets, permits, quotas, verdicts on keys, pages and configuration survive every interleaving, lost answer, late transaction, failed read and restart? | 1.19 M |
| `routing` | does a caller read one speaker, the whole answer and the true cost, from an offer that is fit, paid for and within its peer's cap, on an account that is still there? | 1.11 M |
| `usage_export_race` | the export's promise as its docstring makes it | - |
| `keeper_clear_halt`, `keeper_stale_score`, `keeper_manual` | three statements of docs and comments that the code does not keep | - |

The properties, in words:

- `NeverWrittenOff`: the row of a broadcast transaction never says `failed`, the
  one outcome that is free. `CapHolds`, `CooldownHolds`: over rows that may have
  spent, in every rolling window. `KeepsPromise`: the refinement.
- `NoOverlap`: with a cooldown shorter than a control request the keeper still
  never asks for a deposit while an earlier one is queued or running; it is the
  floor of the error backoff that makes it so.
- `BreakersBind`, `HaltsBind`, `ReclaimBreaker`, `ReclaimSpaced`,
  `KeeperRowsFinal`: breakers and halts across restarts, resets and failures.
- `PendingResolved`, `WedgedIsAlarmed`: liveness.
- `Serialized`, `RefusalIsProof`, `NeverOutrun`, `RefusedOnlyWhenBusy`,
  `Concluded`: the queue.
- `NothingSkipped`: ids are given at INSERT and seen at COMMIT, on several replicas;
  the cursor must not pass one that is still committing. `WatermarkKept` is the
  docstring's promise, which the code breaks (section 4); `WatermarkKeptUnlessRaced`
  and `WindowClosedUnlessRaced` say that nothing else breaks it, nor that of
  `/internal/usage`. `Reconciled`: nothing holds the watermark back for ever.
- `BudgetHeld`, `BookedOnce`: what is spent and held stays within the limit but for
  overruns, and is the cost of each settled call once, whatever was retried after a
  commit nobody heard of. `StoreService`: `Ingress` implements `SubjectBudget`'s
  specification. `IngressHolds`: permits, counters and waiters agree with where the
  calls are; a call waits beside a free permit only behind one that was woken before it
  and has yet to run; and every way out settles, but for a pump that its drain timer
  cancelled while it closed the upstream.
- `QuotaSharedUnlessSetBack`: grants of all replicas together, exactly: one bucket,
  its refill, and the stretches that a transaction with an old stamp made the row
  refill twice. `VerdictsHold`: what the operator was told of a key is what each
  replica answers, unless another handler's write lost it; a verdict of the control
  plane never goes back, and is served for a bounded time.
- `PagesHold`: the hours count each call once, but for rows later than the rollup's
  window and a schedule that was down; and no page whose reads worked loses a call that
  an earlier one counted. `ConfigHolds`: what was reported saved is stored, and the router
  runs with it when nothing is under way, excused where a failed read or an
  overlapping request undid it.
- `ChatHolds`: one attempt's words only (but for an in-stream error event), each
  delta once, in order. `EveryRequestEndsInTime`: liveness of the same.
  `CodexStreamHolds`: a completed answer is every piece, under its call; the
  deadlines end only calls that were silent. `FlowsHold`: a flow's cost that is told as
  known is what was billed, but for what the code cannot see (section 4); nodes after
  their inputs. `PolicyHolds`: a decision's cost is the cost billed or "unknown"; the
  policy that runs has a candidate at that moment and was offered, chosen and sure.
  `ConversationKept`: each provider is told every text, call and result in order.
- `OffersHold`: cooldowns are served, by every rank that could read them, and end. `NeverAnotherModel`: a seller's name is
  bound to a family of the same words and vendor or not at all.
  `MoneyProvenUnlessExcused`: credits stand on money seen lately.
  `PeersHold`: the peer's cap, and no slot for long without a call.
  `AccountsHold`: a change of an account that was reloaded stays; the accounts of
  one sign-in link are stored within two calls of each other.

Names that end in `Unless...` carry an excuse, a state or history variable that says
exactly when the code gives the promise up; the excuses are listed in section 4.

Three properties hold only while no store call has failed (`NoFaultYet`):
`BreakersBind` and `NoOverlap` because the breaker and backoff reads answer `[]`
on an error, which contradicts the ledger's own "fail-soft in the SAFE
direction"; the cap and the cooldown still hold, which is what the proofs rest
on. `ReclaimBreaker` also excludes crashes and operator resets: `Shutdown` and
the reconciliation close a reclaim row without counting strikes.

### Bounds

One tick of `WalletKeeper` is about two minutes; the order of the code's
durations is kept (settle age and deposit budget below the backoff base, backoff
below the window), the ratios are not. The cap admits two deposits, the pump
breaker needs two, so three rows let every limit be reached and overstepped by a
faulty variant; the mutants confirm it, each property having one that breaks it
under the same bounds. One fault, one crash and one reset suffice for each of
them to fall at any point; their combinations are covered up to one of each.
`keeper_topup` starts below the trigger, so that the first cycle may deposit.
`keeper_reclaim` has a cap of one deposit and one channel: phases name channels but no decision compares
two of them except the batch limit. In `keeper_live` the cap admits one deposit,
the shortest case in which the error breaker cannot be reached.
`ControlQueue` runs three requests, so that one may be running, one waiting and
one arriving, with one broken connection or lost answer and one restart. Ticks
are minutes: wait budget, deposit and refresh are one tick, a reclaim phase three,
so that a queued request can both outwait and be outwaited.
`UsageExport` has two calls of the server and one of another replica in
`usage_export`, a queue and a page of one, a lag of two ticks, commits within one,
and a server backlog of three: longer than the lag, which is the case the pending
set exists for. `usage_live` has calls of two different times instead.
`admission`: five calls, two permits and two places to wait, so that two run, two
wait and one is shed, and a call may come while a woken one has yet to run; two of
them are budgeted and may stream, the others only compete for permits; a limit of one
and a half reservations; a cost above the reservation; two attempts of a settle. Two workers and a bucket of one token; two
replicas and one handler each, with two saves; two requests to the control plane and
two changes of the truth; one call under a rollup window of two hours, two viewers,
and time until an older hour is counted again;
two requests of the operator, two knobs and two providers. `routing`: three attempts
of two deltas; flows of four and five nodes that join, rescue and skip, two providers for a call; four parts of a
conversation with two functions; three pieces and two function calls; two policies
and one retry (the caller passes none, the class allows one); two sellers that share a
family; names of up to three segments; three calls to a peer with a cap of one; two
accounts, one of them `default`, with two logins and that of an older release, and two
refreshes that the provider grants; two links and two visits. Calls of `Ingress` are symmetric;
liveness is checked without symmetry.
Deadlock checking is off where the model ends: clock and counters are bounded.

### Fairness

`keeper_live`: weak fairness of the keeper's own steps (`run()` loops for ever and
catches everything but cancellation), strong fairness of the clock, of the end of
a sidecar job (proved and checked on `ControlQueue`) and of the poll loop. These
are strong because steps of the keeper disable them: they are taken only at the
keeper's awaits. No fairness is assumed of replies, of the chain or of
the operator. `queue`: the event loop turns (gates, timers, refresh), the clock
runs, a child whose timeout has come is killed; a child never ends by itself.
`usage_live`: writer threads, the endpoint's thread and the clock run (weak), and
the consumer asks again and again (strong: other requests are in between). A crash
is followed by a restart of the same replica.
`routing`: only `ChatStream` has fairness, of the run's deadline (a timer of the loop)
and of handler and generator, which are woken by what they wait for. Nothing is
assumed of a backend: it may be silent for ever.

## 4. Divergences found

1. **A cleared halt comes back by itself** (`keeper_clear_halt`). Both breakers are
   recomputed from the newest closed rows, which clearing does not change;
   `docs/PROVIDERS.md:171-174` promises "a way back".
2. **Deposits can be scored on an old reading** (`keeper_stale_score`).
   `SETTLE_AFTER_S` ages the row, not the status it is compared with, which may be
   `STATUS_MAX_AGE_S` old.
3. **The dashboard spends without a row** (`keeper_manual`). `_wallet_mutate` ignores
   the `None` of `wallet_op_begin`, whose docstring demands an abort.

4. **A watermark can pass a call that was not delivered** (`usage_export_race`).
   `usage_export` reads the pending set after the rows: a call backlogged longer
   than the lag that is committed in between is in no page, yet below the
   watermark. The docstring and `docs/saas-project-scopes.md:139-143` promise
   otherwise. Reading the pending set first would be enough.

What the excuses of the properties stand for, read off the models:

- *Budgets and ingress.* A pump whose drain timer cancels it inside
  `_close_upstream_stream` never reaches `_account` and `_finish`: its permit and its
  settlement are lost until the process ends (`auth_proxy.py` 4506). A permit may be
  free while a call waits or is shed: `asyncio.Semaphore.locked()` is true as long as a
  woken waiter is listed, so `_capacity_acquire` (242-247) queues behind it; the woken
  one passes on what is free when it runs or gives up.
- *Rate.* `consume_rate_token` reads its stamp before the lock and writes it back as
  it is, so a late transaction moves `updated_at` back (`host_store.py` 933).
- *Keys.* Two replicas' edits of one consumer, or a failed read whose global flag a
  worker thread cleared, overwrite a revocation (`auth_proxy.py` 3017).
- *Configuration.* `validate_and_write` says it merges into the override file; it
  replaces the stored set with what a read returned plus the change, and a failed
  read returns `{}`, so one failure drops every other override. Adding a provider
  does the same with the list of added providers. A reload whose read failed reports
  success while the router runs on defaults; two reload threads may finish in the
  wrong order; a failed save of the list leaves the key in the file.
- *Streams.* `config.live.lua:91` says a stream that died after content cannot fall
  through; it can when the provider reported the error inside the stream, or when
  the answer was empty. Only text and reasoning count as a first token, so a stream
  of function calls alone stays under that deadline. A Codex connection that ends
  without a final event passes as finished, and an answer that ran out of tokens
  inside a function call as `tool_calls`. The quota observer "called once per
  attempt" is called twice when a read times out.
- *Accounts.* A refresh whose answer comes after a delete writes the file again
  (`codex_auth.py` 145). An invite is marked used after an awaited reload, so
  polls that overlap store two accounts from one single-use link. Where the file of an
  older release exists, deleting `default` brings that login back (`codex_auth.py`
  231-232, 322-326): the property says it is that login, whole, and that its tokens are
  kept in that file. `delete_account` swallows an error of `unlink` (366-369) and says
  it deleted the account; the model has the step, and never counts it as applied.
- *Money.* A failed refresh tick keeps the last credits for another round, and the
  model excuses whatever follows such a tick, for good; a time stamp from the future
  proves nothing until its time comes.
- *Peers.* The heartbeat ends at its first failed renewal while the call goes on;
  a semaphore idle for its lifetime is dropped under a long call; a call cancelled a
  second time while closing leaves its heartbeat running.
- *Pages.* Aggregates miss rows that land after the window, and hours in which the
  schedule was down for longer than it reaches back. When the store fails,
  `analytics_aggregate` (`host_store.py` 2060-2062) answers what it had read until then,
  and that page, with `available` false, is shared like any other until its time is over:
  it may lack calls that were shown before. `newest` goes on counting them, so the next
  page whose reads work must have them again.
- *Flows.* A node's call may be several provider calls (`llm_router_host.py` 666-706);
  what a provider that failed was paid is in no trace. `_node_cost` (514-534) counts a
  price that is missing from the list as 0 when the other is there. Both are in `unseen`,
  exactly; a cost that the provider reports, or that both prices give, is taken to be
  what was billed.
- *Offers.* `marketplace_route_health` answers "nothing observed" when its read fails
  (`host_store.py` 1187-1189): that rank offers sellers in their cooldown, and its calls
  may push the failure out of the sample that later ranks read. `blind` remembers the
  routes such a rank chose, and what was observed before is excused there. An observation
  may be lost on its way to the store (`Lose`); one that never got there cools nothing
  down. A tenant's own buyer has no observations at all (`tenant_providers.py` 53-54).

Smaller observations that no run isolates: the docstring of `_wallet_mutate` and
`docs/PROVIDERS.md` name the op `topup_manual`, the code writes `deposit_manual`; a
dashboard row closed as `unknown` by the keeper's reconciliation is overwritten
when the answer arrives (`KeeperRowsFinal` is stated for keeper rows only); the
top-up decides on the `available` read before the reclaim awaits; `control.js` is
not restarted when only its node process dies.

## 5. What is proved

TLAPS checks the theorems for every value of the constants, from the named
assumptions of the modules and nothing else. Each is one that TLC evaluates in a run.
Most say that a constant is a number or a set finite. Those that say more:

- `QueueAssumption`, `ExportAssumption`: the orders of durations given below for the
  queue and the export.
- `BackoffAssumption`: a deposit request is over before the shortest error backoff is
  (210 s of client timeout against `TOPUP_BACKOFF_BASE_S` 300 and `TOPUP_BACKOFF_CAP_S`
  3600, `wallet_keeper.py` 152-153, 184). It also says that `2 ^ (k - 1)` is a positive
  number for the strikes counted, which is arithmetic the provers do not know.
- `ControlAssumption`: a verdict "no such key" is kept no longer than a positive one
  may be served (defaults 15 s against 60 s and 300 s of grace,
  `control_plane_client.py` 47-49).
- `PageAssumption`: the recent window of the rollup reaches back further than the lag
  of the newest rows and one period of the schedule. Without it an hour could be
  closed before its last row was counted.
- `OfferAssumption`: two kinds of failure of a route cool it down for times that differ
  by one doubling at most (15 and 30 minutes, within an hour and six, in a window of
  24 hours: `sources/antseed.py` 39-46), a seller's longest cooldowns are within the
  route's, and no more calls to one route are under way than observations are read of
  it (`sample_limit`, 64). With a steeper base a failure would be forgiven early by a
  milder one after it; with more calls in flight it could be pushed out of the sample.
- `LeaseAssumption`: the heartbeat of a lease is faster than its lifetime.
- `FlowAssumption`: an admitted flow is a finite graph without cycles that has an
  output. The validation is in the decision engine, outside this checkout.
- `NameAssumption`: a name is a nonempty sequence of segments, a catalogue finite.
- `TalkAssumption`: the ids that providers make up are never given twice, and none is
  a function's name. The code makes none up: where Gemini sends none it takes the name,
  which the model has as a choice of its own.
- `StreamAssumption`, `ConfigAssumption`, `KeyringAssumption`: markers such as `None`
  are not data; keys that are deployed are keys.

The theorems of `Admission_proofs` and `Routing_proofs` are about the specification of
each component by itself (`Money!Spec => []MoneyProvenUnlessExcused`), not about the
sum: the sum exists for TLC, and its components share nothing but the clock variable.

**Keeper.** `TypeCorrect` is inductive by itself. The safety theorems follow from
`KeeperInv`, which is needed because none of the
properties mentions the sidecar's jobs, on which they depend. Its parts say: the
clocks of rows never run ahead and rows are ordered in time; a job belongs to
an existing row of its own operation, at most one per row, and a job that has not
broadcast has a row outside `sent`; a row that says `failed` was never broadcast
and has no job that still could; the row a waiting keeper or dashboard will close
is open and its own; commitments are spaced by the cooldown and counted within the
cap. The two last need the refused answer to come from a job that leaves the queue
without broadcasting. `NeverWrittenOff`, `CapHolds`, `CooldownHolds` and
`ReclaimSpaced` are then consequences; `HaltsBind` and `KeeperRowsFinal` are action
properties proved per action; `ImplementsPromise` maps every step to one of the
promise or a stutter. The counting argument for the cap: a row appended within the cap cannot push any window
that ends at an older row over it.

The two breakers need more than `KeeperInv`, for what a cycle decided at one await
must still be true at a later one. `BreakersAreBinding` has the invariant
`SettledFirst`: past `_settle_topups`, a cycle without a store failure and without
a verdict has silent breakers on the ledger as it is now. It is kept because until
the keeper fires or gives up only reclaim and manual rows change (`DepositsStand`),
and the breakers read deposits alone (`SameEvidence`). That "fewer than n newest
rows" means "fewer than n rows" is `NewestAreAll`, by the greatest row left out.
`ReclaimBreakerIsBinding` has `StruckIsHalted`: while nothing failed, crashed or was
cleared, the only open phase is the awaited one, it is the newest phase, and every
kind out of strikes has raised the halt. A refused or unanswered phase raises the
halt in the step that counts it (`ClosesPhase`); a confirmed one, being the newest,
leaves its kind without strikes (`ConfirmedClears`).

`NeverOnTop` proves `NoOverlap` with `OverlapInv`: a deposit request that is queued or
running at the sidecar is within its budget, and its row, no older than the request,
is `pending` or `unknown` (`UnderWayStep`: an answer that says more ends the request,
a settlement pass gives up on pending rows only); without a store failure it is also
the newest deposit, and past `_settle_topups` no deposit is `pending`. So when the keeper would
fire, that row is `unknown`, newest, and hence a strike; the strikes counted are
between one and the limit (`NewestCount`), the backoff
at every such count outlasts the budget (`BackoffOutlasts`), and the gate is closed
(`FiredAlone`). The budget of a deposit is a constant apart from that of a reclaim
phase, for the latter (330 s) does exceed the shortest backoff.

**Queue.** `QueueInv` has four parts: the chain lists each enqueued request once and
only those (`ChainInv`); whoever runs has only settled predecessors (`TurnInv`);
what was refused never forked, or failed before broadcasting (`RefusalInv`); the
client's patience covers the time its request may still take in its phase
(`PatienceInv`), which is where `Transit < Slack` is used. From them
`MutationsAreSerial`, `RefusalsAreProofs` and `BudgetsSuffice`. `RefusedBehindOthers`
adds that the chain is never wedged: of the requests in it the first that has not
settled is not waiting at its gate, so it runs, and a request whose timer fires stands
behind it (`SomebodyRuns`, with the least number of `FoldTheorems`). That needs a chain
that holds no request lost in a restart, which `ChainInv` says.

**Export.** `ExportInv` has five parts: queues, hands and pending sets agree with the
stages of the calls (`WriterInv`); what is open is within its deadlines and no mark
is ahead of the clock (`TimeInv`); ids and `recorded_at` have the same order
(`RowInv`); everything up to the cursor, and up to the end of a page under way, is
delivered or on it (`CursorInv`); open calls are above every mark, and an answer
under way accounts for every row but the raced ones (`MarkInv`). The lag enters
twice: an uncommitted row is younger than `CommitTime < Lag`, so its id is above
that of any row old enough to be delivered; and another replica's open call is
younger than `Backlog <= Lag`. Nothing is assumed of the server's own backlog: that
is the pending set's work. `CursorSkipsNothing`,
`WatermarksHold` and `WindowsClose` follow.

**Budget.** `BudgetInv` is the types, "a settle still to come has attempts left", and
`BudgetHeld` itself, which is inductive once the number of live reservations can be
compared before and after a step: a reserve adds at most one and has checked the
sum under the row lock; a settle removes one and books at most its amount plus the
overrun; the sweep only removes. The set of calls is any finite set, the limit,
amount and prices any numbers.

**Ingress.** `IngressUsesStore` proves `Spec => StoreService`: the ingress, with its
permits, pumps, drain timers, disconnects and crashes, implements a client of
`SubjectBudget`, so what is proved of the store holds of the store behind the
ingress. The mapping is the identity on the store's variables; the invariant it
needs (`ClientInv`) says that failures are finitely many and that a stream carries a
cost a call may book or none; each step is then a step of the store with a cost the
service allows, or leaves it alone.

`IngressIsSafe` proves `IngressHolds` with the invariant `IngressInv`, for any number of
permits. They are a matter of counting: `Count(p, pc, S)` is the number of calls of
replica p in the stages S, a move of one call changes the four counts that matter by at
most one (`Shift`), and a hand-out moves as many calls from waiting to woken as it takes
permits (`WakingCounts`, `HandOutCounts`). Who leaves the line hands out all that is
free, so afterwards nothing is free or nobody waits unwoken; who releases hands out one,
and if more is free somebody woken is still to come (`HandsKeepPermits`). Drain timers have to be
part of it (`TimerInv`): only a call with a stream has one, so a timer that fires
moves a call that holds a permit to another stage that does. For the exits
(`ExitInv`) a call that has not begun, or has no budget, has no row; every way out
submits a settle, which never returns to `none`; and no step of another call makes
or unmakes its row (`Keeps`).

**Rate.** `BucketInv` is the types, "until the row exists nothing happened", and
`QuotaSharedUnlessSetBack`: each transaction grants no more than it takes off the
bucket and refills no more than the stretch between its stamp and the row's, and
moving the row back by a stretch adds that stretch to `setBack`. It holds for any
number of workers, capacity, rate and price, in any order of stamps.

**Bookings.** `IngressBooksOnce` proves `BookedOnce` with `BookedInv`: a consumed
reservation has its settle job, so it is not settled twice, and a step consumes at
most one row, whose cost the sum then contains (`SumAdds`). The library's induction
theorems cannot be used here, so `FoldTheorems` argues by a smallest counterexample:
in a finite set of which something is false there is a subset of least cardinality,
and taking one element off it gives the contradiction.

**Keys and verdicts.** `VerdictsHeld`. `KeysInv`: for a key nobody's handler lost
(`KeyKept`), what was said last is what the record says, an issued key is in the digest
table, and a handler under way has copied the record as it is, or overwriting it will
count as a loss. `ControlInv`: an entry's version is the truth at a time no earlier
than its lifetime and two calls ago (`Dated`); one leader at a time resolves
(`OneLeader`); nothing that is served, cached or under way is behind what was served
before (`NewestAhead`).

**Configuration.** `ConfigHeld`. `ConfigInv`: every listed provider has a key in the
file (`ListedKeyed`); what was reported is stored (`SavedKept`); and unless a read
failed or requests overlapped, each knob that differs between store and router, and
each provider the router lacks, has a request under way that still carries it to the
router (`KnobsFollow`, `RouterFollows`).

**Pages.** `PagesHeld`. `PagesInv`: the covered hours are one stretch without a gap
(`Stretch`); an hour whose calls are not all in its aggregate is one the next run still
reaches (`HoursKept`), which is where `PageAssumption` is used; a page whose
reads worked has all that any page ever had, and none has what the aggregates below it
lack (`PageKept`).

**Streams.** `ChatHeld`, with `ChatInv`: only the attempt under way has spoken since the
client heard the first word (`OneSpoke`, `Committed`), after the end nobody speaks
(`Silent`), and what was written, what is queued and what the handler holds, put
together, are the deltas that were spoken, in order (`Delivered`).
`CodexStreamHeld`, with `StreamInv`: text, summary and each call's arguments list the
numbers of exactly the pieces spoken for them, ascending (`Faithful`); the deadlines
know when the first piece was heard (`Marked`).

**Flows.** `FlowsHeld`, for any admitted graph. `FlowInv`: a node that ended has a
value, unless it is the one that failed the flow (`ValuesGiven`); a node runs only while
the flow does and its turn has come (`NodeRuns`); and as long as every cost is known,
the sum over the trace and what no trace can say are together what was billed
(`CostsAddUp`, by `OneMoreAdds` and, for one bill, `BillTells`). That a
flow which has nothing ready has run everything uses that the graph has no cycle.

**Policy choice.** `PolicyHeld`, with `PolicyInv`: a known cost of the decision is what
was charged, and a choice was made from what was shown (`CostBacked`, `ChoiceBacked`).

**Names.** `NamesBound`, for names of any length and any catalogue. The resolution is a
function of the name, so `NamesInv` only says the binding is its result; the work is in
the lemmas on the residue of a name after its vendor segments (a recursive function,
taken apart by the least number that fails) and on its claimants.

**Offers.** `OffersServed`, with `OffersInv`: a route that failed, and that no rank
without a read chose since (`blind`), is offered to no new
call before its cooldown, so only calls that were under way land after the failure,
and those that landed with those that will are fewer than the calls there can be
(`FewLand`). So the failure stays among the observations read, whatever the others
come to, and the streak it belongs to cools the route down at least as long
(`UnliftedCools`). That a seller returns is `ExileEnds`: the newest failure of a streak
bounds it, whatever the streak's length.

**Money.** `MoneyProven`, with `MoneyInv`: a refresh task ends in time (`TaskOnTime`); the
row says what was on chain when it was written (`RowProves`); credits stand on a row
that was fresh when they were given (`CreditsProven`).

**Peers.** `PeerCapHeld`, with `LeaseInv`: a lease without a lapse is renewed before it
ends (`LeasesFresh`), belongs to a call that runs (`LeasesOwned`), live rows number at
most the cap (`RowsCapped`); the same of the gates of a single process
(`GatesKept`, `GatesCapped`).

**Accounts.** `AccountChangesStick`: an account whose change was applied is used from
the file that stands for it now, and a refresh of it carries what that file holds and
will be written there (`Sound`), so it cannot undo a change that came after it. Of the
other accounts' steps it is untouched because a login belongs to one account
(`LoginsOwned`), that of the older release to `default`. `LinkUsedOnce`: a grant lasts at
most one call (`GrantsShort`) and the first account that is stored marks the link
within another (`MarkedSoon`). `AccountsHeld` joins them.

**Conversation.** `ConversationIsKept`, for every set of functions, every list of ids and
any length. `TalkInv`: what the client wrote down says what was uttered, with the names
of results erased, as both OpenAI dialects do (`HistoryKept`); ids belong to one function
each (`IdsGiven`, `IdsNamed`), so the name that `_openai_messages_to_gemini` looks up for
a result is the one that was called, although the lookup takes the last of several calls
with an id and Gemini's own ids are names; every result follows a call (`ResultsFollow`);
and a request under way was built from the history as it stands (`AskedAsHeld`). From
there it is a fact about translations alone: items become messages that say the same
(`ItemsBecomeMessages`), and the turns built for a provider tell what each message says,
as that provider is told it (`MessageHeard`, `TurnsHeard`). Since the library's induction
theorems cannot be used, sequences get one of their own, for a set of sequences that has
the empty one and is closed under appending; `FlattenSeq` and the fold of
`_resp_input_to_messages` are unfolded by exhibiting the functions they are defined by
(`FlattenExists`, `FoldExists`). Filters are written with `FlattenSeq`, and the
alternatives of `Merged` exclude each other, because the provers have no definition of
`SelectSeq` and do not order the arms of a CASE.

**Only model-checked.** All liveness (`PendingResolved`, `WedgedIsAlarmed`, `Concluded`,
`Reconciled`, `EveryRequestEndsInTime`): fairness and ENABLED are outside the prover's
reach. Every safety property of the passing runs is stated by a theorem.

## 6. Plan

The modules and the theorems of the plan are written. What would come next is the
composition of `Ingress` with `KeyAdmin` and `ControlPlane`, whose verdicts are inputs
of the admission today.

## 7. Not modelled, and why

The decision engine (`core/`) is not in this checkout: what it ranks, and which
attempt it makes after a failure, is a choice in the models. Prices, benchmarks,
token counts, images, cache markers and error texts are data that no modelled
decision compares, beyond known or unknown. The wording of the market CLI's
errors, from which `broadcast.js` reads whether a deposit was broadcast, is not modelled
either: the queue takes its verdict as true. The tourniquet on suppressed offers
fails open on an unreadable row and is left out of `FundingGate`, which is thereby
the stricter gate only. The OpenRouter catalogue, the read-only endpoints, synthetic
checks, the web pages with their session login, smoke scripts, templates and
manifests keep no state that steps of two actors could disagree on. The provider
statistics and connection pages use the same snapshot without its lock. The
dashboard's reclaim buttons write no ledger row and touch only the chain. Retention
of the `calls` table, clock skew between containers and the text columns of the
ledger are abstracted (see the headers of the modules).
