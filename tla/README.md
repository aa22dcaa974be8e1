# nova-mastra in TLA+

nova-mastra is the agent half of a commerce platform: it answers a store's
customers, works the store's proactive jobs, watches the store's numbers, and
talks with the founder.  The other half, dakio-api, owns the database and is
not in this repository; the repository's own in-memory `DemoStore`
(`src/store/backend.ts`) mirrors the parts of it that matter here, statement by
statement, and is what the models of the server's side are translated from.

Paths below are relative to the repository's root; line numbers are in
`PROJECT.json` (`map` for each definition, `hazards` for each danger).

## 1. The system

| part | source | state it keeps | operations | who it talks to | modules |
|---|---|---|---|---|---|
| Job queue | `src/store/backend.ts`, contract in `client.ts` | job rows: status, attempts, lease token, due and lease times | `claimDueJobs` (watchdog, expansion, batch, lease), `completeJob`, `releaseJob` | called by the dispatcher over HTTP | `JobQueue`, `JobContract` |
| Cadences | `src/store/cron.ts`, expansion in `backend.ts` | job definitions, inbox events | last local time in a zone, expansion, cart drain | queue, pulse | `Cadence` |
| Dispatcher | `src/brain/dispatcher.ts` | per tick a report | one tick a minute: claim per tenant, perform, settle | queue, router, lanes, audit | `JobDispatch` |
| Router, registry | `src/brain/router.ts`, `registry.ts` | none | plan a job's lane; is a promise still open; instruct the turn | dispatcher, store | `JobRouting`, `JobLanes` |
| Run audit | `src/brain/runs.ts`, ledger in `backend.ts` | one row per turn | start, finish, amend, all fire-and-forget | dispatcher | `RunAudit`, `AuditCalls` |
| Store client | `src/store/dakio.ts` | none | one request: tries, timeouts, waits, one budget | dakio-api | `StoreCall` |
| Action gate | `src/front-office/actions.ts` | action rows, decisions, activities (server side) | create, cancel, discount, contact, case, hand-over | authority, store | `ActionGate`, `ChatVerbs` |
| Authority, duties | `src/store/authority.ts`, `autonomy.ts`, `duties.ts` | the founder's controls | judge one request | action gate, lanes | `DutyRoster`, `AuthorityLadder`, `AuthorityDesk` |
| Customer turn | `src/front-office/turn.ts` | the conversation's context | classify, decide, act, write, save; or speak first | context store, gate, model | `CustomerTurn`, `FollowUpRuns` |
| Context store | `src/front-office/context-store.ts` | a map over a row per conversation epoch | prime, load, save (chained), reset, turn lock | customer turn | `CustomerTurn` |
| Ingress | `src/inbox/ingress.ts`, `shadow-log.ts` | replay guard, in-flight set | accept one signed delivery, run its turn off the request | tenants, customer turn | `InboxIngress` |
| Founder chat | `src/eve-compat/*` | sessions in memory and in Postgres | create, post, stream, rotate, save, restore, collect | model, the merchant's app | `EveSession` |
| Pulse | `src/brain/pulse*.ts`, `src/lib/snapshot.ts` | one snapshot per store | sense, drain, compare, judge, settle, report, save | store, gate | `PulseSense`, `PulseCompare`, `PulseWatch` |
| Event lanes | `src/brain/lanes/*` | none | courier intervention, restock check | store, gate | `LaneRuns`, `JobLanes` |
| Tenants, fleet, tokens | `src/store/tenants.ts`, `fleet.ts`, `src/lib/service-token.ts` | caches with time limits | refresh, evict, list, mint | dakio-api | `TenantRegistry`, `ServiceToken`, `FleetTick` |

What is hard in it: ticks overlap, so two workers may hold leases of one row;
every call may be lost, late or applied after its sender gave up; a process may
die between a write and its record; audits and saves are fired and forgotten;
reads fail, are cut short or are stale by the time they are used; the founder's
controls move while requests are judged; and several rules ("never retry a turn
that wrote", "one receipt per action") are kept by two files together.

## 2. What makes each part correct

* **Queue and dispatcher.** A lease is settled at most once, by the worker that
  holds its token; a turn that wrote is never handed back for a retry; a row is
  closed for a reason and, once the faults stop, every row is closed.
* **Cadences.** The latest local time of a cadence that has come is run, once,
  whatever the zone's clocks do; a cart's sweep follows the cart.
* **Router and follow-ups.** A debt is paid on the thread it is owed on and
  dropped by nobody's failed read; a malformed row reaches no customer.
* **Run audit and client.** However its writes are delayed, retried or repeated, a
  settled run is never shown as running again; no call outlives its budget.
* **Action gate.** What a delivery answered, what the ledger records and what the
  shop did agree, whichever deliveries overlap, die or retry; revenue is
  credited once; one negotiation has one coupon; an undo keeps its way back.
* **Authority.** What Nova does alone, every control allows; a control turned down
  lets nothing further; a person can always be asked for.
* **Customer turn and context store.** A yes orders once; the context's books
  agree with the shop's; Nova is mute while a person has the thread; the row
  never goes back to an earlier turn.
* **Ingress.** No refusal loses a message; a replayed delivery runs nothing that
  the guard has not forgotten.
* **Founder chat.** A restart between turns is unseen; the app hears how every turn
  it started ended.
* **Pulse.** What is called announced was shown; a quiet pulse hides nothing;
  nothing is forgotten that was not looked at.
* **Event lanes.** No card about a parcel that was seen moving; no date that is not
  an order's.
* **Tenants and tokens.** A paused store is refused in bounded time; a store is
  served on its own profile alone; no call sends a token that is dead.

## 3. The modules

| module | what it is | composes |
|---|---|---|
| `JobContract` | abstract: a job as a sequence of fenced leases | |
| `JobQueue`, `JobDispatch` | the table; ticks and workers over it | implements `JobContract` |
| `JobDispatchProofs` | theorems about `JobDispatch` | |
| `RunAudit` | abstract: the audit writes of a turn, each delivered once or lost | |
| `StoreCall` | operators: what one retried call may come to | |
| `AuditCalls` | the audit writes over the retrying client | `StoreCall`; implements `RunAudit` |
| `ActionGate`, `ActionGateProofs` | deliveries of an order or a cancel over the action ledger | |
| `ChatVerbs`, `ChatVerbsProofs` | deliveries of a discount, a contact change, a case, a hand-over | |
| `DutyRoster`, `AuthorityLadder` | operators: the roster with its bindings; the ladder of one judgement | |
| `AuthorityDesk` | the founder moves the controls while requests are judged | `AuthorityLadder` |
| `CustomerTurn`, `CustomerTurnProofs` | the turns of one conversation over its context store | |
| `JobRouting` | operators: the plan of a job, the instruction of its turn | `DutyRoster` |
| `FollowUpRuns` | the attempts of a job by which Nova speaks first, over the ledger of promises | `JobRouting` |
| `LaneRuns` | the attempts of a courier or a restock job | `DutyRoster` |
| `JobLanes` | the router between the two | `LaneRuns`, `FollowUpRuns` |
| `EveSession` | a founder chat session, its row, and the app | |
| `InboxIngress` | deliveries, their copies, the guard and the turns | |
| `PulseSense`, `PulseCompare` | operators: what a pulse sees; what is news of it | |
| `PulseWatch` | pulses that overlap, die and are delivered again | `PulseCompare` |
| `ServiceToken`, `TenantRegistry` | the credential of a call; the cached profile | |
| `FleetTick` | a tick and another entry over one registry | `TenantRegistry`, `ServiceToken` |
| `Cadence` | definitions, events and claims over the clock | |
| `FleetAndAuthorityProofs` | theorems about `FleetTick` and `AuthorityDesk` | |
| `AuditAndSessionProofs` | theorems about `AuditCalls` and `EveSession` | |
| `LanesAndCadenceProofs` | theorems about `JobLanes` and `Cadence` | |
| `IngressAndPulseProofs` | theorems about `InboxIngress` and `PulseWatch` | |
| `MC*` | instances for TLC, where a constant needs a definition | |

The modules meet at seams.  `JobDispatch` sees a customer turn as work that may
write and then returns, throws or comes back with nothing; `CustomerTurn` and
`FollowUpRuns` open that work up, and see the queue as a lease that may lapse.
`CustomerTurn` sees the gate as one step that executes, prepares, blocks or loses
its answer; `ActionGate` opens that step up.  `ActionGate` and `ChatVerbs` take
the authority's verdict as a choice; `AuthorityDesk` says which.  `InboxIngress`
takes the registry's answer as a choice; `FleetTick` says for how long it may be
stale.  `RunAudit` is what the dispatcher assumes of its audit; `AuditCalls`
shows that the client keeps it.  What one module assumes of another at a seam is
what the other shows.

### JobQueue and JobDispatch

`row[j]` is a `NovaJob`: `status` ("absent" until its definition is expanded),
`attempts`, the lease `token` (numbered here; a UUID in the code), and what the
clock has made of `dueAt` and `leaseUntil`.  `ending[j][t]` records what became of
lease `t`.  `ClaimDueJobs` is the whole of `claimDueJobs`: expansion of what is
due, the watchdog over stale leases, then the batch in priority order, each leased
with a fresh token and one more attempt.  `CompleteJob`, `ReleaseJob` and
`StaleSettlement` are the fenced settlements, with the attempts cap and the
backoff.

`delivery[j][t]` is `settleJob` for lease `t`.  `Tick` is one claim whose answer
arrives, `ClaimAnswerLost` one whose does not; ticks are not serialised, because
the workflow's cron does not wait for the last run.  `RefuseSweep`, `RouteFails`,
`RouteToNothing`, `StartWork`, `CommitWrite`, `FinishWork`, `WorkThrows` and
`TurnProducesNothing` are the ways through `performJob`; `ServeSettlement`,
`HearAnswer` and `SettlementCallFails` the settlement and its losses.  A settlement
request may be served long after its sender gave up (`pc = "strayed"`): the client
retries one request under one idempotency key, so the retries together are one
request that is late, or lost (`StoreCall` opens them up).  A tenant's jobs are
independent of another's, so one tenant is modelled.

### Cadence

The other half of `claimDueJobs`: `ExpandDueDefs` finds the last local time that has
come (`LastOccurrence`, a search back over the minutes of a zone whose `Offset`
changes once) and mints one row per instant; `Drained` gathers pending carts into
windows and makes one sweep of each, due when the window is over.  `PulseDrains` is
the pulse's own marking of the same events.  A local time that falls in the repeated hour
has two instants, and is `Settled` once the clocks can no longer come back to it:
`LatestRunsOnce` speaks of settled times, and lets a claim inside the repeated hour file a
later one that is still to be repeated.

### RunAudit, StoreCall and AuditCalls

In `RunAudit` every audit write is a member of `posts[t]` until it is delivered or
lost.  `Recorded` is the ledger's upsert.  The amendment of a lost lease is its own
post.  `StoreCall` is `request` of the live client: a call is its try and the time
it has spent, and an operator gives the set of what a fault, a wait or an answer
makes of it.  `AuditCalls` gives every audit write such a call, whose copies are on
the wire together; dakio-api applies a request once per idempotency key (external).
The refinement maps what is not applied yet to `posts`.

### ActionGate

One at-most-once key per verb.  A delivery goes through `FindByKey`,
`EvaluateAuthority`, the write, the filing and what follows a filing, each `await`
a step; it may `Die` at any.  Two verbs stand for the two shapes the code has:
`order` writes and then files an executed row; `cancel` files a claim, writes and
finalizes the row.  The
executor behind an approval is dakio-api's, which keys what it creates by the
action row's id (`actions.ts` says so at its head): it is `Approve`, and external,
as are the founder's `Reject` and `Undo` and the shop's own `Pack`.  `present` says whether the
store still answers the order that a cancel is about; once `Vanish` has taken it, the read before
a cancel falls back to "placed", a cancel's write throws, and a resumed claim writes nothing and is
finalized all the same, as in the code.

Three things the code says of itself are kept as they are: a cancel's activity line
may be written twice (a documented residual); a finalize that arrives after the
founder's undo returns a claim's row to executed, which `Later` allows for claims;
and the two cards that a heal and a slow filer may both write are counted, not
forbidden.

### ChatVerbs

The discount reserves its codes in the claim it files, so that any delivery can find
what another minted: `Claim`, `Resolve`, `Mint`, `Collided`, `NextCode`, `Confirm` and
`Finalize` are the awaits of `performOfferDiscount`.  A code may be a stranger's; the
list that tells may be unreadable (`unread` remembers).  Contact, case and hand-over
are write-then-file over a door that joins what is open (`OpenCase`).  These three
performers and the discount's are called by tests and by no lane yet.

### DutyRoster, AuthorityLadder and AuthorityDesk

The roster's rows, doors and bindings are translated as sets.  `AuthorityLadder` is
`evaluateAuthority` and `checkGuardrails` rung by rung, with every arm; money is in
minor units and a missing field is a missing key.  `AuthorityDesk` moves one control
at a time, and its properties are stated without the ladder's order.  `WithinLimits` says of every verb,
from the founder's side, which switch must be on and which limits be set and kept: the day's
spend, the discounts, an order's confirmation, total and risk of return, a reply's intent and
thread, the change of a budget or a price, the margin, a purchase's total.  What
`TighteningNeverWidens` leaves open (`AskedFirst`) is named in section 6.

### CustomerTurn

The state is the thread, the job of each message with the lease it is under, the
queue of the conversation's lock, the context in memory, its row and its write
chain, the orders by the number in their key, and the hand-over's row.  A turn
mutates the context in place, so `mem` changes at each step while `saves` changes
only at a turn's end: a throw leaves what it had changed.  `Load` is
`primeContext`, `loadContext` and `reconcilePendingOrders`; `TakeIn` both skips,
the mute and `pushMessage`; `Classify`, `Validate`, `CreateOrder`, `ReplayOrder`,
`Unavailable`, `HandOver`, `Write` the rest of `executeTurn`.  The message is read
from the thread before the lock is taken (`Lease`), as in the code.

The history variable `lost` says what the context has lost: "state" when memory
that the row does not hold is gone, a load failed, or a gate's answer did not
arrive; "line" when a customer's line left `recent` while its job could still be
run.  The code degrades in these cases by design, and the properties are stated
short of them.  One process is modelled, because the lock is in its memory.

### EveSession

`session` is the entry of the sessions map, `row` the Postgres row, `writes` the
chain of saves and deletions behind `enqueue`.  The app is the merchant's, modelled
from how the router answers it: it posts with its last token, counts every line of
the stream, sends again when a crash cut its turn off, and stops at a refusal.
`Collect` runs only after two idle hours, when the writes have landed and the
streams were read.

### JobRouting, FollowUpRuns, LaneRuns and JobLanes

`PlanJob` and `InstructionFor` are the router's, rail by rail.  In `FollowUpRuns` an
attempt goes from `Route` to `CheckPromise` (`promiseStillOpen`: one page, which may
be full, by a read that may fail), `OpenTurn` (`runInstructedTurn` before the lock,
with `assertPromiseOwedHere`'s own look) and `TakeTurn` (`executeTurn` when Nova
speaks first); promises are kept, released, broken, deleted and made meanwhile, and a
thread is handed over.  In `LaneRuns` an attempt reads a parcel (two reads, sent
together), words and files one card; or reads a case, the stock and the orders, writes
a fact and raises a report.  `JobLanes` lets one row choose: whichever half the plan
is not for stands still.  The jobs of an instance include the malformed rows a
producer could write.

### InboxIngress

`wire` is what the network holds of each delivery, `seen` the replay guard, `busy` the
in-flight set.  `Deliver` is steps 1 to 3 up to the wait for the profile, `Refuse` and
`Accept` what follows it, `RunShadowTurn` the work off the request.  The sender signs a
fresh stamp each time it sends again, and its clock may be ahead.

### PulseSense, PulseCompare and PulseWatch

A sense is six reads, each of which may have thrown; every condition, blind spot and
undeterminable key of `snapshot.ts` and `pulse-compare.ts` is an operator on it, in
exact arithmetic (tenths and hundredths where the code rounds).  `PulseWatch` runs
deliveries of pulse jobs over them, each await a step, with a store that may look
different at every sense.

The desk is the action ledger's rows, by condition and day, each with what became of its card
and of the founder's answer.  A row that is already there answers for the finding (`Replay`), puts
nothing new before the founder, and counts as on the desk unless it was refused or is spent; or
it was filed for other figures and ends the pulse (`GateThrows`).  `told` is what a report said,
and when, and only of reports that were really filed: what a delivery would have said in a
report that an earlier one had filed is in `missed`, and `cut` says whose deliveries died so.
`LookedAt` says, field by field for each of the nine kinds of condition, what a sense must have
read to tell that the condition is over.

### ServiceToken, TenantRegistry and FleetTick

Clocks are ages that stop counting where nothing distinguishes them.  The registry
holds one store's row; `StartFetch` is shared by whoever asks meanwhile; a refresh may
be answered, refused, late, or about another tenant; a profile is taken to name its store,
as the repository's own stubs of dakio-api do.  `FleetTick` is who asks: the
minute tick, over its cached list, and any other entry.

## 4. The runs

| run | instance | distinct states | shows |
|---|---|---|---|
| `dispatch_live` | a customer job and a misrouted sweep, one-row claims, cap 2, 1 fault | 16 395 | a turn that wrote is never released, reports are true, closures have reasons, extra leases are faults, the contract is implemented, both jobs close |
| `audit` | 1 turn, 2 tries a call | 371 425 | a call keeps its budget, the client implements `RunAudit`, settled stays settled |
| `gate` | 3 deliveries of one verb, 2 requests, 2 faults | 1 150 132 | one credit, executed is done, answers are true, undo restores, owners stay |
| `verbs` | 3 deliveries, 2 keys, 2 codes each, 2 faults | 970 836 | one coupon per negotiation, told as recorded, one opening per case |
| `authority` | 3 stores, 24 requests, 4 lanes, 2 moves | 4 112 | alone only within every control and limit, a human in reach, tightening never widens |
| `turn` | 3 messages, 2 leases each, 5 lines remembered, 1 fault | 1 331 541 | a yes orders once, the books agree, silence after a hand-over, the row never goes back |
| `lanes` | every kind of job, 2 attempts, 2 days, a page of 1 of 2 promises | 1 249 792 | cards are warranted, no invented date, debts paid where owed and not dropped |
| `ingress` | 1 conversation, 2 stamps, a guard of 1 | 150 206 | a message is lost only with the process, a copy runs only if forgotten |
| `eve` | 3 turns, 3 events, 2 faults | 155 949 | a restart is seamless, every turn is heard |
| `pulse` | 2 jobs, 3 deliveries, 6 senses, 1 fault | 633 256 | announced was told, quiet is true, nothing unseen is forgotten |
| `fleet` | 2 callers, lives of 1 to 4 units | 422 427 | a pause is seen in time, each store on its own standing, no dead token |
| `cadence` | 2 days of 6 instants, 2 zones, 2 cadences, 3 carts | 790 713 | the latest local time runs once, a sweep follows its carts |

**Bounds, and why they are enough.**  Two jobs are the fewest of which one can
starve the other, and a claim of one row at a time (`BatchLimit = 1`) makes them
contend.  Three leases let a row be recovered, leased again and settled by both
workers; the fencing compares two tokens at a time, and the proofs remove the
bound.  The cap is two where the code's is five: that any cap is kept is a theorem
(`CapIsKept`).  In the gate and the
chat verbs, three deliveries are one that acts first, one that overlaps it and one
that comes after both; a second request, or a second key, is what a mismatch takes.
The deliveries of a gate's run are all of one verb (`OneVerbInit`), since two verbs share neither a
row nor a write.
In a turn, three messages are a quantity, its yes and one more, and the longest
history the properties need is "quantity, yes, quantity, the same yes again".  `MaxOrders`
ends the ledger of a conversation; its keys are numbered, and three messages place fewer.
`RecentMax` is 8 in the code and 5 here: five lines hold the yes of that history and
yet are fewer than the six that three answered messages write, so that a line is
dropped too.  In the session, three turns are one before a crash, one after it, and
one that reads what the second left.  In `lanes`, two attempts overlap or follow each
other; a page of one and two promises make a page that is full with and without the
debt on it; two days let a date pass.  In `ingress`, a guard of one signature and two
stamps make it forget one that is fresh.  In `pulse`, two hours and a redelivery are
what the snapshot's two readers and one dedupe key take; the six senses are a
healthy store, one that runs short, one that has more parcels returned besides, one whose figures
are missing, one cut short by its pages, and one that answers nothing.  The one fault may be a
failed call or a death at any step, also after the report.  No event reaches the inbox
after the last sense, where it would change nothing.  In `fleet` each limit is longer than the one before
it, in the order the code has them.  In `cadence` the clocks move by a third of a day,
so that both a skipped and a repeated hour hold a slot.  In `audit`, two tries are one
that is late and one that overtakes it.

**Symmetry** is used where identities are interchangeable and no liveness is checked
(attempts, deliveries and requests of the gate).

**Deadlock** is not checked anywhere: each bound lets a run end, and a queue with no
rows due has nothing to do.

**Fairness.**  `JobDispatch!FairSpec`: the scheduler fires a tick a minute, time
passes, and a worker that is not lost takes its next step.  Nothing obliges a
strayed request to arrive, nor a fault to happen.  Weak fairness is
enough: while a row waits, a tick that would change something stays possible.
`EveSession!FairSpec`: the database answers, the model call ends, well or badly
(`runTurn` catches either), and the app restores, opens and reads what it is waiting
for; it is not obliged to post.  Everything else states safety only.

## 5. What is proved

All of it for every value of the constants, from the named assumptions of the
modules and nothing else.

**JobDispatch** (`JobDispatchProofs`).  `IInv` is typing, `LeaseOK` and
`DeliveryOK`.  `CommittedNeverReleased` alone is not inductive: a step that serves a
release must know that its delivery did not write, and one that leases a row that
no delivery of a later token exists.  `LeaseOK` says that the leases of a row are
numbered without gaps and only the last can be open; `DeliveryOK` that until a
delivery's request is served its lease is open or was reclaimed, and that a turn that wrote never
leaves with `retry`.  Each action moves one delivery and at most one row, or is a
claim that leaves every delivery but the new ones alone, so each step of the proof
looks at one pair and carries the rest.  From `IInv`: `TypeOK`,
`CommittedNeverReleased`, `ReportIsTrue`, `ClosedForAReason`, and `ContractSpec` (the
refinement: a claim maps to a joint grant, a settlement to a close or a return, the
rest to a stutter).

**ActionGate** (`ActionGateProofs`).  `IInv` is `TypeOK`, `RowsOK`, `LinesOK` and
`AttemptOK` of every delivery.  Deliveries interfere only through the ledger and the
shop, so the argument is that of rely and guarantee: every step moves each row only
as `Later` allows and the shop only onward, `AttemptOK` of a delivery at rest
survives both, and only the moving delivery has to be looked at.  From it: `TypeOK`,
`SaleCreditedOnce`, `ExecutedIsDone`, `AnswersAreTrue`, `UndoRestores` and
`OwnersStay`.  With three deliveries TLC could miss what a fourth does; the theorem
does not.

**JobDispatch, the cap** (`CapIsKept`).  `ExtraLeasesAreFaults` is not inductive either: a
claim adds an attempt, and nothing in `IInv` says that the row had one to spare.
`AttemptsPaid` says it: a row that may be leased again, now or when the watchdog takes it
back, has fewer attempts than the cap and the faults together, because it was released
below the cap or its fault is already counted.  No count of faults per lease is needed.

**AuditCalls** (`AuditAndSessionProofs`).  `IInv` is typing, with each call within its budget,
and `KeysOK`: every key the ledger has seen or may yet see is that of a write, never of a
try, and what is on the wire belongs to a call that was opened.  That is why a copy which
overtakes its own retry applies nothing a second time, and so why the calls implement
`RunAudit` (`KeepsAudit`: the first copy to arrive is the post's delivery, the last failure
of one that never arrived its loss, all else a stutter).  `SettledStaysSettled` is an action
property of `RunAudit` and is carried over the refinement.

**ChatVerbs** (`ChatVerbsProofs`).  `ClaimsOK` ties what each delivery holds to its key's
row: once a claim is filed its row names who reserved the codes, and a minter past its
claim works with those.  `CouponsOK` says that every coupon of ours is one the claim
reserved, and that, as long as no list went unread, all codes before it were a stranger's:
two coupons of ours would each have to come before the other.  `OpeningsOK` numbers the
times a door was opened and gives each to one delivery.

**CustomerTurn** (`CustomerTurnProofs`).  `JobsOK` orders the turns of one message by their
leases; `TurnOK` says that a turn past its intake has its message among what it has
absorbed; `SavesAscend` that memory is ahead of the write chain and the chain of the row;
`MutedOK` that a hand-over is on the context before any later turn can start;
`OrderersKnown` that whoever ordered is remembered, or will not be run again, and in
particular is not the turn that is about to order.  With these `BooksAgree` (the next key
is free) and `OneOrderPerYes` are inductive together.  Every part is stated short of what
`lost` records, as the properties are; the proof shows that no other way to break them
exists.

**JobLanes** (`LanesAndCadenceProofs`).  Each half stands still while the row is the other's, so
each has an invariant of its own.  `DebtOK` follows an attempt: before a look there is none,
past it the attempt has one, what a look *saw* is owed on the job's own thread, and an
attempt that closed as nothing to pay did so when no row of the debt was open, which stays
so because the ledger opens no debt twice.  `SeenStill` is what two reads sent together may
have in common: when the first answered "on its way" and the parcel has been scanned since,
the second will say so.  `OrdersSeen` says that what a run has read of the orders was
placed.

**InboxIngress** (`IngressAndPulseProofs`).  `OldestFirst` makes "the expired ones" a prefix of
the guard, so that what it forgets is either expired or the oldest of a full guard.
`CopyRefused` rests on `GuardOK`: a delivery that ran is guarded for longer than its stamp
stays fresh.  This holds if the sender's clock is less than a whole window ahead, which the
theorem assumes (`Tolerated`) because it is false otherwise; section 6 has the instance.

**FleetTick** (`FleetAndAuthorityProofs`).  `SaidInTime` relates the age of what a row or an answer
says to how long the store has been out; `Lasts` that a token in flight outlasts the
request's timeout; `ReadyInTime` that a caller which was let through will find a row it may
serve.  All three steps of staleness (a list, a row, an answer on its way) are bounded
by sums of the code's own limits, whatever those are.

**AuthorityDesk** (`FleetAndAuthorityProofs`).  The ladder is one operator of many rungs, so
the work is in what each rung lets past: a verdict of `execute` is followed back through them,
and every lemma says which control had to allow it.  One lemma for each kind of limit shows that the
verb's own arm asked it, and one over the whole table of verbs (`Tables`, `AllowedWithin`) that no
verb passes without its arm.  The invariant is `ControlsOK` alone
(`DeskTyped`), since the founder may move a control to any value of its kind: levels and
amounts are whole numbers, modes and switches are of theirs.  `TighteningNeverWidens`
compares two whole judgements: each arm of the guardrails gives no looser an answer when its
limit is tightened, and each rung is asked in the same order, so that only the two verbs of
`AskedFirst` may come out otherwise.

**EveSession** (`AuditAndSessionProofs`).  `RestartIsSeamless` speaks of a session that is not
in memory; what makes it true is what held while it was.  `TokensInTurn` says that no token,
in memory, in the row or in the chain, belongs to a turn that has not been answered; `InStep`
that the app's cursor lies within the log and that nothing which ends a turn stands unread
but the event that ends this one.  `RowIInv` orders the saves nobody awaits: the chain
ascends, the row is before it and memory after it.  From it the action property
`RowNeverGoesBack` of this module, which no run checks.

**Cadence** (`LanesAndCadenceProofs`).  `RowsIInv` says that each row is the one
instant its own local time stands for, so that two rows of a local time are one, and that
the last claim served what it owed.  The argument
is the search's: `LastOccurrence` goes back over the minutes of the wall clock, so what it
finds is the greatest local time that is a slot and has come.  The latest settled instant
has such a local time too, so what is found is that one or a later one on the wall clock,
and a later one is still to be repeated.  This holds for every length of the hour that the
clocks move by.
`CartsIInv` adds when a sweep was leased: not before its window was over.

**PulseWatch** (`IngressAndPulseProofs`).  `WatchIInv` is one predicate, `Memory`, of the
snapshot and of each copy of it that a delivery holds: what it calls announced was heard of since
it began (`HeardSince`: a report's entry, or a row of its day), what it calls set aside is not
critical, a blind spot was heard of when it says so.
`RunOK` says what a delivery knows besides: what it put on the desk or into its report was
heard of in this tick, and one that settled nothing has set aside whatever it found.  The hard
part is the report.  A delivery takes the report filed under its key for its own.  `StartInOrder`
(deliveries of one job never overlap) and `FiledOnce` (a report that stands was filed by the
delivery that ends its job, or by one that died of it, which `cut` remembers) show that it is
wrong only after such a death; `WronglyCounted` names that case, and the lost card, and there is
no third.  Two pulses of different hours may overlap, and then a snapshot is saved over one
its writer never read; `Memory` is a property of each copy alone, and does not mind.
`ForgetsNothingUnseen` needs only that every remembered key has a subject of its kind
(`KeyOK`), and then, kind by kind, that a sense without one of the fields of `LookedAt` either
finds the condition still true or calls it undeterminable, short of the two of `KnownGap`.

**The assumptions.**  Bounds are natural numbers and "nobody" is no member of the set it is
missing from (`NoValues`, `UnreadIsNoAnswer`).  Beyond that: `PromisesAreFollowedUp`
(`router.ts` reads a payload's `promiseId` of a followup alone, so a job of another kind has
none); `RegistryTimes` (a fresh row's limit is not above a stale one's; a request's timeout
is not above the token's refresh skew and is below its life: 8 s against an hour);
`DeskAssumption` (the controls an instance starts from and the values they are moved to are
of their kinds, a request is filed under one duty at most, and amounts are integers);
`CadenceBounds` (a day and a window are not empty).  One theorem has a hypothesis of its
own, because the property is false otherwise, and section 6 has the instance: `Tolerated` for
`CopyRefused`.

**Only model-checked.**  The liveness properties `EveryJobCloses` and `TurnIsHeard`: the
prover does not reason about fairness or ENABLED.  Every safety invariant and action property
of the runs is a theorem.  No recursive definition is evaluated in a proof: that the sums and
folds of `PulseSense` are right for every input is not proved, and no property rests on it.

## 6. What the code says and does not keep

Each of these has an instance beside the runs that shows it (`tlc -config X.cfg M`
ends with the property violated):

* `JobDispatch_rerun.cfg` (`MCJobDispatch`): "NEVER RE-RUN A TURN THAT ALREADY PLACED
  AN ORDER OR HANDED A THREAD TO A PERSON" (`dispatcher.ts:520`).  The dispatcher never
  hands such a row back, but nothing renews a lease either: a turn that outlives its ten
  minutes has its row re-dued by the watchdog, and the next tick starts it again.  What
  then keeps the second order away is the turn's own context (`OneOrderPerYes`), as far
  as it was not lost.
* `ActionGate_shop.cfg` (`MCActionGate`; with `-continue`, as it shows three): "the order
  above IS that attempt's order and no second parcel exists" (`actions.ts:388-390`) holds only if both deliveries were
  judged alike.  If the other was judged `draft`, approving its card makes dakio-api
  create another order.
* The same: a key reused for another payload is refused, or
  "the customer would be told about somebody else's order" (`actions.ts:775-780`).  A
  delivery that dies between its order and its row leaves an order whose payload nothing
  remembers; another payload under the key is given it.
* The same: a claim is turned into an executed receipt "once the write has returned"
  (`actions.ts:873`), and the resumed cancel asks only "whether the write landed"
  (`actions.ts:2637`).  When the order's read answers nothing, the resumed claim writes nothing
  and its row says executed (`WrittenWhenExecuted`); `ExecutedIsDone` excepts such an order.
* `CustomerTurn_answered.cfg` (`CustomerTurn`): "a job completed on a turn that produced
  nothing is a row that says "answered" about a customer who heard nothing, forever"
  (`dispatcher.ts:601-603`).  A failed thread read, or a retry after an empty reply,
  completes the job so.
* `CustomerTurn_shown.cfg` (`CustomerTurn`): "customer replied yes to the final order
  summary" (`turn.ts:1486`).  A yes can order what no summary showed, because
  `confirmSent` is set before a word is written, and because a size leaves it set.
* `EveSession_cursor.cfg` (`EveSession`): "an old cursor lands on the fresh (empty) array's
  origin instead of waiting forever" (`sessions.ts:39-41`).  After a crash in mid-turn the
  app's cursor is ahead of the restored log, and a short next turn is never read.
* `PulseWatch_told.cfg` (`MCPulseWatch`): "keys that made it into a filed report or onto a
  Decision card" (`pulse-compare.ts:924`).  A pulse that dies after filing its report and
  is delivered again files under the same dedupe key, so the first report stays; what the
  second found is marked announced all the same (`AnnouncedWasReallyTold`).  A card that was lost
  together with its report is the other way.  The run `pulse` has both deaths and losses, and its
  properties name the two as excuses (`WronglyCounted`).
* `InboxIngress.cfg` with `SenderAhead = 2`: "remembering accepted signatures for 2× the
  freshness window makes an exact replay a 409" (`ingress.ts:115-117`).  The guard deletes at
  `expiresAt <= now` while freshness is `<=`: a stamp from a whole window ahead is fresh for
  one instant in which its signature is already forgotten.
* `AuthorityDesk.cfg` (`MCAuthorityDesk`) with `ThreadOffIsRefused` among its invariants:
  "Per-thread switch is a refusal, not a downgrade: the founder said "not this thread", and a
  draft would still ask them about it" (`autonomy.ts:467-468`).  A reply whose intent is not
  automatic is answered `draft` before its thread is looked at.
* `JobLanes_rerun.cfg` (`MCJobLanes`): "a re-leased rerun answers from the row that owns the
  key" (`courier-intervention.eval.test.ts:427-432`).  A rerun that words its ask
  otherwise, or reads something newer, has another fingerprint, and throws.

Met while modelling, and left without an instance:

* **Dispatch and audit.** Of an unsettled sweep refusal the dispatcher says that "the
  sweep is back where it started", but the claim has already counted an attempt; the
  amendment of a lost lease and the completion it amends are separate unawaited requests,
  so the completion can win.
* **Cadences.** The pulse marks the inbox's cart events before any claim has gathered them,
  and such carts are never swept, though "Nothing a founder or a customer can see moves"
  (`pulse.ts:821`); a skipped local time has no occurrence; when the clocks go back, a claim
  in the repeated hour can find an earlier slot again, or run one still to be repeated in the
  place of the latest; a definition that is newly enabled runs its
  last occurrence, however old.
* **Turn and context store.** The text comparison in `threadHasAbsorbed` is out of use as
  soon as one line carries ids, so a message of the live lane, which has none, is answered
  again by its fallback job; `ensureReady` keeps a rejected promise (in `shadow-log.ts`
  too), after which every load and save of that process fails; a yes that was sent before
  its summary, in a burst, confirms it all the same.
* **Follow-ups.** The directive says "It is still open — the router checked before waking
  you" even when the check was only assumed (a failed read, a full page); such a turn can
  word a debt owed elsewhere, which `PaidWhereOwed` allows and names; a paid promise is not
  settled by the turn, so that a second attempt words it again; an instructed turn looks at
  Nova's own hand-over lock, not at the founder's on the thread.
* **Chat verbs.** After a collision with its own coupon and a failed `listDiscounts`, a
  second live coupon is minted ("Neither branch mints a second coupon",
  `actions.ts:2284`): `unread` in `OneCouponPerNegotiation`.  A blind finalize returns a
  discount the founder has undone to executed.  A redelivered contact change writes an
  older address over a newer one.
* **Authority.** Turning down the reply's automatic intents, or the day's spending, can move
  a reply or a campaign change from refused to asked for, because those are asked before the
  thread and the campaign (`AskedFirst`); at effective level 1 a guardrail or spend-cap downgrade answers `draft`; an
  absent duty row is said to fail closed (`types.ts:708`) and is let through; `duties.ts`
  speaks of 70 rows, the roster has 72; pausing one of a verb's two duties leaves the verb
  open under the other.
* **Ingress and tenants.** A lost 202 makes one message run twice, under a fresh
  stamp; a failed thread read writes a
  "skipped" row and consumes the message; a seed row that was never refreshed is served for
  any length of outage, and the readers that do not await never check a row's age.
* **Client.** A body that breaks off after an ok status is a plain error and not retried
  (`dakio.ts:359-362`), though the write was applied; the token is taken once per call and
  reused by its retries.
* **Pulse.** A supplier record that turns into a stub closes an open supplier condition; a
  courier that drops off a truncated read closes its conditions (`KnownGap` names both); a worsening of less than a
  quarter per pulse is never news, however far it adds up.
* **Lanes.** The restock report's title says that nothing is on order whenever the position
  has no date and three wait, against `restock-check.ts:401-402`; a torn read of stock and
  orders can say "nothing on order" when stock has just arrived; a rerun after midnight
  files a second card for one job.
* **Demo store.** `placeChatOrder` checks the stock before an await and takes it after.

## 7. What is not modelled, and why

* **Field mapping of the client, metering, token counts, expansion's row contents**: data of
  no property.
* **In the turns**: product resolution, language, the fact cache and wording; a job that names
  several messages, or one that the thread does not show, which is answered on the latest line
  (`readLatestInbound`); live
  deliveries from ingress (shadow only there); the context store's reset (the Studio workflow
  alone calls it), its file backend and the session epoch's roll.
* **In the gate**: what each verb validates in its payload, the pricing of an order and the
  identity join.
* **In the pulse and the lanes**: what the model says, beyond which of the offered findings
  it sets aside; the bounds on the wording of an ask.
* **Signing and verifying** (`dakio-jwt.ts`, the ingress's HMAC): cryptography.
* **Prompts, models, tools, tracing, demo data**: no state the properties speak of.
* **A second process**: the turn lock, the registry and the sessions map are in one
  process's memory, and nothing in the repository speaks of a second.

## 8. Plan

Done: every component above as a model with its runs, and for every safety invariant and
action property of those runs a theorem.  Left, most important first:

1. The context store's reset, with the Studio workflow that calls it.
2. The pricing of an order in the gate, against the summary the customer was shown.
3. What a lane's fingerprint is made of, so that `JobLanes_rerun.cfg` becomes a property of
   the keys that a rerun does keep.
