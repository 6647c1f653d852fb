# A formal model of the Smart Treasury dApp

The dApp is a console for Soroban treasuries: it deploys them, builds and signs
their transactions in the browser, and runs a relayer that executes scheduled
payments on the server. This directory holds TLA+ modules of that program, the
TLC configurations that check them and TLAPS proofs of what holds for every
size. File names below are those of the repository's `src/lib/`, `src/app/` and
`src/features/treasury/`; `PROJECT.json` gives the lines of every definition
under `map`.

## 1. The system

| Part | State | Operations | Interacts through |
| --- | --- | --- | --- |
| Job store (`relayer/store.ts`, `db/schema.ts`) | a row of `relayer_jobs` per intent, with a version | create, conditional update | SQL statements, one request each |
| Executor (`relayer/executor.ts`, `jobStatus.ts`) | none of its own: a copy of the job in a function instance | execute one job, run the due jobs | the store, the RPC, the intent registry |
| Relayer routes (`app/api/relayer/`) | none | queue, execute, run, list, session | the executor; QStash and the console call them |
| Intent registry, network (external) | the intent, its consumed children, pending transactions | mark a child executed, cancel, include | transactions and simulated reads |
| Sessions and challenges (`auth/`, `relayer/session.ts`, `relayer-client.ts`) | none on the server; a signed cookie all tabs share | prove an address, open a session, act | cookies, the wallet's signature |
| Treasury registry (`treasuryRegistry/`) | a row per registered treasury | verify on chain, insert once, list | SQL, on-chain reads |
| Deployment (`deployAccount.ts`, `treasuries/page.tsx`) | one page's memory | discover, sign, submit, poll, register | wallet, RPC, registry API |
| Chain client, wallet (`stellarClient.ts`, `wallet.ts`) | the connected address | simulate, sign, submit, poll | wallet extension, RPC |
| Signers panel (`writeDrafts.ts`, `writeWarnings.ts`, `smartAccountAuth.ts`, `signers-section.tsx`) | the rules it shows, a staged write, an acknowledgement | stage, warn, confirm, choose a rule, submit | chain client; other operators through the chain |
| Policy panel (`policyProbe.ts`, `policy-section.tsx`) | a check or a staged write | probe, search a cap, write | simulated calls, transactions |
| Schedule panel (`schedule-section.tsx`, `scheduleWindow.ts`, `ledgerClock.ts`, `scheduledIntents.ts`) | the form, a clock, a listing, the created job | pick, create, list, queue | RPC events and reads, the queue route |
| Other views, configuration, formatting, scripts | none that outlives a page | | |

What is hard, and what makes each part correct:

* store: an update is applied to the job it replaces, or not at all;
* executor: its runs are serverless functions that overlap, and may be killed
  anywhere; the row, the chain and the clock move between two awaits. One run
  submits a child at a time, the cursor passes a child when the chain has
  consumed it, the count is the chain's, a job is reported `executed` when it
  is paid out, an interrupted run is settled before anything is sent again;
* batch: every due job is run, whatever becomes of the others;
* writes: an operator who is told of an error presses again, while what was
  sent may still land. A wish is fulfilled once, and as it was shown;
* deployment and registry: what is reported undone is undone; what was deployed
  can be registered, and only as what the chain confirms;
* sessions: a call speaks for the address that was shown, which has proved
  itself and which the treasury knows;
* signers: several operators change the rules they are authorized by, on views
  that are old or incomplete. What a write does to the power of a signature
  was shown to whoever signed it; the treasury keeps a rule;
* policy: it has no reads, so a cap is searched for while it may be changed; a
  version bump strands what it was said to strand;
* schedule: moments become ledgers, a listing is put together page by page,
  the form goes on being edited; the job is the intent, whatever they say.

## 2. The modules

`JobCell` - what the store promises about one row: created once, each call one
indivisible read-modify-write, a decline, or nothing.

`JobStore` - `createRelayerJob` and `tryUpdateRelayerJob` as they are: a SELECT,
the update function in memory, an UPDATE that matches the version selected,
five attempts. A call that throws may have committed. It implements `JobCell`.

`ScheduledPayments` - what the relayer promises about one scheduled payment:
`Pay`, the next execution, only when the store has passed all before it;
`Pass`, an execution that is paid; done, and `Report`, only of a schedule
passed altogether.

`Relayer` - one job, its runs, its transactions and the intent. A run's `pc`
names the await it resumes from, so an action is the code from one shared read
or write to the next:

| Action | Code |
| --- | --- |
| `Queue` | `POST /api/relayer/jobs`, `createRelayerJob` |
| `FetchDue`, `FetchById` | `runDueRelayerJobs` filter and loop, `executeRelayerJobById`; `executeRelayerJob` 235-250 |
| `SettleKnown`, `SettleUnknown` | `settleInterruptedSubmission` |
| `ReadLedger` | `getLatestLedger`, limit and window, 252-275 |
| `ReadIntent`, `ReadChild` | the two reads of `readIntentState` |
| `Claim` | 307-326 |
| `Submit`, `Refused`, `NotPending` | prepare, sign, send and the answers of the RPC, 336-368 |
| `RecordHash` | 370-378 |
| `PollKnown`, `PollGone`, `PollTimeout` | 380-405 |
| `Write` | the write each branch ends with: unconditional for limit, window and cancellation, guarded by the child (`updateForChild`) for the rest |
| `Interrupt`, `Include`, `IncludeFailed`, `Cancel`, `OpenWindow`, `CloseWindow`, `Tick` | what the code does not control |

A store write is one step here, which `JobStore` justifies. Simulation and
sending are one step: what changes between them changes with the same effect
after. `InLockstep` maps it to `ScheduledPayments`: `paid` is the number of
children the chain has consumed, `passed` the children before the row's cursor,
`done` the status `executed`. The row keeps the transaction hash through the claim, as the code does.
The limit is the lower of the job's and the intent's, and the job copies the
intent's, so both are `MaxExec`. Time is ticks: the row's age counts while it
is executing, a transaction's while it is pending, a run's while it lives.

`RelayerBatch` - `runDueRelayerJobs` over several jobs and batches: the jobs in
the order of `updatedAt`, latest first, filtered, cut at the limit, run one
after the other, with no catch around them. A job's own run is reduced to what
the batch sees of it, the claim and the last write. `later` orders the queued jobs
by `updatedAt`; each write makes its job the latest (`Touch`), and `Listings`
is the sort, the filter and the cut. Two throws are part of the code: before the
claim, if the job's treasury is found no longer (`ThrowUnresolved`), and after
it, if the chain refuses the simulation (`Refused`, as in `Relayer`), which
leaves the job in its lease. Either ends the batch. A job is queued only while
its treasury is found, in the registry or as the one the deployment is
configured with; `Reconfigure` takes the latter away, and `Register` mends it.
Time is counted in batches: a lease ends when `LeaseRuns` of them have started
since the claim (`waited`). `PutOff` is a run that ends without an execution
and without a throw, a fault like `Throw`.

`ConsoleWrites` - one wish of an operator, of one of five kinds: a payment, a
split, a scheduled payment, its cancellation, a deployment. `form` is the
draft on the screen with its key (nonce, intent ID, salt), `draft` what the
mutation captured, `built` the transaction with its sequence number and time
bound, `txs` what was sent, `told` the last notice. `Press` (the button)
begins `Checked`, `Turned` or `KeyUsed`; then `Build` / `NotPrepared`, `Send`,
`SendUnanswered` / `SendRejected` / `NotSigned`, and `PollKnown`,
`PollGivesUp` (ninety polls) or `PollThrows`. `Receipt` is what each form does
with the answer, which differs: the payment renews its nonce on any receipt
(`payment-section.tsx` 90), a PENDING one too, the split and the schedule on a
success only, the deployment throws on anything else. `DrawKey` is the Generate
button and the editable field of the key, `Reload` a page loaded again, which
draws a new key and forgets the notice; both may come while a mutation is under
way, and `hand` counts them. `Simulate`, the simulation and nonce check
buttons, changes only what is told: that the key is used, before all else. The network has one
waiting transaction per account and takes sequence numbers in order; a settled
transaction may stay unknown to the RPC for `Lag`.

`TreasuryOnboarding` extends it with the registration of what was deployed:
`ReadBack` of the addresses, `Verify` against the chain, `Create` (insert, or
compare with what is there), `PostFails` before or after the insert, `Retry`
from the toast, another client of the API (`PostOther`) and a treasury whose
links change meanwhile (`Rewire`).

`RelayerAccess` - the tabs of a browser, the wallet behind them, the one
cookie, and the server, which keeps nothing. `Press` keeps the address shown;
`Probe` reuses the session if it is that address's (`ensureRelayerSession`), or
`Challenge`, `Sign` / `SignMismatch`, `Open` / `OpenRefused`; `Grant`,
`NoSession` and `Refuse` are `requireTreasuryAccess`. The wallet switches
accounts, another tab opens a session, rules end or are removed, at any point.

`TreasuryRules` - operators, each with a Signers panel, and the rules of one
treasury. A rule is its signers and whether it has a policy. `Stage` works the
warnings out on the rules shown and simulates (`Valid`), `Tick` acknowledges,
`Submit` loads the rules again and chooses one to sign under
(`selectRuleForSigner`), `Land` / `Refuse` / `Invalid` is the chain,
`Settled` fetches the rules again and `PollThrows` does not. Loading rules
(`Loads`) takes an id that cannot be read for a gap.

`PolicyConsole` - the policy, the check with one probe per step (`Verdict`,
`Escalate`, `Halve`, `Found`), and a write staged with what it strands.
Changes elsewhere come between any two probes. The engine's order of
objections is external: of it the code relies on the amount's coming before
the destination's (`findAmountCap`).

`ScheduleWindow` - a ledger that closes at any moment, the form and its clock
(`Seed`, `UseDefault`, `Pick`, `PickAnswered`), the mutation (`Press`, `Land`,
`Confirm`, which reads the form as it is by then, `Exists`, `SubmitFails`),
the listing (`Refresh`, `Page`, `ReadBack`), the two ways to queue
(`QueueCreated`, `QueueListed`) and the route that reads the chain again
(`Queue`). A transaction takes a ledger of its own, and an intent is executed once.

How they fit together: `JobStore` justifies the atomic writes of `Relayer`;
`Relayer` the claim and the lease of `RelayerBatch`; `RelayerAccess` says who
may take the steps `Queue` and `FetchById` of `Relayer`; `ScheduleWindow` says
what `Queue` puts in the row; `ConsoleWrites` is the write whose success
`ScheduleWindow` and `TreasuryOnboarding` go on from, and
`TreasuryOnboarding`'s registration is `RelayerBatch`'s `Register`.

The `MC` modules give the constants for TLC; the `Proofs` modules hold the
theorems. Definitions marked `Mutant:` are deliberate errors, used only to see
that a property notices them.

## 3. What is checked

| Run | Question | Bounds |
| --- | --- | --- |
| `store` | `SelectedIsStored`, `LostToAnotherWrite`, `JobCell` implemented | 3 callers, 3 attempts, 4 writes, 3 update functions |
| `relayer_recorded` | `NeverPaidAhead`, `LeaseOutlivesTransaction`; `NoChildSkipped`, `CountNotAhead`, `ExecutedOnlyWhenPaid`, `TerminalIsFinal`, `ScheduledPayments` implemented (`InLockstep`), when no run is lost between claim and recorded hash and nothing is cancelled | 2 scheduled runs, 2 executions, 3 transactions, 2 faults, lease, timeout and life 2 |
| `relayer_overlap` | `OneRunSubmits`, `OneLiveTransaction`, with no fault and the window open when the job is queued | 1 scheduled and 1 console run, 2 executions |
| `relayer_settles` | `ConsumedIsPassed`: the store learns of each payment; `TakenBack`: what an interrupted run left is taken back; `PaidOff`: unless a child is skipped, every execution of the schedule is made and the job reported `executed` | 1 scheduled run at a time, interrupted anywhere, 2 faults, 4 transactions, an RPC that forgets |
| `batch` | `OneBatchPerJob`, the limit and no job listed twice (`TypeOK`), `EveryDueJobRuns` | 3 jobs (one of the configured treasury, one always refused), 2 executions each, 2 batches, limit 2, a lease of 1 batch, 1 fault |
| `onboarding` | `PaidOnce`, `LandedAsShown`, `UndeployedIsNot`, `RegisteredIsStored`, `RetryRegisters` | 5 kinds, 3 transactions, 1 change by hand, 2 policy versions, 2 wirings, 3 faults; time bound 2, lag 1, poll 3 |
| `access` | `ActsAsShown`, `ProvedOfLate`, `GrantedAreSigners` | 2 tabs, 2 addresses, 3 rules (for good, with an end, on another contract), 4 ticks, 1 fault |
| `rules` | `RefusalIsNoSurprise`, `CoSigningIsAgreed`, `LastRuleNotInPlainSight` | 2 operators, a signer no console reads, 3 rule ids, 2 writes, 1 fault |
| `policy` | `CapIsBetween`, `CapIsFound`, `CheckEnds`, `StrandedAreCounted` | caps 1, 9, 10 and 110 of at most 120, 2 destinations, 2 changes, 1 job, 1 fault |
| `schedule` | `JobIsAsOnChain`, `ListedOverIsOver`, `OpensAsPicked`, `ListIsComplete`, `LiveIsQueued` | 3 ledgers of 2 s, windows of 2, 1 intent, 1 edit, 2 pages, 1 fault |

Why the bounds are enough. Two runs are what it takes to disagree about a row,
and each property about runs speaks of two. Two executions give a child before
and a child after, which a stale hash or a stale cursor needs; a second and
third transaction give the retry and the retry after it. One fault reaches each
fault of the code in each position; two reach a fault during the recovery from
another. Lease, timeout and life are equal in `relayer_recorded`, the tightest
case `TimingAssumption` admits; elsewhere the timeout is the shorter, as the
real values are (300 s, 120 s, 300 s). Three attempts of the store stand for
five: `LostToAnotherWrite` compares attempts with other writes, and the proof
is for any number. In `onboarding` time bound plus lag is exactly the poll, the
tightest case (really 120 s and 180 s); one change of the nonce by hand gives a
wish before it and a wish after it, and the proof is for any number. In `batch`
a lease of one batch with one job that is always refused is the tightest case:
see below for two. In `access` the challenge and the
session can both end during one call. In `rules` the slack of the id scan is 1
for 32, and 3 ids with 2 writes give a last rule, a rule removed by another
and a gap. In `policy` the caps are one, just below, at and above a power of
ten, and one whose bracket would leave the i128. In `schedule` a page ends at
any ledger, so two pages give a short, an empty and a last one. The same
module passes with four ledgers, and with two intents on three; these take
several minutes and are not kept.

The environments of `relayer_recorded`, `relayer_overlap`, `relayer_settles`
and `batch` each leave out what one of the counterexamples below needs.
`relayer_settles` does interrupt a run between its claim and the record of its
hash, so a child may be skipped there as in `skipped_after_unrecorded_claim`;
the antecedent of `PaidOff`, `[]NoChildSkipped`, excepts just that. Where no run
is lost in that gap the antecedent always holds (`NoneIsSkipped`, section 4),
and every queued job is paid out in full.
`MCRelayerPassed.cfg` is one more that passes: two scheduled runs, a slow RPC
and one fault, for `ConsumedIsPassed` and `TakenBack`.

Two runs are expected to be violated, each against a sentence of the
repository quoted under `findings`:

| Run | Property | What happens |
| --- | --- | --- |
| `skipped_after_unrecorded_claim` | `NoChildSkipped` | Child 1 is paid. A run claims child 2, which keeps child 1's hash, and is lost before it records its own. The next run settles child 1's SUCCESS as child 2: child 2 is never paid. |
| `last_rule_removed` | `TreasuryHasARule` | A removal lands and its poll throws, so the panel goes on showing the rule; the other one is removed as the last but one. Two operators with one view do it too. |

Further disagreements TLC shows, each with a configuration here that is not
one of the runs (`tlc -config <cfg> <module>` finds the violation):

| Configuration | Property | What the code does | What the repository says |
| --- | --- | --- | --- |
| `MCRelayerCount` | `CountNotAhead` | The cancelled branch (`executor.ts` 286) writes the chain's count over an executing job; the run that is paying then adds one | the count advances only "on a **confirmed on-chain SUCCESS**" (`docs/DEVELOPER_GUIDE.md` 366) |
| `MCRelayerStale` | `OneRunSubmits` | A console run reads a ledger before the window; the window opens, a run claims; the first writes `scheduled` (`executor.ts` 262); the job is claimed again inside the lease | "exactly one submits" (`README.md` 71), "Nothing else may act on such a job" (`jobStatus.ts` 57) |
| `MCRelayerTorn` | `PaidOff` | A payment lands between the two reads of `readIntentState`: the cursor moves, the count does not, and the job is retried beyond its limit for ever. With `RpcDelays` a transaction that was put off does it to a single run | "the job is `executed` once the execution count meets the lower of the local and (when known) on-chain limits" (`executor.ts` 163-165) |
| `MCRelayerBatchBlocked` | `EveryDueJobRuns` | The deployment is configured with another treasury; a job of the one before throws before its claim, so it stays in place and ends each batch there, until its treasury is registered | "Runs every queued job whose ledger window is open" (`api/relayer/run/route.ts` 16) |
| `MCTreasuryOnboardingScheduled` | `ScheduledOnce` | A schedule whose answer is lost has landed; the retry finds its intent ID taken, draws another, and the press after that creates a second one | "the one failure that is fixed by regenerating the ID, and do it" (`stellarClient.ts` 827-829) |
| `MCTreasuryOnboardingAdvised` | `AdvisedPaysOnce` | A payment lands and its answer is lost. The check of the nonce finds it used and advises to draw another; the operator does, presses, and pays again | "Generate another nonce before preparing this payment." (`payment-section.tsx` 119; `stellarClient.ts` 1258 and 1306 say the same) of a payment that is made |
| `MCTreasuryRulesLapsed` | `NoWeakerIsTrue` | `computeWeakestRule` does not look at `valid_until`: a rule that has lapsed counts as one that one signature satisfies, and the new rule is the only such rule | "adding another independent rule cannot make it less secure" (`writeWarnings.ts` 137) |
| `MCRelayerAccessLockedOut` | `SignersAreNotLockedOut` | `valid_until` is a ledger and is compared with Unix seconds (`treasuryAccess.ts` 45): a rule with an end is dropped while it applies | "Owner-only here would lock out a signer whose approval the ledger already accepted" (`treasuryAccess.ts`) |
| `MCPolicyConsoleVerdict` | `VerdictIsOfTheTyped` | The verdict is shown beside the fields as they are now (`policy-section.tsx` 251-265) | "Checks exactly the asset/destination/operation combination currently typed" (`policy-section.tsx` 94) |
| `MCScheduleWindowStale` | `ClosedIsNotSigned` | The query has a `staleTime` and no refetch interval: a listing on an open page keeps its clock until it is mounted or focused again, and a closed window is signed | "The listing's is 15s stale at worst" (`schedule-section.tsx` 144) |
| `MCScheduleWindowConfirmed` | `ConfirmedIsOnChain` | `onSuccess` (199-219) builds the job from the form as it is by then, after an edit during the mutation | "confirmed and ready to queue for ledgers" (`schedule-section.tsx`) |

Four more environments break a checked property, each by changing the
constants of a passing run; they explain the bounds above.

* `OneLiveTransaction` with `RpcDelays`: the poll ends at thirty seconds and the
  job is `ready`, not `executing`, so the next run does not settle, and sends
  again while the first transaction is valid (`executor.ts` 400).
* `TerminalIsFinal` with a console run: Execute on an `executed` job finds its
  count at the limit and writes `blocked` (`executor.ts` 255); nothing on the
  path looks at the status, and only the console's button is disabled. With
  `MayClose` two overlapping scheduled runs do it too: one blocks the job at
  the end of its window while the other polls, and the outcome is written over
  `blocked` (`executor.ts` 269).
* `TakenBack` with `MayClose`: a run is interrupted as the window closes, and no
  batch lists the job again (`executor.ts` 431).
* `EveryDueJobRuns` with two jobs that are always refused and `LeaseRuns` 1: each
  is due again when the other ends its batch, and was written later than the
  good job, so a batch never comes to it; with `LeaseRuns` 2 it holds. In the
  code a lease is five minutes and a batch starts every minute: about five such
  jobs keep the others out (`executor.ts` 433, 436).

Smaller things met on the way, with no property of their own:

* `README.md` 73 says a run polls for "up to about three minutes"; the code
  polls twenty times 1.5 s (`executor.ts` 380-381). The model follows the code.
* `findAuthorizingPath` looks neither at `valid_until` nor at a rule's context,
  though `treasurySecurity.ts` 15-16 calls its answer "provably enough":
  `RefusalIsNoSurprise` excepts a rule that has lapsed.
* A registration with another executor or deployment hash is a conflict for
  ever: neither is compared with the chain (`verify.ts`, "on purpose"), so the
  page's retry stays refused if another client was first (`RetryRegisters`
  excepts it).
* The end of a window is rounded up like its start, so it closes later than the
  moment picked, which the comment on `ledgerForTime` means to avoid. Two picks
  may be answered out of order; the last answer sets the clock.
* Jobs that cannot be read are no jobs to the bump's warning, which then says
  nothing of them (`StrandedAreCounted` excepts it, `policy-section.tsx` 134).

Fairness. `Relayer!FairSpec`: a run that can go on does (an instance runs until
it ends or is killed), the schedule fires again and again (`WF FetchDue` for
the scheduled runs only: nobody has to press Execute), ledgers close and
include what is pending, the window opens, time passes. No fault has to happen
and the window need not close. `RelayerBatch!RegisteringSpec`: a batch goes on,
another follows it, leases run out, and a treasury that is found no longer is
registered in the end - without the last, `MCRelayerBatchBlocked` is the answer.
`FairOnboarding`: the requests of a registration are answered, and an owner who
is offered a retry takes it; that is an operator's, and `RetryRegisters` is
about what happens when they do. `PolicyConsole!FairSpec`: every probe is
answered or fails. `ScheduleWindow!FairSpec`: a scan and a request go on, and
an operator who finds a payment queueable, again and again, queues it. No
environment action (a transaction's inclusion, a fault, a ledger) is fair in
the last three.

Deadlock is checked in the relayer, store, batch and onboarding runs: the
clock, a retry or a new request can always come. In `access`, `rules`,
`policy` and `schedule` it is not: an operator may stop, and the bounds on
writes, ticks and ledgers end a behaviour.

## 4. What is proved

For every value of the constants that satisfies the module's assumption; every
invariant was model-checked first.

`JobStoreProofs`: `StoreImplementsCell` (`Spec => CellSpec`), `NoUpdateLost`,
`GivesUpToProgress`, `StoreTypeOK`. The invariant adds to them that a caller
with a selection has a call under way whose update did not decline
(`CallInv`). Refinement: `stored.job` is the cell's job; the UPDATE that
matches is the cell's `Apply` because a selection with the row's version is the
row (`SelectedIsStored`); SELECT and a lost race are stutters, an answer of a
declining SELECT is `Decline`.

`RelayerProofs`, for any sets of runs. Assumptions:
`RunsAssumption` (finitely many runs), `BoundsAssumption`,
`EnvironmentAssumption` and `TimingAssumption`, whose content is
`TxTimeout <= Lease` and `RunLife <= Lease`.

* `ChainNeverAhead` (`NeverPaidAhead`). Not inductive alone: a child is paid
  long after it was copied from the row. `ChildInv` follows it from the row to
  a run's copy, to the transaction, to the chain; the cursor never moves back
  (`CursorGrows`), so a copy however old stays below it.
* `LeaseIsLongEnough` (`LeaseOutlivesTransaction`). `LeaseInv`: the row that
  records a pending transaction is no older than it, because the hash is
  written after sending and each write stamps the row; both age together; a
  pending transaction is younger than the timeout. The claim keeps an old hash
  but stamps the row, which keeps the inequality.
* `NoneIsSkipped`, `CountIsOfPayments`, `ExecutedIsPaid` (`NoChildSkipped`,
  `CountNotAhead`, `ExecutedOnlyWhenPaid`), where `Recording` holds: no run is
  lost between its claim and the record of its hash, the intent is not
  cancelled, its window does not close. The run
  `skipped_after_unrecorded_claim` and the configuration `MCRelayerCount` show
  what fails otherwise, for the loss and the cancellation. `SkipInv` (`HashIsCurrent`): the hash of a job in flight was sent
  for its child, or the child may be passed, or a live run is about to replace
  it, and that run holds the lease, since `RunLife <= Lease`; so a run that takes
  the job back never reads an old hash as an outcome of the child. `CountInv`: a
  run that writes for the child of the row knows whether the count is full, and
  what it read on chain is behind both the cursor and the chain.

* `RelayerPaysInLockstep` (`InLockstep`), under `Recording` too. Not stated by
  the three before: they speak of states, this of steps. `PaidSoFar` counts the
  consumed children from the cursor, with or without the one it has come to, so
  a child the registry accepts is the cursor's (`PaysInOrder`, a `Pay`), a
  cursor that moves is a `Pass` or moves beyond the schedule, and `executed`
  comes only with a cursor beyond it (`DoneIsPassed`).
* `DoneIsFinal` (`TerminalIsFinal`), where `BatchOnly` holds: only scheduled runs,
  no cancellation, no window that closes; runs may be lost anywhere. Outside of
  it the code does leave `executed` and `blocked`, see section 3. `FinalInv`: no
  run has an unconditional write to make, and once the job is done the cursor
  is past the child of every run, so every write that is left is refused by
  `updateForChild`.
* `OneSubmits` and `OneLands` (`OneRunSubmits`, `OneLiveTransaction`), where
  `Undisturbed` holds: no fault (a kill, a refusal, a poll that gives up on a
  transaction that can still land), and no job queued before its window. Runs of
  both kinds, a cancellation, a closing window and an RPC that forgets are
  allowed. `AloneInv`: runs that act do so on different children (`Apart`), and
  one that acts on the row's child keeps it in flight (`Guarded`), because no run
  outlives its lease (`Outlived`, from `RunLife <= Lease`); a transaction that can
  land is polled by the run that sent it (`Followed`); a job is in flight for such
  a run or for a child that cannot be paid again (`Held`, `Expired`), and what a
  run settles or records is of such a child (`Decided`). Once the intent is over
  (`Quiet`) runs may overlap as they like: none of them submits.

`RelayerBatchProofs`: `BatchesKeepApart` (`OneBatchPerJob`). Two batches may
have listed the same job; what keeps them apart is `ClaimHolds`, that a claimed
job is `executing` until its batch leaves it. `BatchesKeepTheirLists`
(`TypeOK`): a batch has at most `Limit` jobs, none twice, and no job is paid
beyond its executions. `ListInv` adds that lists are of queued jobs, that
`updatedAt` orders them, which a write preserves (`TouchOrders`), and that a
job is terminal just when nothing is left of it (`LeftInv`).

`ConsoleWritesProofs`: `PaymentsAreMadeOnce` (`PaidOnce`) and
`UndeployedStaysUndone` (`UndeployedIsNot`), from
`TxTimeout < PollLimit` and `TxTimeout + Lag <= PollLimit`. `PollInTime` ages
the poll and its transaction together, so a poll that gives up is about a
transaction that has expired. `OneWaits` and `DraftIsCurrent` say that only the
last transaction can land and that a build is outrun by what settled since;
`KeyIsKept` that whatever landed or may land since the form's key was last
changed by hand has that key, so a second landing would spend it twice;
`HandsGrow` and `HandsHold` that what was sent before such a change is
counted apart from what is sent after it. So the theorem says that the forms
never take another nonce of themselves too early, whatever is pressed, edited,
drawn or loaded again; of two nonces an operator chose to use it says nothing,
and `MCTreasuryOnboardingAdvised` is what happens if they choose as advised. `PaymentsLandAsShown` (`LandedAsShown`): a
transaction takes its version from the draft that was captured, not from the
form. The module extends `TreasuryOnboarding`: `RegisteredMeansStored`
(`RegisteredIsStored`), because only claims are posted and a row once stored
stays, and `OnboardingKeepsThePromises`, that the registration disturbs none of
the above.

`RelayerAccessProofs`: `CallsActAsShown`, `CallsAreProved`,
`GrantsAreOnChain`. `CallsKeepAddress`: a ready call goes with its own
address's session or has been outrun by another tab; `SignedFor`: the cookie
ends within the two lifetimes of its address's signature, and a call about to
open one has signed since its challenge was issued. The last theorem needs only
that Unix seconds are never behind ledger numbers.

`TreasuryRulesProofs`: `LastRuleGoesUnseen` (`LastRuleNotInPlainSight`), from
`RemovalsShowedAnother`: every removal staged, in a panel or sent, was staged
on a view with two rules; so when the last rule goes, the other of that view
has gone before. `RefusalsAreNoSurprise` and `CoSigningIsAgreedTo`
(`RefusalIsNoSurprise`, `CoSigningIsAgreed`), from `WarnedInv`: a write, staged or sent, has the warnings of the rules it was
shown; a rule's id is never given again and its policy never changes (`Agree`),
so a rule shown without a policy has none when the write lands. They need
`Addresses` finite, as a rule's signers are counted.

`PolicyConsoleProofs`: `ShownCapIsBetween` (`CapIsBetween`), from `Bracket`:
what was accepted was within a cap the asset had during the check, what was
refused above one, whatever changed between; `StillCapIsFound` (`CapIsFound`),
from `Still`: under a policy that stands still only the amount can be objected
to once the first probe has passed, and the search leaves the i128s only from a
power of ten within the cap; and `BumpsStrandTheCounted`
(`StrandedAreCounted`).

`ScheduleWindowProofs`: `JobsAreAsOnChain`, `OverIsOver`, `ListsAreComplete`,
`MomentsAreRoundedUp`. `ScanCovers`: a scan has found all that was created
between its first ledger and where it stands; `RowsAge`: a row read before was
true then, and what ends an intent does not un-happen; the arithmetic of the
rounding is a lemma (`Rounding`).

Each `*TypeOK` theorem, and each inductive invariant as a theorem, is there as
well.

Only model-checked. Liveness (`ConsumedIsPassed`, `TakenBack`, `PaidOff`,
`EveryDueJobRuns`, `RetryRegisters`, `CheckEnds`, `LiveIsQueued`), which is out
of the prover's reach. Every safety property of a passing run is proved: some
of the relayer's in the part of its environment named above, which is that of
the run or wider in its numbers of runs, executions, ticks and transactions.

## 5. What is not modelled

In the relayer: an intent the registry no longer returns (`readIntentState`
falls back to the job's own numbers), an unparseable `updatedAt`, two
treasuries with one intent id (the key is composite), the QStash signature. The
notes of a job are wording. `RelayerBatch` takes every window as open. A batch
there starts only to run: that the run route answers an error when one throws,
and QStash may call again at once, is one more start.

In the console: the discovery and the six signatures of a deployment's
authorization entries (one step here, none of them is sent alone); nonces and
intent IDs are drawn without collision, and one that is typed is one drawn
before or a new one; a page is loaded again in the kinds that have a key in
their form (a cancellation has none, and a deployment's page keeps nothing); an
operator who is told that the write is confirmed is done with the wish, and
what they press after that is another wish; a receipt is a status. One request to
queue is under way at a time, and the listing's intents are executed once. A
lapsed transaction that the RPC never knew is not told from one it forgot. In
`TreasuryRules` a policy may accept or refuse anything. The policy of
`PolicyConsole` has one asset and one operation. A page closed between a
deployment and its registration loses the addresses; they are on chain, and
nothing in the code looks for them.

Not modelled at all (`not_modelled` in `PROJECT.json`): adding a guardian,
which is one call signed as the source account, sent with no staging, and
refused on chain if it is there already; asset holdings,
previews, formatting, configuration, which are wording or pure; operator
scripts, which are run by hand; the triggers, which keep no state. The
contracts and the SDK are not in the repository: what the modules need of them
is read off the calls and comments of the code, and marked `external`.

## 6. What could come next

1. Refinements of the other parts: a wish of `ConsoleWrites` as an atomic
   operation, and the session of `RelayerAccess` as a proof of an address.
2. `ConsoleWrites` with two forms of one console at once: they share the
   account's sequence number, and one poll may be outrun by the other.
3. `Relayer` with an intent that the RPC has archived.
4. Guardians and recovery, once the console starts a recovery and not only registers who may.
