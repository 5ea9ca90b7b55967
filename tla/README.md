# 8een: a verification project in TLA+

8een answers one question about a visitor, "are you over the age?", from a
zero-knowledge proof. It is a Node package that supervises a Go verifier (the
longfellow service) as a child process, posts proofs to it, turns what comes back
into one bit, refuses replays, and offers an HTTP gate. This directory holds TLA+
models of that package, the TLC runs that check them and the TLAPS proofs about
them. Paths like `service.js:230` are relative to `src/src/`; those that begin with
`test/` or `tools/` are relative to `src/`.

## 1. Inventory

| part | source | state it keeps | operations | talks to |
|---|---|---|---|---|
| verdict mapping | `verdict.js` | none, pure | `classify`, `freshnessGate`, `findClaim`, `readCborBool` | called by `Verifier.check` |
| challenges, single use | `challenge.js` | the in-memory store's `Map` nonce -> remembered until | `issueChallenge`, `inspectChallenge`, `applySingleUse`, `spend` | the adopter's `NonceStore` |
| Verifier | `index.js` | its options | `start`, `check`, `issueChallenge`, `stop` | supervision, verdict, single use |
| supervision | `service.js` | `#child`, `#ready`, `#exit`, `#circuits`, `#anchors`, ... | `start`, `verify`, `stop`, the `exit`, `error` and `data` events | the child, its pipes, its port |
| log lines | `service.js:60-74` | `#residual` | `splitLines` | the two pipes of the child |
| gate | `gate.js:136-343` | the requests in flight | `handle`, `readBody`, `guard` | clients, limiter, Verifier |
| limiter | `gate.js:91-117` | `hits`, a `Map` in insertion order | `allow` | called by the gate |
| provisioning | `pinned.js`, `circuits.js`, `binary.js` | files and `.part-<uuid>` files | `provision`, `provisionBinary`, `resolveProvisionedBinary` | a download host, the disk, supervision |
| fixture generator (Go) | `tools/mkfixture/` | the files of one directory | `GenFixtures`, `scenario`, `unlinkabilitySet` | the prover, the disk; the suite reads its files |
| start-up | `gate.js:209-238, 372-420`, `index.js:103-146, 194-225` | the options, until the call is back | `startGate`, `Verifier.start`, its constructor, `createGate` | supervision, provisioning, gate |
| a process that runs a gate | `demo/server.js:64, 94-161` | the listening server | `boot`, `shutdown` | start-up, gate, supervision, signals |
| spike, scripts | `poc/`, `scripts/` | | | not modelled (section 8) |

What is hard in it, and what makes each part correct:

- **Verdict.** A *no* denies a person, so it may rest only on evidence about the
  proof: never on a timeout, a rewording or an unusable clock. A *yes* needs every
  layer, and the freshness gate must fail closed on values that make comparisons
  false.
- **Single use.** The clock is read once, before the verifier is awaited, and used
  after; many checks of one transcript interleave; a store may be remote, lose calls
  and answers; processes restart. While a nonce is alive at most one presentation of
  it may be admitted, and a first visit may not be called a replay.
- **Supervision.** Readiness is inferred from a log that arrives in pieces, the exit
  event may come at any await, `start()` and the user may stop at once, another process
  may hold the port, the child may ignore SIGTERM, and the kernel may refuse a signal to a
  child that runs. Ready must mean whole, stopped must mean gone, and both must be reached.
  A refused signal is noted as an exit, so over one "gone" is not what the code delivers.
- **Gate.** Chunks, end, error and deadline race; refusals happen while the body is
  still coming. Slots and bytes are bounded, a bit comes only from the verifier.
- **Start-up and shutdown.** Four places validate options, two of them when a child is
  already running, and single use has a different default and a different test of truth
  in each of three. A gate that is up may be open to replay only through an option that turns
  single use off, which a falsy value does as well as `false`. A process that is told to go
  must let its requests finish, and must go.
- **Limiter.** Bounded table, no spurious refusals, twice the limit at most.
- **Provisioning.** Concurrent calls, crashes between awaits, hosts that lie: the path
  of a file holds what was pinned, or what somebody else put there. The right bytes on
  the wrong machine do not run. What a call that returned has left must be enough to start.
- **Fixtures.** A directory is cleared and written file by file; a run may stop anywhere,
  and the next one works over what it left. A fixture that does not have the defect it is
  named for makes a test pass for no reason.

The hazards, each at its line and with the properties that cover it, are listed under
`hazards` in `PROJECT.json`.

## 2. Modules

    Verdict  (operators) <-- Classify <-- MCClassify
       ^
       +-- SingleUse <-- MCSingleUse     SingleUse <-- SingleUseVisits <-- MCVisits
       |                                 SingleUseVisits --- INSTANCE Visits (abstract)
       +-- Gate <-- Host <-- MCGate      Gate --- INSTANCE RateLimiter <-- MCRateLimiter
       |                                 Host --- INSTANCE Startup
       +-- Fixtures <-- MCFixtures
    Service <-- MCService     LogStream     Provision

The proofs are in modules of their own, each over the module it is named after:
`Classify_proofs`, `SingleUse_proofs`, `Service_proofs`, `Host_proofs` (Gate, Startup and
Host, with the lemmas of `RateLimiter_proofs`), `RateLimiter_proofs`, `Provision_proofs`,
`Fixtures_proofs` and `LogStream_proofs`. `SingleUse_proofs` also goes over the ledger of
`SingleUseVisits`.

- **Verdict** translates `verdict.js` as operators. An error text is the answers the
  two diagnostic patterns give about it, a message is the class the code sorts it into,
  a timestamp is an integer with "usable" or not. `classify` has the code's branches in
  the code's order.
- **Classify** judges one exchange. Its properties compare that verdict with an
  order-free reference, and with the verdicts of *other* exchanges: the same bytes later,
  reworded, or without the currency requirement.
- **SingleUse** runs many `check()` calls over replicas. `pc` names the await a call is
  in: `verifying` (`service.verify`), `spending`/`spent` (a remote `store.spend`).
  `check[c].now` is the one clock reading (`index.js:252`); `seen` is the store. With
  `Shared = FALSE` each process has the in-memory store, whose `spend` runs in the
  turn of the check; with `Shared = TRUE` there is one remote store and the call, the
  effect and the answer are three steps, any of which can be lost. `Restart` forgets the
  process's checks and its in-memory store, not the calls already on the wire.
- **Visits** is what replay defence promises: a visit is opened, one presentation at
  most is admitted, who is let in was admitted. `SingleUseVisits` gives the mapping.
- **Service** has one `VerifierService` per service: its fields (`sup`), the calls of
  `stop()` by `start()` and by the user (`stop`), the child with its two pipes (`kid`)
  and who listens on the port. `Start` may be called again when the child is gone: `again`
  says what is reset, which is nothing. `sup.exit` tells the two listeners apart that set
  `#exit`: `ExitEvent` comes after the child died, `ErrorEvent` (the durable listener of
  `service.js:164-168`) at any time, also over a child that runs. A signal that `stop()` sends
  may be refused, which emits `error` before `kill()` returns; a call that waits for the exit
  then throws, because `once(child, 'exit')` rejects on it. One action per turn of `#awaitReady`, per event and per
  await; `AliveReturns` includes what `Verifier.start` does next (`index.js:210-225`):
  the constructor may refuse, over a child that is already running.
- **LogStream** is `splitLines` with the residual both pipes share, and the loop of `#absorb`
  that skips blank lines. `text` is what the child writes on each pipe, any sequence of
  characters; `read` is how much of it the `'data'` events have delivered, in chunks of any
  size. `lines` is everything that was absorbed: the ring of 50 kept for messages is left out.
- **RateLimiter** is `createRateLimiter` with its sweep, its eviction of the half
  inserted earliest and the insertion order of a `Map`.
- **Gate** is `handle` and `readBody` over concurrent requests, with the limiter
  composed in (`Limiter == INSTANCE RateLimiter`) over the same clock. `opts` is what
  `createGate` closed over. The key of a request is `clientKey` over what the proxy appended to what the
  client wrote. A path that is not ours gets a 404 or, mounted in Express, goes on to the
  next handler (`onUnmatched`).
- **Startup** is one call of `startGate`, or of `Verifier.start` and then `createGate`, with
  any options: present, absent, of the wrong shape, truthy or falsy. `boot.pc` names the
  await; between two awaits the validations run in the code's order, and `boot.child` says
  whether a process exists when one of them refuses.
- **Host** is a process around both, as `demo/server.js` writes it: `Booting` is a step of
  Startup, `Requested`, `Served` and `TimePasses` are steps of Gate, and `Signal`, `Closed`,
  `Exits` are `shutdown()`. The gate that listens has the replay setting the start-up computed.
- **Provision** runs calls of `provision()` or `provisionBinary()` over one directory,
  one action per await of `fetchPinned` (download, `wx` create, write, chmod, rename,
  unlink), with crashes, failures of the disk and changes by others, next to one
  start of the verifier that hashes and executes the binary or counts and loads circuits.
  `machine` is what the process runs on; `entryFor` refuses a platform without a prebuilt
  and, unless the caller named the platform, a machine that is known to be musl.
- **Fixtures** is `mkfixture`: which credential, proof, session and certificate each
  fixture ships (`scenario`), the self-check that refuses one that does not do what its
  name says (`asserted`), and the order in which files are removed and written. What
  the suite sees is `Verdict!classify` over the service's answer to each file (`check`).

Definitions named `<operator>_<Word>` are variants of the operator with a plausible
mistake in it; no model uses them. `PROJECT.json` pairs each with the property that
notices it.

## 3. Assumptions of the models

- The HMAC of a challenge cannot be forged and a nonce cannot be guessed: a check
  presents an issued challenge or a foreign one.
- The clock does not go back. Replicas share it (no skew).
- The remote store records atomically, as `NonceStore` asks (`types.js:30-41`), and
  sweeps as the in-memory one does.
- An answer of the verifier arrives within `requestTimeoutMs` of the reading of the
  clock; a *failure* to answer may be found out later. The event loop delays nothing else.
- In Gate a due timer fires before the clock moves on. In Service timers are abstract:
  they may fire at any point, so every race with them is explored.
- The child is what `service.js` says of it: it logs its CAs and circuits in order,
  announces itself last, only then listens, and may die at any time. A circuit that it
  ignores is logged as such.
- A child of a second `start()` loads everything or nothing. That a start refused as
  `exited`, `spawn`, ... tells the truth is asked of the first start only.
- `trustProxy` is set only behind a proxy of ours that appends the address it saw
  (`gate.js:128`), and requests are numbered in the order in which they arrive. With the
  limiter off nobody's address is looked at.
- After `server.close()` an idle connection is closed and one with a request in flight may
  carry another request, until an answer closes it; Node's timeouts of headers and of idle
  connections are left out. `gate.stop()` settles (`StopSettles`): it returns, over a child
  that is gone or -- after a refused signal -- is not, or it throws and takes the process down.
- An `error` event may come at any time after the spawn, from a signal the kernel refused
  (EPERM) or a pipe (EPIPE). The kernel refuses a signal only to a child that runs.
- What the child logs of a leftover `.part-` file is its own choice, and both are explored.
- A file system rename is atomic and `wx` excludes; sha256 does not collide.
- In Fixtures cryptography is symbolic: a proof verifies for what it was made for, unless a
  flipped byte matters, which is a choice. The service refuses a chain first, reports a
  proof that fails with a code of `PROOF_IS_BAD`, and echoes the claims in any case. When each
  credential was minted, the tolerance and the clocks of the suite are arbitrary, as long as
  2020 is past the tolerance; the certificates' own window, a year to either side of their
  minting, is taken to be open.
- Between counting the circuit files and readiness the child reads the directory in one
  instant, and whether a poll meets its report of an ignored file first is a choice.

## 4. Runs

| run | instance | what it shows |
|---|---|---|
| `Classify` | every combination of five kinds and http 200/400/503; bodies with all envelopes, all return codes 0-12, up to two claim items with all values, four stamps; clocks 1-6, tolerances 0, 1, unusable | *yes* exactly when everything proved, *no* only on evidence, the relations between two judgements |
| `SingleUseMemory` | 3 checks, 2 nonces, 1 process, 1 restart, clock to 4, ttl 1, timeout 2, sweep above 1 record | no replay while alive, records outlive nonces, who spends, single use only takes an accept away, how late an accept can be |
| `SingleUseShared` | 2 checks, 2 replicas, 1 nonce, remote store, 1 restart each, under fairness | with lost calls and answers: a replay is refused only after a first use; refinement of `Visits`; every check settles |
| `Service` | one service started up to twice, 0 or 2 circuit files, 0 or 1 CA, with or without a network trust list, port free or taken, `error` events and refused signals at any time | ready only over a whole child, whatever an earlier one logged; unless an `error` was noted as the exit, refusals tell the truth and there is no child after a failed first start or a stop; both settle in any case |
| `Gate` | every start-up with at most one flaw besides single use; then 3 requests of one client, limit 1 per window of 1, cap 1 byte, deadline 1, clock to 2, with or without limiter, proxy, trust in it and single use; a signal at any time | cheap refusals; a replay-open gate was given an option that says so, typed or falsy; bounded slots and bytes, bits only from the verifier, connections closed, everybody answered, the verifier protected; a shutdown that answers who is in flight and does finish |
| `RateLimiter` | 3 clients, limit 2, window 2, table of 2, clock to 5 | bounded table, two windows at most, refusal only when spent |
| `Provision` | binary or 2 circuits, 4 kinds of machine, 2 concurrent calls, any initial contents, 1 outside change, 1 start | only pinned bytes installed and executed, and only where they run; usable on return; a start after a return is ready with the whole manifest |
| `Fixtures` | 2 runs into one directory, each with or without a nonce, failing or killed at any file, flips that may be inert; three clocks before, at and after the tolerance of what either run minted | a finished directory is whole and each fixture fails for its own reason; a torn one never lets a negative fixture in |
| `LogStream` | every text of up to 6 characters of 4 (newline, space, two others) on one pipe, cut anywhere | lines survive cutting |
| `SingleUseReplay`, `ServiceRace`, `ServiceLeak` | small | one property each that the code violates (section 7) |

**Why the bounds are enough.** A replay needs two checks of one nonce, and a third to
come between them; the sweep needs one record more than it tolerates; a ttl of 1 and a
timeout of 2 let the stamp, the reading, the spend and the second spend fall on every
side of each other. Two circuits distinguish none, some and all. The limiter's window
needs two edges and two times the limit plus one grants; its cap must be below the number
of keys. Two provisioning calls are enough for one to overtake the other at every await. Of the
fixtures all twelve are there, and a second run meets every directory a first can leave.
Six characters hold three lines, or two with a blank one between, and up to six chunks; a
state is a text and how far it was read, so every way of chunking meets the others in it.
Symmetry is used where checks, nonces and keys are interchangeable, and only in runs
without liveness.

A third request is what a connection brings while two others drain; two clients are one
and a proxy's address, or one and an address it made up. Flaws of options are independent of each
other and of the rest, so one at a time is enough; what single use depends on is varied together.

Only `SingleUseMemory` lists a type invariant. Classify, Fixtures, Gate, Provision,
RateLimiter, Service and Startup have a `TypeOK` too (`HostTypeOK` in Host), which holds in
their runs and takes an `INVARIANT` line to check; the proofs of section 6 begin with it, or
with an equivalent of it.

`CHECK_DEADLOCK FALSE` is stated where a bounded clock, a bounded number of calls, or a
call that is made once lets the machine stop.

## 5. Fairness

- **SingleUse**: weak fairness of the verifier's answer (there is an
  `AbortSignal.timeout` on the request, `service.js:345-381`) and of the store's answer.
  The second is an assumption about the adopter: `check()` puts no timeout on the store.
- **Service**: weak fairness of the turns of `start()`, of the startup deadline, of the
  exit event, of both callers' `stop()`, and of the kernel acting on a SIGKILL. Nothing is
  asked of the child: it may load for ever, ignore SIGTERM, or crash. `Absorb` and
  `HealthzAnswers` are not fair: a silent child or a deaf port must not matter.
- **Host** (for the run `Gate`): time passes, a due deadline fires, `check()` settles
  (`CheckSettles`, given the store), and `server.close()` calls back when it is due and
  `gate.stop()` settles (`StopSettles`). Nothing is asked of the client: it may never send the rest
  of a body, and the shutdown must finish nevertheless. Start-up is not fair.

## 6. Proofs

What the runs show on an instance, the theorems show for every value of the constants: any
number of nonces, checks, replicas, services, requests, clients, calls, files and runs, any
times and limits. Each is listed with the property it states under `theorems` in
`PROJECT.json`.

| module | theorem | property |
|---|---|---|
| `SingleUse_proofs` | `TypeCorrect` | `TypeOK` |
| | `SingleUseHolds` | `NoReplayWhileAlive` |
| | `RecordsLastLongEnough` | `RecordOutlivesNonce` |
| | `OnlyProofsSpend` | `OnlyProvenSpends` |
| | `ReplaysAreReplays` | `ReplayHasFirstUse` |
| | `SingleUseOnlyDowngrades` | `OnlyDowngrades` |
| | `AcceptsAreOnTime` | `AcceptedSoonAfterExpiry` |
| | `LedgerOfVisits` | `ImplementsVisits`, a refinement |
| `Classify_proofs` | `ClassifyAsAssumed` | what SingleUse and Gate assume of `classify` |
| | `YesIsProven` | `YesExactlyWhenProven` |
| | `NoIsEvidence` | `NoRestsOnEvidence` |
| | `CurrencyTakesAway`, `BytesAge` | `CurrencyOnlyDowngrades`, `CurrencyAgesOneWay` |
| | `WordingIsNoEvidence` | `WordingNeverMovesTheBit` |
| `Service_proofs` | `TypeCorrect` | typing |
| | `FailedStartLeavesNoChild` | `NoChildBehindFailedStart` |
| | `StoppedChildrenAreGone` | `StopMeansGone` |
| | `RefusalsAreTrue` | `RefusalIsTrue` |
| | `ReadyMeansWhole` | `ReadyOnlyWhole`, an action property |
| `Host_proofs` | `BodiesAreBounded` | `SlotBounded` |
| | `TheGateHasNoOpinion` | `BitOnlyFromVerifier` |
| | `UnreadBodiesClose` | `ClosesUnread` |
| | `ConfigErrorsAreCheap` | `SingleUseErrorsAreCheap` |
| | `GatesAreReplaySafe` | `ReplaySafeByDefault` |
| | `VerifierIsProtected` | `VerifierProtected` |
| `RateLimiter_proofs` | `TableBounded` | `Bounded` |
| | `AtMostTwice` | `TwoWindowsAtMost` |
| | `RefusalsEarned` | `RefusedOnlyWhenSpent` |
| `Provision_proofs` | `TypeCorrect` | typing |
| | `OnlyPinnedBytesInstalled` | `OnlyPinnedInstalled` |
| | `ReturnedCallsLeaveUsableFiles` | `ReturnedMeansUsable` |
| | `OnlyPinnedBinaryRuns` | `RunsOnlyPinned` |
| | `ProvisionedStartsAreWhole` | `ProvisionedMeansReady` |
| `LogStream_proofs` | `LinesSurviveOnePipe` | `LinesSurvive` |
| `Fixtures_proofs` | `FixturesSayWhatTheyTest` | `SaysWhatItTests` |
| | `NegativesStayOut` | `NegativeNeverAccepted` |

**Assumptions.** The named `ASSUME`s of the modules, which TLC evaluates in the runs: types
and signs of the numbers, and few others. SingleUse does not contain `classify`: it assumes
that what the verifier may say is a verdict, that its only *yes* is `Fresh` and that it
never says what only single use says (`BaseAssumption`); Gate assumes of an answer that it
is `ok` exactly when it has a bit (`GateAssumption`). `ClassifyAsAssumed` proves both of
the `classify` of Verdict; a refusal by single use is not `ok` and has no bit.
`GateLimiterAssumption` gives the limiter inside Gate what `LimiterAssumption` gives the one
on its own. Some theorems have a hypothesis of their own:

- `LedgerOfVisits` has `OneStore`: there is one remote store, or one process that is not
  restarted. Two in-memory stores, or one before and after a restart, admit two presentations, as `challenge.js:207-219` says.
- `RefusalsAreTrue` and `ReadyMeansWhole` have `SharedStream`: the child logs on one
  stream. With two the last row of section 7 is the counterexample; the
  runs of Service have one (`OneStream`).
- `LinesSurviveOnePipe` has `OnePipe`. The code reads stdout and stderr into one residual,
  and with both in use the property is false (section 7); the run has one. The text, its
  length and the chunks are arbitrary.
- `VerifierIsProtected` has `EveryoneFits`: finitely many addresses, no more than `HardCap`.
  Beyond that the table drops a client to let another in (`gate.js:97-103`) and the dropped
  one starts a new count, so the bound is one the code does not promise.
  The run of Gate has it too. `AtMostTwice` speaks of a client only while it has not been
  dropped, and needs no such hypothesis.

**Inductive invariants.** Each module has an `IInv` (or `AInv`, `Safe`) that the steps
preserve; TLC checked it, or the properties it is made of, before it was proved.

- *SingleUse.* `TypeOK /\ Bookkeeping` is inductive, where `Bookkeeping` is defined with the
  proofs and says what each await carries over: typing alone is not, for a ttl is a
  natural number only because a spend is sent for a challenge that was alive at the reading,
  which Bookkeeping carries across the await. `NoReplayWhileAlive` is not inductive: that a
  second spend in time is refused follows from the record of the first being there
  (`RecordOutlivesNonce`), and that from the order of the two readings of the clock: the
  record is written at a time not before the reading, with the ttl counted from the reading,
  so it ends at or after the stamp. `Answers` adds, for what callers are told, that a record
  has a spender, a refusal an earlier use, and a check in flight the verdict that `classify`
  gave. The refinement maps each action to one of `Visits` or a stutter, over that invariant.
- *Service.* `Sound` relates `#exit`, the calls of `stop()` and the child: a first start that
  failed and a stop that is over have something noted in `#exit`, and what an `exit` event
  noted is dead. That is enough for both "gone" properties, whatever the log says. For truth, the log is a
  sequence in three parts -- read, in the pipe, to come -- and the counters are the counts of the
  first part (`Laid`, `Tallied`): what the supervisor believes never exceeds what the child
  did, and is all of it once the last line was read (`Judged`).
- *Host.* `BootInv` says what has been validated at each await of the start-up; `GateInv`
  is a property of each request on its own (`Proper`), as requests share nothing but the
  limiter and the clock; `HostInv` ties the process to both.
- *RateLimiter.* `Windows`: for each client there is a set of grants that opened a window,
  a window apart, with no more than `Limit` grants from one to the next; the entry in the
  table is the last of them and counts its grants; without a running entry all of them are
  over. Two openings lie strictly between a grant and the one `2 * Limit` later, hence
  `TwoWindowsAtMost`; an entry that is spent has `Limit` grants in one window, hence
  `RefusedOnlyWhenSpent`.
- *The gate behind its limiter.* `LimiterInv` carries the invariant of RateLimiter through
  every step of Host and pairs requests with grants (`Paid`): whoever reads a body or
  asks the verifier holds a grant of its own address, of the instant it began to read, and no
  two requests hold the same one. With room for everyone no grant is forgotten
  (`NobodyForgotten`), so `m` requests that reached the verifier within a window are `m` of
  one client's grants within it, which `GrantsInTime` bounds by twice the limit.
- *Provision.* What a call holds at each await is what its partial will be once renamed
  (`PartsWhole`), the files it has passed are usable (`PassedUsable`), and a start still has
  what it counted or hashed (`StartStands`).
- *Fixtures.* Whatever is whole carries its defect and no trust list has the untrusted CA
  (`Honestly`, which holds of torn directories too); after the clearing all that is there is
  this run's (`OneGeneration`); `AtStep` is the place in the plan.
- *LogStream.* `LinesSurvive` says nothing of the line that has begun to arrive; `Carried`
  does: the residual is what was read since the last newline. With it, one event adds
  the lines that the rest -- residual and chunk -- holds whole, further on in the text by the
  length of what was finished before (`WholeGrows`), and cutting the rest yields just
  these, in order (`CutKeepsWhole`). That the n-th newline exists for each n needs no
  induction: counting what lies below is one-to-one into `1..c`, hence onto (`NthIs`).
- *Classify* judges once: the theorems rest on lemmas about `classify` by cases, and on
  `findClaim` being the first item of its name.

**What stays with TLC.** Liveness under fairness -- `CheckSettles`, `StartSettles`,
`StopSettles`, `EveryRequestAnswered`, `ShutdownFinishes` -- is beyond this prover. Every
other property of the passing runs is the subject of a theorem. Induction over numbers is done in two places by
the least counterexample (`LeastNumber`), which is why RateLimiter writes its sweep as an
increasing enumeration. No module uses a RECURSIVE operator.

## 7. Known divergences

Where a comment or a test of the repository says one thing and the code does another.
The first three have a run that ends in the counterexample:

| property | run | what happens |
|---|---|---|
| `AcceptedAtMostOnce` (`challenge.js:18-23`) | `SingleUseReplay` | two checks begin just before the stamp; one spends, its record runs out *with the nonce*; the other spends after that, still judged by its old reading, and is accepted too. `AcceptedSoonAfterExpiry` bounds how late: one request timeout |
| `ReadyHasNotExited` (`service.js:119`) | `ServiceRace` | the exit event lands inside `await this.#alive()`, another process on the port answers 200, and `#ready` becomes true again |
| `NoChildBehindRejectedVerifier` (`service.js:234`) | `ServiceLeak` | the constructor refuses an option after the child is up; nobody can stop it |

The others are stated in the modules and can be seen with the instance given. Startup is a
specification of its own (`Spec`); its instance has `FlawSets` the sets of at most one flaw:

| property | instance | what happens |
|---|---|---|
| `NeverThrows` (`verdict.js:16`) | `Classify` | a `Message` that is an object whose `toString` throws reaches `String(...)`; a JSON body can hold one (`{"toString": 1}`) |
| `RememberedUntilExpiry` (`types.js:38-39`) | `SingleUseReplay` | the ttl is counted from the old reading, so the record outlasts the nonce |
| `CheckNeverRejects` (`index.js:246`) | `SingleUseShared` | `store.spend()` rejects and nothing catches it |
| `NoChildBehindRefusal` (`service.js:234`) | Startup | `createGate` refuses a bad `maxBodyBytes`, `maxBodyReadMs` or `rateLimit` after `startGate` started the child; the caller has nothing to stop it with |
| `AcceptsItsOwnVerifier` (`gate.js:409-411`) | Startup | `requireSingleUse: 'yes'` passes `startGate` and turns single use on; `createGate` wants `true` itself and throws, over a running child |
| `OptOutIsTyped` (`gate.js:350-351`) | Startup | `requireSingleUse: ''` or `0` -- an unset variable -- runs replay-open, without the words `requireSingleUse:false` |
| `StopEnds` (`service.js:382`) | `Service` | the kernel refuses a signal, or a pipe breaks: the `error` listener notes it in `#exit`, so `stop()` resolves at once or after its grace, over a child that runs and was never sent a SIGKILL |
| `NoChildBehindLaterStart` (`service.js:234`) | `Service` | nothing resets `#exit`: a second `start()` spawns a child, sees the first one's exit, rejects as `exited` and leaves the new child running; `stop()` sees the same exit and does nothing |
| `DropsNearestToExpiry` (`gate.js:99-101`) | RateLimiter, 5 keys, limit 1, window 2, cap 4, clock to 3 | a key that came back after its window ended keeps its old place in the `Map` and is dropped before entries that end sooner |
| `ReadyMeansWholeManifest` (`circuits.js:21-24`) | Provision, 1 call, 2 circuits, no file before, no change by others | the directory was provisioned part way; start expects what the directory holds |
| `OneRun` (`tools/mkfixture/fixture.go:568`) | `Fixtures` | the old fixtures are cleared, the old `caCerts.pem` is not: a run that fails leaves new fixtures beside an old trust list |
| `WrongBytesDeleted` (`circuits.js:13-14`) | `Provision` | a wrong file already on disk is not deleted when the replacement is refused too |
| `LinesSurvive` with two pipes (`test/service.test.js:29`) | LogStream, `Stream = {"stdout", "stderr"}`, `MaxText = 3` | the pipes share one residual, and a cut line of one is glued to a chunk of the other |
| `ReadyOnlyWhole` with `StreamOf <- TwoStreams` (`service.js:225-229`) | `Service` | the line that announces a network trust list is still in the other pipe when trust is judged |

## 8. Not modelled

- The wording of messages, logging and HTTP framing; Node's own timeouts of headers and idle
  connections.
- Cryptography, which is symbolic or assumed, and the byte layout of the credentials that
  `mkfixture` mints: what the properties need of either is whether it verifies.
- In `demo/server.js`, minting the pool of proofs (a loop of blocking calls before anything
  runs) and the stubbed wallet that hands each out once.
- `poc/` is a feasibility spike kept as evidence; `scripts/` and the workflows build and release;
  the manifests and `types.js` are data and types, and appear as constants and record types.
- A later `start()` while an earlier child still runs: two live children on one service.

## 9. Plan

1. Done: every module of section 2, and the proofs of section 6.
2. `Accurate` of Service for a later `start()`, once `#exit` is reset.
