# Verification of Painless (distributed)

`src/painless-v2/painless-src` is a framework that runs sequential SAT solvers
(MapleCOMSPS, Glucose, MiniSat, Lingeling) in the threads of one process, or of
one process per MPI rank, and lets them exchange learned clauses. Paths below are
relative to that directory. The solvers themselves are vendored; what this project
models is what the framework adds: threads, messages, interrupts, clause sharing
and the end of the search.

## The system

| Component | State | Operations | Interacts with |
| --- | --- | --- | --- |
| `painless.cpp` (main, commThread) | `globalEnding`, `finalResult`, `finalModel`, the strategies | create solvers, sharers and strategies; solve; wait or time out; print; tear down | everything, through globals |
| `working/SequentialWorker` | `interrupt` and its condition variable, `waitInterruptLock`, the cube | mainWorker loop; solve, join, setInterrupt, unsetInterrupt, waitInterrupt | its solver, its parent strategy |
| `working/Portfolio` | `strategyEnding`, slaves | solve, join, setInterrupt, unsetInterrupt | workers call join from their own threads |
| `working/Dispatcher`, `LocalWorker` | the rank they stand for; slaves | a Portfolio's slave on the root, and the strategy of each rank it sends to | `MpiComm` |
| `comm/MpiComm` | `res`, `model`, the export and import databases, `externalFilter` | receiveIncomingMsg, reportResult, updateWorkingStatus, export and import of clauses | the communicator thread, the solver threads, the sharer |
| `working/CubeAndConquer` | workers, over, next, nJobs, the division tree | master loop (interrupt, divide, launch); join by workers | SequentialWorkers, solver clones, sharers |
| `working/DivideAndConquer` | workers, overs, workersSplitting, oversSplitting, cubes, nWorkers | master loop (interrupt the oldest); join splits, cancels or ends | the same |
| `working/SimpleWorkingQueue` | a queue of work | push, pop | nobody |
| `clauses/ClauseBuffer` | a lock-free linked list, size | addClause(s), getClause(s) | solvers, sharers, communicator |
| `clauses/ClauseManager`, `ClauseExchange` | a reference count per clause | alloc, increase, release | every holder of a clause |
| `clauses/ClauseFilter` | bits, units | registerClause | DistributionSharing, MpiComm |
| `clauses/ClauseDatabase` | clauses by size | addClause, giveSelection, getClauses | sharing strategies, MpiComm |
| `sharing/Sharer` | producers, consumers, those to add and to remove | one round every `-shr-sleep` | strategies add and remove solvers |
| `sharing/DistributionSharing`, `HordeSatSharing`, `SimpleSharing` | databases, filters | doSharing | solvers, MpiComm |
| `solvers/*` | the solver, its interrupt flag, its buffers | solve, interrupt, callbacks, clone | vendored code |
| `utils/*` | parameters, log level | parse, print | |

What is hard here, and what makes it correct:

- **The end of the search.** Any solver of any rank may answer, several at once,
  while a time limit runs out. Correct: no answer is lost, whoever answers all
  ranks stop, the result that is printed is the one that was found and comes with
  its model. (`DistributedPortfolio`, `LocalPortfolio`)
- **Interrupts.** `interrupt`, the solver's flag and the condition variable are set
  and tested by several threads, mostly outside the mutex. Correct: no worker sleeps
  through its release, no solver runs on after its interrupt. (`LocalPortfolio`)
- **Lock-free buffers.** Nodes are deleted while other threads may hold them.
  Correct: a first-in first-out queue, no access to freed memory, no clause dropped that
  `size` has counted.
  (`ClauseBuffer`)
- **Reference counts and filters.** One clause travels through up to eight holders in
  four threads, some of which share a database and a filter without a lock. Correct: it is
  freed when its last holder lets go, each solver gets it once, and it does not travel
  back; the missing lock breaks the first and the last for clauses that can be named.
  (`ClauseSharing`)
- **Division of work.** Sub-problems are created, solved and cancelled by workers and
  a master at once. Correct: UNSAT is declared only when every sub-problem is closed;
  no part of the search space is lost. (`DivideAndConquer`, `CubeAndConquer`)
- **Lifetime of solvers.** Divided solvers come and go while sharers read them: each is
  referred to by its worker and by up to two lists of every sharer, which learn of it
  and forget it once a round. Correct: it is deleted when the last of them lets go, and
  not before. (`Sharer`)

The hazards in `PROJECT.json` name the lines where each of these bites.

## Modules

`X.tla` is the model, `MCX.tla` its small instances, `XProofs.tla` its theorems (those that say `ClauseBuffer` is
a queue of one producer and one consumer are in `ClauseBufferRefinement`).
A definition whose comment says "mutant" or "faulty" is not part of the model: it is
an operation with a plausible mistake in it, there to show that a property notices.

### DistributedPortfolio — `-wkr-strat=6`

One rank is a main thread (`mainPc`: the waiting loop, time limit, broadcast, print,
barrier, teardown), a communicator (`commPc`: receiveIncomingMsg, and, on the root,
`Dispatcher::join` and `Portfolio::join`, which that thread runs) and solver threads
(`wPc`). `chan[src, dst]` are the control messages under way; MPI delivers those of a
pair of ranks in order. Actions `Main*`, `Comm*`, `Join*` and `Worker*` are the
statements between two accesses to state of another thread: the test and the
assignment of `res` in `reportResult` are two, as are the assignments of
`globalEnding`, `finalResult` and `finalModel` in `Portfolio::join`. What a solver says
is `Answer`, or UNKNOWN once it has been interrupted; the model of a SAT answer is the
name of the worker that found it.

### LocalPortfolio — `-wkr-strat=1`

The same end of the search inside one process, at the grain of single flag accesses:
`SequentialWorker::unsetInterrupt` is `Clear`, `Release`, `Signal`; `setInterrupt` is
`SetInterrupt`, `SetSolverInterrupt`. `join` of an answer is three tests and four
assignments: `JoinTest` is that of `SequentialWorker::join`, after which the worker calls its
parent; `JoinCall` and `JoinAsk` are the tests of `Portfolio::join`, then `JoinClaim`,
`JoinInterrupt`, `JoinEnding` and `JoinResult`. `WorkingStrategy` has no virtual destructor, so
`delete working` (`DeleteWorking`) runs none of the strategies': the workers are not
joined, and one that has passed `JoinTest` calls a freed strategy, or writes into it
(`Fault`). `expired` (main ended the search at its time limit) and `overtaken` (main printed
between `JoinEnding` and `JoinResult` of a worker) are history. `at` is the slave a loop over the slaves has reached. `ClearsOnSolve` distinguishes the
solvers whose `solve` begins by clearing their flag (Maple, GlucoseSyrup) from those
that do not (MiniSat, Lingeling). `strategyEnding` is uninitialised until `solve` sets
it, so both values are initial. The communicator is reduced to its loop test.

### ClauseBuffer and ClauseQueue

`ClauseBuffer` has a step for every access to a shared atomic, and the locals of each
thread. Nodes are addresses: `delete` frees one with its contents still in place and,
with `Reuse`, a later `new` may return it, which is what makes the A-B-A problem
possible. `ClauseQueue` is the abstract specification: enqueue and dequeue of a
sequence. The refinement (`IsQueue`) maps the queue to the clauses after `head`, as far as they
are in nodes that are in use; a clause is enqueued when its node is linked, dequeued when `head` moves.

### ClauseSharing — `-shr-strat=5`

The sharer (`pc`, `at`: collect, give to the communicator, distribute, release), the
communicator (`commPc`: copy a selection, clear its buckets, send, release; receive)
and the solvers' callbacks. `refs`, `clause` and `from` are the heap of
`ClauseExchange` objects. Each buffer is here what `ClauseBuffer` was shown to be,
with its order left out: a set, of which `getClauses` may drop one clause (`Dropped`). A
filter is the set of its bits, a clause passes when
one of its bits is new, and which clauses of a batch pass depends on the order they
are asked in; the model allows every order. The database may refuse any clause and
give out any selection.

The sharer and the communicator share two things without a lock. `registerClause` of
`externalFilter` tests and then sets: `AskExternal` and `AddToExternal`, in the sharer, and
`AskReceived` and `Receive`, in the communicator, are its halves; while both threads are
between them each may be told anything, and lose bits the other sets (`Answers`, `Told`).
`giveSelection` copies a bucket and then clears or pops it (`Select`, `ClearBuckets`); if
`addClause` comes between (`torn`) the buckets may keep what was copied or lose what was
not. What races do is followed by history: `raced`, the clauses both threads were asking
about; `slipped`, those `getClauses` dropped or that were in the database while a
`giveSelection` was torn. When a clause is freed that a thread still holds the program is
undefined, and the behaviour ends (`Intact`). `seen`, `shared`, `sent` and `received` are
history too.

### DivideAndConquer and SearchSpace — `-wkr-strat=4`

The master (`masterPc`: Start, Launch, then MasterTest, Rest and Take in a loop), main
(`mainPc`) and the slaves' threads (`pc`), which run `join` themselves. What is done under
`mutexListsWorkers` is one step: `Take` picks a worker to divide and a free slave, `Split`
and `Divide` are the branch of `join` for an interrupted worker, `Refuted` and `Unsat` the
one for a refuted cube, with the cancelled division. `Claim` is the section under
`mutexFirstSolution`, `Ending` and `Result` the two assignments after it. The lists are
sets, a cube is a set of literals, a formula the set of its models; a solver is right
about its cube, or says UNKNOWN once interrupted. At the end of the search slaves are
interrupted that nobody asked to divide, and `join` then uses a pointer it never set:
`Overs` gives the step of any slave, `SplitNothing` stops the program. The variable of a division is
any: MiniSat and Maple draw one of all (`MiniSat.cpp:143`, `Maple.cpp:155`), which the cube may
have decided already. One half is then the cube itself and the other contains a literal and its
negation, and dividing that can give two equal cubes.

`SearchSpace` is what dividing promises, without threads: open cubes are divided, refuted
or found to hold a model, and UNSAT is the answer only when none is open. Each open cube
belongs to a searcher, so that equal cubes are told apart. The refinement
(`Implements`) maps the open cubes to those of the slaves in `workers` and
`workersSplitting`, and the answer to the result of the worker that ended the search.

`Prompt` assumes that a slave that has been released is inside `solve` two seconds later
(`TIME_BEFORE_INTERRUPTING`). Without it the master could interrupt a slave that has not
yet tested its flag; the slave would sleep with its cube for ever. `Take` also assumes that
a cube without an open variable is solved within that time.

### CubeAndConquer — `-wkr-strat=2`

The master (`masterPc`: Start, Setup, the two launches, then RoundTest, Interrupt, Wait,
Erase, Delete, Divide, DivideCount, Sort, Launch and SetNext round after round), main and
the workers (`pc`), whose `join` is not under any mutex: `nJobs--` (`Count`), the test for 0
(`Left`), the test of `next` (`NextTest`), the release of `workers[next]` (`Pick`) and `next++`
(`Advance`) are steps of their own, and the master and other workers change
`workers`, `over`, `nJobs` and `next` between them: two workers may release the same one and pass
over the one after it. `Divide` is one step from the clone to `workers.push_back`; in between the new
half is in the hands of the master only. A sub-problem is the set of its unit
literals; `toAdd` are those the master has given a solver and the solver has not yet
taken. What `nJobs` has got wrong is history (`slips`): "twice", a worker has reported its
sub-problem again, and "early", UNSAT was concluded while the master was about to count a
new one. `models` is the formula, chosen at the start. A worker deleted twice, and an
index out of range, end the behaviour (`crashed`).

What the model shows of this code besides the properties: with one cpu nothing is ever
divided; a signal that comes late makes the master set itself up twice; the master waits
for ever at Delete for a worker that sleeps in `pthread_cond_wait`, and `~SequentialWorker`
sets `globalEnding` back to false there; after the end the master goes back to sleep.

### Sharer — the threads of `-shr-strat=1` to `4`, and the references to solvers

`pc[s]` is where sharer `s` is: the pause, `doSharing` (`Count` and `Take` a producer's clauses, `Give`
them to each consumer), the two loops under `removeLock`, and its destructor, run by main.
The lists `producers`, `consumers`, and those to add and remove, are `members`, `toAdd` and
`toRemove`, by sharer and role. `phase[v]` is what the worker or master that has solver `v`
does with it: the calls that announce a clone to the sharers one by one (`adding`, `at`),
`running`, the calls that take it back, and the release. `Filled` and `Selections` are
`ClauseDatabase` as a pure algorithm, up to the order of a bucket. `Setup` is the command
line: strategies, lists at the start, and the calls a clone gets. `SimpleSharing` and
`HordeSatSharing` differ in `Take` only.

A solver adds a clause in two steps, as `addClause` does: it is linked (`Learn`), then `size` is
increased (`Learned`). `Count` reads `size`, and `Take` dequeues that many clauses and drops one
more if there is one (`ClauseBuffer.cpp:119`). `late` (history) has the clauses that were in
the buffer, or came, between the two and were not counted: the one dropped is among them.

A list that is asked to forget a solver it has not got yet is remembered in `overtaken`
(history). This can happen: a clone announced during a sharing phase and refuted before
the phase ends is released in that round and inserted in the next, and the sharer then
reads a deleted solver (`UseDeleted`). The properties name that case as their exception.

Composition: `ClauseSharing` stands on `ClauseBuffer` (its buffers) and runs beside
`DistributedPortfolio` (the same communicator; they share `globalEnding` only, which
ends the rounds). `LocalPortfolio` looks closer at the worker of `DistributedPortfolio`: `SlavesSolve`, `SlavesInterrupt` and `WorkerTop` are single steps there. `Sharer` runs beside
either strategy that divides: its solvers are their workers' solvers, of which it keeps only
the calls to sharers and the release, in the order `DivideAndConquer::join` and the master
of `CubeAndConquer` make them.

## Runs

| Run | Instance | Shows |
| --- | --- | --- |
| `dp_ends` | 2 ranks, 1 thread each, no `-t`, fair | `TypeOK`, `StopIsLast`, `ResultHasModel`; `AnswerEndsAll`: an answer ends every process |
| `dp_timeout` | the same with `-t` | `AnswerNotLost`: reports, joins, STOP and the time limit race without losing an accepted answer |
| `dp_prints` | the same, no `-t` | finding: UNKNOWN may be printed after an answer (`Portfolio.cpp:60`) |
| `lp_workers` | 2 workers, `-t`, flag kept by `solve`, fair | `NoLostWakeup`, `InterruptReaches`, `PrintedThenEnds`; `AnswerIsPrinted` and `UnknownIsExcused`: an answer is printed, and UNKNOWN is not, but for the time limit and the race of `dp_prints` |
| `cb_spsc` | 1 producer, 1 consumer, 3 clauses, 3 reused nodes | `NoReclaimedAccess`, `AnnouncedIsDelivered`, `LinkedIsTaken` |
| `cb_producers` | 2 producers, 1 consumer, 3 clauses, nodes not reused | `IsQueue`, `SizeAccounts` |
| `dc_divide` | 3 slaves, 2 variables, cloned solvers; a formula without and one with two models | `AnswerIsRight`, `ListsAgree`, `FreeSlavesRest`, `SolverAtHand`, `MasterIsWoken`; `Implements`: it searches the space |
| `dc_ends` | 2 slaves, 2 variables, reused solvers, `-t`, fair | `SearchEnds`: no cube waits for ever |
| `cs_round` | 2 solvers, 2 clauses, 2 objects, every race of sharer and communicator | `RefsAreHolders` (but for what has `slipped`), `NeverSentBack` (but for what has `raced`), `SharedReachesAll`, `NeverGivenTwice` |
| `cc_rounds` | 2 cpus, 2 sub-problems over 1 variable, `-t` | `Covered`, `JobsAccounted`; `AccountedAnswer`: UNSAT is wrong only after a slip of `nJobs` |
| `cc_unsat` | the same without `-t` | finding: UNSAT is declared of a formula with a model (`CubeAndConquer.cpp:231`) |
| `sh_rounds` | five command lines (below), fair | `SolverRefs`, `NoDeletedSolver`, `BestSelection`; `ReachesTheOthers`: a clause that is counted reaches every other solver; `GivenUpIsDeleted`: no solver leaks |

**Bounds.** Two ranks give the root and the other kind of rank, with one solver thread each:
reports, joins and the time limit compete between the ranks, and between the communicator and the main
thread of one. That two solver threads of one rank are inside `reportResult` at once (`MpiComm.cpp:311`)
does not happen in the runs; the theorems about `DistributedPortfolio`, which are for any number of
threads, cover it. Every worker reports a bounded number of times because `res` is never reset,
so nothing else need be bounded. In the buffer three nodes let two clauses be in it
beside the dummy node, and reuse let an address come back to a thread that still holds
it; the third clause lets a producer run through a whole cycle of reuse. In the sharing
model two objects allow a clause of each solver, or two of the same content, or one of a solver
beside one from another rank, which is what the races need; three exceed five minutes. The ids of
its solvers begin at 0 (`FirstId`), as on rank 0; that on another rank `from` is a global id
compared with a local index (`DistributionSharing.cpp:96`) is in the theorems, which are for any `FirstId`. The bits {1} and {1, 2} of the two clauses make a filter that
knows one stop the other, but not the reverse. `Object` is the only bound on learning.
Three slaves allow a division that is cancelled beside one that is not, or a free slave beside them; two
variables let a half be divided again, on the same variable or on the other. The
formulas have no model, where every cube must be refuted, or two, which no cube of one literal
holds both of.
In `CubeAndConquer` two sub-problems are one division, one deletion and a worker that is not
launched (`MaxCpus` is 2, so one runs beside slaves[0]); `MaxNodes`, 8 per cpu in the code, and
`MaxWorkers` only bound the divisions. `sh_rounds` has: *Divided*, a solver and its clone under
one sharer of all (`-wkr-strat=4 -copy-mode=2 -shr-strat=1`); *Cubes*, a solver for the portfolio, one that is
divided and its clone, under two sharers (`-wkr-strat=3 -shr-strat=4`), without clauses, which solvers are given up
and deleted without; *Undivided*, the same with two clauses and no clone yet; *Portfolio*, two solvers
and a database for each (`-shr-strat=2`), with clauses of 1 and 2 literals and two literals a
round: a bucket that is left over; *Alone*, one solver (`-c=1 -shr-strat=3`) with clauses of 1, 2 and 2 literals
and room for one clause of two literals: a bucket that overflows.

**Deadlock.** It is not checked where the system may stop: in `LocalPortfolio` and
`DivideAndConquer` the process ends, in `CubeAndConquer` it may also hang (above), in `Sharer` the
threads are joined, in `ClauseSharing` the model ends where the program is undefined (`Intact`). `DistributedPortfolio` has `Terminated` for the end of the job.

**Fairness.** Every thread that can go on does in the end (`WF` of each main, each
communicator, each worker): they run on a preemptive scheduler and no lock is held for
long. Nothing is asked of a solver that has not been interrupted: it may search for
ever; the time limit need not be reached. In `LocalPortfolio` an interrupted solver
returns (`Running`). In `DivideAndConquer` a
solver answers in the end, as a sequential solver does; the master may find its workers too
young for ever (`Take` is not fair), and the search must end all the same. A worker that is told
to divide over and over draws a variable that its cube leaves open some time (`SF` of those steps of
`Split`): with one that draws decided variables for ever the search would make copies of a cube for ever. In `Sharer` only the sharers are fair; solvers, masters and main
may stop anywhere, and a given-up solver is claimed to be deleted only once its owner has let go. In
`ClauseBuffer` only consumers are fair: a producer may stop for
ever between any two accesses, which is what a lock-free queue must survive.

**What `cs_round` excuses.** The code promises more than it keeps where the lock is missing, and the
properties say exactly where. Without the exception for `slipped`, `RefsAreHolders` is violated: a clause
pushed into a bucket that is then cleared (`ClauseDatabase.cpp:79`) is never sent and never released, one
that stays in a bucket it was copied from is sent and released twice, down to a clause that is freed while
a thread holds it, and the clause `getClauses` drops (`ClauseBuffer.cpp:119`) is never released. Without
the exception for `raced`, `NeverSentBack` is violated: a clause that both threads ask
`externalFilter` about before either has told it passes on both sides. What the properties show is that
nothing else goes wrong, whatever the interleaving: no other clause leaks, is freed early or travels back.

Not runs of their own, but checked with TLC and **violated**: `TimeoutStops` (ranks other than
the root crash at their time limit, `painless.cpp:342`), `BuffersStayClean` (reports may
arrive after `cleanReceivingBuffer`), `NothingLost` (`getClauses` dequeues one clause more
than it delivers when a producer adds one meanwhile, `ClauseBuffer.cpp:119`), `LinkedIsQueued`
with two producers and `Reuse` (a stalled producer links its clause to a node that has been
deleted and allocated again, `ClauseBuffer.cpp:55`), `OneWinner` (two workers inside
`Portfolio::join` at once), `InterruptReaches` with `ClearsOnSolve` (`Maple::solve` clears
an interrupt set since `mainWorker` tested its flag, `Maple.cpp:220`), `UnknownIsSplit` (a
slave interrupted by the end of the search divides although `oversSplitting` is empty,
`DivideAndConquer.cpp:252`) and `MasterLeaves` (nothing signals `mutexCondLists` at the end:
the master sleeps on, `DivideAndConquer.cpp:139`; its destructor would wait for it, had it run).
Deadlock in `cc_rounds` (the master at Delete, above), `NoDeletedSolver` and `SolverRefs` without
their exception for `overtaken`, and `ReachesTheOthers` with several producers to a database
(`-shr-strat=3`: a clause left over is given out as another producer's, back to its exporter), and
`NoneInside` of `LocalPortfolio` (a worker that has passed the test of `SequentialWorker::join` calls
the strategy main has deleted, `painless.cpp:381`).

## Proofs

Each is checked by TLAPS for every value of the constants that satisfies the named
assumptions.

- `DistributedPortfolioProofs`: `TypeCorrect`, `NoAnswerLost`, `ResultWithModel`, and,
  without a time limit, `StopComesLast` and `RootStopsAll`. `AnswerNotLost` is not inductive: that
  a report under way will be accepted depends on what it carries (`GoodMessages`), on what workers on
  their way through `join` hold (`WorkersHoldAnswer`), on where the two threads of the
  root are when its search has ended (`RootThreads`) and on what the running join holds
  (`JoinHoldsAnswer`). `IInv` is their conjunction with the properties. Steps that
  neither send nor receive are handled together (`Quiet*`); sending and receiving have a
  lemma each per part of the invariant.
- `LocalPortfolioProofs`: `TypeCorrect`, `NoWakeupLost`, and `InterruptIsKept` for
  solvers whose `solve` does not clear the flag. The strengthening is that a slave that
  has not been released is interrupted and parked (`FreshParks`), and that the
  interrupt of any other has reached its solver or is about to (`Reached`). `UnknownOnlyByRace`
  (`UnknownIsExcused`): main prints UNKNOWN only at its time limit or in the race of `dp_prints`; its
  invariant (`Decides`) is that whoever raised `globalEnding` before the time limit has an answer, and has assigned it
  or is about to.
- `DivideAndConquerProofs`: `DivisionSearchesSpace` (it implements `SearchSpace`),
  `RightAnswer`, `ListsAreConsistent`, `FreeSlavesStayAtRest`, `MasterNotForgotten`,
  `WorkersHaveSolvers` and `TypeCorrect`, for every set of formulas, any number of slaves,
  both copy modes, with and without `-t` and `Prompt`. The invariant says what a slave
  may be doing given the list it is in (`Roles`), that what it reports is right of its cube
  (`Reports`), that every model lies within an open cube (`Covered`), and that `nWorkers` is at least the number of slaves that may still
  report (`Counted`), which also holds after the end, when `join` may take an arbitrary slave
  for `over`. There is one lemma for each action, and within it a step for each part it
  disturbs; the refinement maps `Split` to Divide, `Unsat` to Refute, `Claim` to Satisfy or
  Exhaust, and everything else to a stutter. Nothing is assumed of the variables divided on: the cubes
  need neither be consistent nor differ, since each is its searcher's.
- `CubeAndConquerProofs`: `NothingLost` (`Covered`: every model of the formula lies in the sub-problem
  of a worker that is in `workers`), `JobsAreAccounted` (`JobsAccounted`)
  and `TypeCorrect`, for every formula, number of cpus and workers. `Covered` needs that what a worker
  has refuted had no model (`Sound`), that slaves[0] searches the whole formula (`Root`), and that a
  worker that is in a list exists (`Existing`); `JobsAccounted` needs that `solve` sets `nJobs` before
  the master makes a worker (`FirstJob`) and that the master only returns to rest at the end (`Phases`).
  `AnswersAreRight` (`AccountedAnswer`): UNSAT of a formula that has a model comes with a slip of
  `nJobs`. A late signal, after the end, lets the master set itself up again, with workers that `nJobs` never counts
  and that never report; so the invariant is about the first k workers (`Accounts`): every model lies
  with one of them (`Parts`), `nJobs` is at least the number of them that have not reported
  (`Jobs`), and the others do not report (`Uncounted`). When `nJobs` is 0 all k were refuted, and there is
  no model (`NoneLeftRefuted`).
- `SharerProofs`: `DeletedIsNotUsed`, `ReferencesAreCounted`, `ClausesReach`, `SelectionsAreBest`, `RoundsCanSelect` and `TypeCorrect`, for every number of
  sharers and solvers and every command line. The invariant says what each list knows of a solver at every
  point of its life (`Lifecycle`), that a list is only asked to forget what it has
  (`Requests`), and that a round only serves members (`Rounds`). `ClausesReach` (`ReachesTheOthers`, about the clauses that
  were counted) has an invariant of its own (`Reach`), for command lines that give each database one producer (`OneFilled`): what
  a solver exports, a sharer holds or a database keeps was learned by the solver it is to be
  kept from (`Owned`), every original stays a consumer of every sharer (`Joined`), and a clause that has
  left its solver is held by a sharer that has still to serve the others, or has reached them
  (`Delivered`), unless it came late, for which a sharer has not counted it (`Late`). It uses two more facts of the command line, which `SetupAssumption` states: every original is a
  consumer of each sharer (`painless.cpp:198` to `234` pass `solvers` to all of them), and cube and conquer
  announces clones as consumers only (`CubeAndConquer.cpp:64` and `155`).
  `SelectionsAreBest` (`BestSelection`) rests on a lemma about `giveSelection` alone (`SelectionIsBest`): after the
  bucket of size n it has used the literals of the clauses selected so far (`UsedIsLiterals`); if m is the length
  of the shortest clause left over, less than m literals were free when its bucket was done
  (`LeftOver`); so any other choice takes, for clauses of at most m literals, others of at least m, and cannot
  take more of them. That the recursion of `Used` defines a function at all (`UsedUpTo`), and what it
  computes, is shown by a smallest counterexample (`Smallest`), as in `ClauseBufferRefinement`. The invariant only says
  that a sharer that gives still holds a selection of what it had (`Selected`). `RoundsCanSelect` is there
  so that this is not true of nothing: no bucket is ever over its limit (`Fitted`), so `addClause`
  always leaves some database, and `giveSelection` some selection of it: `Take` never waits for the data.
- `ClauseSharingProofs`: `SharedClausesReachAll`, `NothingSentBack`, `GivenOnce`,
  `ReferencesAreHolders` and `TypeCorrect`, for every number of solvers, clauses, bits and objects, any first
  id, and with all the races of sharer and communicator. The invariant: a clause that is not shared yet has one
  holder (`Single`), the filter of a solver is the bits of what it has seen or is about to be given
  (`Filters`), the filter of the communicator lets a clause that has not raced pass to one side only, and
  two threads that are both between its halves have raced (`Ranks`), what a torn selection leaves behind
  has slipped (`Control`), and the clauses of this round have reached the solvers before `at` (`Shares`).
- `ClauseBufferProofs`: `NothingReclaimedIsUsed`, `AnnouncedIsNeverDropped` and `TypeCorrect`, for one
  producer and one consumer, any finite set of clauses and any addresses, reused or not. `ProducerAt`
  and `ConsumerAt` say what the two threads know where they are (the producer's `tail` does not move before it has
  linked its node; the consumer dequeues behind `tail`), and `List` that the allocated nodes form a list: no two
  have the same successor and nothing points to `head` but the node being deleted. What
  `getClauses` announced is a prefix of the chain after `head`, with as many clauses as it has
  still to deliver (`Announced`); that the first of them is the next to be dequeued follows from
  the order of the chain (`FrontOfQueue`, by the least rank), and the rest is counting (`Sizes`).
- `ClauseBufferRefinement`: `BufferIsAQueueForTwo` (`IsQueue`: it implements `ClauseQueue`) and
  `SizeIsRightForTwo` (`SizeAccounts`), for one producer and one consumer, any finite set of clauses and whatever
  addresses `new` returns, as in `cb_spsc` (where TLC finds both to hold too). Most
  buffers of the framework are used in this way; that several sharers fill an import buffer is the exception. The
  invariant is the list `s` of the nodes of the queue (`Line`): with the one being
  added and the one being deleted they are all the nodes in use, which with `ProducerAt` and `ConsumerAt` of
  `ClauseBufferProofs` makes every compare-and-exchange succeed at the end of the list it is meant for. A step
  then links a node at the end of `s` (Enqueue), moves `head` by
  one place (Dequeue), or leaves what is between unchanged. That `After`, a recursive function over
  the list, is the tail of `s` is shown by a smallest counterexample (`Least`, from `NatLessThanWellFounded`), which does the
  work of induction; that it is a function at all, by the fact that no pointer from one node in use to
  another leads up (`Descends`): free addresses may form cycles. `size` differs from the length of the
  queue by the threads between a link and their `size++`, or a move and their `size--`.

**Model-checked only.** Liveness, which needs fairness: `AnswerEndsAll`, `AnswerIsPrinted`,
`PrintedThenEnds`, `LinkedIsTaken`, `SearchEnds`, `GivenUpIsDeleted`. Every other property of a run that
passes is a theorem. Of buffers with several producers, `IsQueue` and `SizeAccounts` are model-checked only
(`cb_producers`), and while addresses do not return: with reuse and two producers a stalled one links its clause to a
node that is no longer in the list (`ClauseBuffer.cpp:55`), and the buffer is not a queue.

## Not modelled

- Spurious wakeups of `pthread_cond_wait` (under an `if` in `SequentialWorker.cpp:41`).
- Failure or blocking of MPI calls; a rank that dies.
- The parent strategy of `-wkr-strat=3`, and how a division variable is chosen: any may be.
- In `DivideAndConquer`: the sharing of cloned solvers, and which slave of a list is taken
  (the lists are queues; the properties do not depend on it).
- Literals, LBD, the encoding of clause messages and the order inside buffers, in `ClauseSharing`;
  what the program does there after a clause is freed that a thread still holds.
- In `Sharer`: `increaseClauseProduction`, which tells a solver to export more; `-shr-strat=2` with more
  cpus than solvers; a solver that is allocated at the address of a deleted one.
- `SimpleWorkingQueue`, which no strategy uses.
- Diversification, parsing, printing, logging, the build.
- The vendored solvers. MapleCOMSPS, Glucose, MiniSat and Lingeling are seven eighths of the lines of the
  repository. They are sequential, are used through the dozen calls that `SolverInterface` makes, and
  what they compute, propagation and conflict analysis over a formula, is neither the framework's logic nor a
  matter of interleavings: the models let a solver learn, answer or be
  interrupted at any moment, which is more than it can do. The share of the whole repository that the
  models cover is small for that reason; of the framework, `clauses`, `comm`, `sharing`, `working` and `painless.cpp`
  are modelled but for the points above.

## Plan

What is left, in the order of its use:

1. `LocalPortfolio` as a refinement of an abstract portfolio (a result is chosen once, then all
   rest), and spurious wakeups in it.
2. `Sharer` joined to `CubeAndConquer` and `DivideAndConquer`, instead of the calls they make.
