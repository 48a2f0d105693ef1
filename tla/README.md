# RivetLua in TLA+

This directory is a verification development for RivetLua: TLA+ modules that
model parts of the runtime, TLC configurations that check them on small
instances, and theorems that TLAPS proves for all instances. `PROJECT.json`
records, for every definition, the source lines it models, and for every
property the run that checks it.

RivetLua is a Lua 5.4/5.5 compiler and virtual machine in Rust. A VM is single
threaded and its methods are not re-entrant. What interleaves is finer: the
incremental collector with the script that runs between two of its steps,
finalizers with the cycle that queued them, a reservation with the work that
uses it, an error with the operation it interrupts. That is where the state of
two components can disagree, and where the models look.

## 1. The system

| Part | Source (crates/rivetlua-runtime/src unless said) | State | Operations that change it | What is hard about it |
|---|---|---|---|---|
| Collector | heap.rs, gc/mod.rs, table.rs (weak part) | phase, colours, gray work list, cursors, stage of the atomic step, ages, remembered set | incremental_step, collect, set_gc_mode, write barriers, allocate, reclaim | the mutator runs between any two units; a reservation may fail inside the atomic step, which is then resumed |
| Finalizers | heap.rs, vm/mod.rs | state per object, queue, running flag, registration order | register, separate, begin, end | resurrection, registration from inside a finalizer, collection while one runs |
| Allocation ledger | alloc.rs | committed and reserved bytes per domain, peaks, quota, host tokens, charges and their owners | reserve, commit, replace a part, push, absorb, normalize in two halves, set_limit, drops | an operation between the two halves of a normalization; refunds of what was moved |
| Call frames | call.rs | registers, varargs, open upvalues | capture, rollback_open_prefix, return | partial failure of a capture |
| Slot identity | heap.rs, gc/mod.rs, rivetlua-core value.rs | slots with generation and token, bitmaps, scan end | allocate, roll back, reclaim, checked_slot | reuse of a slot under a stale reference, exhausted generations, allocations nested in a finalizer |
| Roots and handles | roots.rs, handle.rs | root entries, leases | add, replace, remove, compact | a handle that outlives its VM |
| Tables | table.rs | array part, hash part with dead keys | set, next, grow | assignment during iteration, growth that fails half way |
| Short strings | heap.rs | open-addressing index from contents to object | intern, reclaim, roll back, restore | the index changes between the reservation of a bucket and the insertion |
| Coroutines | coroutine.rs, vm/mod.rs | status, parked frames | resume, yield, close, wrap | errors and closes across a yield |
| Unwinding | unwind.rs, pending_op.rs, vm/mod.rs | pending __close calls, pending error | return, error, yield | errors raised while unwinding |
| Upvalues | upvalue.rs, closure.rs, call.rs | open or closed cell | capture, close | a cell shared by closures and frame |
| Numeric for, GC parameters | vm/numeric_for.rs, gc/mod.rs | none: pure | count, encode, decode | wrap-around and limits at the boundary |
| Host policy, C API | host.rs, policy.rs, rivetlua-capi | budgets, interruption, stack | call, interrupt, close | a call that ends while the host interrupts it |
| Native worker | rivetlua-capi worker/ | two processes, two pipes, a deadline | handshake, write, read, execute, kill | late answers, worker death, stray output, who waits for whom |
| Transport container | rivetlua transport.rs | none: pure | encode, decode | section limits |
| Compiler, codec, verifier, standard library, code generation, CLI | rivetlua-compiler, rivetlua-core, stdlib/, rivetlua-native, rivetlua-cli | sequential | | inputs too rich for model checking |

How they interact: every allocation reserves from the ledger, then publishes an
object in a slot and then pays the collector a step; the collector reads roots
from frames, handles and coroutines; a finalizer queued by the collector is run
by the VM, as a script, between cycles; every reclaim refunds charges to the
ledger. `PROJECT.json` lists each part with its status, and the hazards at the
line where they bite.

## 2. Modules

| Module | What it is |
|---|---|
| `Collector` | the collector, the finalizers, and the mutator that runs between their steps |
| `MCCollector` | its instances for TLC: root symmetry, and initial heaps already built by a script |
| `CollectorSteps` | proof of the type invariant, lemmas on the heap operators, and the inductive step for the collector: marking, propagation and the ephemeron scan, the atomic step, sweeping, and the start and end of a cycle |
| `CollectorSafety` | the inductive step for what scripts, the host and finalizers do to existing objects and for allocation and its rollback, and the theorems, with what the work list, the rollback and the queue of finalizers need beyond that |
| `CollectorReach` | proof that the collector agrees with reachability: what it clears is not reachable, and what `Vm::collect` leaves is |
| `Ledger` | the allocation ledger and the containers that own its charges |
| `MCLedger` | its instances for TLC |
| `LedgerProof` | lemmas on sums over tickets; proof that host tokens and balances stay right, and that peaks and quota are kept |
| `ObjectIdentity` | what the heap promises about references: valid from creation to the end of the object, never again |
| `SlotTable` | the slots of the heap, which implement `ObjectIdentity` |
| `SlotTableProof` | proof of that, and of what it rests on |
| `StringPool` | the index of short strings, composed with `SlotTable` |
| `StringIndexProof` | what each operation of the index does to a sound index: find, insert, remove, reserve, restore |
| `StringPoolProof` | proof that the index and the slots it refers to stay in agreement |
| `MCStringPool` | the instance of both for TLC |
| `Worker`, `MCWorker` | one call of `run_worker`: host, worker process and pipes |
| `WorkerProof` | proof of its safety properties |

### Collector

An object is the number of its slot. The state follows `GcState`, `Slot` and
`HeapObject`:

* `kind`, `kids`, `pairs`: what the slot holds, its strong fields, and the hash
  entries of a table as key-value pairs. `want` is the `__mode` in the metatable,
  `wmode` the snapshot in `Table::weak_mode` that the collector works with; they
  differ until the next cycle begins and takes its snapshot.
* `phase`, `stage`, `converged`, `color`, `work`, `rootsTodo`, `remTodo`,
  `sweepCur`, `ephCur`, `cap`, `growth`, `cycle`, `mode`, `age`, `survivals`,
  `remembered`: the fields of `GcState` and of the object header.
* `fin`, `order`, `remarked`, `queue`, `running`, `nextOrder`: finalizers.
* `regs`: the root entries. `fresh`: an object that `allocate` has published
  and not yet returned, with its temporary root. `collecting`: how far a call
  of `Vm::collect` is.

One action of `GcStep` is one unit of budget of `Vm::incremental_step`, so
every budget is covered. In the atomic phase the units are the code's: clearing
weak values, one table of the ephemeron scan, the separation of finalizers, the
rebuilding of the remembered set. Each of these may fail in a
reservation (`Failures`), and the next unit resumes where the code resumes.
`Mutator` is what a script or host does to the heap, guarded by its
write barriers; `Finalizing` starts, runs and ends `__gc` calls. Allocation is
two steps, because `allocate` runs a collection step between publishing the
object and returning it, and rolls the object back if that step fails.

Abstracted: the order of the gray list is free; debt and pacing decide only when
a step is taken, which is left open; strings have no contents; an object that is
not a table or a string behaves as a table without hash entries. Rollbacks that
happen before the object is seen by a collection step have no effect on this
state and are not steps. Trace counters and the option to collect at every
allocation, which only removes interleavings, are left out. The promotion
threshold is the constant `Promote`, although `set_gc_promotion_survivals` may
change it between cycles; `SetGcMode` is refused in a finalizer, as `gc_control`
refuses it (the host interface `Vm::set_gc_mode` does not test for it). The
clearing of weak values can fail half way, when the copy of a long string key
cannot be reserved (`make_dead`): the unit is then repeated from its start and
clears what is left, which is one unit of the model. `Collector` takes any free
slot for a new object and gives exactly that slot back when the allocation
fails; how slots are found, and where the rollback differs from this (finding
3), is the subject of `SlotTable`.

### Ledger

A ticket is one logical allocation: first a reservation, then a charge, which
moves between owners (`first` and `second` of a pair, a group of charges, or
nobody: `detached`, committed without a charge object) until it is dropped. A
normalization replaces the charges of a group by one of the actual size.
`state` is `LedgerState`; `out` is what the host allocator believes is
outstanding; `prepared` is the half-done normalization. Each public operation
is one action, with its refusals: quota, injected failure at a fail point,
refusal by the host. `usize` overflow is a refusal like the quota and is not
modelled apart. `reserve` passes no fail point: the model gives it `None`.
`FrameRollback` switches on the one client that acts between the two halves of
a normalization, `CallFrame::rollback_open_prefix`, which drops the host's
charge of a root and the Lua heap's charge of an upvalue there.

### SlotTable, ObjectIdentity and StringPool

`SlotTable` models how the heap finds a slot, publishes an object in it and
checks references. `slots` and `len` are the vector of slots, `scanEnd`,
`occupied`, `reusable` and `pages` the summary the search works on, `nextToken`
the counter that makes every reference unique. `made` and `gone` are history:
the references handed out, and those whose objects were given up. An allocation
is `Allocate` (up to the publication), then anything the collection step inside
it does (`Reclaim`, `StartFinalizers`, allocations of the finalizers), then
`Done` or `Fails`; `ops` holds the allocation of the program and the one of a
finalizer inside it, and deeper nesting is excluded by `finalizer_running`.
`Unpublish` is the second way back, for a caller that cannot publish the object;
undone after a later allocation, the object is reclaimed like a dead one.
Which objects are dead is left open, `Collector` decides that: here any object
may be reclaimed that no allocation in progress holds with its temporary root.
`FinalizersMayFail` says whether starting a finalizer may run out of memory.

`ObjectIdentity` is the specification: a reference is made once, is valid until
its object goes, and never again. The mapping sends `valid` to the references
that pass `checked_slot`.

`StringPool` adds the index (`pool`) and, per level, what the allocation in
progress is for (`intern`): which index it replaced by a larger one, to be
restored when it fails. Probing, deleted buckets, growth and the restoring of an
earlier index are modelled bucket by bucket; the hash is a constant. Every
reclaim and rollback of `SlotTable` is composed with its effect on the index.

Not modelled here: charges of slots and buckets; references that belong to
another VM, which `checked_slot` refuses first; `capi_join_lazy_environment`,
which puts an earlier generation back into a slot it filled itself.

### Worker

One call of `run_worker`, which starts a process for a single request. Host and
worker are two programs that take steps independently: the host through its
loop of poll, read, decode and write, the wait for the exit, and `finish`; the
worker through probe, hello, request, execution and response. A frame travels
in `Parts` chunks over pipes of `PipeSize` chunks, so reads and writes cut it
anywhere; the clock is the flag `late`, and the host looks at it where the code
calls `remaining_ms`. Native code in the worker may crash it at any point
(`WorkerDies`), hang with or without its pipes (`WorkerHangs`), write stray
bytes (`StrayOutput`) and leave a process that keeps the pipe open (`Helper`);
the system may fail any call of the host. `disturbed` records that one of these
happened, so that the properties can say what a call without them must do.

Abstracted: the contents of frames are names; the isolation probes are choices;
the two restricted policies are one; a request that fails to load is a result
like any other. `BufferSize >= Parts` says that a frame the worker may send fits
the buffers of the host. The worker always encodes within `Limits::default()`,
while `run_worker` takes the limits of its caller and does not send them; every
caller in the repository passes the default, and a host with smaller limits
would call the answer of a worker that follows the protocol malformed.

## 3. Runs

| Run | Bounds | Distinct states | What it shows |
|---|---|---|---|
| collector_generational | 2 slots, 2 roots, 1 strong field, both modes, failures, from an empty heap | 327 000 | types; the inductive invariant (which contains `NoDangling`) under allocation, rollback, barriers, promotion and mode changes; the work list never overflows; the rollback of an allocation never needs memory |
| collector_barrier | 2 slots, 2 roots, 1 hash entry, `__mode` k set and reset at any time | 1 070 000 | the invariant under table writes and changes of the weak mode between any two units |
| collector_weak | 3 slots, every heap with 2 references, tables and strings, k and v | 1 680 000 | no dangling reference; weak tables lose entries only for unreachable objects |
| collector_finalizers | 2 slots, kv tables with strings, 2 registrations, generational with a promotion threshold of 1, failures | 220 000 | queue consistency; no object is freed before its finalizer ran; string keys of kv tables are kept |
| collector_collect | 3 slots, every heap with 2 references, ephemerons | 357 000 | `Vm::collect` returns, and leaves exactly what is reachable (with weak values it may leave more, see `CollectIsExact` below) |
| ledger_exact | 3 tickets, 2 groups, sizes 1 and 2, quotas 2 and 4, internal allocator | 366 000 | balances are exact, peaks cover them, the quota is respected |
| ledger_tokens | the same with host allocator and frame rollback, quota 4 | 130 000 | tokens are balanced; the ledger never believes in too little |
| string_pool | 3 slots, 2 generations, pages of 2, 4 references, 3 strings of which 2 collide, 4 buckets at first | 313 000 | a reference leads to its object or nowhere; the slot found is free; `SlotTable` implements `ObjectIdentity`; the index holds live strings, finds them, and keeps room; the inductive invariant of the index |
| worker | frames of 2 chunks, pipes of 1, a buffer of 3, both policies | 394 000 | an answer is whole and genuine; no request without evidence of isolation; no process left behind; the deadline is kept; host and worker never wait for each other |
| kv_string_keys (violation) | 2 slots, incremental | | finding 1 |
| ledger_rollback (violation) | as ledger_tokens | | finding 2 |
| slot_rollback (violation) | as string_pool with 1 string, and finalizers that may fail to start | | finding 3 |

Why the bounds are enough to be interesting. A lost object needs a black
holder, a white target and a root through which the mutator moves it: two slots
and two roots. A chain of ephemerons that needs a rescan, and an ephemeron whose
key is reachable only through another entry, need three slots; those runs start
from every small heap a script can have built instead of building it, because
the interesting part begins with the cycle. Two registrations are enough for an
order, and for a finalizer that registers anew. For the ledger, an absorption,
a normalization or a rollback involves at most three charges, and with quotas 2 and 4 and sizes 1
and 2 each operation is both admitted and refused. `MaxOrdinal` caps the
allocation attempts; `MaxKids`, `MaxPairs` and `MaxOrder` cap what scripts build.
For the slots, three are enough for one that is retired, one that is free and
one at the end, with a page boundary between them; two generations are used up
by one reuse; four references allow an allocation, a finalizer's inside it, and
one more after both. Two colliding strings in four buckets make a chain with a
deleted bucket in it, and a third entry makes the index grow. In the worker, two
chunks per frame and pipes of one chunk make every read and write partial and
make both sides block; the buffer of three overflows with the stray output of
one chunk after a frame. The theorems below remove the bounds for what they
state.

Deadlock is checked in every run but `worker`, where a call that has returned
takes no further step. Root entries and tickets are interchangeable
and are symmetry sets in the runs that check no liveness.

Fairness. In `HeapFairSpec`, for `collector_collect`: while
a call of `Vm::collect` is in progress, its steps are taken: the method is a loop
over `incremental_step` that only its own return ends. Nothing is assumed about
scripts or finalizers. In `FairSpec`, for `worker`: the host thread is scheduled,
and not every one of its polls is interrupted by a signal (strong fairness of
`Poll`, since an interrupted poll is repeated); a worker that follows the
protocol is scheduled, while nothing makes one move that hangs or is gone. The
clock has no fairness: `DeadlineEnforced` speaks of calls whose deadline passes,
`ExchangeCompletes` of those whose deadline does not.

## 4. Proofs

All constants are arbitrary: any number of slots, roots, tickets; any
bounds. The assumptions are `ConstAssumption`, `LedgerAssumption`,
`SlotAssumption`, `ContentAssumption`, `PoolAssumption` and `WorkerAssumption`, which say what kind of
value each constant is. `LedgerAssumption` also says that there are finitely
many tickets, without which their bytes have no sum; `PoolAssumption` also says
that the first buckets of the index are at least four (the code has 16).

* `TypeCorrect`: `Spec => []TypeOK`.
* `Inductive` and `CollectorIsSafe`: `Spec => []IInv` and `Spec => []NoDangling`,
  under `KvStringsKept`: scripts do not combine kv tables with string keys, or
  the collector is generational and every object is old after one cycle. The
  hypothesis is needed: finding 1 is a behaviour in which the statement fails.
* `KvKeysAreKept`: `KvStringKeysKept`, for any script, if the collector is
  generational and the threshold is one cycle. Both are needed: finding 1 is
  incremental, and TLC finds the same loss on the instance of
  `collector_finalizers` with `Promote = 2`.
* `FinalizersRunFirst`: `FinalizedBeforeFreed`, from the same invariant and
  under the same hypothesis.
* `MarksHaveRoom`, `RollbackAlwaysPossible` and `QueueIsOrdered`, under the same
  hypothesis: `MarkNeverOverflows`, `RollbackNeverFails` and `FinalizerQueue`.
* `ClearedIsUnreachable`: `ClearsOnlyUnreachable`, under the same hypothesis, in
  minor and full cycles alike.
* `CollectIsExact`: `CollectIsComplete`, under `NoWeakValues`: no table has weak
  values. The hypothesis is needed: when an entry is cleared for its weak value,
  its strong key has been marked, and survives the cycle without being reachable
  any more. TLC shows this at once on the instance of `collector_collect` with
  `WeakModes = {"values"}`.
* `TokensAreBalanced`: `Spec => []TokensBalanced` for the ledger, with frame
  rollback or without.
* `LedgerNeverUndercounts` and `PeaksAlwaysCover`: `NeverUndercounts` and
  `PeaksCover`, with frame rollback or without.
* `LedgerConserves` and `QuotaIsRespected`: `Conserved` and `LimitRespected`,
  under `~FrameRollback`. The hypothesis is needed: finding 2 is a behaviour in
  which `Conserved` fails, and the balances written back there may also be above a
  quota that was lowered before.
* `References`, `FoundSlots`, `SlotInvariant` and `Identity`: `ResolvesExactly`,
  `FoundSlotIsFree`, the inductive invariant, and that `SlotTable` implements
  `ObjectIdentity`, under `~FinalizersMayFail`. The hypothesis is needed: finding 3
  is a behaviour in which they fail.
* `PoolInvariant`, `EntriesAreLive`, `EntriesAreFound`, `RoomIsLeft` and
  `IndexedOnlyOnce`: the inductive invariant `PoolInv`, `EntriesLive`,
  `EntriesFound`, `RoomLeft` and `IndexedOnce`, for every hash function, number of
  contents and size of the index; `IdentityUnderIndex`: with the index composed
  with it, `SlotTable` still implements `ObjectIdentity`. They hold under
  `~FinalizersMayFail` too, since the index refers to the slots.
* `TypesAreKept`, `AnswersAreGenuine`, `RequestsWaitForEvidence`,
  `NothingIsLeftBehind` and `FollowersAreAnswered`: every safety property of
  `Worker`, for frames of any number of chunks, pipes of any size, and buffers
  that hold at least one frame.

The argument for the collector. `NoDangling` is not inductive: whether a slot may
be freed depends on all of the marking before it. `IInv` adds:

* `TriColor`: no traced black object has a white strong child. It excepts the
  old objects of a minor cycle, which are black without having been traced
  (`Untraced`).
* `RootsCovered`, `WorkIsGray`: roots are marked or still listed; the work list
  is the set of gray objects, so when it is empty marking is complete.
* `EphemeronsScanned`, `WeakValuesCleared`: what the scan has passed is
  closed under ephemeron reachability, and weak values cleared before the
  separation of finalizers are not brought back by it. Together with `TriColor`
  they make the white objects unreachable from the others when the heap is
  sealed, that is, at the end of the atomic step.
* `FinalizersSeparated`, `QueueIsPending`: no condemned object has a finalizer
  to run.
* `SweptIsLive`, `FreshUnknown`, `Control`, `SlotShape`: the cursor of the sweep,
  the object under construction, and which stages go with which phase.

String keys of kv tables are the one kind of reference that none of these keep:
`mark_live_weak_string_keys` marks them once, before finalizers revive further
tables. With a promotion threshold of one cycle every marked owner will be old, and
`rebuild_remembered_set` does not let the cycle go on while such an owner has a
white child, whatever the table thinks of it (`OldOwnersHeap`); so the end of the
atomic step finds them marked as well (`SealedHeap`).

Objects that the atomic step leaves white are `Condemned`, and `NoDangling` is about
the others (`Live`): a condemned object may point to one the sweep has already
freed, and no script can tell.

Three properties of the collector rest on `IInv` and need more. `MarkNeverOverflows`
is inductive together with it. The rollback of an allocation fails if the object is in
the remembered set; `FreshIsYoungest` says why it never gets there, even if the
step its allocation paid for runs whole cycles: it has no pairs, and what it
refers to has survived at least as many cycles. `QueueInv` says of the queue of
finalizers that it holds exactly the objects whose finalizer is due, that the
registrations that wait have numbers of their own, below the next one, and that
the entry that runs is the one registered last.

Reachability is defined by counting: as many steps from the roots as there are
slots. What the proofs use is that it is the least set that holds the roots and is
`Closed`, that is, closed under strong references, the string keys of weak
tables, and ephemeron values whose key is in the set. It is within each such set
by induction on the steps (`ReachableWithin`), and is such a set because a step that
reaches anything new makes the set larger, which can happen only `NSlots` times
(`ReachableIsClosed`). The rest is a choice of closed sets. When tracing is done, the marked
tables and the strings they lead to are closed (`TracedIsClosed`), so what is white and no
string is not reachable: this is `ClearedIsUnreachable`. For `CollectIsExact` the
invariant is `FullInv`: the full cycle that `Vm::collect` has begun has marked
nothing outside any closed set around the roots, so nothing that is not
reachable. Each step keeps it, because a set that is closed after the step was
closed before it, as far as what is marked goes (`ClosedBefore`): the cycle takes
nothing but entries with a dead key away from what is marked. With `NoDangling` for the
other direction, what the sweep leaves is what is reachable.

For the ledger, `TicketsOK` says that a ticket holds a token only while it is
allocated and that the charge being prepared is a ticket of its own; with it
each operation takes a token from one ticket and gives it to at most one other.

For the balances, the bytes of a set of tickets are a fold over the set, taking
one member after the other in an order that is not known. The first part of the
proof shows that the order does not matter: the fold exists and is unique (by
induction on the size of the set, through a least counterexample, since the
library's induction theorems cannot be instantiated), any member may be taken
out first, and so a sum changes by what leaves the set and what joins it. `Shifting`
is that fact for the reservations and the charges of one domain, and `Restated`
says that a ledger state whose books change by the same amounts still accounts
for the tickets. `BalanceInv` then adds to the properties what a half-done
normalization needs. The state it noted accounts for the tickets even now, since
in between charges may only go; its excess is what the group holds beyond the
charge to come; and its peaks are the current ones. `Owners` says that the
charges of a container are of one domain, which is the domain a drop refunds.
That the ledger is never poisoned is part of the invariant: every refund is
covered by the charges that are still counted.

For the slots, `ResolvesExactly` needs to know that a slot is never filled
while it is occupied, and so what the search finds. `BitmapsAgree` ties the
bitmaps, the pages and the scan end to the slots; `TokensUnique` says that no two
references share a token and that the ones still to come are larger;
`OpsOwnSlots` says that an allocation in progress owns the slot it filled, and
that the slot it would remove in a rollback is the last one unless finalizers
ran since: this is the conjunct that finding 3 breaks. The refinement then is a
case split on the actions: an allocation is a `New`, a reclaim or rollback a
`Drop`, everything else a stutter.

For the index, the argument has two halves. `StringIndexProof` is about one
index and its operations. `Sound` says that the counters are right, that no reference
is filed twice, and that each entry is at some distance from the bucket of its hash
with no empty bucket before it: the property linear probing needs, and the one a wrong
removal would break. An insertion into a sound index that has an empty bucket is
sound and adds exactly its entry (`InsertFacts`), because the place it takes was
empty or deleted and filling it breaks no chain (`ChainsKept`). A removal is sound
because a deleted bucket is not empty (`RemoveFacts`). The probe, written as a
minimum over the distances, exists because the distances go round all buckets
(`AllRound`) and natural numbers are well founded (`FirstPlace`). A rebuilt index
has the entries of the old one (`RebuiltFacts`): the buckets of the old index are
gone through one by one, and a least counterexample replaces the induction. So a
search finds what is filed (`FindFacts`).

`StringPoolProof` is about the index and the slots in time. `EntriesLive` is not
inductive: an object may be reclaimed or rolled back at any time, and the index is
kept right only because the removal finds the entry, which needs `Sound`, and because
an object that is not indexed yet is not in the index at all. `PoolInv` adds what
allocations in progress at both levels need (`Pending`): a string between the search
for its content and its insertion lives and is not filed, and no other string of its content is unless
finalizers ran; one that was inserted last is filed as long as it lives. `Load`
says how full the index is: an allocation reserves room for one string, and finalizers
inside it may use that room up, so that half of the buckets and one more may be in
use; that an empty one is left even then is why `PoolAssumption` wants four.
`PoolStep` shows that a step of the composition is a step of `SlotTable` or leaves it
alone, so its invariant and its refinement are inherited.

For the worker, `IInv` traces every chunk. What is in the pipes or in the host's
buffer was written by this worker (`Traceable`): a hello only by one that found
itself isolated, an answer only if this request yielded it. `WorkerPast` says how
far the worker is, `HostKnows` what each thing the host has seen implies about
the worker, and `Succeeding` that an exchange without a failure ends with the
answer decoded, nothing left to read and the worker collected.
`FollowerIsAnswered` is about a call that nothing disturbs, and needs the exact
contents of the pipes: `FollowerInv` says which frame is in flight, that its
chunks follow one another through the worker, the pipe and the buffer
(`Carries`), and which steps of the protocol both sides have then taken.

Only model-checked: liveness (`CollectReturnsEventually`, `DeadlineEnforced`,
`ExchangeCompletes`), which needs fairness. Every safety property that a run checks
as holding is stated by a theorem.

## 5. Findings

1. *String keys of a kv table revived by a finalizer.* A comment in table.rs
   says that string keys still in a kv table are kept alive in the same cycle.
   `mark_live_weak_string_keys` runs once, before the separation of finalizers,
   and skips tables that are white then. A table that only an object with a
   finalizer refers to is revived after that, keeps its entries, and their
   string keys are swept. In generational mode the rebuilding of the
   remembered set revives the keys of a table that will be old after the cycle,
   so that none is lost if the promotion threshold is one cycle.
2. *A refund lost in a frame rollback.* A comment in alloc.rs says that no other
   ledger action may run between the halves of a normalization.
   `rollback_open_prefix` removes the roots of captured upvalues and reclaims
   them there, and the second half writes the earlier balances back. The ledger then counts too much; it never
   counts too little, and host tokens are not affected.

3. *The rollback of an allocation removes the wrong slot.* An assertion in
   `allocate_payload_with_charge` says that a free slot that was found is still
   free. When the collection step inside an allocation runs finalizers that
   allocate, and then fails because another finalizer cannot be started for
   lack of memory, `rollback_new_object` marks the slot of the new object as
   free but removes the last slot of the vector, which holds an object of the
   finalizer. The slot is left occupied with its bit saying free, and a later
   allocation finds it. `rollback_unpublished_created_object` tests for this
   case and is not affected.

A smaller observation, which no run states as a violation: `allocate_byte_string`
is documented to give equal short strings one identity, and a finalizer that
runs inside the allocation of a string and interns the same contents breaks
that: both strings are indexed. Comparisons in the VM go by contents, so scripts
see no difference. `IndexedOnce` says that this is the only way.

## 6. Not modelled

* *The interpreter loop* (vm/mod.rs, ops, metamethods), and with it coroutines,
  unwinding with to-be-closed variables, and open upvalues: their state is the
  stack of frames and pending operations of the loop, and a model that leaves
  those out would decide by itself the questions one would ask of it.
* *The layout of tables* (array and hash part, `next`, growth): sequential code
  on one table that no other actor can interrupt. Its weak entries, barriers and
  clearing are in `Collector`.
* *Closing a state*, which queues every registered finalizer, and the warnings
  that errors in `__gc` become.
* *Charges of the collector's own lists*: `Collector` has no byte counts, and its
  composition with `Ledger` is out of reach of TLC.
* *Pure arithmetic* (iteration count of numeric loops, encoding of collector
  parameters): 64-bit integers and floats, which TLC does not have.
* *Root identifiers and host handles*: `Collector` has root entries without
  identity.
* *The compiler, the byte formats, the standard library, native code generation
  and the command line tools*: sequential functions of rich inputs.

`PROJECT.json` gives the reason for each part, and lists the hazards that
therefore have no property.
