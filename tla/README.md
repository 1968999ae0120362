# Waymaker: a TLA+ verification of durable execution on flash

Waymaker runs a deterministic workflow on a microcontroller so that it survives
resets and power loss. What the workflow asks of the world is recorded in an
append-only journal on NOR flash; after a crash the workflow is started again from
its beginning and is *replayed* against that journal until history ends, and goes on
from there. This directory holds TLA+ models of that machinery, the instances TLC
checks, and theorems TLAPS proves.

The models are translated from the Rust sources under `src/crates/`. Where a document
and the code disagree, the models follow the code and the disagreement is a finding
(see "Findings").

## 1. The system

| Part | Source | State | Operations |
| --- | --- | --- | --- |
| Replay kernel | `waymaker-core`: `replay.rs`, `transition.rs`, `id.rs`, `timer.rs`, `version.rs`, `record.rs` | cursor (where the run's history stands, the next identity, the open boundary, the error it halted on), phase of the machine | `advance`, `intent`, `outcome`, `timer_intent`, `timer_outcome`, `version_intent`, `terminal` |
| Journal | `waymaker-flash`: `append.rs`, `recovery.rs`, `frame.rs`, `storage.rs` | bytes of one bank, append offset, progress of a scan | `Recovery::next`, `Journal::after`, `stage`, `payload_barrier`, `commit` |
| Banks | `waymaker-flash`: `bank.rs`, `swap.rs`; `waymaker-drive`: `drive.rs` (bank selection) | two banks: header, seal with generation, journal | select a bank at boot; `prepare`, `stage`, `payload_barrier`, `commit`, `reclaim` |
| Capacity reserve | `waymaker-flash/capacity.rs` | bytes left, what the run still owes | `for_layout`, `admits`, `exit_bytes_after`, `stage` |
| Synchronous driver | `waymaker-drive`: `drive.rs`, `effect.rs`, `boundary.rs` | scan or writer, replay machine, effect in hand, armed timer, why it stopped | `boot`, `begin`, `call`, `schedule`, `resolve`, `wait`, `gate`, `continue_as_new`, `conclude` |
| Async facade and bridge | `waymaker-embassy`: `ctx.rs`, `dispatch.rs`, `alarm.rs`; `waymaker-bridge` | the future a workflow holds, the flags a `Ctx` keeps between futures (`closed`, `unserviceable`, the buffer), the armed wake-up | making, polling and dropping activity, timer, continue and terminal futures; the end of a boot |
| Fault injector | `waymaker-fault` | simulated device, one injected fault, ledger of what is durable | `program`, `erase`, `barrier`, power loss |
| Recovery specification | `waymaker-spec` | an explored model of records and banks | its own transition system |
| Conformance suite | `waymaker-conformance`: `durability.rs` | three blocks of a region, kept across a reset | `arm`, `verify`; cases over an adapter |
| Power-cut rig | `waymaker-rig`: `run.rs`, `witness.rs`, `audit.rs` | an instrument of marks, beside the bank it tells about | `prepare`, `iterate`, `resume`, `verify` |
| Others | codecs and CRCs, budgets, emulator image, size probe, demos, `xtask` | none that evolves | - |

**How they interact.** The workflow calls the driver (`Boundary`), directly or through
the facade. For each call the driver takes the next step of history from the journal's
scan (`peek`) and offers it to the kernel, which answers: replay this, redeliver this,
or schedule something new under this identity. New records go through the reserve
(may this boundary still be written?) to the journal (body, barrier, seal, barrier).
Only then does the driver ask the world. `continue_as_new` stops the run and has the
next one installed in the other bank. The rig and the conformance suite stand outside: they
write, are cut, and judge the part by what they find afterwards. Everything is synchronous within a boot: the
concurrency is between the program and the things around it - power, resets, failing
device calls, clocks, the world that answers or does not, and firmware updates.

**What is hard.** A device call may fail having done all, part or none of its work,
and the program may go on to boot again without a power loss in between. Records are
torn. Reads fail in only one of the banks. What is readable need not be durable. The
same effect is handed out again after a crash. Clocks start again or are set back.
Firmware changes between the boot that wrote history and the one that reads it. Room
runs out with an effect open. `PROJECT.json` lists these hazards at their lines, with
the properties that cover them.

**What makes each part correct.**
* Kernel: identities are never issued twice and follow one another; what is consumed is
  a history of the section 08 table; only the open boundary is redelivered; a
  diagnosed fault is final.
* Journal: an acknowledged record is found by every later scan; history only grows at
  its end; a seal never vouches for a body that is not there; no cell is programmed
  twice.
* Banks: at every instant, after any crash, exactly one bank is chosen; a read fault
  never brings a retired run back; a run that began is never forgotten.
* Reserve: a run that was admitted can always be ended.
* Driver: an effect is performed only behind a durable schedule record; a workflow is
  told the same things each time it is replayed; without its boots a run is one that nothing
  interrupted, save that answers were lost and asked for again; one torn answer never
  costs a run its open boundary; a timer is never early; a run ends.
* Facade: whatever futures a workflow makes, drops and polls, the world is asked for
  nothing but the open effect; the first ending is final; a timer is woken for.
* Rig and conformance suite: a part that keeps its promises is never accused, one that
  breaks them is, although the witness is cut too.

## 2. The modules

| Module | Models | Extends / uses |
| --- | --- | --- |
| `Records` | the record vocabulary | - |
| `RunHistory` | **abstract**: which record may follow which | `Records` |
| `Tales` | what a history tells its workflow, and what in it the workflow asked for | `Records` |
| `Execution` | **abstract**: a workflow run by a machine that never forgets, though it may lose an answer | `Tales`, `RunHistory` |
| `ReplayMachine` | the replay kernel, for an arbitrary caller | `Records`; implements `RunHistory` |
| `Journal` | one bank's journal, device call by device call | - |
| `BankLog` | **abstract**: a bank as a log with a durable prefix | - |
| `JournalRefinement` | the mapping under which `Journal` implements `BankLog` | `Journal`, `BankLog` |
| `BankSwap` | boot selection, `begin`, the swap protocol over two banks | - |
| `Capacity` | the reserve's arithmetic over every order of records | - |
| `Driver` | the synchronous driver with its world | composes `ReplayMachine`, `BankLog`; implements `Execution` |
| `Facade` | the async facade over the driver's boundary, with executor, dispatcher, alarm and clocks | - |
| `Rig` | the power-cut rig: its run, its instrument, its verdict | - |
| `DurabilityWitness` | the two-boot witness of the conformance suite | - |
| `MC*` | instances for TLC | the module they are named for |
| `*_proofs` | theorems | the module they are named for, `TLAPS` |

The layers meet at their interfaces. `Driver` uses `ReplayMachine` itself (its actions
are conjoined to the driver's) and stands on the abstract `BankLog`; the run
`journal` shows that `Journal` implements `BankLog`, and `Journal_proofs`
proves it. `Driver`
itself implements `Execution`: its runs and their histories, with the boots, the scans, the
device and the clocks taken away, are those of a workflow that nothing interrupted, some of
whose answers had to be given twice.
Its `continue_as_new` is atomic because `BankSwap` shows that a boot finds the old run or
the new one and nothing else. `Driver` keeps account of the room in its bank and puts
every append to the reserve, with the widths of records and the bounds the reserve was built
from as parameters; that these satisfy the floor of `for_layout` is an assumption
(`ReserveAssumption`), and `Capacity`, on the real frame lengths, shows what that floor
guarantees a run. `Facade` takes what `Driver` shows of the machine
and the journal for granted and keeps of the driver what the order of calls can
disturb. `Rig` takes an append for one step, since `Journal` shows what a cut within one
leaves.

**Reading a model against the code.** Actions carry the name of the function they
stand for; `PROJECT.json` "map" names the lines of every definition. An operator whose
name begins with `Bad` is not the code but a plausible slip in the operator that
follows it; putting it in that operator's place must break the property named for it
in "mutants". Model values stand for kinds, inputs, payloads and gates, which the code
only compares or passes on.

### ReplayMachine
`cursor` is `ReplayCursor` (state, next identity with `Exhausted` for "none left", open
boundary, first error), `phase` is `ReplayMachine::phase` with its latched divergence.
An action is a public method; its argument is any record or the end of history, so
misuse by the caller is included. `answer` is what the call returned; `accepted` is a
history variable with the consumed records.

### Journal
`media` maps a slot to how much of the body and of the seal is there; `pending` says
which parts no barrier has covered. Every step is one device call: it may succeed, or
fail with any part of its work done. `ScanFrame` is one turn of the loop in
`Recovery::next`, `ScanFault` a read that fails. `WriteThrough` selects a device that is
durable at once or one that may lose anything not covered by a barrier.

### BankSwap
`view` and `durable` are what reads find and what survives; `mode` is the next device
call of `begin` or of the swap. `Boot(b, faults)` computes `read_bank` for both banks
under any combination of read faults and chooses as `resolve_bank_read` does.

### Capacity
`Frame` and `HeaderLen` are parameters, assumed monotone: the wire format's own
lengths are given in `MCCapacity`. `Tear` is a crash that leaves an outcome written
without its seal, so that its bytes are spent and the effect is still open.

### Driver
`at` is the point within a call (`Opening`, `Scheduling`, `Dispatching`, ...), because
a crash may come between any two effects on the outside; `source` is `Source`
(scanning, writing, spent, taken), `stop` is `Context::stop`, `hand` the
`Dispatchable`. The workflow is a constant operator `Program(run, version, observations)`:
deterministic, as the system requires. `Written` is an append that succeeded through both
barriers; `Unwritten` one that did not, and left nothing, a readable record, or an answer
without its seal, which a scan passes over and whose bytes are spent. `Admits` is
`Reserve::admits`, which every append passes: `Due` is the record the driver writes where
it stands, and `Refused` what becomes of any of them that finds no room - opening, boundary, outcome,
firing, marker or end. A workflow refused room may be booted again (`Conclude`) or go on as
the next run (`ContinueAsNew`), whatever it was that was refused; a swap that fails stops the boot
as any failed call does. `torn` is a history variable: the bytes spent on torn answers to the
boundary opened last.
The reading of the clock in `arming` and the write of the record are one step, so the
time the write takes counts as waited. `told` is the most a workflow was told in this
run, `performed` the schedule records of effects the world was asked for, `waited` how
long the last record has been on media: history variables the code does not have.

### Facade
`fut` is the one future a workflow can hold (it borrows `Ctx`) with its stage; `closed`,
`out` and `unserviceable` are `Ctx`'s own, which outlive it. `log` is the run's history and
`pos` how much of it this boot has replayed; an entry is a boundary with its outcome.
`stop`, `pending`, `armed` and `lastWait` are fields of `Context`. A workflow is any order of
`Make` (which drops the future held) and polls: nothing assumes that it awaits what it
made. A poll that asks the dispatcher takes two steps, for a reset may come between. `alarm`
counts down, rings early, or is lost with the boot; `awake` says that the task will be
polled.

### Rig
`step` is what the call under way does next, one thing that a cut can interrupt
(`Preparation`, then `AfterMark` and `From` for each record), or `Over`. `witness` is the instrument's slots, torn ones included; `Breached` is what
`verify`, `uninstalled` and `Audit::finish` answer from it and the bank. `Loses` is a part that
forgets records it acknowledged. `claimed`, `performed` and `honest` are history variables:
which acknowledgement was marked, which effects the world saw, whether the part kept its
word.

### DurabilityWitness
`arm` is a sequence of six mutations with barriers between; `fate` is what became of each
in a part with a cache. A block is what `classify` tells apart: its unit and whether the
rest is erased. `honest` and `before` are history variables: whether barriers did what they
say, and what the region held.

## 3. What TLC checks

| Run | Instance | What it shows |
| --- | --- | --- |
| `replay` | `MCReplayMachine`: two identities, two kinds, inputs, gates; any call, any record, any order | kernel properties, and that it implements `RunHistory` |
| `journal` | `MCJournal`, three slots, write cache | a scan yields exactly the readable history, which only grows but for a power loss; acknowledged records stay; appends face erased media; seals lie over durable bodies; `Journal` implements `BankLog` |
| `journal_torn_outcome` | two slots | **violation**: see Findings |
| `bank_swap` | two banks, three generations, write cache | the six bank properties |
| `capacity` | real frame lengths; a bank one unit too small, one just large enough, one with room to spare | a run can always end, and can always start working |
| `driver` | `MCDriver`: two runs of one workflow, two firmware versions, a bank of seven records | the driver's safety, ordering, reserve, timer and liveness properties, and that it implements `Execution` |
| `driver_cached` | the same, with a write cache | **violation**: see Findings |
| `driver_stranded` | the same, in a bank of five records | **violation**: see Findings |
| `facade` | `MCFacade`: one activity, a timer on each clock, any workflow over them | a conclusion is final; only the open effect is asked for; an effect nobody serves waits; the ending recorded is the one asked for; wake-ups are for the deadline polled, and come |
| `rig` | `MCRig`: two iterations of one effect, cut anywhere, on parts that keep their word and parts that do not | no part is wrongly accused or excused; the instrument is full only past its budget |
| `rig_stale_witness` | the same | **violation**: see Findings |
| `durability_witness` | `MCDurability`: every region, armed twice | a part whose barriers hold is never accused; a breach on erased units is seen |

**Bounds and why they suffice.**
* `replay`: `MaxSeq = 1` gives three values to the allocator (0, 1, exhausted), so that
  granting, exhausting and refusing all occur; two of each thing a request can disagree
  about suffices, because they are only compared. These are symmetric, and TLC uses that.
* `journal`: three slots, so that one may be torn, one skipped over and one acknowledged
  behind them; two records, one that recovery may skip and one that it may not. A power
  loss may take any part of what no barrier covers, or none of it, so that what a
  write-through device does is among what the run explores; that there the history grows
  through power losses too is a theorem (`PrefixSafety`).
* `bank_swap`: `MaxGeneration = 3`, so that each bank is installed over and a swap at the
  last generation is refused.
* `capacity`: the reserve is compared with what is left at each step, so the bank just
  too small, the one that just fits and one with some slack contain every outcome of
  that comparison. A run stops when the bank is full or the run has ended, hence no
  deadlock check.
* `driver`: every record is one byte wide and `BankRoom = 7`. A run that loses nothing has
  just the room to open its timer, and the first run's last effect never fits, so that it is
  refused, and goes on, without a fault. The second torn answer of a timer strands
  it and the fourth of an effect strands that, in either run: the room before a boundary is
  more than the reserve asks in some states and exactly that in others. `driver_stranded` has
  `BankRoom = 5`, where `ReserveAssumption` still holds and the second torn outcome of an
  effect is one too many. `LastRun = 1` gives one swap. Clocks stop at `Early = 1` while no
  timer is open and at `Ticks = 2` while one is, so that an armed timer always has
  time enough to fire; `MaxSeq = 3` is never the limit. `Versions = 1..2` with
  `Oldest = 1` makes an update add a version, and a downgrade lose one.
  Faults are unbounded in number: any device call, in any boot, may fail.
* `facade`: `Room = 2` gives a history with an entry to replay and one that is open, and a
  third boundary that is refused. One activity is enough to ask twice for the same
  thing, and two timers, one for each clock, to drop one for another. `Ticks = 1` makes a
  deadline be in the future and be reached.
* `rig`: one effect has every kind of mark. Two iterations, because only a witness of the
  iteration before can be mistaken for this one's. `Slots = 10` is the nine marks of a run
  and one torn slot, the smallest instrument `Rig::new` accepts, so that the budget can be
  spent.
* `durability_witness`: an arm meets a region without a witness (all 64 of them) and one
  with what any earlier arm left; a third arm would meet nothing else.

Every run ends with the whole state space explored. Types are not among the runs'
properties where a theorem gives them for every instance.

**Fairness.** `FairSpec` of `Driver`: `WF(Drive)`: whoever runs the
firmware boots it again, and a boot keeps executing. `SF(Resolves \/ Refused)`: an activity
asked again and again is at some point answered, whether there is room for its answer or
not; a device of which that is not true waits for ever, as the code says
(`Progress::Waiting`). `WF(Tick)`: clocks run. `SF(ContinueAsNew)` is an assumption on the
workflow: one that is refused room in boot after boot answers with a new run in the end.
The code cannot make it; without it an effect whose outcomes were torn twice is performed
for ever, as the comment on `exit_bytes_after` says. Nothing is assumed of faults; `RunEnds`
says that *if* they stop from some time on then the run ends. A boot that ends because of a
refusal is no fault. It excuses a bank damaged by a torn write (the scan refuses it), a
firmware that does not support the recorded version, and a last run without room, which
is told so whenever it asks for another (`RunIdExhausted`); the code refuses all three by design.
`FairSpec` of `Facade`: `WF(awake /\ Poll)`, an executor polls a task whose waker was called;
`WF(Tick)` for each clock; `WF(Ring)` once the countdown is over, which is all that the alarm's
contract promises. Nothing is assumed of the workflow, the world or resets: `TimerWakes`
speaks of a timer that is still waited for. A persistent clock that is set back for ever is
excused.

## 4. What is proved

TLAPS proves the following for every value of the constants (`PROJECT.json`
"theorems"). Each follows the same argument: an inductive invariant `IInv`, shown to
hold initially and to be preserved one action at a time, that implies the property.

* `ReplayMachine_proofs`: all properties of the run `replay`, refinement of
  `RunHistory` included. `IInv` adds to the cursor's agreement with `accepted` that the
  newest identity consumed is the one before `next` (`NewestIdentity`,
  `NextFollowsLast`): without it freshness is not inductive, for the allocator's value
  alone does not say what was consumed.
* `Journal_proofs`: acknowledged durability, prefix safety, exactness of scans, erased
  media ahead of a writer, seals over durable bodies - for any number of slots and
  records and for both kinds of device. `IInv` says what `pending` may hold
  (`PendingShape`: programmed parts alone, and none on a write-through device), what the
  scan has passed (`ScanShape`), where each stage of an append stands (`WriterShape`) and
  that everything in front of an acknowledged record is durable too (`AckedShape`).
* `Journal_proofs`, of `JournalRefinement`: `Journal` implements `BankLog`, whatever the
  number of slots and records and for both kinds of device. To `IInv` it adds that a seal is only
  programmed when no barrier is owed (`SealsAlone`) and that behind a part a power loss may
  take there is no seal (`PendingIsLast`): hence a loss takes the last readable record at
  most. Readable slots are counted off from the front (`Nth`), so that what a step does to
  the log follows from what it does to the set of them.
* `BankSwap_proofs`: one authority, no fault electing another, succession, runs never
  forgotten. `IInv` says that one bank is *elected*: it rests with nothing pending and a
  higher generation than the other, or is yielding to the other in the one call that seals it
  (`Elected`, `Rests`, `Yielding`). The properties are not inductive: one
  authority now says nothing of what a power loss leaves.
* `Capacity_proofs`: a run can always end, and can always begin, for every monotone
  frame length and every bank size. `IInv` is that what is owed in each phase is still
  there (`Owed`), for one torn outcome.

* `Driver_proofs`: typing; what is handed out is the open effect; on a write-through
  device performed effects are scheduled and the history is legal and only grows; on
  either kind timers are never early - for every workflow, any number of runs, records and
  faults; what the reserve spares a run (`ReserveHolds`, `Spared`, below), and what the driver
  is for (`UnbrokenExecution`, below). The kernel is reached through
  `Kernel == INSTANCE ReplayMachine_proofs`, whose lemmas are cited. A step does one of
  five things to the bank (`BankStep`: writes a legal record whose time has come, keeps,
  swaps, cuts, or turns a clock), and that alone preserves `BankInv` (`Clocked`: the boot
  clock gained no more since a timer was recorded than was `waited`; `Durable`: on a
  write-through device all is firm). To know that what is written is legal one needs
  `Placed`: what the machine consumed is what the bank holds up to the scan (`Agrees`),
  and where the driver stands within a call the machine stands with it (`AtRest`,
  `AtGrant`, `AtBoundary`, `AtEnd`, `Measured`). None of the parts is inductive by itself.
* `Driver_proofs`, the workflow's side: no workflow that is a function of what it was told
  is ever accused of being another one (`NeverDivergent`, either kind of device), and on a
  write-through device it is told the same things in every boot (`StableReplay`). Two boots
  are not compared with each other but each with the bank. `Story` says of the bank that
  every record may follow the one before, that what is told is told in order and whole
  (`Rising`, `Filled`: a boundary's identity counts the things told before it), and that
  each boundary and each end is what `Program` asks for when told the `Tale` of the
  records before it (`Wished`). `Abreast` says of a boot that what it has told is the tale up
  to where its scan stands, and `Kept` that the most ever told is a tale of what the bank
  holds. So where history has a record the workflow's wish is the one it was written for,
  and the kernel finds no divergence; where history ends the wish is what is written, and
  the story goes on. The theorem `Faithfulness` is this invariant. `Kept` alone needs the
  write-through device; on the other kind a power loss may take an outcome that a
  rebooted workflow was told on the strength of a read. It is no induction over the
  history: each record is compared once, when it is written.
* `Driver_proofs`, the reserve: on a write-through device, for every width of record and every
  reserve that meets the floor of `for_layout`, a run is left with a boundary open only after
  more bytes of its answers were torn than the widest answer has (`Spared`). Two facts are
  invariant (`ReserveHolds`). `Reserved`: while a boundary is open, the room left and the
  bytes torn together come to two answers and an end - `Admits` saw to it when the boundary was
  written, and a tear moves bytes from the one to the other. `Stranded`: a boot that was refused room
  with a boundary open had that much torn already (`RefusedIsStranded`), since otherwise
  `Reserved` admits the answer; and nothing but such a boot leaves the run. That one torn answer is
  the most that is spared is the finding of the run `driver_stranded`.
* `Driver_proofs`, the refinement: on a write-through device `Driver` implements
  `Execution` (`UnbrokenExecution`), the promise of durable execution itself, with `torn` for what
  was lost of the answers. A step that touches the bank writes the record due where the driver stands
  (`Due`), fails to write it, tears an answer (`Lose`), leaves the run, or loses power (`Moves`);
  what is due is what the
  table of section 08 allows next and what the workflow, told all that the bank tells, asks
  for (`DueContinues`, which `Story` and the refinement share); a run is left with all of
  it seen, nothing open and its workflow not about to return (`GoOn`), or with an open boundary
  whose torn answers, by `Stranded`, came to more than the reserve allows for (`GiveUp`); and a
  power loss takes nothing. On a device with a write cache that last step fails, and the refinement
  with it.
* `Facade_proofs`: the five safety and action properties of the run `facade`, for any set
  of activities and timers and histories of any length. `IInv` says that at most one entry
  is open, that it is the last, and that it is what the driver has handed out
  (`Handed`), what a future in hand would ask for (`Asking`), or what the run waits for
  (`Awaited`).
* `Rig_proofs`: the three properties of the run `rig`, for any number of effects and
  iterations and an instrument of any size `Rig::new` accepts. `IInv` says that the marks can
  be read back in the order they were written (`Legible`), that where the rig stands its
  bank stands with its marks (`Placed`: a record is begun before it is there, there before
  it is acknowledged, and declared before its effect is performed) and that what was
  acknowledged or performed has its mark (`Backed`). A part may lose anything between two
  steps, so `Placed` promises nothing of it then (`Stopped`); it is `Resume`, on the
  verifier's word alone, that re-establishes it. That nothing on media is of an iteration
  to come (`NotAhead`) is why the bank and the marks of the last one are known for what
  they are. The budget is a count: the marks of a run map one to one into
  `5 * Effects + 4` places (`PlacesApart`), less the one refused.
* `DurabilityWitness_proofs`: a part whose barriers hold is never accused, however often
  its region is armed, and on a region whose units were erased one that broke a clause
  of them always is: what the witness claims of the arm is on media or is missing
  there (`MediaAreLanded`), and `verify` reads which. `IInv` is that all but the last mutation of an arm are on media
  (`InOrder`), which is what the barriers are for, and that `verify` finds no fault with
  whatever such an arm left (`Consistent`), which a second arm starts from.

Assumptions, each with the module that declares it: `MaxSeq` and bounds are naturals,
identities may be exhausted; frame and header lengths are monotone and the bodies
of boundaries are ordered as the code's constants are (`Capacity`); records that may be
skipped are records (`Journal`); deadlines and readings of a clock are naturals, and clocks,
versions and bounds lie within each other (`DriverAssumption`, `SpecsAssumption`); the reserve
is built for the widest answer and end and meets `for_layout`'s floor (`ReserveAssumption`). TLC
evaluates them all. The theorems on `Driver` have one hypothesis more, `ProgramIsTyped`: the
workflow asks for kinds, inputs, deadlines and gates of the program's own vocabulary.

**Only model-checked.** Liveness (`RunEnds`, `TimerWakes`): fairness and ENABLED are out of
the prover's reach; so are induction over data and RECURSIVE operators. Every invariant
and every action property of a passing run is stated by a theorem.

## 5. Findings

1. **A torn completion refuses its bank** (`journal_torn_outcome`).
   `docs/book/src/failure-semantics.md` says that a completion cut during its write is
   ignored when the rest of its slot is erased. `Recovery::sealed` decodes the frame before
   it looks at the seal, so a body cut part-way is damage and the scan stops. Only a body
   that landed whole is passed over.
2. **Redelivery trusts what it reads** (`driver_cached`). The third design decision says
   that the schedule record crosses a durability barrier before dispatch, and
   `Effect::redelivering` that the steps before have already happened. When the commit
   barrier failed and the driver is booted again without a power loss, the record is
   readable and was never made durable; the effect goes out, and a power loss
   then removes the record. In the same way it may remove an outcome that a rebooted workflow was
   told. It needs a device with a write cache; on a write-through
   device `PerformedIsScheduled` and `ReplayIsStable` hold (run `driver`).
3. **A live call forfeits an effect** (`driver_stranded`). `swap_in` says that a swap gives an
   effect up only when a crash left one behind, never in answer to a live call, and looks at
   `pending` for that. An outcome that is refused `NearCapacity` has taken its effect out of `pending`
   already and does not put it back; `continue_as_new` takes the refusal for that of a
   boundary not yet scheduled (`reserved_rollover`), `nothing_follows` agrees where the writer is
   spent, and the run is swapped out with its effect performed and never answered. The reserve covers
   one torn outcome, as `exit_bytes_after` says, so it takes two of them:
   `OneTornAnswerIsSpared` is what holds (run `driver`, theorem `Spared`).
4. **A torn first mark outlives its iteration** (`rig_stale_witness`). The rig's verifier
   tells a witness of another iteration by the iteration its marks name. A witness of which
   only a torn slot exists names none. When the first mark of one iteration is cut, and
   `prepare` of the next is cut before it has erased the instrument, the verifier takes
   the torn slot for evidence that the new run had begun, finds no bank of it, and reports
   a part that lost nothing. `tests/sweep.rs` says that the verifier finds no violation at any
   point the rig can be interrupted. `NeverAccused` excludes exactly that state
   (`StaleTear`) and holds elsewhere.

A remark that is not a finding: `verify` of the conformance suite does not erase the
witness it read. In a region armed again, a part that loses all of the second arm is
Held, on the evidence of the first; `BreachIsSeen` is stated for regions whose units were erased.

## 6. What is not modelled

* Byte layouts, CRC strength and encodings: frames are whole, torn or erased, and a
  check is assumed to tell them apart, as the code assumes.
* Errors that depend on the size of a caller's buffer alone, identity checks of a
  workflow against its own history's kind and input, `ContinueUnsupported`.
* A workflow that is not deterministic: `ReplayMachine` covers what the kernel does with
  one, `Driver` assumes there is none.
* Of the facade: what a workflow reads of a result (`Ctx::payload`, decoding), and
  why an outcome was refused (`Facade` has one refusal for all reasons), and `clock.rs`'s
  `PersistentTimer`, which neither the facade nor the driver uses. Of the bridge: the
  `Suspended` value, which the driver never reads.
* Of the rig: the second bank and rollover, the variants with a reserve, the witness kept
  in a clock's registers, and the log, wear, census and matrix, which count and format. A part
  loses records, never the instrument's own marks: the verdict has nothing else to go by.
* Of the conformance suite: the cases of `suite.rs`, straight lines of calls with an expected
  answer each, the NOR port's rounding of reads to words, and erases that are torn within
  a unit.
* The injector's session, ledger and oracle, and the specification crate: instruments that
  test the same protocols in Rust. Planned, see below.
* Emulator image, size probe and demos hold no protocol. `xtask`, two thirds of the
  repository's lines, reads documents, budgets and dependency graphs at build time and
  runs nothing on the device: a model of it would say nothing about the system. It is why
  the share of lines that the models stand for is small and will stay so.

## 7. Plan

Done, in this order:

1. `Records`, `RunHistory`, `ReplayMachine` and its proofs.
2. `Journal` and its proofs; `BankLog` and the refinement.
3. `BankSwap` and its proofs.
4. `Capacity` and its proofs.
5. `Driver` over `ReplayMachine` and `BankLog`.
6. `Facade` and its proofs.
7. `Rig`; `DurabilityWitness` and its proofs.
8. `Driver_proofs`.
9. The refinement of `BankLog` by `Journal`, in `Journal_proofs`.
10. `Rig_proofs`; `BreachIsSeen` of `DurabilityWitness`.
11. `Faithfulness`, and with it `NeverDiverges` and `ReplayIsStable` of `Driver`;
    `Execution` and its refinement by `Driver`.

Left:

12. `Injector`: the session, ledger and oracle of `waymaker-fault`, with the oracle's verdict
    as an abstract specification that `Journal` meets.
13. `SpecModel`: the transition system of `waymaker-spec`, with its guards and
    invariants compared to `Journal`'s and `BankSwap`'s.
14. `PersistentTimer` (`clock.rs`), and the rig's log, both small.
