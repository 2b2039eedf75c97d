# A verification model of the DPU host runtime

TLA+ modules, TLC configurations and TLAPS proofs for the host side of this
repository: the library that allocates ranks of DPUs (processing-in-memory
units), copies data to and from their MRAMs, launches programs on them and waits
for them. Paths are relative to the repository; line numbers are in `PROJECT.json`,
which maps every definition that models code to the lines it stands for.

## 1. The system

| part | state | operations | interacts with |
|---|---|---|---|
| asynchronous job engine (`api/src/api/dpu_thread_job.c`) | per rank: a table of job slots, a free list, a FIFO, `job_error`; per NUMA node: a queue of first jobs with a mutex and a condition; per call: a `dpu_thread_job_sync` on the stack of the caller | get, unget and set the jobs of a call, queue them, wait; worker loop, callbacks, error draining; stop | its callers; the rank mutex; the layers below do the work of a job |
| set API (`api/src/api/dpu_set.c`, `dpu_runner.c`) | `dpu_set_t`: lists of ranks; the sets allocated | `dpu_alloc` and its variants, `dpu_free`, `dpu_launch`, `dpu_sync`, `dpu_callback`, iteration | fills jobs for the engine, allocates ranks |
| memory API (`api/src/api/dpu_memory.c`, `api/src/dpu_memory.c`) | per rank: two transfer matrices, a pool of scatter/gather blocks; per call: reference-counted arguments | `dpu_prepare_xfer`, `dpu_push_xfer`, `dpu_copy_*`, `dpu_broadcast_to`, `dpu_push_sg_xfer` | job engine, MRAM access, back-end |
| polling and launches (`api/src/api/dpu_polling.c`, `api/src/dpu_runner.c`) | one polling thread: `is_running`, `is_dpu_running`; per rank: the run context | boot, poll, wait for a rank or a DPU, destroy | the list of ranks (rwlock), the rank mutexes, the control interface |
| rank list and handlers (`api/src/dpu_rank_handler_allocator.c`, `dpu_management.c`) | array of ranks, cursor, handler reference count, rank numbers, open devices | get, free, iterate, create and destroy | polling, allocation, back-ends |
| MRAM access (`ufi/src/ufi_memory.c`, `ufi_config.c`, `ufi_runner.c`) | `host_mux_mram_state` (the record of the muxes), the muxes, the transfer matrices | copies, switches of a line pair or a whole rank, boots | control interface; transfer threads |
| control interface (`ufi/src/ufi_ci.c`, `ufi.c`, `ufi_config.c`, `ufi_bit_config.c`) | per CI: colour, cached structure register, selection and groups, enabled DPUs; one command buffer per rank | select, execute, read results, time-outs; reset, repair, IRAM and WRAM access, boots | back-end |
| transfer threads and address translation (`hw/src/mappings/xeon_sp`) | per channel: a pool of threads, a barrier, a mutex, a job description | split a matrix between the threads; byte interleaving; scatter/gather | MRAM region |
| PID-Comm collectives (`hw/src/mappings/xeon_sp/pid_comm.c`, `hw/src/rank/hw_dpu_rank.c`, `pidcomm_lib`) | none beyond a call | kernels on the DPUs, relocation of lines by host threads | launches, MRAM region |
| debugger (`ufi/src/ufi_debug.c`, `api/src/dpu_debug.c`) | per session: a context with pcs, running threads and faults | attach, read pcs, step, dump and load registers, detach | DPU, control interface |
| loader, ELF, logs, profiling, checkpoints, VPD, properties, bindings, RDMA | files, environment, device handles | parsing, formatting, device programming | - |

An application call becomes one job per rank (job engine). A worker of the engine carries
it out with the rank locked: it walks the matrix of the call (memory API), commands
muxes, DPUs and memories through the control interface, and lets the threads of the
channel move lines. A launch ends when the polling thread has seen the DPUs stop.
The collectives are sequences of launches and moves of lines.

### What is hard

* **Job engine.** Workers of one queue serve all ranks of a NUMA node. A rank is in
  the queue through its *first* job only, and a worker that runs a job owns the
  FIFO of the rank until it advances it. Callers put jobs in FIFOs at the same
  time. Single-call callbacks park the FIFOs of all ranks of a set until one
  worker has run the callback; a failing job drains its FIFO; a synchronous call
  counts the ranks down in an object on its own stack; `dpu_free` stops workers.
* **Polling.** The polling thread reads `nb_dpu_running` without a lock, skips a
  rank whose mutex is taken (`pthread_mutex_trylock`), and holds the reader
  lock of the list, while `dpu_free_rank` holds the rank mutex and wants the writer
  lock. A flag compensates for the wake-ups that this could lose.
* **Muxes.** The runtime does not read the muxes back: it keeps a record, updates
  it *before* it commands the hardware, and skips the command when the record
  is right. Two DPUs share a mux switch, transfers move whole lines, disabled
  DPUs and CIs are never commanded.
* **Control interface.** The same habit one level down: structure register, selection
  and groups of a CI are cached and commands skipped. Eight CIs are commanded by one
  buffer and answer each in its own time; an answer is recognised by one bit of
  colour. A reset has to put colours, caches and enabled DPUs right whatever
  happened before.
* **Transfer threads.** One pool serves all ranks of a channel with a single barrier
  used twice per transfer; the slices are computed from a division with a remainder; the
  words of a DPU are scattered by an address translation.
* **Memory API.** Matrices and block pools outlive the calls that fill them; two threads
  (application, callback) have a matrix each; the arguments of a scatter/gather call are freed
  by the last rank.
* **Allocation.** Every step of an allocation can fail after others have succeeded; several
  threads allocate and free; the count of enabled DPUs is brought down one by one.
* **Collectives.** Tasklets permute blocks in place with only barriers to order them;
  index arithmetic over axes, groups, ranks and lanes decides which line goes where.
* **Debugger.** A session empties the pipeline of a DPU thread by thread, moves pcs by booting patched
  programs, and has to put everything back after any sequence of steps; several bits of the
  DPU each keep it from running, and it runs on whenever the last of them is cleared.

### What makes each part correct

* job engine: no slot lost or in two places; each rank with work carried by
  exactly one worker or queue entry; a synchronous call returns, and only after the
  work queued before it; sync objects outlive their users; a blocking callback
  runs alone; freeing leaves no work behind;
* polling: no lost wake-up; launches, frees and the exit end; a launch returns when
  the DPUs have stopped and reports their faults;
* MRAM access: a copy touches exactly the MRAMs it names; a running DPU owns its
  MRAM; the host never moves the mux of a DPU it knows to run;
* control interface: an answer belongs to its command; caches are true between calls;
  a call that succeeds made its DPUs do its work; after a reset exactly the usable
  DPUs are enabled;
* transfer threads: each line of the matrix moved once, before the call returns, in
  turn with the other ranks of the channel; no two words on one line;
* memory API: a push sends what was prepared for it; scatter/gather moves the
  concatenation of the blocks; arguments live as long as they are used, and no longer if all goes well;
* allocation: everything taken is in a set or given back; a set has what was asked for;
  a request is served exactly when there is enough; loops see each DPU once;
* collectives: the buffers at the end are those of the mathematical collective, and
  nothing else is written; a kernel is deterministic and ends;
* debugger: a session leaves no trace but the steps asked for.

The hazards behind these properties, each with its line, are in `PROJECT.json`.

## 2. Modules

| module | models | instance | proofs |
|---|---|---|---|
| `ThreadJob` | the job engine and the calls that use it | `MCThreadJob` | `ThreadJobProofs`, `ThreadSyncProofs` |
| `Polling` | the polling thread, launches, removal of ranks, exit | `MCPolling` | `PollingProofs` |
| `MramMux` | mux record, switches, transfer matrices, copies and boots | `MCMramMux` | `MramMuxProofs` |
| `UfiScripts` | the functions of the ufi layer as sequences of steps | - | in `UfiProofs` |
| `Ufi` | control interface protocol; runs the scripts of `UfiScripts` | `MCUfi` | `UfiProofs` |
| `LineLayout` | address translation and byte interleaving | - | in `XferPoolProofs` |
| `MramXfer` | what a transfer promises (abstract specification) | - | - |
| `XferPool` | the transfer threads; implements `MramXfer`, uses `LineLayout` | `MCXferPool` | `XferPoolProofs` |
| `HostXfer` | the memory API and the scatter/gather iterator | `MCHostXfer` | `HostXferProofs` |
| `SetAlloc` | allocation, rank list, handler, set iteration | `MCSetAlloc` | `SetAllocProofs` |
| `Kernels` | the relocation kernels as stages | - | - |
| `Relocate` | the kernels run by tasklets; uses `Kernels` | `MCRelocate` | - |
| `PidLines` | vector code of `pid_comm.c` on cache lines | - | - |
| `PidThreads` | the host threads: from item numbers to groups and blocks | - | - |
| `PidComm` | the collectives; composes `PidThreads`, `PidLines` and `Kernels` | `MCPidComm` | - |
| `Debug` | debugging sessions on a DPU | `MCDebug` | - |

The modules meet where the code has a lock or a call: `ThreadJob` is about how jobs get to
a rank one at a time, and `Polling`, `MramMux`, `Ufi` and `HostXfer` take that for granted;
`SetAlloc` and `Polling` share the list of ranks; `PidComm` uses the kernels by the result
that `Relocate` shows them to have under every scheduling.

A pair such as `PoppedKept` and `Popped` is a definition and, before it, a
deliberately wrong variant of it (a lost signal, a dropped guard, an off-by-one).
The specification only uses the right one; replacing it by the variant makes TLC
report a property, which shows that the property depends on that piece of code.

### ThreadJob

`available`, `jobs`, `job` and `list` are the free lists, the FIFOs, the slots and
the queues. A caller has a program counter `cpc` and the locals of the call
(`call`, `cidx` = `each_rank`, `got` = `jobs[]`, `sync` = its sync object); a worker has
`wpc`, `wjob`, `wcb` (what it copied of a callback job) and `widx`. One action is one
critical section or one unlocked access:

* callers: `Call`, `GetJob`/`GetWait`/`GetFail` (`dpu_thread_job_get_job_unlocked`),
  `ChooseMaster`/`GetMaster` (the extra slot of a callback), `Unget`, `SetJobs`, `DoJobs` and
  `SeenAgain` (the two later, unlocked reads of `callback_tid_set`), `Direct` (a call
  from inside a callback of the same thread), `AddJobs`/`AddFirst`/`AddDone`, `WaitSync` and `ReturnEarly`,
  `ClearError`, `Free`/`Join`;
* workers: `WorkerStop`/`WorkerWait`/`WorkerTake`/`WorkerLock`, `ComputeWork`,
  `ComputeSync`/`Signal`, `Advance`, `ComputeCallback` to `ReleaseMaster` (callbacks, with
  `BlockLock`/`BlockAdvance` for the wake-up of parked FIFOs), and `UpdateStatus`, `Drain*`
  (the error path).

A worker waits for the mutex of a rank while it owns its FIFO; a lock taken by a
step that must wait is a guard. `crashed` stands for the end of the process by a
NULL dereference, or for undefined behaviour: after an inconsistent pair of unlocked
reads of `callback_tid_set`, or after `ReturnEarly`. That is a spurious wake-up of the wait of a
synchronous call at the one moment where it matters: the last worker has decremented the counter
(`dpu_thread_job.c:133`) and has not locked the sync object yet (`:134`), the caller finds a zero and returns, and
the worker locks and signals an object on a stack frame that is gone. `SyncObjectLive` says
that nothing else takes the object from its users. Spurious wake-ups elsewhere only repeat
a test. `FreedQuiescent` says what `dpu_free` leaves: no queue has a rank of the set and none of its
jobs is left to run; a worker of the set is not on any of them, one of another set on the same queue may still be
leaving the FIFO of one (`dpu_thread_job.c:625-638` joins the workers of the set only), in a table that is being freed. What a job does (a copy, a launch, a load) is
abstracted to success or failure: it is the subject of the other modules.

`Disciplined = TRUE` describes an application that only makes a synchronous call
(other than `dpu_sync`) on ranks without pending asynchronous jobs; `dirty` is the
bookkeeping of that rule. Without it calls may race for slots and callbacks.

### Polling

The hardware is `hwRunning`, `hwFault`; the run context is `dpuRunning`, `dpuInFault`,
`pollFailed` (`nb_dpu_running` is the cardinality of `dpuRunning`, changed with it
under the rank mutex). The polling thread runs `LoopTest`, `Decide` (sleep or
consume the flags), `StartIteration`, `ReadNb` (the unlocked read), `TryLockFails` or
`PollRank`/`PollRankFails`, `EndIteration`. A launcher runs `Launch`, `Boot` or `BootFails`,
`Notify` (`polling_thread_set_dpu_running`), `Sync`, `Woken`; the target of a launch is
a whole rank (`dpu_sync_rank`) or one DPU (`dpu_sync_dpu`). `FreeLock`/`FreeRemove` are
`dpu_free_rank` and `Destroy` the exit (`polling_thread_destroy`), which may come at any moment, also while ranks are
listed and launches wait: those may then wait for ever (`Stranded`). There is one launcher per rank because the jobs
of a rank run one at a time, which is `OneCarrier` of `ThreadJob`. Spurious wake-ups of
both condition variables are included.

### MramMux

A DPU is a pair <<CI, line>>. `recorded` is `host_mux_mram_state`, `mux` the hardware.
`LineOk`, `LineBusy` and `LineFails` are the outcomes of `dpu_switch_mux_for_dpu_line`,
`RankOk` and `RankFails` those of `dpu_switch_mux_for_rank`. A failed command leaves any
subset of the commanded muxes moved, and the record as if all had: a retry then finds
nothing to do. `CopyExact` and `RunningOwnsMram` therefore speak of runs without failed
commands; what holds with them is `PairsAgree` and `MuxStillWhileRunning`. `Plan` is the duplication of a transfer matrix
(`DuplicationNeeded` scans the CIs in the order of the code, and stops where the code
stops); `CopyLine` prepares one pair of lines, `Transfer` accesses every MRAM of the
lines of a matrix that the muxes leave to the host. `BootRank`/`SwitchBootRank` (all
CIs have an enabled DPU) or `SwitchBootLines` (some CI has none), and
`BootDpu`/`SwitchBootLine`, are the boots. Sets stand for bit masks. `asked` and `moved`
are auxiliary.

### LineLayout, MramXfer and XferPool

`LineLayout` has `LineAddress` (from a DPU number and an MRAM offset to a line of the
region) and the five implementations of the byte interleaving, each as a function from
byte positions to byte positions built from the instructions it uses. Writes to the MRAMs
(`xeon_sp_translation.c:576`, `:589`) and the accesses to the control interfaces (`:263`, `:308`) use the AVX-512 one, reads
(`:672`, `:694`) the AVX2 one; the scalar and the SSE4.1 ones are the same function, which is its own inverse. The one for
AVX-512 VBMI (`:183-209`), compiled only where the compiler targets it, has no caller, and is another function, since its table holds
positions within 16 bytes where the instruction takes positions within 64: `InterleavesAgree` states both.

`MramXfer` is the promise: `Open`, `Close`, `Begin`, `Move` (one line, while no other transfer of
the channel is under way), `Return` (all lines moved), and `Lose`: a channel of which no rank is up may be lost, and nothing is
promised of it any more. `XferPool` is the code:
`xeon_sp_init_rank`, `InitFails` and `InitUndefined`, `xeon_sp_destroy_rank` and `Joined`; `CallXfer`,
`xeon_sp_init_and_do_xfer` (mutex of the channel, fields of the pool, first barrier) and
`xeon_sp_release_pool`; `Barrier`; and `Wait`, `Start`, `Line` of a thread. `moved` is auxiliary:
how often each line of a request was moved, 2 meaning twice or with the data of another rank.
The refinement mapping sends the control points of the caller to the status, and the lines moved
once to `done`.

When the barrier or a thread of a pool cannot be created, `xeon_sp_init_rank` returns a positive errno
(`xeon_sp_translation.c:967`, `:978`), and `hw_dpu_rank.c:527` takes a negative number for a failure. The rank is therefore up, uncounted
(the count of the channel is unsigned and wraps when the rank is closed), with a pool of some threads or none: `InitFails` does the same, and the model goes on
with what such a pool does: transfers that wait for threads that never come, threads left at the barrier, a second creation by the next rank. A creation over
a barrier that is in use is undefined and ends the behaviour of that pool (`InitUndefined`). `broken` names the pools of which
a creation has failed; the mapping makes their ranks `lost`.

### HostXfer

Bytes carry their origin, so that a copy shows where its data comes from. `matrix`, `sg_pool`,
`args` and `zeros` are the fields of the code of the same purpose; `jobs` holds the jobs of a
rank, `job_error` the ranks with an error to return, `sync` the synchronous call of the application in progress;
`prepared`, `dropped`, `sg_failed` and `lost` are histories. Actions: prepare, push, copy or
broadcast, scatter/gather call, each by the application or by a callback, `RunJob` and `SyncReturn`. `RunJob`
ends in `dpu_thread_advance_to_next_job` or, when the job fails, in `dpu_thread_update_status`: the rank throws away the jobs behind it (a
SYNC job among them still answers), and refuses calls until a synchronous one has returned the error. The arguments of a scatter/gather call
that loses a job this way, or is refused, are never freed (`lost`); `ArgsLive` says so. A
job on IRAM or WRAM verifies alignment and bounds as the lower layer does; an unaligned MRAM
access reads and writes back. `Advanced` and `Eight` are the iterator that cuts blocks of any
length into words.

### UfiScripts and Ufi

A function of the ufi layer is a sequence of steps (`Send`, `Fill`, selections, groups, repair,
reset...), because what matters is which frame each CI gets and what is skipped.
`Ufi` has the host state (`color`, `slice` = the caches and enabled DPUs, `cmds` = the command
buffer, `mask`, `save`), the progress of a call (`prog`, `flight`, `pc`, `status`) and the CIs
(`hw`: inbox, last command, structure, selection, groups). `Execute` lets a CI take its
command in its own time; `Poll`, `Timeout`, `WaitFails` and `Unreadable` are what the host sees;
the other actions are the steps. Failures are failed commits, failing reads of the rank, also in the waits of a reset and of a byte discovery,
a discovery that takes too long, answers that come too late, and colours that cannot be read. `failed`, `lapsed`, `reset_failed`, `usable` and `ran` are histories.

### SetAlloc

`handler`, `ids`, `list`/`next`, `rank`, `fd` and `sets` are the shared state; `th` holds each
thread's locals. An allocation runs `Begin`, `NewRank`, the opening of a device,
configuration and reset, `DisableUnused` or `Trim`, set initialisation, `Return`, with an
error path from each of them that drops the ranks taken so far; `dpu_free` and
`dpu_get_profile_description` are calls too. Giving back a rank is a step for the list, the device, the number and the reference
each (`dpu_rank_list_remove`, `hw_free`, `FreeNumber`, `dpu_free_rank`). Calls overlap as they like. `lost` holds the ranks that nobody knows any more: those of
`dpu_alloc_ranks` whose reset failed (`dpu_set.c:518-524`). `spoiled` is set where the code frees something under its users, which
has no defined sequel; calls in progress then go on, new ones are not followed:

* a property of the profile that is found to be wrong late (`dpu_management.c:342-400`) frees the rank and leaves it listed, open and numbered;
* a failing `init_scatter_gather_transfer_buffer` (`dpu_set.c:471-475`) frees ranks whose set is registered and whose job threads run;
* `dpu_rank_handler_get` comes between a `dpu_rank_handler_put` that counts to 0 and the next look-up. `static_handler_lock` is there "to ensure
  that there is no concurrent allocation/release of DPU handlers" (`dpu_rank_handler_allocator.c:110`), but covers the look-up only (`:140-150`), and
  neither the increment that follows (`:152`) nor the decrement and the unloading (`:407-417`).

The iterators are operators on a set (`DPU_FOREACH`, `DPU_FOREACH_ENTANGLED_GROUP`), since they change no shared state.

### Kernels and Relocate

A kernel is a list of stages: how many tasklets share which blocks, where each block goes,
which barriers surround the writes. `Relocate` runs them by `Enter`, `Read`, `Write` of each tasklet and
`Barrier`; memory is counted in cells and a tasklet caches `Chunk` of them. The reference is
`LaunchMem`: all blocks moved at once.

### PidLines, PidThreads and PidComm

A word of a DPU is one lane of a line; a value is the bag of the original words added up in
it, so that sums are compared as multisets and a word added twice shows. `PidLines` has the
vector code, `PidThreads` the arithmetic of the host threads, `PidComm` the call: `PreKernel`,
`HostThread` (one item of one thread), `PostKernel`. `Expected` is the collective by definition, from the
coordinates of the DPUs in the hypercube.

### Debug

A call is a sequence of commands (`prog`), and every step makes the first one: `SetOrClear`,
`ReadFault`, `ReadFaultThread`, `ResumeThread`, `drain_pipeline`/`PopThread`, and the parts of a call
that decide (`OtherThreads`, `BkpFault`, `MemoryFault`, `ErrorStorage`, `Release`, `Await`, `Unschedule`,
`Stepped`) or boot a program (`BootStop`, `dpu_boot_and_wait_for_dpu`). `CommandFails` ends a call with an
error. `hw` is the DPU, modelled from how the code uses it: a FIFO of running threads, their pcs, the
bits that stop it, who caused which fault, what is in the IRAM, and the word `error_storage`.
`Execute` is an instruction of the first thread, and may happen between any two commands.
A session starts with an empty context: no thread scheduled (255) in `api/src/dpu_memory.c:743`, `dpu_jni.c:780` and `ufi_config.c:1087`, all at position 0
(`calloc`) in `dpu_context_fill` (`dpu_debug.c:240`), which `dpu_checkpoint_save` uses; with a context of the second kind the threads that do not run claim the first position
when the others are put back (`ufi_debug.c:411`, `:478`), and attaching does not look at their pcs (`:267`). `hw.member` is the place of the DPU in its control interface. A boot waits
until the DPU has stopped; that nothing keeps it from running, or runs with it, is a guard, so
that a hang of the code is a deadlock of the model. `was` is a history: what
the DPU must look like when the debugger detaches, changed only by the steps it asked for.

## 3. Runs

`tlc -workers 2 -config <cfg> <module>`.

| run | instance | states | shows |
|---|---|---|---|
| `threadjob_core` | 3 ranks, 1 queue, 3 workers, 1 caller, 2 slots per rank, 3 calls, 1 failure; a set of two ranks, and a rank and worker of another set on the queue; `dpu_free` | 129 k | slots, carriers, sync objects (up to `ReturnEarly`), drain, free; calls end |
| `threadjob_callback` | 2 ranks, 1 queue, 2 workers, 1 caller, 3 slots, 2 calls out of 7 kinds (all callbacks and `dpu_sync`), 1 failing callback | 199 k | a blocking callback excludes other work; until a failure no slot is lost and calls end |
| `polling_launches` | 2 ranks of 2 DPUs, 2 launches of a rank or of one DPU on the first, 1 mishap (failed poll, failed boot, spurious wake-up), frees, exit at any moment | 167 k | no lost wake-up, no freed rank touched; launches return when the DPUs stopped and report faults; launches, frees and the exit end |
| `mrammux_pair` | 3 CIs, 1 pair of lines, 1 disabled DPU, every matrix, 2 failed commands | 1.8 M | copies exact, MRAM owned by running DPUs, pairs together, muxes still |
| `relocate_launches` | 22 launches of the 8 kernels, 8 tasklets, blocks of 1 or 3 cells, a cache of 2 | 97 k | kernels are deterministic and right in place too; launches end |
| `pidcomm_served` | 4 collectives, 10 shapes of 8 to 128 DPUs, every choice of axes that the code serves, 2 host threads | 1.8 k | the collective is computed, nothing else is written |
| `xferpool_pool` | 2 ranks on one channel, 3 threads, 5 lines, 4 transfers, opened twice, 1 failed creation | 182 k | refinement of `MramXfer`; transfers and destructions end; words apart; interleavings agree |
| `hostxfer_calls` | 2 ranks of 2 DPUs, one disabled, 2 threads with 2 calls each, some of which fail when they run | 58 k | matrices, arguments, scatter/gather |
| `ufi_calls` | 2 CIs of 2 DPUs, one disabled, damaged memories, 2 calls out of 24, 1 failure | 3.2 M | fresh answers, true caches, calls reach their DPUs, usable DPUs enabled |
| `alloc_calls` | 2 threads, 4 devices of 4 DPUs (the first partly, the third wholly disabled), 3 rank numbers, 2 calls out of 10 and frees, 1 failure | 1.8 M | handler, accounting (up to `spoiled`), exact and complete service, loops |
| `debug_sessions` | a DPU that is member 0 or 1 of its CI, 3 threads, 3 programs of 3 instructions, every start, 2 sessions, also on the context of a checkpoint, 2 calls, 1 failed command | 5.4 M | no call hangs; detaching restores order, pcs, IRAM and fault state, with three exceptions |
| `ufi_replay` | 2 CIs, writes to the WRAM of one DPU after another, no failure | violation | `OnlyTarget`: see below |

Deadlock is checked in `ufi_calls`, `alloc_calls` and `debug_sessions`: every state that is not a quiet end (or, in `alloc_calls`, a call
that the code leaves without a defined sequel) has a step. In the other modules the application may stop calling, and bounded calls end; that
nobody waits for ever is there checked by the liveness properties.

`ufi_replay` is the one disagreement kept as a run. `ufi_wram_write` fills only the entries of the
command buffer that its CI mask names. The other entries are cleared when a structure is
written, which is skipped when the structure is already there. The third of three writes,
to (0,0), (1,0), (0,0), therefore sends the entry of the second one again, and DPU (1,0) is
written although `api/include/lowlevel/dpu_memory.h:93` says "Copy some words to the WRAM of a DPU".

### Why the bounds are enough

* `ThreadJob`: three ranks and one queue give every relation the engine has: same rank, same
  queue, two ranks of one set, the worker of another set that carries one of them; two slots are the minimum that a synchronous
  call needs (`NrJobsAssumption`) and make the free list empty in most calls, so that
  the waits for slots happen. Callbacks need a third one: with two, the master job
  leaves no room for a job behind a single-call callback. Three calls are an asynchronous job,
  one behind it, and a synchronisation.
* `Polling`: a launch meets every step of an iteration over two ranks, one of which may be freed
  meanwhile; the second launch meets the flags and faults the first one left. One mishap is a failed poll, a failed boot or a spurious wake-up at any
  moment; the exit comes at any moment as well. Launches on
  several ranks at once are covered by the proofs.
* `MramMux`: the muxes of different pairs of lines never interact except in the order of the
  loops; three CIs exercise the order of the scan.
* `XferPool`: three threads on five lines give slices of unequal length; the thresholds make the four
  sizes use no, one, two and all threads; the offsets cross the 16 KB and 4 MB fields of the
  translation and the lines both sides of a bank; two openings let a pool be destroyed
  and created again, also after a creation that failed.
* `Relocate`: one, two or three chunk steps per block (a full chunk, a leftover, both) with two and
  four and eight tasklets: longer blocks repeat the same loop.
* `PidComm`: one to sixteen groups, all three levels of the first axis (at least 8, 4 or 2 with a wider
  second one, 2 x 2), every subset of axes; the two-rank shape makes the rank number matter.
* `HostXfer`: blocks that end in a word, at its end, and empty ones; two calls per thread are a
  preparation and a push, and what the other thread does in between, or a job that fails and the call it throws away or makes the rank refuse.
* `Ufi`: two calls are enough for the second to find the caches of the first; one time-out and one reset
  after it, also when the write of a structure failed; damage on both sides of the repair limit; a CI that loses its last DPU.
* `SetAlloc`: two threads interleave, two usable devices let an allocation end in the middle, the third device hides the fourth, and
  the numbers run out when two calls hold ranks that are not there yet. Two overlapping calls have every order of the look-up, the get, the put and the
  unloading; one failure is a failing reset, command or start of the job threads at any step, besides the profiles found to be wrong late.
* `Debug`: members 0 and 1 differ in the test of the faults, other members are like 1; three threads have orders that no rotation of their numbers gives; three addresses make pcs
  wrap around in both directions; the programs have one fault of each kind and a stop; the
  second session finds what the first one left, and two calls are two steps or a step and a dump.

### Fairness

* `ThreadJob`: weak fairness of each caller inside a call and of each worker.
  pthread mutexes and conditions are not starved by the few threads involved; user
  callbacks end. Nothing obliges the application to call.
* `Polling`: weak fairness of the polling thread and of each launcher; every DPU
  that runs stops or faults (a DPU program that does not end makes `dpu_launch` wait, by
  design); strong fairness of the writer of the list lock, because the reader may
  take the lock again and again and a pthread rwlock only promises that the writer
  is not starved for ever.
* `XferPool`: weak fairness of the barrier, of the threads, and of a caller inside a call;
  opening and asking for transfers is up to the program. The channel mutex is taken by one
  rank after the other and the calls are bounded.
* `Relocate`: weak fairness of each tasklet and of the barriers: the DPU interleaves its tasklets.
* `MramMux`, `HostXfer`, `Ufi`, `SetAlloc`, `PidComm` and `Debug` have no liveness property: within a call they
  are sequential, or finite.

## 4. Proofs

TLAPS proves, for every value of the constants allowed by the assumptions (any number
of ranks, DPUs, launchers; any topology with an even number of DPUs per CI, any set
of enabled DPUs, any matrices, any number of failures; any transfers with offsets in words, any
number of threads; any sets, calls and callers; any commands of any length):

**Polling** (`PollingProofs`). The inductive invariant is

    Inv == TypeOK /\ ContextSound /\ MutexHeld /\ StatusFresh
           /\ AsleepIdle /\ Accounted /\ OnlyLiveRanks

`ContextSound`: a DPU that runs and was booted with success is recorded as running, so
that an empty record means stopped DPUs. `MutexHeld`: the steps of a launch that read or
write the run context own the mutex of the rank. `StatusFresh`: what a launch noted of
faults agrees with its status. `Accounted` is the heart: whenever a launcher depends
on the polling thread there is a reason for it not to sleep (the flag is set, the
rank is still to be scanned or being polled, or an earlier rank of the iteration
has already forced another one). `AsleepIdle` says that a sleeping thread has no such
reason, and the two give `NoLostWakeup`. `NeverSleepsOnRunningRank` is not inductive by
itself: the state before the sleep has to remember why each running rank was
skipped. From `Inv` follow `TypeCorrect`, `NoLostWakeup`, `PolledRanksLive`,
`StoppedAtReturn` and `FaultAtReturn`.

**MramMux** (`MramMuxProofs`). The inductive invariant is

    Inv == TypeOK /\ PairsAgree /\ LocalsInv /\ BootReady /\ Obedient /\ CopyReady

`Obedient`: while no command has failed, record and hardware agree on the live CIs, and
running DPUs are recorded and own their MRAM. `BootReady`: between a switch and its
boot the muxes of the DPUs to boot are on the DPU side. `CopyReady`: the matrices still
to transfer and what was accessed add up to what was asked, and on the lines already
prepared the muxes let the back-end reach the DPUs of the current matrix and no other. It needs facts about `DuplicationNeeded` (`SplitFacts`) and about what a
switch leaves (`LineOkFacts`, `RankOkFacts`). From `Inv` follow `TypeCorrect`,
`PairsTogether`, `CopiesExact`, `RunningDpusOwnMram`; `MuxStill` holds with failures too.

**XferPool** (`XferPoolProofs`). `WordsApart` states `LinesApart` for all transfers that satisfy
`TransfersAssumption` (with `ChannelAssumption` and `NrDpusPerCiAssumption`); `LineAddressInjective` is the
arithmetic behind it and holds for all offsets. The argument goes through the fields of an offset: bits 13..0, 14,
21..15 and the rest (`FieldsOfOffset`); the translation moves them without losing any
(`TranslationMovesBits`, `FieldsDetermined`, so `TranslationInjective`) and keeps words aligned; spreading
words over the chunks of a bank is injective and stays in the first eighth of each megabyte
(`SpreadPlaces`, `SpreadInjective`); the starts of the banks then tell the DPUs apart
and keep clear of the lines of the control interfaces (`BankApart`, `BankDetermined`). The inductive invariant
is `WordsInv == Shape /\ Requested`: a caller inside a transfer has a request of the program. It is needed because
the barrier moves callers from one control point to the next without looking at their requests.

**The refinement of MramXfer** (`XferPoolProofs`). `PoolImplementsXfer` is `Spec => ImplementsXfer`:
initial states map to initial states, and each step (`XferStep`) to one of `Open`, `Close`, `Begin`, `Move`,
`Return`, `Lose` or to a stutter. The inductive invariant is

    Inv == Typed /\ CtxLocked /\ \A p \in Pools \ broken : PoolInv(p)
    PoolInv(p) == Proper(p) /\ Locked(p) /\ Configured(p) /\ InPhase(p) /\ Gathered(p) /\ Sliced(p) /\ Moved(p)

`Locked`: the counter of the channel is the number of its open ranks, and one rank is inside a transfer, the one
that has the channel mutex. `Configured`: the fields of the pool are those of that rank's transfer. `InPhase`
and `Gathered` are about the barrier: all threads are in the same part of their loop, which the control point of the
caller tells, and those that have arrived are the ones that wait. Without them one could not say that a thread
that works belongs to the transfer in progress. `Sliced` and `Moved`: a thread that works has its
slice and has moved exactly the lines before the next one. `SlicesCover` and `SlicesDisjoint` (each line of the matrix
is in one slice, for one to eight threads, whatever the remainder of the division) then give the two facts that
matter: `Move` happens to a line that was not moved before, and after the second barrier all have
been moved. The invariant is stated per pool, so that a step on one pool leaves the others alone by one lemma (`Elsewhere`),
and of the pools whose creations succeeded: `InitFails` maps to `Lose`, for which it matters that the count of the channel is 0 exactly when none of its ranks is up, and
the steps of a broken pool are stutters. `TypeCorrect` says what is left of a broken pool (types) and what an unbroken one adds.
Assumptions: `RanksAssumption` (finitely many ranks), `ConfAssumption` (thresholds are numbers, at least one
thread per pool), `UniformPoolsAssumption` (the ranks of a channel ask for the same number of threads). The code does
not enforce the last two: see the row of `xeon_sp_translation.c:829` in section 5.

**HostXfer** (`HostXferProofs`). `ArgsAreLive` is `Spec => []ArgsLive`: the arguments of a scatter/gather call are
freed exactly when every rank has run its job with success. Neither before, when a rank may still read them, nor ever after a failing job, a
job thrown away behind one (`dpu_thread_update_status`), or a refused call has lost a rank. The
inductive invariant is `ArgsInv == ArgsTyped /\ ArgsNamed /\ ArgsOnce /\ ArgsCounted /\ ArgsLost`, with `StatusTyped`. `ArgsCounted` gives the reference
count its meaning: the number of ranks that have yet to run the job, and more than that for a call that has lost a rank (`lost`); the count alone
says nothing about who decrements it, hence `ArgsOnce` (a rank has one job of a call, so one job removes
one rank) and `ArgsNamed` (a job names a call already made, so that a new call starts with no rank pending). `ArgsRun` is a job that succeeds, `ArgsDrain` one that
fails and empties the FIFO of its rank, `ArgsRefused` a call without jobs.
`MatrixPrepared` is `[]MatrixIsPrepared` under `PlainPushes`: no flag together with `DPU_XFER_NO_RESET`, an exception
of the code (section 5) which the run `hostxfer_calls` leaves out too. What needs an argument is the push to one DPU that fails before it sends anything (an invalid symbol, a
disabled DPU, a rank with an error): it clears the entry of the matrix all the same, while a push to a rank does not; `dropped` names these entries.

**ThreadJob** (`ThreadJobProofs`). `OneCarrierHolds` is `NoParking => (Spec => []OneCarrier)` for any ranks, queues,
workers, callers, slots, sets, calls, failures, disciplined or not. The inductive invariant has one conjunct per object:
`OwnSlots(r)`, `Carried(r)` for a rank, `CallerInv(c)`, `Entering(c)` for a caller, `WorkerInv(w)` for a worker,
`QueueInv(q)` for a queue, with `Typed` and `JobsRun`.

* `Carried` strengthens `OneCarrier` by what happens around an empty FIFO: a listed rank or a busy worker implies
  jobs, except for a worker in the error path, which has emptied the FIFO and holds `jobs_mutex` until it
  lets go. This is why a caller that finds an empty FIFO *under* `jobs_mutex` may put the rank into the queue.
* `Entering` is the one window of `dpu_thread_job_add_jobs`: between the test of the FIFO and the queue's mutex the
  caller keeps `jobs_mutex`, so the FIFO is still empty when the rank enters the queue.
* `CallerInv`, `Pairs` and `OwnSlots`: the one or two slots that are appended to a FIFO are of its rank, so that the
  rank of the first job of a worker or a queue entry is the rank whose FIFO it stands for. This goes through
  the whole of get, unget and set: the two slots of a synchronous call lie side by side, also after a rank
  in error has cut the array.
* `QueueInv`: a queue names only its own ranks, each once; with `Carried` this excludes two entries.

`NoParking` says that the application makes no blocking asynchronous single-call callback. It is true of
the instance of `threadjob_core` and of all the other kinds of callback. That callback leaves the FIFOs of its ranks parked
until the last rank has run it, with the mutexes of several ranks and queues held by one worker; a proof with it
needs an account of who has been counted in and of the progress through the set, and is left to the model
checker.
Each step is proved through one of four frame lemmas (`CallerFrame`, `AddFrame`, `WorkerFrame`,
`OwnRankStep`), which carry over the conjuncts of all other ranks, callers and workers.

**The slots and the sync objects of ThreadJob** (`ThreadSyncProofs`, on top of the invariant of `ThreadJobProofs`).
`SlotsExclusiveHolds` is `NoSingle => (Spec => []SlotsExclusive)`: a slot is in one place. A place is the free list
of a rank, its FIFO, the hands of a caller (between get and set) or those of a worker (`drainsig`, between the signal
and the free list). `SlotInv` says that the places are apart (`Apart`) and that no list names a slot twice
(`NoTwice`). `NoSingle` leaves out the single-call callbacks, whose masters are one job in several FIFOs.

`SyncObjectLiveHolds` and `SyncDrainsHolds` hold under `NoCallbacks`, for any number of callers, disciplined
or not, with failing jobs, the first until `ReturnEarly` ends a behaviour. The sync object of a call is on the stack of the caller, and workers reach it through
the job; two facts keep this sound. The invariant is `Base /\ Synced`:

* `Base` adds to the above `HeadInv`: the job a worker runs, and a job in a queue, is the head of its FIFO.
  Only with this, and with slots being apart, does a worker that leaves a job take exactly that job out.
* `Synced` has one conjunct per caller, `SyncInv(c)`. Its heart is that the counter equals the number of SYNC jobs
  that are queued or held by the caller (`Counts`). `Reached`: while such a job is queued, or a worker that did the
  last decrement has yet to signal, the caller is between the queueing of its jobs and the end of its wait.
  `Orders`: each job of the caller in a FIFO it has reached is followed by a SYNC job of the caller. So a counter of
  zero means that no job of the call is left, whether workers ran them or `dpu_thread_update_status` threw them away.

**Ufi** (`UfiProofs`). `AnswersFresh` is `Spec => []AnswerIsFresh` for any number of CIs and DPUs, any calls and lengths (`CallsAssumption`,
`SizeAssumption`) and any number of time-outs, failed commits and reads, and unreadable colours. One bit of colour has to tell whether a CI has executed its last command.
The inductive invariant is `Inv == ProtocolInv /\ ProgInv`:

* `CiInv(c)`: the colour that the host expects next differs from the one a CI shows exactly when the CI has nothing
  to do. This holds between calls and during them; the exceptions are a CI that failed (the host gives
  up on it) and one that is being reset, which shows colour 1 and answers no command.
* `FlightInv`: what the host waits for are the CIs it wrote to; it has counted only the others as done before it polled.
* `ProgInv` is about the command buffer of the rank: it still holds the reset frames after `ci_exec_reset_cmd`, and `ufi_select_all`
  fills in some of its entries only. A later command would send a second reset, which does not turn the colour. What excludes this is the order of the
  steps in `ci_reset_rank`: a soft reset is followed by a command to all CIs. `Safe` states it of a sequence of
  steps, and `ScriptsSafe` proves it of all scripts, with loops over DPUs, lines, CIs and words of any length.

`CommandsNeverCollide` and `ResetsStayResets` are two more consequences of it. The scripts are built by loops (`FlattenSeq`);
that such a loop gives a sequence of steps, for any length, is shown by
`RecursionExists` and `FlattenType`, which take the least number for which the claim fails (`LeastElement`).

**SetAlloc** (`SetAllocProofs`). `HandlerLoadedHolds` and `RanksAccountedHolds` are `Spec => []HandlerLoaded` and
`Spec => []RanksAccounted`, for any number of devices, rank numbers, threads, calls and failures, and however the calls overlap. Both are
claimed until `spoiled`, for which the code has no defined sequel (see SetAlloc in section 2). `RanksAccounted`
speaks of the list at all times, and of the whole of the books at the moments at which no call is in progress; the invariant has to say at every step of every thread who has what. It is

    Inv == Typed /\ Owned /\ IdsInv /\ FdInv /\ ListInv /\ RefInv /\ LoadInv

and `InvHolds` is `Spec => [](spoiled \/ Inv)`.

* `Owned`: a live rank is in one set, or is `lost`, or is with one thread, which is making it (`new`), has it (`cur`) or frees it (`drop`). Only with
  this does an error path, which frees the ranks of its own call, never free one of another call, and a step of one thread leaves the
  books of the others alone (`OwnedKept`, `OwnedMoves`).
* `Ready(P)` are the ranks that have come as far as the points P; a rank takes its reference, its number, its device and its
  place in the list one after the other, and may lose them in another order. `RefInv`, `IdsInv`, `FdInv` and `ListInv` say that the references, the
  numbers, the devices and the list are those of the ranks that have come so far, no more and no less; the references also count the
  threads that look for a default back-end (`Probing`) and those that are never given back (`leaked`).
* `LoadInv`: as long as there is a reference the handler is loaded, and a thread about to unload it finds none. Between `dpu_rank_handler_instantiate`
  and `dpu_rank_handler_get` a call relies on a reference it does not have yet: the get that comes too late is the one step that could break the invariant, and sets `spoiled`.

The error paths of `dpu_set.c:518-524` lose a rank, which stays in the books as `lost`; those of `dpu_set.c:471-475` and `dpu_management.c:342-400` set `spoiled`.
Anything may fail at any step: the description of the rank, the opening of a device, the reset, the commands that disable DPUs,
the creation of the job threads, the lack of devices and of numbers. Further assumptions: finitely many threads (`SetAllocAssumption`) and the kinds of calls
(`CallsAssumption`). Freshly allocated ranks come from a set of `NrHwRanks + Cardinality(Threads)` objects: `FreshExists`
shows that this many are never all in use: a live rank has a device of its own, or is being made or freed by a thread of its own. `ThoseFacts` is about the ranks that `dpu_alloc_comm` keeps and frees
(a `FlattenSeq`): each is in one of the two lists, once.

### Only model-checked

* of `ThreadJob`: `NoSlotLost`, the other half of `SlotsConserved`, is not true for several callers (a call that meets a rank in error drops
  a slot it took from this rank, and another caller may clear the error), so that `SlotsConserved` has no proof for
  any number of them; `FreedQuiescent`, `BlockingExcludes` and `CallbackSlots` depend on the discipline of the application and
  on the progress of callbacks through their sets, as do `SyncObjectLive` and `SyncDrains` in programs with callbacks;
* `CachesAgree`, `CallReaches` and `EnabledAreUsable` of `Ufi`: they relate the scripts to what the CIs end up with, step by step
  of each script, and some hold of calls on enabled DPUs only;
* of `SetAlloc`: `AllocExact` and `AllocServes` depend on the number of DPUs in each rank, counted through a loop that disables the best one time after time
  (an induction over the loop), `LoopsSeeSet` on iterators folded over all positions;
* the contents of transfers (`HostXfer`), `Debug`, and the results of `Relocate` and `PidComm`: what a
  collective leaves in each DPU is an identity between folds over all the words of a hypercube, stage by stage, for
  which there is no proof yet;
* the liveness properties and whatever needs `ENABLED` (outside the prover);
* the byte interleavings (a finite computation, which TLC does completely); the violation.

## 5. Not modelled, and why

* `dpu_status` and profiling; in the debugger, the registers (data), and saving and restoring the colour, structure
  and muxes of a rank around an attached process (`ufi_debug.c:888-1080`), and what a checkpoint copies besides stopping the DPU; the
  timing values of the wave generator; `ci_reset_dpu`, which has no caller.
* `pidcomm_gather`, `pidcomm_reduce` and `pidcomm_scatter`: they call functions that are not in the repository.
* sysfs, ioctl, driver and RDMA access (`bfdma`, `pimnic`): the protocol is in the hardware; what the
  other parts see of it is commands that may fail, which is modelled.
* ELF, VPD and property parsing, logs, bindings, benchmarks: no state that other
  parts depend on. `dpu_instruction_encoder.h` and `mlx5_prm.h` are tables.
* Failures of `malloc`.

### What the properties do not claim

The code behaves differently from what one might expect in the following cases. The modules contain
these behaviours unless the constants of the instances, or a named assumption, exclude them;
the properties are stated so as not to claim more than the code gives. Most are hazards in `PROJECT.json`.

| where | what |
|---|---|
| `dpu_thread_job.c:117` | a blocking single-call callback wakes a rank with nothing more queued: NULL enters the queue |
| `dpu_thread_job.c:319` | a job fails on one rank of the set of a single-call callback: the others wait for ever |
| `dpu_thread_job.c:455` | two application threads on overlapping sets can wait for each other (queue mutex, `jobs_mutex`) |
| `dpu_thread_job.c:133-134` | a spurious wake-up of a synchronous call between the last decrement and the lock: the call returns and the worker uses a sync object on a stack frame that is gone (`ReturnEarly`; `SyncObjectLive` claims the rest) |
| `dpu_thread_job.c:625-638` | `dpu_free` joins the workers of the set: one of another set on the same queue may still leave the FIFO of a freed rank (`FreedQuiescent` claims the rest) |
| `dpu_thread_job.c:457` | a job that fails between the test of `job_error` and the queueing of `dpu_sync`: the error is returned by the next call only |
| `dpu_management.c:357` | one job slot per rank: a synchronous call waits for ever for its second (`NrJobsAssumption` excludes it) |
| `dpu_polling.c:284` | after a failed poll `dpu_sync_dpu` waits for ever: it does not look at `poll_status` |
| `ufi_debug.c:297`, `:325`, `:332` | the faults read at attach are reduced to 0 or 1 and then tested with the mask of the DPU: they are seen for the first DPU of a CI only (`hw.member = 0`). For the others a session forgets the fault, clears it and skips the faulting instruction (`SessionRestores` excepts them) |
| `ufi_debug.c:369-373` | the thread of a DMA fault is stored as that of the memory fault too |
| `ufi_debug.c:430` | a FAULT kept by a session is not in `error_storage`: a second session clears it and the DPU meets the instruction again |
| `ufi_debug.c:677` | a thread that a step has stopped has a stale pc in the context, to which a register dump sends it back |
| `dpu_debug.c:240`, `dpu_checkpoint.c:32` | a context made for a checkpoint has all threads at position 0: those that do not run displace the first one that does when the session puts them back (`SessionRestores` excepts it), and their pcs are not read |
| `ufi_memory.c:280` | the scan for mux conflicts stops early and the assertion on conflicts can fail |
| `ufi_config.c:1428` | the mux record is not corrected after a failed command |
| `xeon_sp_translation.c:967`, `:978`, `hw_dpu_rank.c:527` | a pool that cannot be created is reported by a positive number, which is not taken for an error: the rank is up with it, its transfers wait or move some lines only (`Lose` in `MramXfer`) |
| `xeon_sp_translation.c:183-209` | the AVX-512 VBMI interleaving, which nothing calls, is another function than the others |
| `xeon_sp_translation.c:829`, `:954` | ranks of a channel with different thread numbers, or zero threads: lines are not copied (`UniformPoolsAssumption`, `ConfAssumption` exclude it); a channel number equal to `MAX_NB_CHANNEL` |
| `api/dpu_memory.c:497-569` | error returns of a scatter/gather job leave blocks in the pool and do not release the arguments; nor do the jobs thrown away behind a failing one (`dpu_thread_job.c:309-332`), or a refused call (`lost`) |
| `api/dpu_memory.c:801` | `DPU_XFER_NO_RESET` together with `DPU_XFER_ASYNC` clears the matrix |
| `xeon_sp_translation.c:503-521` | a read whose last block ends inside a word stores into the shared padding |
| `ufi.c:1233`, `ufi_ci.c:300`, `:493` | the structure cache survives a reset command, so that after a failed write of a structure the reset sends a selection that is not decoded (`fault_decode` stays set); one bit of colour; the test that all CIs are done |
| `ufi_ci.c:251` | the groups of all CIs are taken for reset, those of a CI without an enabled DPU are not: `CachesAgree` and the group calls of `CallReaches` leave such CIs out |
| `ufi_config.c:1003-1043`, `:215`, `:341` | a failed reset leaves all DPUs enabled; statuses that are ignored |
| `dpu_rank_handler_allocator.c:407-417` | the handler may be unloaded between the look-up and the increment (`:140-152`) of another thread (`spoiled`) |
| `dpu_rank_handler_allocator.c:336` | a device without a usable DPU is found first again by every call: the devices after it are out of reach (`AllocServes` says so) |
| `dpu_set.c:1133`, `:1183`, `:1198` | `dpu_alloc_comm` for everything stops at the first rank with a disabled DPU, because the sum of `DPU_ALLOCATE_ALL` and the DPUs it will give back wraps around; when it is the first rank, none is kept and `assert(rank_count > 0)` (`:935`) fails. With `dispatchOnAllRanks` it counts DPUs that it gives back, and cuts its array to fewer ranks than it keeps. Such a call is `Stopped`: it makes no further step in the model |
| `dpu_set.c:1105` | the array of `dpu_alloc_comm` has 40 entries, for up to 64 ranks: the model is of hosts with 40 at most |
| `dpu_set.c:518-524` | `dpu_alloc_ranks` loses the rank whose reset fails (`lost`) |
| `dpu_set.c:471-475`, `dpu_management.c:342-400` | errors found late in a profile free ranks that stay in a set, or listed and open (`spoiled`) |
| `dpu_set.c:1262` | `DPU_FOREACH_ENTANGLED_GROUP` sees a DPU twice when DPU 0 is disabled |
| `hw_dpu_rank.c:1226`, `:1453` | all-to-all with a first axis below 8 moves nothing; all-gather below 8 over several groups is not the collective |
| `hw_dpu_rank.c` (`_22` threads) | reductions over both of axes 2 and 3 of a 2 x 2 x 2 x 2 cube leave the cube |
| `api/dpu_memory.c:1203`, `:1342`, `:1594` | loops ended by a comma expression read past the dimension |

## 6. Plan

Done: every component of section 1 except the last row (partly where section 5 says so). Left, in this order:

1. `CachesAgree` of `Ufi` for any script;
2. `OneCarrier` without `NoParking`, and the sync objects in programs with callbacks; an abstract specification of the job
   engine (per rank, jobs run once, in order) and the refinement from `ThreadJob`;
3. `AllocExact` of `SetAlloc` for any number of ranks.
