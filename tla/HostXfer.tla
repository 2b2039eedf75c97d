------------------------------ MODULE HostXfer ------------------------------
(* The memory operations of the host API: prepared and pushed transfers,     *)
(* broadcasts, single copies and scatter/gather transfers.                   *)
(*                                                                           *)
(* Memories are bytes; a byte is <<rank, dpu, index>> or <<0, buffer,        *)
(* index>>, so that a copy shows where it comes from, and Zero is the byte   *)
(* 0. Ranks and buffers are numbered from 1. A call on several ranks         *)
(* leaves one job on each; a rank takes its jobs in order (ThreadJob is      *)
(* about how). The first job that fails on a rank throws the others away,    *)
(* and the calls that follow are refused, until a synchronous call returns   *)
(* with the error.                                                           *)
(* Two threads use the API: the application, and the callback thread of a    *)
(* rank, which has a transfer matrix of its own.                             *)
EXTENDS Integers, FiniteSets, SequencesExt

CONSTANTS
  Ranks, NrDpus,      \* the DPUs of a rank are 0 .. NrDpus-1, in matrix order
  Enabled,            \* the pairs <<rank, dpu>> that are enabled
  Bufs,               \* the host buffers
  Sizes,              \* the bytes of each memory of a DPU
  Prepares, Pushes, Copies, \* the calls the threads make
  SgCalls,
  MaxNrBlocks,        \* blocks a DPU may have in a scatter/gather transfer
  RegionPerf,         \* the ranks whose region mode is PERF
  MaxOps              \* bound: calls of each thread

ASSUME RanksAssumption == IsFiniteSet(Ranks)

Dpus == 0 .. (NrDpus - 1)
Kinds == {"iram", "wram", "mram"}
NULL == 0
Zero == <<0, 0, 0>>
\* The block of zeros that pads a transfer; the code has 4096 bytes.
PadLength == 16

VARIABLES
  mem,        \* the memories of each DPU of each rank
  host,       \* the host buffers
  zeros,      \* the static array of zeros
  matrix,     \* api.matrix and api.callback_matrix of each rank
  sg_pool,    \* api.sg_buffer_pool: the blocks of each DPU
  jobs,       \* the jobs of each rank, in order
  job_error,  \* the ranks whose api.job_error is not DPU_OK
  sync,       \* the synchronous call the application waits in: its ranks,
              \* those that have yet to answer, whether one of them failed
  args,       \* freeing_refcpt of each scatter/gather call, 0 once freed
  status,     \* what the last job of each rank, or the last call, returned
  prepared,   \* history: buffers prepared and not yet taken by a transfer
  dropped,    \* history: <<t, r, d>> cleared by a push that sent nothing
  sg_failed,  \* history: the ranks where a scatter/gather job failed
  lost,       \* history: the scatter/gather calls with a job that was not done
  ops
memories == <<mem, host, zeros, sg_pool>>
queues == <<jobs, job_error, sync>>
history == <<prepared, dropped, sg_failed, lost>>
vars == <<memories, queues, matrix, args, status, history, ops>>

Threads == {"app", "callback"}
Empty == [d \in Dpus |-> NULL]
NoCall == [ranks |-> {}, todo |-> {}, failed |-> FALSE]

Init ==
  /\ mem = [r \in Ranks |-> [d \in Dpus |-> [k \in Kinds |->
              [i \in 0 .. (Sizes[k] - 1) |-> <<r, d, i>>]]]]
  /\ host = [b \in Bufs |-> [i \in 0 .. (Sizes["mram"] - 1) |-> <<0, b, i>>]]
  /\ zeros = [i \in 0 .. (PadLength - 1) |-> Zero]
  /\ matrix = [t \in Threads |-> [r \in Ranks |-> Empty]]
  /\ sg_pool = [r \in Ranks |-> [d \in Dpus |-> <<>>]]
  /\ jobs = [r \in Ranks |-> <<>>]
  /\ job_error = {} /\ sync = NoCall
  /\ args = <<>>
  /\ status = [r \in Ranks |-> "ok"]
  /\ prepared = [t \in Threads |-> [r \in Ranks |-> Empty]]
  /\ dropped = {} /\ sg_failed = {} /\ lost = {}
  /\ ops = [t \in Threads |-> 0]

\* A thread makes a call: the application when its last one has returned.
Count(t) ==
  /\ t = "app" => sync = NoCall
  /\ ops[t] < MaxOps /\ ops' = [ops EXCEPT ![t] = @ + 1]

-----------------------------------------------------------------------------
(* Symbols and addresses                                                     *)

\* IRAM_ALIGN, WRAM_ALIGN; MRAM addresses may have any alignment here.
Unit(kind) == CASE kind = "iram" -> 8 [] kind = "wram" -> 4 [] OTHER -> 1

\* CHECK_SYMBOL: a symbol is [kind, address, size].
CheckSymbol(s, offset, length) ==
  IF offset + length > s.size THEN "invalid symbol access"
  ELSE IF (s.address + offset) % Unit(s.kind) # 0 \/ length % Unit(s.kind) # 0
       THEN "invalid access"
  ELSE "ok"

\* MEMORY_SWITCH_AND_UPDATE_COPY_PARAMETERS: offset and size of the job, in
\* instructions, words or bytes.
Job(dir, s, offset, length, m, synchronous) ==
  [type |-> "copy", sync |-> synchronous, dir |-> dir, kind |-> s.kind, matrix |-> m,
   offset |-> (s.address + offset) \div Unit(s.kind), size |-> length \div Unit(s.kind)]

\* verify_iram_access, verify_wram_access, verify_mram_access_offset_and_size;
\* "empty" is the access of size 0 that returns at once.
Verify(kind, offset, size) ==
  LET limit == Sizes[kind] \div Unit(kind)
      aligned == kind = "mram" => size % 8 = 0 /\ offset % 8 = 0
  IN  CASE kind # "mram" /\ size = 0 -> "empty"
        [] ~aligned \/ ((kind = "mram" \/ size > 0) /\ (offset >= limit \/ offset + size > limit))
             -> "invalid access"
        [] OTHER -> "ok"

-----------------------------------------------------------------------------
(* Jobs                                                                      *)

\* The bytes [first, first + n) of memory kind of every DPU of the matrix.
Written(r, j) ==
  LET first == j.offset * Unit(j.kind)
      n == j.size * Unit(j.kind)
  IN  [d \in Dpus |->
        IF j.matrix[d] = NULL \/ <<r, d>> \notin Enabled THEN mem[r][d]
        ELSE [mem[r][d] EXCEPT ![j.kind] =
               [i \in DOMAIN @ |-> IF i \in first .. (first + n - 1)
                                   THEN host[j.matrix[d]][i - first] ELSE @[i]]]]

ReadBack(r, j) ==
  LET first == j.offset * Unit(j.kind)
      n == j.size * Unit(j.kind)
      from(b) == {d \in Dpus : j.matrix[d] = b /\ <<r, d>> \in Enabled}
  IN  [b \in Bufs |->
        IF from(b) = {} THEN host[b]
        ELSE LET d == CHOOSE x \in from(b) : \A y \in from(b) : y <= x
             IN  [i \in DOMAIN host[b] |-> IF i < n THEN mem[r][d][j.kind][first + i] ELSE host[b][i]]]

\* dpu_copy_to_mrams, dpu_copy_from_mrams and their IRAM and WRAM counterparts.
CopyJob(r, j) ==
  /\ status' = [status EXCEPT ![r] = LET v == Verify(j.kind, j.offset, j.size)
                                     IN  IF v = "empty" THEN "ok" ELSE v]
  /\ IF Verify(j.kind, j.offset, j.size) # "ok" THEN UNCHANGED <<mem, host>>
     ELSE IF j.dir = "to" THEN mem' = [mem EXCEPT ![r] = Written(r, j)] /\ UNCHANGED host
     ELSE host' = ReadBack(r, j) /\ UNCHANGED mem

\* DPU_THREAD_JOB_GET_JOBS: no job for a call on a rank with an error.
Refused(rs) == rs \cap job_error # {}

\* The calls put their job at the end of the list of each rank. A synchronous
\* one leaves a SYNC job behind each (here a mark on it) and waits for them.
Enqueue(rs, job) ==
  /\ jobs' = [r \in Ranks |-> IF r \in rs THEN Append(jobs[r], job[r]) ELSE jobs[r]]
  /\ sync' = IF \E r \in rs : job[r].sync
             THEN [ranks |-> rs, todo |-> rs, failed |-> FALSE] ELSE sync
  /\ UNCHANGED job_error

\* dpu_thread_job_wait_sync_job, then the end of dpu_thread_job_do_jobs.
SyncReturn ==
  /\ sync # NoCall /\ sync.todo = {}
  /\ job_error' = IF sync.failed THEN job_error \ sync.ranks ELSE job_error
  /\ sync' = NoCall
  /\ UNCHANGED <<memories, jobs, matrix, args, status, history, ops>>

-----------------------------------------------------------------------------
(* Prepared transfers. A target is [ranks, dpu]: a set of ranks when dpu is  *)
(* -1, one DPU of one rank otherwise.                                        *)

IsDpu(target) == target.dpu # -1
TargetRank(target) == CHOOSE r \in target.ranks : TRUE

\* dpu_transfer_matrix_add_dpu on every enabled DPU of the target.
Added(m, target, value) ==
  [r \in Ranks |-> [d \in Dpus |->
     IF r \in target.ranks /\ (IF IsDpu(target) THEN d = target.dpu ELSE <<r, d>> \in Enabled)
     THEN value ELSE m[r][d]]]

dpu_prepare_xfer(t, target, b) ==
  /\ Count(t)
  /\ IsDpu(target) => <<TargetRank(target), target.dpu>> \in Enabled
  /\ matrix' = [matrix EXCEPT ![t] = Added(@, target, b)]
  /\ prepared' = [prepared EXCEPT ![t] = Added(@, target, b)]
  /\ dropped' = {e \in dropped : e[1] = t /\ e[2] \in target.ranks => IsDpu(target) /\ e[3] # target.dpu}
  /\ UNCHANGED <<memories, queues, args, status, sg_failed, lost>>

\* DPU_XFER_NO_RESET is tested with !=, not as a flag.
ResetsUnlessAsync(flags) == flags = {}
Resets(flags) == flags # {"no_reset"}

\* dpu_transfer_matrix_clear_all, or clear_dpu for one DPU.
Cleared(m, target) ==
  [r \in Ranks |-> [d \in Dpus |->
     IF r \in target.ranks /\ (IsDpu(target) => d = target.dpu) THEN NULL ELSE m[r][d]]]

\* The matrix of the job: a copy of the prepared one, or one DPU alone
\* (dpu_copy_symbol_dpu).
PushMatrix(t, target, r) ==
  IF IsDpu(target) THEN [Empty EXCEPT ![target.dpu] = matrix[t][r][target.dpu]] ELSE matrix[t][r]

\* dpu_push_xfer_symbol. On a set of ranks, an invalid symbol or a refused call
\* returns before the matrix is cleared; on one DPU, after it. The callback
\* thread runs inside a job of its rank: its synchronous jobs run at once.
dpu_push_xfer_symbol(t, c) ==
  LET valid == CheckSymbol(c.symbol, c.offset, c.length) = "ok"
      disabled == IsDpu(c.target) /\ <<TargetRank(c.target), c.target.dpu>> \notin Enabled
      synchronous == "async" \notin c.flags
      at_once == t = "callback" /\ synchronous
      sent == valid /\ ~disabled /\ (at_once \/ ~Refused(c.target.ranks))
      job == [r \in c.target.ranks |->
                Job(c.dir, c.symbol, c.offset, c.length, PushMatrix(t, c.target, r), synchronous)]
  IN  /\ Count(t)
      /\ matrix' = [matrix EXCEPT ![t] =
                      IF Resets(c.flags) /\ (sent \/ IsDpu(c.target)) THEN Cleared(@, c.target) ELSE @]
      /\ prepared' = [prepared EXCEPT ![t] =
                        IF sent /\ "no_reset" \notin c.flags THEN Cleared(@, c.target) ELSE @]
      /\ dropped' = IF ~sent /\ IsDpu(c.target)
                    THEN dropped \cup {<<t, TargetRank(c.target), c.target.dpu>>} ELSE dropped
      /\ \/ /\ sent /\ at_once
            /\ CopyJob(TargetRank(c.target), job[TargetRank(c.target)])
            /\ UNCHANGED queues
         \/ /\ sent /\ ~at_once
            /\ Enqueue(c.target.ranks, job)
            /\ UNCHANGED <<mem, host, status>>
         \/ /\ ~sent
            /\ UNCHANGED <<mem, host, status, queues>>
      /\ UNCHANGED <<zeros, sg_pool, args, sg_failed, lost>>

\* dpu_broadcast_to, dpu_copy_to, dpu_copy_from: the same buffer for every
\* enabled DPU of the ranks, or for one DPU. A copy from a set of ranks is
\* refused.
dpu_copy(t, c) ==
  LET buffers == [d \in Dpus |-> IF IsDpu(c.target) => d = c.target.dpu THEN c.buffer ELSE NULL]
      job == [r \in c.target.ranks |->
                Job(c.dir, c.symbol, c.offset, c.length, buffers, "async" \notin c.flags)]
  IN  /\ Count(t)
      /\ c.dir = "from" => IsDpu(c.target)
      /\ IsDpu(c.target) => <<TargetRank(c.target), c.target.dpu>> \in Enabled
      /\ CheckSymbol(c.symbol, c.offset, c.length) = "ok"
      /\ ~Refused(c.target.ranks)
      /\ Enqueue(c.target.ranks, job)
      /\ UNCHANGED <<memories, matrix, args, status, history>>

-----------------------------------------------------------------------------
(* Scatter/gather: the blocks of the user's function, gathered by rank       *)

\* One block offered for a DPU: an accumulator is [status, pool, total].
AddBlock(acc, block, index, c) ==
  IF acc.status # "ok" THEN acc
  ELSE IF index > MaxNrBlocks THEN [acc EXCEPT !.status = "too many blocks"]
  ELSE IF block.length # 0 /\ c.check /\ acc.total >= c.length
       THEN [acc EXCEPT !.status = "length mismatch"]
  ELSE IF block.length = 0 THEN acc
  \* dpu_transfer_matrix_add_dpu_block
  ELSE IF Len(acc.pool) >= MaxNrBlocks THEN [acc EXCEPT !.status = "internal"]
  ELSE [acc EXCEPT !.pool = Append(@, block), !.total = @ + block.length]

\* The loop on the blocks of one DPU, then the test of the total.
AddDpu(pool, blocks, c) ==
  LET all == FoldLeft(LAMBDA acc, k : AddBlock(acc, blocks[k], k, c),
                      [status |-> "ok", pool |-> pool, total |-> 0],
                      [k \in 1 .. Len(blocks) |-> k])
  IN  IF all.status = "ok" /\ c.check /\ all.total # c.length
      THEN [all EXCEPT !.status = "length mismatch"] ELSE all

\* The loop on the enabled DPUs of the rank, which stops at the first error.
Gathered(r, c) ==
  FoldLeft(LAMBDA acc, d :
             IF acc.status # "ok" \/ <<r, d>> \notin Enabled THEN acc
             ELSE LET one == AddDpu(acc.pool[d], c.blocks[r][d], c)
                  IN  [status |-> one.status, pool |-> [acc.pool EXCEPT ![d] = one.pool]],
           [status |-> "ok", pool |-> sg_pool[r]],
           [k \in 1 .. NrDpus |-> k - 1])

(* The iterator on the blocks of a DPU: block nr_blocks + 1 is the padding.  *)
BlockLength(bs, k) == IF k = Len(bs) + 1 THEN PadLength ELSE bs[k].length
go_to_next_block(it, bs) ==
  [it EXCEPT !.index = 0, !.block = IF it.block = Len(bs) + 1 THEN @ ELSE @ + 1]
\* Where the next byte is: <<buffer, position>>; the iterator moves past it.
Place(it, bs) ==
  IF it.block = Len(bs) + 1 THEN <<NULL, it.index>>
  ELSE <<bs[it.block].buffer, bs[it.block].at + it.index>>
AdvancedLate(it, bs) ==
  IF it.index = BlockLength(bs, it.block) THEN go_to_next_block(it, bs) ELSE [it EXCEPT !.index = @ + 1]
Advanced(it, bs) ==
  IF it.index + 1 = BlockLength(bs, it.block) THEN go_to_next_block(it, bs)
  ELSE [it EXCEPT !.index = @ + 1]

\* get_next_eight_bytes and write_next_eight_bytes go through the same eight
\* places: inside the block, to its very end, or byte by byte across blocks.
Eight(it, bs) ==
  LET left == BlockLength(bs, it.block) - it.index
      run == [k \in 1 .. 8 |-> Place([it EXCEPT !.index = @ + k - 1], bs)]
      step(acc, k) == [it |-> Advanced(acc.it, bs), places |-> Append(acc.places, Place(acc.it, bs))]
  IN  CASE left > 8 -> [it |-> [it EXCEPT !.index = @ + 8], places |-> run]
        [] left = 8 -> [it |-> go_to_next_block(it, bs), places |-> run]
        [] OTHER -> FoldLeft(step, [it |-> it, places |-> <<>>], [k \in 1 .. 8 |-> k])

Nowhere == <<-1, 0>>

\* The places of the words of a transfer, in order; a word that would be
\* written with the iterator on the padding has none.
Words(bs, n, reading) ==
  FoldLeft(LAMBDA acc, k :
             IF reading /\ acc.it.block = Len(bs) + 1
             THEN [acc EXCEPT !.places = @ \o [j \in 1 .. 8 |-> Nowhere]]
             ELSE LET e == Eight(acc.it, bs)
                  IN  [it |-> e.it, places |-> acc.places \o e.places],
           [it |-> [block |-> 1, index |-> 0], places |-> <<>>],
           [k \in 1 .. n |-> k]).places

HostByte(place) == IF place[1] = NULL THEN zeros[place[2]] ELSE host[place[1]][place[2]]

\* threads_write_to_rank and threads_read_from_rank on a matrix of blocks:
\* the words of every DPU that has blocks.
SgWritten(r, words, c) ==
  [d \in Dpus |->
    IF words[d] = <<>> THEN mem[r][d]
    ELSE [mem[r][d] EXCEPT !["mram"] =
           [i \in DOMAIN @ |-> IF i \in c.offset .. (c.offset + c.length - 1)
                               THEN HostByte(words[d][i - c.offset + 1]) ELSE @[i]]]]

\* The last byte stored at a place, or what is there.
Stored(r, words, c, place, old) ==
  LET hits == {x \in Dpus \X (1 .. c.length) : words[x[1]] # <<>> /\ words[x[1]][x[2]] = place}
  IN  IF hits = {} THEN old
      ELSE LET h == CHOOSE x \in hits : \A y \in hits : y[1] < x[1] \/ (y[1] = x[1] /\ y[2] <= x[2])
           IN  mem[r][h[1]]["mram"][c.offset + h[2] - 1]

SgTransfer(r, pool, c) ==
  \E words \in {[d \in Dpus |-> IF pool[d] = <<>> THEN <<>>
                                ELSE Words(pool[d], c.length \div 8, c.dir = "from")]} :
    IF c.dir = "to"
    THEN mem' = [mem EXCEPT ![r] = SgWritten(r, words, c)] /\ UNCHANGED <<host, zeros>>
    ELSE /\ host' = [b \in Bufs |-> [i \in DOMAIN host[b] |-> Stored(r, words, c, <<b, i>>, host[b][i])]]
         /\ zeros' = [i \in DOMAIN zeros |-> Stored(r, words, c, <<NULL, i>>, zeros[i])]
         /\ UNCHANGED mem

\* sg_xfer_rank_handler. Every error returns before reset_sg_buffer_pool and
\* free_cb_args. A region that is not in PERF mode refuses the matrix.
sg_xfer_rank_handler(r, j) ==
  LET c == j.call
      g == Gathered(r, c)
      v == Verify("mram", c.offset, c.length)
      s == IF g.status # "ok" THEN g.status
           ELSE IF v # "ok" THEN v
           ELSE IF r \notin RegionPerf THEN "system error" ELSE "ok"
  IN  /\ status' = [status EXCEPT ![r] = s]
      /\ IF s = "ok"
         THEN /\ SgTransfer(r, g.pool, c)
              /\ sg_pool' = [sg_pool EXCEPT ![r] =
                               [d \in Dpus |-> IF <<r, d>> \in Enabled THEN <<>> ELSE @[d]]]
              /\ args' = [args EXCEPT ![j.id] = @ - 1]
              /\ UNCHANGED sg_failed
         ELSE /\ sg_pool' = [sg_pool EXCEPT ![r] = g.pool]
              /\ sg_failed' = sg_failed \cup {r}
              /\ UNCHANGED <<mem, host, zeros, args>>

\* The arguments of a call belong to all of its ranks.
freeing_refcpt_one == 1
freeing_refcpt == Cardinality(Ranks)

\* dpu_push_sg_xfer_symbol: a set of ranks, an MRAM symbol, the arguments
\* shared by the callbacks of the ranks. They are allocated before
\* dpu_callback, which may refuse the call.
dpu_push_sg_xfer_symbol(t, c) ==
  LET id == Len(args) + 1
      job == [r \in Ranks |-> [type |-> "sg", sync |-> ~c.async, call |-> c, id |-> id]]
  IN  /\ t = "app"
      /\ Count(t)
      /\ args' = Append(args, freeing_refcpt)
      /\ \/ ~Refused(Ranks) /\ Enqueue(Ranks, job) /\ UNCHANGED lost
         \/ Refused(Ranks) /\ UNCHANGED queues /\ lost' = lost \cup {id}
      /\ UNCHANGED <<memories, matrix, status, prepared, dropped, sg_failed>>

\* The ranks that have yet to run their job of scatter/gather call k.
Pending(k) ==
  {r \in Ranks : \E n \in DOMAIN jobs[r] : jobs[r][n].type = "sg" /\ jobs[r][n].id = k}

\* dpu_thread_update_status: rank r throws away its jobs, the one that failed
\* and those behind it; a SYNC job among them still answers.
dpu_thread_update_status(r) ==
  /\ job_error' = job_error \cup {r}
  /\ jobs' = [jobs EXCEPT ![r] = <<>>]
  /\ sync' = IF \E n \in DOMAIN jobs[r] : jobs[r][n].sync
             THEN [sync EXCEPT !.todo = @ \ {r}, !.failed = TRUE] ELSE sync
  /\ lost' = lost \cup {k \in DOMAIN args : r \in Pending(k)}

\* dpu_thread_advance_to_next_job, and the SYNC job behind the one just done.
dpu_thread_advance_to_next_job(r) ==
  /\ jobs' = [jobs EXCEPT ![r] = Tail(@)]
  /\ sync' = IF Head(jobs[r]).sync THEN [sync EXCEPT !.todo = @ \ {r}] ELSE sync
  /\ UNCHANGED <<job_error, lost>>

RunJob(r) ==
  /\ jobs[r] # <<>>
  /\ \/ /\ Head(jobs[r]).type = "copy"
        /\ CopyJob(r, Head(jobs[r]))
        /\ UNCHANGED <<zeros, sg_pool, args, sg_failed>>
     \/ /\ Head(jobs[r]).type = "sg"
        /\ sg_xfer_rank_handler(r, Head(jobs[r]))
  /\ IF status'[r] = "ok" THEN dpu_thread_advance_to_next_job(r) ELSE dpu_thread_update_status(r)
  /\ UNCHANGED <<matrix, prepared, dropped, ops>>

-----------------------------------------------------------------------------
\* A callback uses the rank it was called for.
Own(t, target) == t = "callback" => Cardinality(target.ranks) = 1

Next ==
  \/ \E t \in Threads :
       \/ \E p \in Prepares : Own(t, p.target) /\ dpu_prepare_xfer(t, p.target, p.buffer)
       \/ \E c \in Pushes : Own(t, c.target) /\ dpu_push_xfer_symbol(t, c)
       \/ \E c \in Copies : t = "app" /\ dpu_copy(t, c)
       \/ \E c \in SgCalls : dpu_push_sg_xfer_symbol(t, c)
  \/ \E r \in Ranks : RunJob(r)
  \/ SyncReturn

Spec == Init /\ [][Next]_vars

-----------------------------------------------------------------------------
(* Properties                                                                *)

\* Matrices name buffers, the pools stay inside their bound, the arguments of
\* a scatter/gather call are released at most once by each rank.
TypeOK ==
  /\ matrix \in [Threads -> [Ranks -> [Dpus -> Bufs \cup {NULL}]]]
  /\ \A r \in Ranks, d \in Dpus, k \in Kinds :
       mem[r][d][k] \in [0 .. (Sizes[k] - 1) -> (Ranks \cup {0}) \X (Dpus \cup Bufs \cup {0}) \X (0 .. (Sizes["mram"] - 1))]
  /\ \A r \in Ranks, d \in Dpus : Len(sg_pool[r][d]) <= MaxNrBlocks
  /\ \A k \in DOMAIN args : args[k] \in 0 .. Cardinality(Ranks)
  /\ DOMAIN zeros = 0 .. (PadLength - 1)

\* A matrix holds what its own thread prepared and no transfer has taken:
\* nothing prepared by the other thread, nothing that was already sent, and
\* nothing lost but to a push to that one DPU that failed before it sent
\* anything, as long as no flag comes with DPU_XFER_NO_RESET
\* (dpu_prepare_xfer, dpu_push_xfer_symbol).
MatrixIsPrepared ==
  \A t \in Threads, r \in Ranks, d \in Dpus :
    <<r, d>> \in Enabled =>
      \/ matrix[t][r][d] = prepared[t][r][d]
      \/ matrix[t][r][d] = NULL /\ <<t, r, d>> \in dropped

\* The job of a scatter/gather call on rank r ends well in this step.
SgDone(r) ==
  /\ jobs[r] # <<>> /\ jobs'[r] = Tail(jobs[r])
  /\ Head(jobs[r]).type = "sg" /\ status'[r] = "ok"

\* Reference: byte k of the concatenation of the blocks is <<buffer, at>>.
Concat(bs) == FlattenSeq([k \in 1 .. Len(bs) |->
                            [i \in 1 .. bs[k].length |-> <<bs[k].buffer, bs[k].at + i - 1>>]])

\* A scatter/gather transfer moves the concatenation of the blocks: to a DPU,
\* padded with zeros up to the length; from a DPU, into the blocks and nowhere
\* else. The rank had no failed scatter/gather call before, which leaves
\* blocks behind (sg_xfer_rank_handler, sg_xfer_buffer_iterator).
SgExact ==
  [][\A r \in Ranks :
       SgDone(r) /\ r \notin sg_failed =>
         LET c == Head(jobs[r]).call
         IN  \A d \in Dpus :
               LET all == IF <<r, d>> \in Enabled THEN Concat(c.blocks[r][d]) ELSE <<>>
               IN  all # <<>> =>
                     \A i \in 0 .. (c.length - 1) :
                       IF c.dir = "to"
                       THEN mem'[r][d]["mram"][c.offset + i] =
                              IF i < Len(all) THEN host[all[i + 1][1]][all[i + 1][2]] ELSE Zero
                       ELSE i < Len(all) =>
                              host'[all[i + 1][1]][all[i + 1][2]] = mem[r][d]["mram"][c.offset + i]]_vars

\* The arguments of a scatter/gather call are freed exactly when every rank has
\* run its job with success: never while a rank may still read them, and never
\* if the call was refused, a rank failed, or a rank threw its job away because
\* one before it had failed (freeing_refcpt, dpu_thread_update_status).
ArgsLive ==
  \A k \in DOMAIN args : args[k] = 0 <=> Pending(k) = {} /\ k \notin lost
=============================================================================
