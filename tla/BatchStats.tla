----------------------------- MODULE BatchStats ------------------------------
(***************************************************************************)
(* The completion-batch statistics of libupcall.  Each worker counts into  *)
(* a slot of its own, without locks; a monitor thread writes the changes   *)
(* of every interval to a CSV file, and obeys the reset of the control     *)
(* file.  A ++ of a counter is a load and a store: that nobody else writes *)
(* the counter in between is what the design rests on.  (The dump of the   *)
(* control file only reads, and is left out.)                              *)
(***************************************************************************)
EXTENDS Integers, Sequences, FiniteSets

CONSTANTS N,                    \* g_nr_workers
          batch_sz,
          UPCALL_TIME_BUCKETS,
          PerLine,              \* counters in a cache line
          MaxBatches,           \* BOUND: batches of each worker
          MaxNs,                \* BOUND: length of an interval of time
          MaxTicks,             \* BOUND: intervals of the monitor
          MaxResets             \* BOUND: resets it is told to do

ASSUME StatsAssumption ==
    /\ N \in Nat \ {0} /\ batch_sz \in Nat
    /\ UPCALL_TIME_BUCKETS \in Nat \ {0} /\ PerLine \in Nat \ {0}
    /\ MaxBatches \in [0 .. N - 1 -> Nat] /\ MaxNs \in Nat /\ MaxTicks \in Nat /\ MaxResets \in Nat

Id               == 0 .. N - 1
g_batch_hist_len == batch_sz + 1
g_time_hist_len  == UPCALL_TIME_BUCKETS

\* The counters of a slot, rounded up to whole cache lines.
Counters == 1 + g_batch_hist_len + 2 * g_time_hist_len
g_batch_stride == ((Counters + PerLine - 1) \div PerLine) * PerLine

Cell == 0 .. N * g_batch_stride - 1

\* my_batch_slot; the variant gives all workers one slot.
slot_Shared(i) == 0
slot(i)        == i * g_batch_stride

VARIABLES
    stats,      \* g_batch_stats
    prev,       \* the monitor's copy
    todo,       \* per worker: the counters it still has to increment
    reg,        \* per worker: the value loaded for the first of them, or None
    batches,    \* per worker: batches done
    mpc, pos,   \* the monitor: "sleep", "print", "copy" or "ctl", and its cell
    ticks, resets,
    counted,    \* history: increments of a cell since the last reset
    reported    \* history: sum of the deltas printed since the last reset

wvars == <<todo, reg, batches>>
mvars == <<prev, mpc, pos, ticks, resets, reported>>
svars == <<stats, prev, todo, reg, batches, mpc, pos, ticks, resets, counted, reported>>

None == -1
Zero == [c \in Cell |-> 0]

StatsInit ==
    /\ stats = Zero /\ prev = Zero /\ counted = Zero /\ reported = Zero
    /\ todo = [i \in Id |-> <<>>]
    /\ reg = [i \in Id |-> None]
    /\ batches = [i \in Id |-> 0]
    /\ mpc = "sleep" /\ pos = 0 /\ ticks = 0 /\ resets = 0

-----------------------------------------------------------------------------
(* A worker *)

\* 63 - __builtin_clzll(d), the number of powers 2^k, 0 < k, up to d; and 0 for 0
Log2(d) == Cardinality({ k \in 1 .. d : 2^k <= d })

\* The bucket of a time; the variant clamps one too late.
TimeBucket_OffByOne(d) ==
    IF Log2(d) > g_time_hist_len THEN g_time_hist_len - 1 ELSE Log2(d)
TimeBucket(d) ==
    IF Log2(d) >= g_time_hist_len THEN g_time_hist_len - 1 ELSE Log2(d)

SizeBucket(ret) ==
    IF ret >= g_batch_hist_len THEN g_batch_hist_len - 1 ELSE ret

\* The counters for a batch of ret events, u ns after the one before and k ns
\* in the kernel; the first batch has no u (proc_start is 0).
Counts(i, ret, u, k) ==
    LET user   == slot(i) + 1 + g_batch_hist_len + TimeBucket(u)
        kernel == slot(i) + 1 + g_batch_hist_len + g_time_hist_len + TimeBucket(k)
        size   == slot(i) + 1 + SizeBucket(ret)
    IN  IF batches[i] = 0 THEN <<kernel, slot(i), size>> ELSE <<user, kernel, slot(i), size>>

Batch(i) ==
    /\ todo[i] = <<>>
    /\ batches[i] < MaxBatches[i]
    /\ batches' = [batches EXCEPT ![i] = @ + 1]
    /\ \E ret \in 0 .. batch_sz, u, k \in 0 .. MaxNs :
         todo' = [todo EXCEPT ![i] = Counts(i, ret, u, k)]
    /\ UNCHANGED <<stats, reg, counted, mvars>>

Load(i) ==
    /\ todo[i] # <<>> /\ reg[i] = None
    /\ reg' = [reg EXCEPT ![i] = stats[Head(todo[i])]]
    /\ UNCHANGED <<stats, todo, batches, counted, mvars>>

Store(i) ==
    /\ todo[i] # <<>> /\ reg[i] # None
    /\ stats' = [stats EXCEPT ![Head(todo[i])] = reg[i] + 1]
    /\ counted' = [counted EXCEPT ![Head(todo[i])] = @ + 1]
    /\ todo' = [todo EXCEPT ![i] = Tail(@)]
    /\ reg' = [reg EXCEPT ![i] = None]
    /\ UNCHANGED <<batches, mvars>>

-----------------------------------------------------------------------------
(* The monitor *)

Wake ==
    /\ mpc = "sleep" /\ ticks < MaxTicks
    /\ mpc' = "print" /\ pos' = 0 /\ ticks' = ticks + 1
    /\ UNCHANGED <<stats, prev, resets, counted, reported, wvars>>

\* One field of the row of the worker whose slot pos is in.
PrintField ==
    /\ mpc = "print"
    /\ reported' = [reported EXCEPT ![pos] = @ + (stats[pos] - prev[pos])]
    /\ IF pos % g_batch_stride = Counters - 1
       THEN mpc' = "copy" /\ pos' = pos - (Counters - 1)
       ELSE mpc' = mpc /\ pos' = pos + 1
    /\ UNCHANGED <<stats, prev, ticks, resets, counted, wvars>>

\* pv[k] = cur[k], for the whole slot, padding included; then the next worker.
CopyCell ==
    /\ mpc = "copy"
    /\ prev' = [prev EXCEPT ![pos] = stats[pos]]
    /\ pos' = (pos + 1) % (N * g_batch_stride)
    /\ mpc' = IF pos' = 0 THEN "ctl" ELSE IF pos' % g_batch_stride = 0 THEN "print" ELSE mpc
    /\ UNCHANGED <<stats, ticks, resets, counted, reported, wvars>>

\* The two memsets of a reset; the variant forgets the baseline.
Zeroed_KeepPrev == stats' = Zero /\ prev' = prev
Zeroed          == stats' = Zero /\ prev' = Zero

\* batch_ctl_poll: a new reset command, or nothing new.
CtlPoll ==
    /\ mpc = "ctl"
    /\ mpc' = "sleep"
    /\ \/ /\ resets < MaxResets
          /\ resets' = resets + 1
          /\ Zeroed
          /\ counted' = Zero /\ reported' = Zero
       \/ UNCHANGED <<stats, prev, resets, counted, reported>>
    /\ UNCHANGED <<pos, ticks, wvars>>

StatsNext ==
    \/ \E i \in Id : Batch(i) \/ Load(i) \/ Store(i)
    \/ Wake \/ PrintField \/ CopyCell \/ CtlPoll

StatsSpec == StatsInit /\ [][StatsNext]_svars

-----------------------------------------------------------------------------
(* Properties *)

StatsTypeOK ==
    /\ stats \in [Cell -> Nat] /\ prev \in [Cell -> Nat]
    /\ counted \in [Cell -> Nat] /\ reported \in [Cell -> Int]
    /\ todo \in [Id -> Seq(Cell)]
    /\ reg \in [Id -> Nat \cup {None}]
    /\ batches \in [Id -> Nat]
    /\ mpc \in {"sleep", "print", "copy", "ctl"} /\ pos \in Cell
    /\ ticks \in Nat /\ resets \in Nat

\* Without a reset no increment is lost although none is atomic ("Each worker
\* writes only its own cacheline-padded slot", upcall.c:69-70); and a batch is
\* counted as one batch, one size, one time in the kernel and, from the second
\* on, one time in user space: the histograms of a worker that is between two
\* batches add up.
Cells(i, from, len) == slot(i) + from .. slot(i) + from + len - 1
Marks(cells) == UNION { {c} \X (1 .. stats[c]) : c \in cells }
Histogram(i, from, len) == Cardinality(Marks(Cells(i, from, len)))
CountsAgree == resets = 0 =>
    /\ stats = counted
    /\ \A i \in Id : todo[i] = <<>> =>
         /\ Histogram(i, 1, g_batch_hist_len) = stats[slot(i)]
         /\ Histogram(i, 1 + g_batch_hist_len + g_time_hist_len, g_time_hist_len) = stats[slot(i)]
         /\ stats[slot(i)] > 0 =>
              Histogram(i, 1 + g_batch_hist_len, g_time_hist_len) = stats[slot(i)] - 1

\* A delta is never negative, that is, never a huge unsigned number: neither
\* between two intervals nor after a reset (upcall.c:360-361).
NoUnderflow == \A c \in Cell : prev[c] <= stats[c]

\* The deltas printed so far add up to the baseline that the next ones are
\* taken from ("deltas stay coherent", upcall.c:433): nothing goes unreported.
DeltasComplete == mpc \in {"sleep", "ctl"} => reported = prev

\* "reset: zero all counters" (upcall.c:357): after a reset the counters hold
\* what was counted since.
ResetZeroes == \A c \in Cell : stats[c] <= counted[c]

=============================================================================
