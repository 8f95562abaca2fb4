---------------------------- MODULE SchedLatency -----------------------------
(***************************************************************************)
(* The wake-up latency tester (scheduler_latency/tester.c): a waker and a  *)
(* sleeper hand the turn to each other through two eventfds.  Each logs,   *)
(* in a TSC log of its own, the time before every write and after every    *)
(* read; write_times then subtracts the i-th entries of the two logs.      *)
(*                                                                         *)
(* The TSC is taken to be synchronous between CPUs, and is the number of   *)
(* entries logged so far: only the order of the time stamps matters here.  *)
(* Each log has one writer, so the compare-and-swap of tsc_buffer_reserve  *)
(* succeeds at once.                                                       *)
(***************************************************************************)
EXTENDS Integers, Sequences

CONSTANT count          \* wake-ups in each direction

ASSUME CountAssumption == count \in Nat

Thread == {"sleeper", "waker"}
Efd    == {1, 2}

VARIABLES pc,           \* per thread: its next call
          turns,        \* per thread: turns of its loop done
          efd,          \* kernel: counters of efd1 and efd2
          log,          \* per thread: its entries
          overflow,     \* per thread: hdr.info.overflow
          tsc

lvars == <<pc, turns, efd, log, overflow, tsc>>

\* init_logger: room for a read and a write of each turn.
Capacity == 2 * count

\* tsclog_1: an entry, or nothing but the mark when the log is full.
Logs(t, v) ==
    IF Len(log[t]) < Capacity
    THEN /\ log' = [log EXCEPT ![t] = Append(@, [value |-> v, tsc |-> tsc])]
         /\ tsc' = tsc + 1
         /\ UNCHANGED overflow
    ELSE /\ overflow' = [overflow EXCEPT ![t] = TRUE]
         /\ UNCHANGED <<log, tsc>>

\* for (i = 0; i < count; i++): the first call of the next turn, or the return.
NextTurn(t, first, n) == IF n < count THEN first ELSE "done"

LatencyInit ==
    /\ pc = [t \in Thread |-> IF t = "waker" THEN NextTurn(t, "add_write", 0)
                                             ELSE NextTurn(t, "read", 0)]
    /\ turns = [t \in Thread |-> 0]
    /\ efd = [f \in Efd |-> 0]
    /\ log = [t \in Thread |-> <<>>]
    /\ overflow = [t \in Thread |-> FALSE]
    /\ tsc = 0

-----------------------------------------------------------------------------
Goes(t, p)  == pc' = [pc EXCEPT ![t] = p]
Turn(t, first) ==
    /\ turns' = [turns EXCEPT ![t] = @ + 1]
    /\ Goes(t, NextTurn(t, first, turns[t] + 1))

\* read(efd): waits for the counter, and takes all of it.
Reads(f)  == efd[f] > 0 /\ efd' = [efd EXCEPT ![f] = 0]
Writes(f) == efd' = [efd EXCEPT ![f] = @ + 1]

\* sleeper: read, add_read, add_write, write.
Sleeper ==
    \/ /\ pc["sleeper"] = "read"
       /\ Reads(1)
       /\ Goes("sleeper", "add_read")
       /\ UNCHANGED <<turns, log, overflow, tsc>>
    \/ /\ pc["sleeper"] = "add_read"
       /\ Logs("sleeper", "READ")
       /\ Goes("sleeper", "add_write")
       /\ UNCHANGED <<turns, efd>>
    \/ /\ pc["sleeper"] = "add_write"
       /\ Logs("sleeper", "WRITE")
       /\ Goes("sleeper", "write")
       /\ UNCHANGED <<turns, efd>>
    \/ /\ pc["sleeper"] = "write"
       /\ Writes(2)
       /\ Turn("sleeper", "read")
       /\ UNCHANGED <<log, overflow, tsc>>

\* waker: add_write, write, read, add_read.  The variant logs the write
\* after it.
Waker_LogLate ==
    \/ /\ pc["waker"] = "add_write"
       /\ Writes(1)
       /\ Goes("waker", "write")
       /\ UNCHANGED <<turns, log, overflow, tsc>>
    \/ /\ pc["waker"] = "write"
       /\ Logs("waker", "WRITE")
       /\ Goes("waker", "read")
       /\ UNCHANGED <<turns, efd>>
    \/ /\ pc["waker"] = "read"
       /\ Reads(2)
       /\ Goes("waker", "add_read")
       /\ UNCHANGED <<turns, log, overflow, tsc>>
    \/ /\ pc["waker"] = "add_read"
       /\ Logs("waker", "READ")
       /\ Turn("waker", "add_write")
       /\ UNCHANGED efd
Waker ==
    \/ /\ pc["waker"] = "add_write"
       /\ Logs("waker", "WRITE")
       /\ Goes("waker", "write")
       /\ UNCHANGED <<turns, efd>>
    \/ /\ pc["waker"] = "write"
       /\ Writes(1)
       /\ Goes("waker", "read")
       /\ UNCHANGED <<turns, log, overflow, tsc>>
    \/ /\ pc["waker"] = "read"
       /\ Reads(2)
       /\ Goes("waker", "add_read")
       /\ UNCHANGED <<turns, log, overflow, tsc>>
    \/ /\ pc["waker"] = "add_read"
       /\ Logs("waker", "READ")
       /\ Turn("waker", "add_write")
       /\ UNCHANGED efd

\* run_one has joined both threads; short of that nobody may be left waiting.
Joined == (\A t \in Thread : pc[t] = "done") /\ UNCHANGED lvars

LatencyNext == Sleeper \/ Waker \/ Joined

LatencySpec == LatencyInit /\ [][LatencyNext]_lvars

-----------------------------------------------------------------------------
(* write_times *)

Entries == 1 .. (IF Len(log["sleeper"]) <= Len(log["waker"])
                 THEN Len(log["sleeper"]) ELSE Len(log["waker"]))

Latency(k) ==
    IF log["sleeper"][k].value = "READ"
    THEN log["sleeper"][k].tsc - log["waker"][k].tsc
    ELSE log["waker"][k].tsc - log["sleeper"][k].tsc

-----------------------------------------------------------------------------
(* Properties *)

LatencyTypeOK ==
    /\ pc \in [Thread -> {"read", "add_read", "add_write", "write", "done"}]
    /\ turns \in [Thread -> 0 .. count]
    /\ efd \in [Efd -> 0 .. 1]
    /\ log \in [Thread -> Seq([value : {"READ", "WRITE"}, tsc : Nat])]
    /\ overflow \in [Thread -> BOOLEAN]
    /\ tsc \in Nat

\* Each pair that write_times subtracts is one wake-up: a write of one thread,
\* and the very next thing that was logged, the read of the other; in
\* particular no latency is negative, which in a size_t would be huge.  And no
\* wake-up is missing for want of room in a log.
PairsAreWakeups ==
    /\ \A k \in Entries : /\ log["sleeper"][k].value # log["waker"][k].value
                          /\ Latency(k) = 1
    /\ \A t \in Thread : ~overflow[t]

=============================================================================
