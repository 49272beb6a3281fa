----------------------------- MODULE LbrDevice -----------------------------
(***************************************************************************)
(* The LBR character device of module_lbr_chardev: start_function,         *)
(* device_ioctl (disable this CPU's LBR, dump it with read_lbr, reset the  *)
(* byte index, wake per-CPU kthreads that re-enable it), device_read (copy *)
(* bytes of the dump from the shared index), end_function, and the kthreads *)
(* running enable_LBR / disable_LBR.  Clients are user processes that do   *)
(* what LbrReader and the testers do: branch, ioctl, then LbrCount reads of *)
(* one record each, ignoring the byte count read() returns.                *)
(*                                                                         *)
(* Nothing in the module takes a lock: lbr_data and lbr_data_index are     *)
(* plain globals, and `lbr_data_index++` is a load and a separate store.   *)
(***************************************************************************)
EXTENDS Integers, FiniteSets

CONSTANTS
    Clients,        \* user processes holding the device open
    Cpus,           \* CPUs the clients run on
    LbrCount,       \* entries of the LBR ring (lbr_count, 32 on Skylake)
    RecBytes,       \* bytes of one struct lbr_data (32)
    Branches,       \* source addresses of the branches clients take
    KmallocResults, \* what kmalloc in start_function may return: "buffer", "NULL"
    MaxBranches,    \* bound: taken branches per client between two ioctls
    MaxRounds       \* bound: ioctl + read rounds per client

ASSUME /\ LbrCount \in Nat \ {0} /\ RecBytes \in Nat \ {0}
       /\ Branches \subseteq Nat \ {0}
       /\ KmallocResults \subseteq {"buffer", "NULL"} /\ KmallocResults # {}

VARIABLES
    lbrOn,    \* per CPU: IA32_DEBUGCTL.LBR set
    ring,     \* per CPU: the LBR MSR stack, slot -> entry
    tos,      \* per CPU: MSR_LBR_TOS, slot of the most recent entry
    lbrPtr,   \* the lbr_data pointer: "buffer", "NULL" (kmalloc failed), "freed"
    lbrData,  \* the dump buffer it points to, record -> entry
    index,    \* lbr_data_index, a byte offset
    pending,  \* woken kthreads that have not run: <<cpu, "enable"|"disable">>
    loaded,   \* the module is loaded
    pc, cpu, k, local, got, taken, round, buf, snap, oops

vars == <<lbrOn, ring, tos, lbrPtr, lbrData, index, pending, loaded,
          pc, cpu, k, local, got, taken, round, buf, snap, oops>>

Slots == 0 .. LbrCount - 1
Size == LbrCount * RecBytes            \* lbr_data_size
Stale == 0                             \* an entry recorded before the run
Junk == -1                             \* uninitialised memory
Entry == Branches \cup {Stale, Junk}
Byte == [rec : Entry, off : 0 .. RecBytes - 1]
JunkByte == [rec |-> Junk, off |-> 0]

\* A fourth kthread never created.
KthreadCpusThree == 0 .. 2

\* kthread_bind(ts1..ts4, 0..3) in all_enable_LBR / all_disable_LBR.
KthreadCpus == 0 .. 3

\* Byte j of lbr_data: byte j % RecBytes of record j \div RecBytes.
ByteAt(data, j) == [rec |-> data[j \div RecBytes], off |-> j % RecBytes]

\* read_lbr: i starts at the TOS, o at lbr_count-1; each read_next() copies
\* slot i into data[o] and advances both modulo lbr_count.
ReadLbrSlot(t, n) == (t + n) % LbrCount
\* o starting at 0 instead of lbr_count-1.
ReadLbrOutFromZero(n) == n % LbrCount

ReadLbrOut(n) == (LbrCount - 1 + n) % LbrCount

\* all_enable_LBR / all_disable_LBR: one kthread per bound CPU, all woken
\* (the kthreads of CPUs no client runs on change nothing observed here).
WakeAll(op) == pending \cup ((KthreadCpus \cap Cpus) \X {op})

Init ==
    /\ lbrOn = [p \in Cpus |-> FALSE]
    /\ ring = [p \in Cpus |-> [s \in Slots |-> Stale]]
    /\ tos \in [Cpus -> Slots]
    /\ lbrPtr \in KmallocResults
    /\ lbrData = [s \in Slots |-> Junk]
    /\ index = 0
    /\ pending = (KthreadCpus \cap Cpus) \X {"enable"}
    /\ loaded = TRUE
    /\ pc = [c \in Clients |-> "user"]
    /\ cpu \in [Clients -> Cpus]
    /\ k = [c \in Clients |-> 0]
    /\ local = [c \in Clients |-> 0]
    /\ got = [c \in Clients |-> 0]
    /\ taken = [c \in Clients |-> 0]
    /\ round = [c \in Clients |-> 0]
    /\ buf = [c \in Clients |-> [j \in 0 .. Size - 1 |-> JunkByte]]
    /\ snap = [c \in Clients |-> [s \in Slots |-> Junk]]
    /\ oops = "none"

\* The ring of CPU p oldest entry first: the slot after the TOS is the oldest.
Chronological(p) == [n \in Slots |-> ring[p][(tos[p] + 1 + n) % LbrCount]]

Goto(c, l) == pc' = [pc EXCEPT ![c] = l]

\* A taken user-mode branch on the client's CPU; it is recorded only while
\* DEBUGCTL.LBR is set (LBR_SELECT = 1 filters out ring-0 branches).
BranchTaken(c, b) ==
    /\ pc[c] = "user" /\ taken[c] < MaxBranches
    /\ taken' = [taken EXCEPT ![c] = @ + 1]
    /\ LET p == cpu[c] IN
       IF lbrOn[p]
       THEN /\ tos' = [tos EXCEPT ![p] = (@ + 1) % LbrCount]
            /\ ring' = [ring EXCEPT ![p][(tos[p] + 1) % LbrCount] = b]
       ELSE UNCHANGED <<tos, ring>>
    /\ UNCHANGED <<lbrOn, lbrPtr, lbrData, index, pending, loaded, pc, cpu, k, local,
                   got, round, buf, snap, oops>>

\* The syscall of LbrReader::dump_lbr_inline enters device_ioctl, whose
\* first step is lbr_disable_inline() on the calling CPU.
IoctlDisable(c) ==
    /\ pc[c] = "user" /\ round[c] < MaxRounds
    /\ lbrOn' = [lbrOn EXCEPT ![cpu[c]] = FALSE]
    /\ snap' = [snap EXCEPT ![c] = Chronological(cpu[c])]
    /\ local' = [local EXCEPT ![c] = tos[cpu[c]]]
    /\ k' = [k EXCEPT ![c] = 0]
    /\ Goto(c, IF lbrPtr = "buffer" THEN "dump" ELSE "reset")
    /\ UNCHANGED <<ring, tos, lbrPtr, lbrData, index, pending, loaded, cpu, got,
                   taken, round, buf, oops>>

\* One read_next() of read_lbr inside dump_LBR; local holds the TOS it read.
IoctlDump(c) ==
    /\ pc[c] = "dump"
    /\ lbrData' = [lbrData EXCEPT ![ReadLbrOut(k[c])] =
                                     ring[cpu[c]][ReadLbrSlot(local[c], k[c])]]
    /\ k' = [k EXCEPT ![c] = @ + 1]
    /\ Goto(c, IF k[c] + 1 = LbrCount THEN "reset" ELSE "dump")
    /\ UNCHANGED <<lbrOn, ring, tos, lbrPtr, index, pending, loaded, cpu, local,
                   got, taken, round, buf, snap, oops>>

\* lbr_data_index = 0; all_enable_LBR(); return 0.  LbrReader::read_lbr
\* then issues its first read().
IoctlReturn(c) ==
    /\ pc[c] = "reset"
    /\ index' = 0
    /\ pending' = WakeAll("enable")
    /\ k' = [k EXCEPT ![c] = 0]
    /\ Goto(c, "rd_reset")
    /\ UNCHANGED <<lbrOn, ring, tos, lbrPtr, lbrData, loaded, cpu, local, got,
                   taken, round, buf, snap, oops>>

\* device_read, entry: if (lbr_data_index == lbr_data_size) lbr_data_index = 0.
ReadEnter(c) ==
    /\ pc[c] = "rd_reset"
    /\ index' = IF index = Size THEN 0 ELSE index
    /\ got' = [got EXCEPT ![c] = 0]
    /\ Goto(c, "rd_load")
    /\ UNCHANGED <<lbrOn, ring, tos, lbrPtr, lbrData, pending, loaded, cpu, k, local,
                   taken, round, buf, snap, oops>>

\* The loop test `length && lbr_data_index < lbr_data_size` and the load of
\* the index for `lbr_data_index++`; when the loop ends read() returns and
\* LbrReader::read_lbr goes on with the next record, whatever was read.
ReadLoad(c) ==
    /\ pc[c] = "rd_load"
    /\ IF got[c] < RecBytes /\ index < Size
       THEN /\ local' = [local EXCEPT ![c] = index]
            /\ Goto(c, "rd_store")
            /\ UNCHANGED <<k, round, taken>>
       ELSE /\ k' = [k EXCEPT ![c] = @ + 1]
            /\ IF k[c] + 1 = LbrCount
               THEN /\ round' = [round EXCEPT ![c] = @ + 1]
                    /\ taken' = [taken EXCEPT ![c] = 0]
                    /\ Goto(c, IF round[c] + 1 = MaxRounds THEN "closed" ELSE "user")
               ELSE /\ Goto(c, "rd_reset")
                    /\ UNCHANGED <<round, taken>>
            /\ UNCHANGED local
    /\ UNCHANGED <<lbrOn, ring, tos, lbrPtr, lbrData, index, pending, loaded, cpu, got,
                   buf, snap, oops>>

\* put_user(((char *)lbr_data)[i], buffer++) and the store of i + 1.
ReadStore(c) ==
    /\ pc[c] = "rd_store"
    /\ IF lbrPtr # "buffer"
       THEN /\ oops' = lbrPtr
            /\ Goto(c, "oops")
            /\ UNCHANGED <<buf, index, got>>
       ELSE /\ buf' = [buf EXCEPT ![c][k[c] * RecBytes + got[c]] =
                                       ByteAt(lbrData, local[c])]
            /\ index' = local[c] + 1
            /\ got' = [got EXCEPT ![c] = @ + 1]
            /\ Goto(c, "rd_load")
            /\ UNCHANGED oops
    /\ UNCHANGED <<lbrOn, ring, tos, lbrPtr, lbrData, pending, loaded, cpu, k, local,
                   taken, round, snap>>

\* A woken kthread runs enable_LBR or disable_LBR on the CPU it is bound to.
KthreadRun(p, op) ==
    /\ <<p, op>> \in pending
    /\ pending' = pending \ {<<p, op>>}
    /\ lbrOn' = [lbrOn EXCEPT ![p] = (op = "enable")]
    /\ UNCHANGED <<ring, tos, lbrPtr, lbrData, index, loaded, pc, cpu, k, local, got,
                   taken, round, buf, snap, oops>>

\* end_function: all_disable_LBR(), kfree(lbr_data) when it is not NULL,
\* unregister; it returns without waiting for the kthreads it woke.
EndFunction ==
    /\ loaded /\ \A c \in Clients : pc[c] = "closed"
    /\ pending' = WakeAll("disable")
    /\ lbrPtr' = IF lbrPtr = "NULL" THEN "NULL" ELSE "freed"
    /\ loaded' = FALSE
    /\ UNCHANGED <<lbrOn, ring, tos, lbrData, index, pc, cpu, k, local, got,
                   taken, round, buf, snap, oops>>

Next ==
    \/ \E c \in Clients :
          \/ \E b \in Branches : BranchTaken(c, b)
          \/ IoctlDisable(c) \/ IoctlDump(c) \/ IoctlReturn(c)
          \/ ReadEnter(c) \/ ReadLoad(c) \/ ReadStore(c)
    \/ \E p \in Cpus, op \in {"enable", "disable"} : KthreadRun(p, op)
    \/ EndFunction

\* A woken kthread is eventually scheduled on its CPU; clients may stop.
Fairness == \A p \in Cpus, op \in {"enable", "disable"} : WF_vars(KthreadRun(p, op))

Spec == Init /\ [][Next]_vars /\ Fairness

-----------------------------------------------------------------------------
\* After ioctl and LbrCount reads of one record each (LbrReader::read_lbr),
\* a client's buffer holds, byte for byte, the LBR of its CPU as it was
\* when device_ioctl disabled it, oldest entry first: read_lbr's index
\* arithmetic, the dump and the shared byte index all have to agree.
ReadReturnsSnapshot ==
    \A c \in Clients :
        (pc[c] \in {"user", "closed"} /\ round[c] > 0)
            => \A j \in 0 .. Size - 1 : buf[c][j] = ByteAt(snap[c], j)

\* Once a client's ioctl has returned, its CPU eventually records branches
\* again: the kthreads all_enable_LBR wakes re-enable what device_ioctl
\* disabled on the calling CPU.
RecordingResumes == \A c \in Clients : pc[c] = "rd_reset" ~> lbrOn[cpu[c]]
====
