------------------------------ MODULE CharDevice ------------------------------
(***************************************************************************)
(* The chat device /dev/chardev0 (Lab 3, ch_device.c) and the processes    *)
(* that use it (ch_test.c): one process per reader, which opens the device *)
(* read-only, loops on read and closes; one per writer, which loops on     *)
(* write.  Every access the driver makes OUTSIDE its semaphore is a step   *)
(* of its own, and an unlocked read-modify-write is a load and a store.    *)
(*                                                                         *)
(* Abstractions: a byte of the buffer is the number of the message it      *)
(* belongs to (0: a NUL, or never written); a message is its header (what  *)
(* the text before the body asks for) and the length of its body; the list *)
(* of reader nodes, one per open, is the set of their pids and changes in  *)
(* one step; the condition of the wait is evaluated in one step; the field *)
(* `length', which nothing reads, is left out.                             *)
(***************************************************************************)
EXTENDS Integers, FiniteSets

CONSTANTS
  Readers,    \* reader processes (their pids)
  Writers,    \* writer processes
  Closers,    \* the readers that may leave, by close() or SIGKILL
  Nobody,     \* pid 0: "no private chat"; "@0" addresses everybody
  Plain,      \* header of a message that does not begin with '@'
  Malformed,  \* header of an "@" that no digit follows
  Headers,    \* the headers the writers use
  MAXNUM,     \* size of the circular buffer
  Padding,    \* bytes between the buffer and the next field, rd (7 on 64 bits)
  Wild,       \* where rd may point once it has been overwritten with text
  MaxLen,     \* longest body a writer sends
  ReadLen,    \* the count the reader passes to read()
  MaxMsgs,    \* BOUND: calls of write()
  MaxFaults   \* BOUND: failures of kmalloc and of copies from or to user space

Procs == Readers \cup Writers

ASSUME CharDeviceAssumption ==
  /\ Readers \cap Writers = {}
  /\ Closers \subseteq Readers
  /\ Nobody \notin Readers /\ Plain \notin Readers \cup {Nobody}
  /\ Malformed \notin Readers \cup {Nobody, Plain}
  /\ Headers \subseteq Readers \cup {Nobody, Plain, Malformed}
  /\ MAXNUM \in Nat \ {0} /\ Padding \in Nat /\ Wild \subseteq Int
  /\ MaxLen \in Nat /\ ReadLen \in Nat
  /\ MaxMsgs \in Nat /\ MaxFaults \in Nat

VARIABLES
  sem, flag, buffer, rd, wr, private_chat_pid, read_count, total_readers,
  readers,           \* struct dev; rd and wr are offsets into the buffer
  pc, reg,           \* where each process is; a value it loaded without the lock
  count,             \* the local `len' of a reader, the bytes it copied
                     \* (reg and count go back to 0 once they are used)
  msg, sent,         \* the message a writer is sending; calls of write so far
  faults, strayUps,  \* failures so far; those that did an up() without a down()
  seen,              \* history: the messages each reader, until it leaves the list,
                     \* has copied bytes of
  addr,              \* history: the header of every message put in the buffer
  round              \* history: whether there is an undisturbed broadcast round,
                     \* and who has counted in it

ring   == <<buffer, rd, wr>>
people == <<total_readers, readers>>
sender == <<msg, sent, addr>>
errors == <<faults, strayUps>>
vars == <<sem, flag, ring, private_chat_pid, read_count, people, pc, reg, count,
          sender, errors, seen, round>>

Cells  == 0 .. MAXNUM - 1
WrapLate(i) == IF i > MAXNUM THEN 0 ELSE i  \* mutant: > for ==
Wrap(i) == IF i = MAXNUM THEN 0 ELSE i
Least(a, b) == IF a <= b THEN a ELSE b

ReaderPlaces == {"closed", "open_store", "open_add", "user", "spin_flag",
  "spin_count", "spin_down", "spin_up", "wait", "asleep", "read_down", "read_copy",
  "read_count", "count_store", "count_test", "count_decide", "finish", "finish_flag",
  "read_clear", "read_up", "killed", "rel_store", "rel_test", "rel_dec", "rel_list",
  "rel_last", "rel_clear", "rel_flag", "gone"}
WriterPlaces == {"user", "write_down", "write_check", "write_body", "overrun", "write_up",
                 "write_fail", "write_flag", "write_wake"}

\* A reader that has copied, and has not yet moved rd or left it to others to do so.
Counting == {"read_count", "count_store", "count_test", "count_decide", "finish"}

\* The places between a successful down and its up.
Inside == Counting \cup {"spin_up", "read_copy", "finish_flag", "read_clear", "read_up",
           "write_check", "write_body", "overrun", "write_up", "write_fail"}
Holders == {p \in Procs : pc[p] \in Inside}

\* The places in the middle of open or release.
Moving == {"open_store", "open_add", "rel_store", "rel_test", "rel_dec",
           "rel_list", "rel_last", "rel_clear", "rel_flag"}

\* No body has yet been copied over the fields behind the buffer.  What the driver
\* does with the text in their place is undefined: no step is described then.
Intact == \A w \in Writers : pc[w] # "overrun"

Init ==
  /\ sem = 1 /\ flag = 0 /\ rd = 0 /\ wr = 0
  /\ buffer = [i \in Cells |-> 0]
  /\ private_chat_pid = Nobody
  /\ read_count = 0 /\ total_readers = 0 /\ readers = {}
  /\ pc = [p \in Procs |-> IF p \in Readers THEN "closed" ELSE "user"]
  /\ reg = [r \in Readers |-> 0] /\ count = [r \in Readers |-> 0]
  /\ msg = [w \in Writers |-> [id |-> 0, to |-> Plain, len |-> 0]] /\ sent = 0
  /\ faults = 0 /\ strayUps = 0
  /\ seen = [r \in Readers |-> {}]
  /\ addr = [m \in 1..MaxMsgs |-> Nobody]
  /\ round = [counted |-> {}, calm |-> FALSE]

Go(p, from, to) == pc[p] = from /\ Intact /\ pc' = [pc EXCEPT ![p] = to]
Down(p, from, to) == Go(p, from, to) /\ sem > 0 /\ sem' = sem - 1
Up(p, from, to) == Go(p, from, to) /\ sem' = sem + 1
Disturbed == [counted |-> {}, calm |-> FALSE]  \* ... or over

-----------------------------------------------------------------------------
(* globalvar_open and globalvar_release: no lock is taken.                 *)

Open(r) ==  \* total_readers++, first half
  /\ Go(r, "closed", "open_store")
  /\ reg' = [reg EXCEPT ![r] = total_readers]
  /\ round' = Disturbed
  /\ UNCHANGED <<sem, flag, ring, private_chat_pid, read_count, people, count,
                 sender, errors, seen>>

OpenStore(r) ==
  /\ Go(r, "open_store", "open_add")
  /\ total_readers' = reg[r] + 1
  /\ reg' = [reg EXCEPT ![r] = 0]
  /\ UNCHANGED <<sem, flag, ring, private_chat_pid, read_count, readers,
                 count, sender, errors, seen, round>>

OpenAdd(r) ==
  /\ Go(r, "open_add", "user")
  /\ readers' = readers \cup {r}
  /\ UNCHANGED <<sem, flag, ring, private_chat_pid, read_count, total_readers,
                 reg, count, sender, errors, seen, round>>

Release(r) ==  \* close(), or the exit of a killed process: total_readers--
  /\ r \in Closers
  /\ Go(r, "user", "rel_store") \/ Go(r, "killed", "rel_store")
  /\ reg' = [reg EXCEPT ![r] = total_readers]
  /\ round' = Disturbed
  /\ UNCHANGED <<sem, flag, ring, private_chat_pid, read_count, people, count,
                 sender, errors, seen>>

ReleaseStore(r) ==
  /\ Go(r, "rel_store", "rel_test")
  /\ total_readers' = reg[r] - 1
  /\ reg' = [reg EXCEPT ![r] = 0]
  /\ UNCHANGED <<sem, flag, ring, private_chat_pid, read_count, readers,
                 count, sender, errors, seen, round>>

ReleaseTest(r) ==  \* if(read_count!=0) read_count--: the test and the load
  /\ Go(r, "rel_test", IF read_count # 0 THEN "rel_dec" ELSE "rel_list")
  /\ reg' = [reg EXCEPT ![r] = read_count]
  /\ UNCHANGED <<sem, flag, ring, private_chat_pid, read_count, people, count,
                 sender, errors, seen, round>>

ReleaseDec(r) ==
  /\ Go(r, "rel_dec", "rel_list")
  /\ read_count' = reg[r] - 1
  /\ reg' = [reg EXCEPT ![r] = 0]
  /\ UNCHANGED <<sem, flag, ring, private_chat_pid, people,  count, sender,
                 errors, seen, round>>

ReleaseList(r) ==
  /\ Go(r, "rel_list", "rel_last")
  /\ readers' = readers \ {r}
  /\ seen' = [seen EXCEPT ![r] = {}]
  /\ UNCHANGED <<sem, flag, ring, private_chat_pid, read_count, total_readers,
                 reg, count, sender, errors, round>>

ReleaseLast(r) ==  \* if(total_readers==0)
  /\ Go(r, "rel_last", IF total_readers = 0 THEN "rel_clear" ELSE "gone")
  /\ UNCHANGED <<sem, flag, ring, private_chat_pid, read_count, people, reg,
                 count, sender, errors, seen, round>>

ReleaseClear(r) ==
  /\ Go(r, "rel_clear", "rel_flag")
  /\ read_count' = 0
  /\ UNCHANGED <<sem, flag, ring, private_chat_pid, people, reg, count, sender,
                 errors, seen, round>>

ReleaseFlag(r) ==
  /\ Go(r, "rel_flag", "gone")
  /\ flag' = 0
  /\ UNCHANGED <<sem, ring, private_chat_pid, read_count, people, reg, count, sender,
                 errors, seen, round>>

-----------------------------------------------------------------------------
(* globalvar_read.                                                         *)

Read(r) ==
  /\ Go(r, "user", "spin_flag")
  /\ UNCHANGED <<sem, flag, ring, private_chat_pid, read_count, people, reg,
                 count, sender, errors, seen, round>>

SpinFlag(r) ==  \* while(flag == 1 && ...
  /\ Go(r, "spin_flag", IF flag = 1 THEN "spin_count" ELSE "wait")
  /\ UNCHANGED <<sem, flag, ring, private_chat_pid, read_count, people, reg,
                 count, sender, errors, seen, round>>

SpinCountDropped(r) ==  \* mutant: no waiting for the round to end
  /\ Go(r, "spin_count", "wait")
  /\ UNCHANGED <<sem, flag, ring, private_chat_pid, read_count, people, reg,
                 count, sender, errors, seen, round>>

SpinCount(r) ==  \* ... && read_count != 0)
  /\ Go(r, "spin_count", IF read_count # 0 THEN "spin_down" ELSE "wait")
  /\ UNCHANGED <<sem, flag, ring, private_chat_pid, read_count, people, reg,
                 count, sender, errors, seen, round>>

SpinDown(r) ==
  /\ Down(r, "spin_down", "spin_up")
  /\ UNCHANGED <<flag, ring, private_chat_pid, read_count, people, reg, count,
                 sender, errors, seen, round>>

SpinUpForgotten(r) ==  \* mutant: the loop keeps the semaphore
  /\ Go(r, "spin_up", "spin_flag") /\ sem' = sem
  /\ UNCHANGED <<flag, ring, private_chat_pid, read_count, people, reg, count,
                 sender, errors, seen, round>>

SpinUp(r) ==
  /\ Up(r, "spin_up", "spin_flag")
  /\ UNCHANGED <<flag, ring, private_chat_pid, read_count, people, reg, count,
                 sender, errors, seen, round>>

\* The condition of wait_event_interruptible, evaluated without the lock.
Awaited(r) == flag # 0 /\ private_chat_pid \in {Nobody, r}

WaitTest(r) ==
  /\ Go(r, "wait", IF Awaited(r) THEN "read_down" ELSE "asleep")
  /\ UNCHANGED <<sem, flag, ring, private_chat_pid, read_count, people, reg,
                 count, sender, errors, seen, round>>

ReadDownIgnored(r) ==  \* mutant: the result of down_interruptible is not tested
  /\ Go(r, "read_down", "read_copy")
  /\ sem' = IF sem > 0 THEN sem - 1 ELSE sem
  /\ UNCHANGED <<flag, ring, private_chat_pid, read_count, people, reg, count,
                 sender, errors, seen, round>>

ReadDown(r) ==
  /\ Down(r, "read_down", "read_copy")
  /\ UNCHANGED <<flag, ring, private_chat_pid, read_count, people, reg, count,
                 sender, errors, seen, round>>

\* SIGKILL ends an interruptible wait: of wait_event, or of a down that blocks.
Interrupt(r) ==
  /\ r \in Closers
  /\ \/ Go(r, "asleep", "killed")
     \/ sem = 0 /\ (Go(r, "spin_down", "killed") \/ Go(r, "read_down", "killed"))
  /\ UNCHANGED <<sem, flag, ring, private_chat_pid, read_count, people, reg,
                 count, sender, errors, seen, round>>

\* (size_t): a negative difference becomes larger than every length.
AsSize(n) == IF n >= 0 THEN n ELSE ReadLen + MaxLen
Unread == AsSize(IF rd < wr THEN wr - rd ELSE MAXNUM - rd)
Span(len) == (rd .. rd + len - 1) \cap Cells

ReadCopy(r) ==
  LET len == Least(ReadLen, Unread) IN
  /\ Go(r, "read_copy", "read_count")
  /\ count' = [count EXCEPT ![r] = len]
  /\ seen' = [seen EXCEPT ![r] = @ \cup ({buffer[i] : i \in Span(len)} \ {0})]
  /\ UNCHANGED <<sem, flag, ring, private_chat_pid, read_count, people, reg,
                 sender, errors, round>>

ReadFault(r) ==  \* copy_to_user fails
  /\ faults < MaxFaults
  /\ Go(r, "read_copy", "read_up")
  /\ faults' = faults + 1
  /\ UNCHANGED <<sem, flag, ring, private_chat_pid, read_count, people, reg, count,
                 sender, strayUps, seen, round>>

CountBroadcast(r) ==  \* read_count++, first half: release changes it without the lock
  /\ private_chat_pid = Nobody
  /\ Go(r, "read_count", "count_store")
  /\ reg' = [reg EXCEPT ![r] = read_count]
  /\ UNCHANGED <<sem, flag, ring, private_chat_pid, read_count, people, count, sender,
                 errors, seen, round>>

\* A round begins at the first count; it is calm if nobody is opening or
\* leaving, total_readers is right and the message has been announced.
Settled == /\ flag = 1 /\ total_readers = Cardinality(readers)
           /\ \A q \in Readers : pc[q] \notin Moving
RoundOf(r) ==
  IF reg[r] = 0 THEN IF Settled THEN [counted |-> {r}, calm |-> TRUE] ELSE Disturbed
  ELSE IF round.calm THEN [round EXCEPT !.counted = @ \cup {r}] ELSE Disturbed

CountStore(r) ==
  /\ Go(r, "count_store", "count_test")
  /\ read_count' = reg[r] + 1
  /\ round' = RoundOf(r)
  /\ reg' = [reg EXCEPT ![r] = 0]
  /\ UNCHANGED <<sem, flag, ring, private_chat_pid, people, count, sender, errors, seen>>

CountTest(r) ==  \* if(read_count == total_readers): the load of read_count ...
  /\ Go(r, "count_test", "count_decide")
  /\ reg' = [reg EXCEPT ![r] = read_count]
  /\ UNCHANGED <<sem, flag, ring, private_chat_pid, read_count, people, count, sender,
                 errors, seen, round>>

CountDecide(r) ==  \* ... and of total_readers
  /\ Go(r, "count_decide", IF reg[r] = total_readers THEN "finish" ELSE "read_up")
  /\ reg' = [reg EXCEPT ![r] = 0]
  /\ count' = IF reg[r] = total_readers THEN count ELSE [count EXCEPT ![r] = 0]
  /\ UNCHANGED <<sem, flag, ring, private_chat_pid, read_count, people, sender, errors,
                 seen, round>>

FinishBroadcast(r) ==  \* the last reader: a spinner may see this, and flag still 1
  /\ Go(r, "finish", "finish_flag")
  /\ rd' = Wrap(rd + count[r])
  /\ read_count' = 0
  /\ round' = Disturbed
  /\ count' = [count EXCEPT ![r] = 0]
  /\ UNCHANGED <<sem, flag, buffer, wr, private_chat_pid, people, reg, sender,
                 errors, seen>>

FinishFlag(r) ==
  /\ Go(r, "finish_flag", "read_up")
  /\ flag' = 0
  /\ UNCHANGED <<sem, ring, private_chat_pid, read_count, people, reg, count, sender,
                 errors, seen, round>>

TakePrivate(r) ==
  /\ private_chat_pid # Nobody
  /\ Go(r, "read_count", "read_clear")
  /\ rd' = Wrap(rd + count[r])
  /\ flag' = 0
  /\ round' = Disturbed
  /\ count' = [count EXCEPT ![r] = 0]
  /\ UNCHANGED <<sem, buffer, wr, private_chat_pid, read_count, people, reg,
                 sender, errors, seen>>

ClearPrivate(r) ==
  /\ Go(r, "read_clear", "read_up")
  /\ private_chat_pid' = Nobody
  /\ UNCHANGED <<sem, flag, ring, read_count, people, reg, count, sender, errors,
                 seen, round>>

ReadUpForgotten(r) ==  \* mutant: read returns without its up
  /\ Go(r, "read_up", "user") /\ sem' = sem
  /\ UNCHANGED <<flag, ring, private_chat_pid, read_count, people, reg, count,
                 sender, errors, seen, round>>

ReadUp(r) ==
  /\ Up(r, "read_up", "user")
  /\ UNCHANGED <<flag, ring, private_chat_pid, read_count, people, reg, count,
                 sender, errors, seen, round>>

-----------------------------------------------------------------------------
(* globalvar_write.                                                        *)

Write(w) ==
  /\ sent < MaxMsgs
  /\ Go(w, "user", "write_down")
  /\ sent' = sent + 1
  /\ \E h \in Headers, n \in 0..MaxLen :
       msg' = [msg EXCEPT ![w] = [id |-> sent + 1, to |-> h, len |-> n]]
  /\ UNCHANGED <<sem, flag, ring, private_chat_pid, read_count, people, reg, count,
                 addr, errors, seen, round>>

\* kmalloc or copy_from_user fails before the down: up() all the same.
WriteFault(w) ==
  /\ sent < MaxMsgs /\ faults < MaxFaults
  /\ Go(w, "user", "user")
  /\ sent' = sent + 1
  /\ sem' = sem + 1
  /\ faults' = faults + 1 /\ strayUps' = strayUps + 1
  /\ UNCHANGED <<flag, ring, private_chat_pid, read_count, people, reg, count,
                 msg, addr, seen, round>>

WriteDown(w) ==
  /\ Down(w, "write_down", "write_check")
  /\ UNCHANGED <<flag, ring, private_chat_pid, read_count, people, reg, count,
                 sender, errors, seen, round>>

WriteInterruptUp(w) ==  \* mutant: the interrupted down is followed by an up
  /\ sem = 0
  /\ Up(w, "write_down", "user")
  /\ UNCHANGED <<flag, ring, private_chat_pid, read_count, people, reg, count,
                 sender, errors, seen, round>>

WriteInterrupt(w) ==
  /\ sem = 0
  /\ Go(w, "write_down", "user")
  /\ UNCHANGED <<sem, flag, ring, private_chat_pid, read_count, people, reg, count,
                 sender, errors, seen, round>>

Acceptable(to) == to \in {Plain, Nobody} \cup readers

WriteReject(w) ==  \* no digits after '@', or a pid that is no reader's
  /\ ~Acceptable(msg[w].to)
  /\ Go(w, "write_check", "write_fail")
  /\ UNCHANGED <<sem, flag, ring, private_chat_pid, read_count, people, reg, count,
                 sender, errors, seen, round>>

WriteGetUserFault(w) ==  \* get_user fails
  /\ faults < MaxFaults
  /\ Go(w, "write_check", "write_fail")
  /\ faults' = faults + 1
  /\ UNCHANGED <<sem, flag, ring, private_chat_pid, read_count, people, reg, count,
                 sender, strayUps, seen, round>>

WriteAccept(w) ==  \* the addressee may leave before the body is written
  /\ Acceptable(msg[w].to)
  /\ Go(w, "write_check", "write_body")
  /\ UNCHANGED <<sem, flag, ring, private_chat_pid, read_count, people, reg, count,
                 sender, errors, seen, round>>

Room == AsSize(IF rd <= wr THEN MAXNUM - wr ELSE rd - wr - 1)

\* private_chat_pid after the header: a plain message leaves it as it is.
ChatPidAsIs(to) == to  \* mutant: every header is stored
ChatPid(to) == IF to = Plain THEN private_chat_pid ELSE to

\* strcpy writes the whole body and its NUL, however little room there is; the
\* buffer has one byte more than MAXNUM.
Overruns(w) == wr + msg[w].len > MAXNUM + Padding

WriteBody(w) ==
  LET m == msg[w] IN
  /\ ~Overruns(w)
  /\ Go(w, "write_body", "write_up")
  /\ private_chat_pid' = ChatPid(m.to)
  /\ buffer' = [i \in Cells |->
       IF i \in wr .. wr + m.len - 1 THEN m.id
       ELSE IF i = wr + m.len THEN 0 ELSE buffer[i]]
  /\ wr' = Wrap(wr + Least(m.len, Room))
  /\ addr' = [addr EXCEPT ![m.id] = IF m.to = Plain THEN Nobody ELSE m.to]
  /\ round' = Disturbed
  /\ UNCHANGED <<sem, flag, rd, read_count, people, reg, count, msg, sent, errors,
                 seen>>

\* The copy goes on over rd (and with a longer body over wr, end, private_chat_pid,
\* the counters and the list of readers).
WriteOverrun(w) ==
  /\ Overruns(w)
  /\ Go(w, "write_body", "overrun")
  /\ rd' \in Wild
  /\ UNCHANGED <<sem, flag, buffer, wr, private_chat_pid, read_count, people, reg, count,
                 sender, errors, seen, round>>

WriteUpForgotten(w) ==  \* mutant: an error return without its up
  /\ \/ Up(w, "write_up", "write_flag")
     \/ Go(w, "write_fail", "user") /\ sem' = sem
  /\ UNCHANGED <<flag, ring, private_chat_pid, read_count, people, reg, count,
                 sender, errors, seen, round>>

WriteUp(w) ==
  /\ Up(w, "write_up", "write_flag") \/ Up(w, "write_fail", "user")
  /\ UNCHANGED <<flag, ring, private_chat_pid, read_count, people, reg, count,
                 sender, errors, seen, round>>

WriteFlag(w) ==
  /\ Go(w, "write_flag", "write_wake")
  /\ flag' = 1
  /\ UNCHANGED <<sem, ring, private_chat_pid, read_count, people, reg, count,
                 sender, errors, seen, round>>

WriteWakeNobody(w) ==  \* mutant: no wake_up
  /\ Go(w, "write_wake", "user")
  /\ UNCHANGED <<sem, flag, ring, private_chat_pid, read_count, people, reg, count,
                 sender, errors, seen, round>>

WriteWake(w) ==  \* every sleeper tests its condition again
  /\ Intact /\ pc[w] = "write_wake"
  /\ pc' = [p \in Procs |-> IF p = w THEN "user"
                            ELSE IF pc[p] = "asleep" THEN "wait" ELSE pc[p]]
  /\ UNCHANGED <<sem, flag, ring, private_chat_pid, read_count, people, reg, count,
                 sender, errors, seen, round>>

-----------------------------------------------------------------------------

OpenClose(r) ==
  \/ Open(r) \/ OpenStore(r) \/ OpenAdd(r)
  \/ Release(r) \/ ReleaseStore(r) \/ ReleaseTest(r) \/ ReleaseDec(r)
  \/ ReleaseList(r) \/ ReleaseLast(r) \/ ReleaseClear(r) \/ ReleaseFlag(r)

ReadStep(r) ==  \* what a reader inside read() does next by itself
  \/ SpinFlag(r) \/ SpinCount(r) \/ SpinDown(r) \/ SpinUp(r) \/ WaitTest(r)
  \/ ReadDown(r) \/ ReadCopy(r) \/ ReadFault(r)
  \/ CountBroadcast(r) \/ CountStore(r) \/ CountTest(r) \/ CountDecide(r)
  \/ FinishBroadcast(r) \/ FinishFlag(r) \/ TakePrivate(r) \/ ClearPrivate(r)
  \/ ReadUp(r)

WriteStep(w) ==
  \/ WriteDown(w) \/ WriteReject(w) \/ WriteGetUserFault(w) \/ WriteAccept(w)
  \/ WriteBody(w) \/ WriteOverrun(w) \/ WriteUp(w) \/ WriteFlag(w) \/ WriteWake(w)

Next ==
  \/ \E r \in Readers : OpenClose(r) \/ Read(r) \/ ReadStep(r) \/ Interrupt(r)
  \/ \E w \in Writers : Write(w) \/ WriteFault(w) \/ WriteInterrupt(w) \/ WriteStep(w)

Spec == Init /\ [][Next]_vars

\* A process that is inside a system call runs on; one blocked in down() gets the
\* semaphore at last, for waiters queue first in, first out; the reader of ch_test
\* opens the device and reads again as soon as a read returns.
Fairness ==
  /\ \A r \in Readers :
       /\ WF_vars(OpenClose(r) \/ Read(r) \/ ReadStep(r))
       /\ SF_vars(SpinDown(r)) /\ SF_vars(ReadDown(r))
  /\ \A w \in Writers : WF_vars(WriteStep(w)) /\ SF_vars(WriteDown(w))

FairSpec == Spec /\ Fairness
-----------------------------------------------------------------------------
(* What the device promises.                                               *)

TypeOK ==
  /\ sem \in Nat /\ flag \in {0, 1}
  /\ buffer \in [Cells -> 0..MaxMsgs] /\ rd \in Int /\ wr \in Int
  /\ private_chat_pid \in Readers \cup {Nobody}
  /\ read_count \in Int /\ total_readers \in Int /\ readers \subseteq Readers
  /\ pc \in [Procs -> ReaderPlaces \cup WriterPlaces]
  /\ \A r \in Readers : pc[r] \in ReaderPlaces
  /\ \A w \in Writers : pc[w] \in WriterPlaces
  /\ \A w \in Writers : pc[w] = "write_body" => msg[w].to # Malformed
  /\ reg \in [Readers -> Int] /\ count \in [Readers -> Nat]
  /\ msg \in [Writers -> [id : 0..MaxMsgs, to : Headers \cup {Plain}, len : 0..MaxLen]]
  /\ sent \in 0..MaxMsgs /\ faults \in Nat /\ strayUps \in Nat
  /\ seen \in [Readers -> SUBSET (1..MaxMsgs)]
  /\ addr \in [1..MaxMsgs -> Readers \cup {Nobody}]
  /\ round \in [counted : SUBSET Readers, calm : BOOLEAN]

\* The driver uses its semaphore as DeviceSemaphore says: every step takes one
\* permit, gives one back, does a stray up() or leaves them alone.
Semaphore == INSTANCE DeviceSemaphore
               WITH permits <- sem, holders <- Holders, stray <- strayUps
SemaphoreSpec == Semaphore!Spec

\* Whatever interleaves, is interrupted or fails, no permit of the semaphore is
\* lost (a return that forgets its up) and none appears except by the up() that
\* the two early error returns of globalvar_write do without a down():
\* sem + Cardinality(Holders) = 1 + strayUps.
SemaphoreConserved == Semaphore!Conserved

\* As long as no early error return has been taken, at most one process is
\* between its down and its up.
MutualExclusion == Semaphore!Exclusive

\* ... and until then, and until a body is copied over the fields behind the buffer,
\* the length a reader computed is still right when it advances rd by it, so neither
\* pointer ever leaves the circular buffer, whatever bodies are cut or wrapped.
PointersInBounds ==
  strayUps = 0 /\ Intact =>
    /\ rd \in Cells /\ wr \in Cells
    /\ \A r \in Readers : pc[r] \in Counting => rd + count[r] <= MAXNUM

\* What lies between rd and wr, in the order it will be read; empty if they are equal.
UnreadBytes == IF rd <= wr THEN wr - rd ELSE MAXNUM - rd + wr
Contents ==
  [k \in 0 .. UnreadBytes - 1 |-> buffer[IF rd + k < MAXNUM THEN rd + k ELSE rd + k - MAXNUM]]
\* A body that does not fill the ring and fits before its end.
Fits(len) == UnreadBytes + len < MAXNUM /\ wr + len <= MAXNUM

\* As long as no early error return has been taken, the ring is a queue of bytes: a
\* body that fits goes behind what is unread and leaves it as it was, and a read
\* that finds something takes away exactly what it copied, however many readers
\* and writers get between its length and its rd.
RingIsQueue ==
  [][strayUps = 0 =>
       /\ \A w \in Writers : WriteBody(w) /\ Fits(msg[w].len) =>
            Contents' = [k \in 0 .. UnreadBytes + msg[w].len - 1 |->
                           IF k < UnreadBytes THEN Contents[k] ELSE msg[w].id]
       /\ \A r \in Readers : (FinishBroadcast(r) \/ TakePrivate(r)) /\ rd # wr =>
            Contents' = [k \in 0 .. UnreadBytes - count[r] - 1 |-> Contents[k + count[r]]]]_vars

\* As long as no early error return has been taken, a broadcast round that nobody
\* disturbs (no open, close or write since its first count, the reader count right at
\* that point) ends only when every registered reader has copied every message whose
\* bytes are given up, although read_count and flag, by which the readers that have
\* counted are kept waiting, are read without the semaphore and not reset together.
CalmRoundDelivers ==
  [][strayUps = 0 =>
       \A r \in Readers :
         FinishBroadcast(r) /\ round.calm =>
           /\ round.counted = readers
           /\ \A q \in readers :
                {buffer[i] : i \in Span(count[r])} \ {0} \subseteq seen[q]]_vars

\* A reader sleeps in wait_event with its condition true only while a writer is
\* on its way to the wake_up.
NoLostWakeup ==
  \A r \in Readers : pc[r] = "asleep" /\ Awaited(r) =>
    \E w \in Writers : pc[w] = "write_wake"

\* A message addressed to one pid is never copied by another reader.
PrivateStaysPrivate ==
  \A r \in Readers : \A m \in seen[r] : addr[m] \in {Nobody, r}

\* A write never waits for the readers: it returns, even while readers that have
\* had the message spin on the semaphore.
WriteReturns == \A w \in Writers : pc[w] # "user" ~> pc[w] = "user"

\* A reader that has passed its wait comes back to its caller.
PassedWaitReturns ==
  \A r \in Readers :
    pc[r] \in Counting \cup {"read_down", "read_copy", "finish_flag", "read_clear", "read_up"}
      ~> pc[r] \in {"user", "killed"}

\* Every reader that is registered, and counted, when a broadcast is announced
\* gets it at last.
BroadcastReachesAll ==
  \A w \in Writers, m \in 1..MaxMsgs, r \in Readers :
    /\ pc[w] = "write_flag" /\ msg[w].id = m /\ msg[w].len > 0 /\ addr[m] = Nobody
    /\ r \in readers /\ total_readers = Cardinality(readers)
    /\ \A q \in Readers : pc[q] \notin Moving
    ~> m \in seen[r]
=============================================================================
