--------------------------- MODULE CharDeviceProofs ---------------------------
(* Theorems about CharDevice, for any number of processes, buffer size and  *)
(* bounds.                                                                   *)
EXTENDS CharDevice, FiniteSetTheorems, TLAPS

(***************************************************************************)
(* Type correctness.                                                       *)
(***************************************************************************)
Rounds == [counted : SUBSET Readers, calm : BOOLEAN]

\* What a step may do to the history variable `round' keeps its type.
LEMMA RoundType ==
  ASSUME round \in Rounds, NEW r \in Readers
  PROVE  RoundOf(r) \in Rounds /\ Disturbed \in Rounds
<1>1. CASE reg[r] = 0
  <2>1. Settled \in BOOLEAN
    BY DEF Settled
  <2> QED
    BY <1>1, <2>1 DEF RoundOf, Rounds, Disturbed
<1>2. CASE reg[r] # 0
  BY <1>2 DEF Rounds, RoundOf, Disturbed
<1> QED
  BY <1>1, <1>2

\* A disturbed round is a round.
LEMMA DisturbedType == round \in Rounds => Disturbed \in Rounds
BY DEF Rounds, Disturbed

\* A body leaves private_chat_pid and the addressees what they are.
LEMMA AddresseeType ==
  ASSUME NEW w \in Writers, WriteBody(w), msg[w].to \in Readers \cup {Plain, Nobody},
         private_chat_pid \in Readers \cup {Nobody},
         addr \in [1..MaxMsgs -> Readers \cup {Nobody}]
  PROVE  /\ private_chat_pid' \in Readers \cup {Nobody}
         /\ addr' \in [1..MaxMsgs -> Readers \cup {Nobody}]
<1>1. ChatPid(msg[w].to) \in Readers \cup {Nobody}
  BY DEF ChatPid
<1>2. private_chat_pid' = ChatPid(msg[w].to)
  BY DEF WriteBody
<1>3. addr' = [addr EXCEPT ![msg[w].id] = IF msg[w].to = Plain THEN Nobody ELSE msg[w].to]
  BY DEF WriteBody
<1> QED
  BY <1>1, <1>2, <1>3

\* Every action, and a stuttering step, keeps the types.
LEMMA TypeStep == TypeOK /\ [Next]_vars => TypeOK'
<1> SUFFICES ASSUME TypeOK, [Next]_vars PROVE TypeOK'
  OBVIOUS
<1> USE CharDeviceAssumption DEF TypeOK, Procs, Cells, Go, ReaderPlaces, WriterPlaces,
        ring, people, sender, errors
<1>1. CASE UNCHANGED vars
  BY SMTT(30), <1>1 DEF vars
<1>2. ASSUME NEW r \in Readers, Open(r) PROVE TypeOK'
  <2>1. round' \in Rounds
    BY <1>2, DisturbedType DEF Open, Rounds
  <2> QED
    BY SMTT(30), <1>2, <2>1 DEF Open, Rounds
<1>3. ASSUME NEW r \in Readers, OpenStore(r) PROVE TypeOK'
  BY SMTT(30), <1>3 DEF OpenStore
<1>4. ASSUME NEW r \in Readers, OpenAdd(r) PROVE TypeOK'
  BY SMTT(30), <1>4 DEF OpenAdd
<1>5. ASSUME NEW r \in Readers, Release(r) PROVE TypeOK'
  <2>1. CASE Go(r, "user", "rel_store")
    BY SMTT(30), <1>5, <2>1, RoundType DEF Release, Rounds
  <2>2. CASE Go(r, "killed", "rel_store")
    BY SMTT(30), <1>5, <2>2, RoundType DEF Release, Rounds
  <2> QED
    BY SMTT(30), <1>5, <2>1, <2>2 DEF Release
<1>6. ASSUME NEW r \in Readers, ReleaseStore(r) PROVE TypeOK'
  BY SMTT(30), <1>6 DEF ReleaseStore
<1>7. ASSUME NEW r \in Readers, ReleaseTest(r) PROVE TypeOK'
  BY SMTT(30), <1>7 DEF ReleaseTest
<1>8. ASSUME NEW r \in Readers, ReleaseDec(r) PROVE TypeOK'
  BY SMTT(30), <1>8 DEF ReleaseDec
<1>9. ASSUME NEW r \in Readers, ReleaseList(r) PROVE TypeOK'
  BY SMTT(30), <1>9 DEF ReleaseList
<1>10. ASSUME NEW r \in Readers, ReleaseLast(r) PROVE TypeOK'
  BY SMTT(30), <1>10 DEF ReleaseLast
<1>11. ASSUME NEW r \in Readers, ReleaseClear(r) PROVE TypeOK'
  BY SMTT(30), <1>11 DEF ReleaseClear
<1>12. ASSUME NEW r \in Readers, ReleaseFlag(r) PROVE TypeOK'
  BY SMTT(30), <1>12 DEF ReleaseFlag
<1>13. ASSUME NEW r \in Readers, Read(r) PROVE TypeOK'
  BY SMTT(30), <1>13 DEF Read
<1>14. ASSUME NEW r \in Readers, SpinFlag(r) PROVE TypeOK'
  BY SMTT(30), <1>14 DEF SpinFlag
<1>15. ASSUME NEW r \in Readers, SpinCount(r) PROVE TypeOK'
  BY SMTT(30), <1>15 DEF SpinCount
<1>16. ASSUME NEW r \in Readers, SpinDown(r) PROVE TypeOK'
  BY SMTT(30), <1>16 DEF SpinDown, Down
<1>17. ASSUME NEW r \in Readers, SpinUp(r) PROVE TypeOK'
  BY SMTT(30), <1>17 DEF SpinUp, Up
<1>18. ASSUME NEW r \in Readers, WaitTest(r) PROVE TypeOK'
  BY SMTT(30), <1>18 DEF WaitTest, Awaited
<1>19. ASSUME NEW r \in Readers, ReadDown(r) PROVE TypeOK'
  BY SMTT(30), <1>19 DEF ReadDown, Down
<1>20. ASSUME NEW r \in Readers, ReadCopy(r) PROVE TypeOK'
  BY SMTT(30), <1>20 DEF ReadCopy, Least, Unread, AsSize, Span
<1>21. ASSUME NEW r \in Readers, ReadFault(r) PROVE TypeOK'
  <2>1. pc' = [pc EXCEPT ![r] = "read_up"] /\ faults' = faults + 1
    BY SMTT(30), <1>21 DEF ReadFault
  <2>2. UNCHANGED <<sem, flag, ring, private_chat_pid, read_count, people, reg, count,
                    sender, strayUps, seen, round>>
    BY SMTT(30), <1>21 DEF ReadFault
  <2> QED
    BY SMTT(30), <2>1, <2>2
<1>22. ASSUME NEW r \in Readers, CountBroadcast(r) PROVE TypeOK'
  BY SMTT(30), <1>22 DEF CountBroadcast
<1>23. ASSUME NEW r \in Readers, CountStore(r) PROVE TypeOK'
  <2>1. round' \in Rounds
    BY <1>23, RoundType DEF CountStore, Rounds
  <2> QED
    BY SMTT(30), <1>23, <2>1 DEF CountStore, Rounds
<1>24. ASSUME NEW r \in Readers, CountTest(r) PROVE TypeOK'
  BY SMTT(30), <1>24 DEF CountTest
<1>25. ASSUME NEW r \in Readers, CountDecide(r) PROVE TypeOK'
  <2>1. PICK to \in {"finish", "read_up"} : pc' = [pc EXCEPT ![r] = to]
    BY <1>25 DEF CountDecide
  <2>2. count' \in [Readers -> Nat] /\ reg' \in [Readers -> Int]
    <3>1. reg' = [reg EXCEPT ![r] = 0] /\ (count' = count \/ count' = [count EXCEPT ![r] = 0])
      BY <1>25 DEF CountDecide
    <3> QED
      BY <3>1
  <2>3. UNCHANGED <<sem, flag, ring, private_chat_pid, read_count, people, sender, errors,
                    seen, round>>
    BY <1>25 DEF CountDecide
  <2>4. /\ pc' \in [Procs -> ReaderPlaces \cup WriterPlaces]
        /\ \A q \in Readers : pc'[q] \in ReaderPlaces
        /\ \A w \in Writers : pc'[w] = pc[w]
    BY SMTT(30), <2>1
  <2> QED
    BY SMTT(30), <2>2, <2>3, <2>4
<1>26. ASSUME NEW r \in Readers, FinishBroadcast(r) PROVE TypeOK'
  <2>1. round' \in Rounds
    BY <1>26, DisturbedType DEF FinishBroadcast, Rounds
  <2>2. rd' \in Int
    BY SMTT(30), <1>26 DEF FinishBroadcast, Wrap
  <2> QED
    BY SMTT(30), <1>26, <2>1, <2>2 DEF FinishBroadcast, Rounds
<1>27. ASSUME NEW r \in Readers, FinishFlag(r) PROVE TypeOK'
  BY SMTT(30), <1>27 DEF FinishFlag
<1>28. ASSUME NEW r \in Readers, TakePrivate(r) PROVE TypeOK'
  <2>1. round' \in Rounds
    BY <1>28, RoundType DEF TakePrivate, Rounds
  <2>2. rd' \in Int
    BY SMTT(30), <1>28 DEF TakePrivate, Wrap
  <2> QED
    BY SMTT(30), <1>28, <2>1, <2>2 DEF TakePrivate, Rounds
<1>29. ASSUME NEW r \in Readers, ClearPrivate(r) PROVE TypeOK'
  BY SMTT(30), <1>29 DEF ClearPrivate
<1>30. ASSUME NEW r \in Readers, ReadUp(r) PROVE TypeOK'
  BY SMTT(30), <1>30 DEF ReadUp, Up
<1>31. ASSUME NEW r \in Readers, Interrupt(r) PROVE TypeOK'
  <2>1. PICK to \in ReaderPlaces : pc' = [pc EXCEPT ![r] = to]
    BY SMTT(30), <1>31 DEF Interrupt
  <2> QED
    BY SMTT(30), <1>31, <2>1 DEF Interrupt
<1>32. ASSUME NEW w \in Writers, Write(w) PROVE TypeOK'
  <2>1. PICK h \in Headers, n \in 0..MaxLen :
               msg' = [msg EXCEPT ![w] = [id |-> sent + 1, to |-> h, len |-> n]]
    BY <1>32 DEF Write
  <2>2. sent' \in 0..MaxMsgs /\ sent' = sent + 1 /\ pc' = [pc EXCEPT ![w] = "write_down"]
    BY <1>32 DEF Write
  <2>3. msg' \in [Writers -> [id : 0..MaxMsgs, to : Headers \cup {Plain}, len : 0..MaxLen]]
    BY <2>1, <2>2
  <2>4. \A v \in Writers \ {w} : pc'[v] = pc[v] /\ msg'[v] = msg[v]
    BY <2>1, <2>2
  <2>5. /\ pc' \in [Procs -> ReaderPlaces \cup WriterPlaces]
        /\ \A r \in Readers : pc'[r] \in ReaderPlaces
        /\ pc'[w] = "write_down"
    BY SMTT(30), <2>2
  <2>6. UNCHANGED <<sem, flag, ring, private_chat_pid, read_count, people, reg, count,
                    addr, errors, seen, round>>
    BY <1>32 DEF Write
  <2>7. /\ \A v \in Writers : pc'[v] \in WriterPlaces
        /\ \A v \in Writers : pc'[v] = "write_body" => msg'[v].to # Malformed
    <3>1. \A v \in Writers \ {w} : /\ pc'[v] \in WriterPlaces
                                   /\ pc'[v] = "write_body" => msg'[v].to # Malformed
      BY SMTT(30), <2>4
    <3>2. pc'[w] \in WriterPlaces /\ pc'[w] # "write_body"
      BY <2>5
    <3> HIDE DEF TypeOK, Procs, Cells, Go, ReaderPlaces, WriterPlaces, ring, people,
               sender, errors
    <3> QED
      BY <3>1, <3>2
  <2> QED
    BY SMTT(30), <2>2, <2>3, <2>5, <2>6, <2>7
<1>33. ASSUME NEW w \in Writers, WriteFault(w) PROVE TypeOK'
  BY SMTT(30), <1>33 DEF WriteFault
<1>34. ASSUME NEW w \in Writers, WriteInterrupt(w) PROVE TypeOK'
  BY SMTT(30), <1>34 DEF WriteInterrupt
<1>35. ASSUME NEW w \in Writers, WriteDown(w) PROVE TypeOK'
  BY SMTT(30), <1>35 DEF WriteDown, Down
<1>36. ASSUME NEW w \in Writers, WriteReject(w) PROVE TypeOK'
  BY SMTT(30), <1>36 DEF WriteReject, Acceptable
<1>37. ASSUME NEW w \in Writers, WriteGetUserFault(w) PROVE TypeOK'
  BY SMTT(30), <1>37 DEF WriteGetUserFault
<1>38. ASSUME NEW w \in Writers, WriteAccept(w) PROVE TypeOK'
  BY SMTT(30), <1>38 DEF WriteAccept, Acceptable
<1>39. ASSUME NEW w \in Writers, WriteBody(w) PROVE TypeOK'
  <2>1. msg[w].len \in Nat /\ msg[w].id \in 0..MaxMsgs
    OBVIOUS
  <2>2. wr' \in Int
    BY <1>39, <2>1 DEF WriteBody, Wrap, Least, Room, AsSize
  <2>3. buffer' \in [Cells -> 0..MaxMsgs]
    BY <1>39, <2>1 DEF WriteBody
  <2>4. /\ private_chat_pid' \in Readers \cup {Nobody}
        /\ addr' \in [1..MaxMsgs -> Readers \cup {Nobody}]
    <3>1. msg[w].to \in Readers \cup {Plain, Nobody}
      BY <1>39 DEF WriteBody
    <3> HIDE DEF Procs, Cells, Go, ring, people, sender, errors
    <3> QED
      BY <1>39, <3>1, AddresseeType
  <2>5. round' \in Rounds
    BY <1>39, DisturbedType DEF WriteBody, Rounds
  <2> QED
    BY SMTT(30), <1>39, <2>2, <2>3, <2>4, <2>5 DEF WriteBody, Rounds
<1>40. ASSUME NEW w \in Writers, WriteOverrun(w) PROVE TypeOK'
  BY SMTT(30), <1>40 DEF WriteOverrun
<1>41. ASSUME NEW w \in Writers, WriteUp(w) PROVE TypeOK'
  <2>1. PICK to \in WriterPlaces : pc' = [pc EXCEPT ![w] = to]
    BY SMTT(30), <1>41 DEF WriteUp, Up
  <2>2. sem' \in Nat
    BY SMTT(30), <1>41 DEF WriteUp, Up
  <2> QED
    BY SMTT(30), <1>41, <2>1, <2>2 DEF WriteUp, Up
<1>42. ASSUME NEW w \in Writers, WriteFlag(w) PROVE TypeOK'
  BY SMTT(30), <1>42 DEF WriteFlag
<1>43. ASSUME NEW w \in Writers, WriteWake(w) PROVE TypeOK'
  BY SMTT(30), <1>43 DEF WriteWake
<1> QED
  BY <1>1, <1>2, <1>3, <1>4, <1>5, <1>6, <1>7, <1>8, <1>9, <1>10, <1>11, <1>12,
     <1>13, <1>14, <1>15, <1>16, <1>17, <1>18, <1>19, <1>20, <1>21, <1>22, <1>23,
     <1>24, <1>25, <1>26, <1>27, <1>28, <1>29, <1>30, <1>31, <1>32, <1>33, <1>34,
     <1>35, <1>36, <1>37, <1>38, <1>39, <1>40, <1>41, <1>42, <1>43
     DEF Next, OpenClose, ReadStep, WriteStep

\* Every variable keeps its type.
THEOREM TypeCorrect == Spec => []TypeOK
<1>1. Init => TypeOK
  BY CharDeviceAssumption
     DEF Init, TypeOK, Cells, Procs, ReaderPlaces, WriterPlaces
<1> QED
  BY <1>1, TypeStep, PTL DEF Spec

(***************************************************************************)
(* The semaphore: the driver implements DeviceSemaphore.                   *)
(***************************************************************************)

\* What one process moving from a place to another does to the set of holders.
LEMMA HoldersMove ==
  ASSUME TypeOK, NEW p \in Procs, NEW from, NEW to, Go(p, from, to)
  PROVE  /\ (from \in Inside <=> to \in Inside) => Holders' = Holders
         /\ from \notin Inside /\ to \in Inside =>
              p \notin Holders /\ Holders' = Holders \cup {p}
         /\ from \in Inside /\ to \notin Inside =>
              p \in Holders /\ Holders' = Holders \ {p}
BY DEF TypeOK, Go, Holders

\* A successful down is the semaphore's Acquire.
LEMMA DownAcquires ==
  ASSUME TypeOK, NEW p \in Procs, NEW from, NEW to, Down(p, from, to),
         from \notin Inside, to \in Inside, strayUps' = strayUps
  PROVE  Semaphore!Acquire(p)
BY HoldersMove DEF Down, Semaphore!Acquire

\* An up by a process that is inside is its GiveBack.
LEMMA UpGivesBack ==
  ASSUME TypeOK, NEW p \in Procs, NEW from, NEW to, Up(p, from, to),
         from \in Inside, to \notin Inside, strayUps' = strayUps
  PROVE  Semaphore!GiveBack(p)
BY HoldersMove DEF Up, Semaphore!GiveBack

\* Every step of the driver is a step of the semaphore, or leaves it alone.
LEMMA SemaphoreStep == TypeOK /\ [Next]_vars => [Semaphore!Next]_(Semaphore!vars)
<1> SUFFICES ASSUME TypeOK, [Next]_vars
             PROVE  \/ Semaphore!Next
                    \/ UNCHANGED <<sem, Holders, strayUps>>
  BY DEF Semaphore!vars
<1> DEFINE Goal == Semaphore!Next \/ UNCHANGED <<sem, Holders, strayUps>>
<1> USE DEF Inside, Counting, errors
<1>1. CASE UNCHANGED vars
  BY <1>1 DEF vars, Holders
<1>2. ASSUME NEW r \in Readers, Open(r) PROVE Goal
  BY <1>2, HoldersMove DEF Open, Procs
<1>3. ASSUME NEW r \in Readers, OpenStore(r) PROVE Goal
  BY <1>3, HoldersMove DEF OpenStore, Procs
<1>4. ASSUME NEW r \in Readers, OpenAdd(r) PROVE Goal
  BY <1>4, HoldersMove DEF OpenAdd, Procs
<1>5. ASSUME NEW r \in Readers, Release(r) PROVE Goal
  BY <1>5, HoldersMove DEF Release, Procs
<1>6. ASSUME NEW r \in Readers, ReleaseStore(r) PROVE Goal
  BY <1>6, HoldersMove DEF ReleaseStore, Procs
<1>7. ASSUME NEW r \in Readers, ReleaseTest(r) PROVE Goal
  BY <1>7, HoldersMove DEF ReleaseTest, Procs
<1>8. ASSUME NEW r \in Readers, ReleaseDec(r) PROVE Goal
  BY <1>8, HoldersMove DEF ReleaseDec, Procs
<1>9. ASSUME NEW r \in Readers, ReleaseList(r) PROVE Goal
  BY <1>9, HoldersMove DEF ReleaseList, Procs
<1>10. ASSUME NEW r \in Readers, ReleaseLast(r) PROVE Goal
  BY <1>10, HoldersMove DEF ReleaseLast, Procs
<1>11. ASSUME NEW r \in Readers, ReleaseClear(r) PROVE Goal
  BY <1>11, HoldersMove DEF ReleaseClear, Procs
<1>12. ASSUME NEW r \in Readers, ReleaseFlag(r) PROVE Goal
  BY <1>12, HoldersMove DEF ReleaseFlag, Procs
<1>13. ASSUME NEW r \in Readers, Read(r) PROVE Goal
  BY <1>13, HoldersMove DEF Read, Procs
<1>14. ASSUME NEW r \in Readers, SpinFlag(r) PROVE Goal
  BY <1>14, HoldersMove DEF SpinFlag, Procs
<1>15. ASSUME NEW r \in Readers, SpinCount(r) PROVE Goal
  BY <1>15, HoldersMove DEF SpinCount, Procs
<1>16. ASSUME NEW r \in Readers, SpinDown(r) PROVE Goal
  BY <1>16, DownAcquires DEF SpinDown, Semaphore!Next, Procs
<1>17. ASSUME NEW r \in Readers, SpinUp(r) PROVE Goal
  BY <1>17, UpGivesBack DEF SpinUp, Semaphore!Next, Procs
<1>18. ASSUME NEW r \in Readers, WaitTest(r) PROVE Goal
  BY <1>18, HoldersMove DEF WaitTest, Procs
<1>19. ASSUME NEW r \in Readers, ReadDown(r) PROVE Goal
  BY <1>19, DownAcquires DEF ReadDown, Semaphore!Next, Procs
<1>20. ASSUME NEW r \in Readers, ReadCopy(r) PROVE Goal
  BY <1>20, HoldersMove DEF ReadCopy, Procs
<1>21. ASSUME NEW r \in Readers, ReadFault(r) PROVE Goal
  BY <1>21, HoldersMove DEF ReadFault, Procs
<1>22. ASSUME NEW r \in Readers, CountBroadcast(r) PROVE Goal
  BY <1>22, HoldersMove DEF CountBroadcast, Procs
<1>23. ASSUME NEW r \in Readers, CountStore(r) PROVE Goal
  BY <1>23, HoldersMove DEF CountStore, Procs
<1>24. ASSUME NEW r \in Readers, CountTest(r) PROVE Goal
  BY <1>24, HoldersMove DEF CountTest, Procs
<1>25. ASSUME NEW r \in Readers, CountDecide(r) PROVE Goal
  BY <1>25, HoldersMove DEF CountDecide, Procs
<1>26. ASSUME NEW r \in Readers, FinishBroadcast(r) PROVE Goal
  BY <1>26, HoldersMove DEF FinishBroadcast, Procs
<1>27. ASSUME NEW r \in Readers, FinishFlag(r) PROVE Goal
  BY <1>27, HoldersMove DEF FinishFlag, Procs
<1>28. ASSUME NEW r \in Readers, TakePrivate(r) PROVE Goal
  BY <1>28, HoldersMove DEF TakePrivate, Procs
<1>29. ASSUME NEW r \in Readers, ClearPrivate(r) PROVE Goal
  BY <1>29, HoldersMove DEF ClearPrivate, Procs
<1>30. ASSUME NEW r \in Readers, ReadUp(r) PROVE Goal
  BY <1>30, UpGivesBack DEF ReadUp, Semaphore!Next, Procs
<1>31. ASSUME NEW r \in Readers, Interrupt(r) PROVE Goal
  BY <1>31, HoldersMove DEF Interrupt, Procs
<1>32. ASSUME NEW w \in Writers, Write(w) PROVE Goal
  BY <1>32, HoldersMove DEF Write, Procs
<1>33. ASSUME NEW w \in Writers, WriteFault(w) PROVE Goal
  <2>1. Semaphore!StrayUp
    BY <1>33, HoldersMove DEF WriteFault, Procs, Semaphore!StrayUp
  <2> QED
    BY <2>1 DEF Semaphore!Next
<1>34. ASSUME NEW w \in Writers, WriteInterrupt(w) PROVE Goal
  BY <1>34, HoldersMove DEF WriteInterrupt, Procs
<1>35. ASSUME NEW w \in Writers, WriteDown(w) PROVE Goal
  BY <1>35, DownAcquires DEF WriteDown, Semaphore!Next, Procs
<1>36. ASSUME NEW w \in Writers, WriteReject(w) PROVE Goal
  BY <1>36, HoldersMove DEF WriteReject, Procs
<1>37. ASSUME NEW w \in Writers, WriteGetUserFault(w) PROVE Goal
  BY <1>37, HoldersMove DEF WriteGetUserFault, Procs
<1>38. ASSUME NEW w \in Writers, WriteAccept(w) PROVE Goal
  BY <1>38, HoldersMove DEF WriteAccept, Procs
<1>39. ASSUME NEW w \in Writers, WriteBody(w) PROVE Goal
  BY <1>39, HoldersMove DEF WriteBody, Procs
<1>40. ASSUME NEW w \in Writers, WriteOverrun(w) PROVE Goal
  BY <1>40, HoldersMove DEF WriteOverrun, Procs
<1>41. ASSUME NEW w \in Writers, WriteUp(w) PROVE Goal
  <2>1. Semaphore!GiveBack(w)
    <3>1. CASE Up(w, "write_up", "write_flag")
      BY <1>41, <3>1, UpGivesBack DEF WriteUp, Procs
    <3>2. CASE Up(w, "write_fail", "user")
      BY <1>41, <3>2, UpGivesBack DEF WriteUp, Procs
    <3> QED
      BY <1>41, <3>1, <3>2 DEF WriteUp
  <2> QED
    BY <2>1 DEF Semaphore!Next, Procs
<1>42. ASSUME NEW w \in Writers, WriteFlag(w) PROVE Goal
  BY <1>42, HoldersMove DEF WriteFlag, Procs
<1>43. ASSUME NEW w \in Writers, WriteWake(w) PROVE Goal
  BY <1>43 DEF WriteWake, Holders, Procs, TypeOK
<1> QED
  BY <1>1, <1>2, <1>3, <1>4, <1>5, <1>6, <1>7, <1>8, <1>9, <1>10, <1>11, <1>12,
     <1>13, <1>14, <1>15, <1>16, <1>17, <1>18, <1>19, <1>20, <1>21, <1>22, <1>23,
     <1>24, <1>25, <1>26, <1>27, <1>28, <1>29, <1>30, <1>31, <1>32, <1>33, <1>34,
     <1>35, <1>36, <1>37, <1>38, <1>39, <1>40, <1>41, <1>42, <1>43
     DEF Next, OpenClose, ReadStep, WriteStep

\* The driver implements the abstract semaphore.
THEOREM SemaphoreRefinement == Spec => SemaphoreSpec
<1>1. Init => Semaphore!Init
  BY DEF Init, Semaphore!Init, Holders, Inside, Counting
<1>2. TypeOK /\ [Next]_vars => [Semaphore!Next]_(Semaphore!vars)
  BY SemaphoreStep
<1> QED
  BY <1>1, <1>2, TypeCorrect, PTL DEF Spec, SemaphoreSpec, Semaphore!Spec

\* DeviceSemaphore counts holders with its own instance of FiniteSets: the same counting.
LEMMA SameCount ==
  ASSUME NEW S
  PROVE  /\ Semaphore!IsFiniteSet(S) <=> IsFiniteSet(S)
         /\ Semaphore!Cardinality(S) = Cardinality(S)
<1>1. Semaphore!IsFiniteSet(S) <=> IsFiniteSet(S)
  BY DEF Semaphore!IsFiniteSet, IsFiniteSet
<1>2. Semaphore!Cardinality(S) = Cardinality(S)
  BY DEF Semaphore!Cardinality, Cardinality
<1> QED
  BY <1>1, <1>2

\* The account of the permits: each is free, held, or one too many.
Balance ==
  /\ sem \in Nat /\ strayUps \in Nat /\ IsFiniteSet(Holders)
  /\ sem + Cardinality(Holders) = 1 + strayUps

\* DeviceSemaphore itself: the account balances in every reachable state.
LEMMA SemaphoreBalances == Semaphore!Spec => []Balance
<1>1. Semaphore!Init => Balance
  BY FS_EmptySet DEF Semaphore!Init, Balance
<1>2. Balance /\ [Semaphore!Next]_(Semaphore!vars) => Balance'
  <2> SUFFICES ASSUME Balance, [Semaphore!Next]_(Semaphore!vars) PROVE Balance'
    OBVIOUS
  <2> USE DEF Balance
  <2>0. Cardinality(Holders) \in Nat
    BY FS_CardinalityType
  <2>1. CASE UNCHANGED (Semaphore!vars)
    BY <2>1 DEF Semaphore!vars
  <2>2. CASE Semaphore!StrayUp
    BY <2>0, <2>2 DEF Semaphore!StrayUp
  <2>3. ASSUME NEW p \in Procs, Semaphore!Acquire(p) PROVE Balance'
    <3>1. /\ IsFiniteSet(Holders')
          /\ Cardinality(Holders') = Cardinality(Holders) + 1
      BY <2>3, FS_AddElement DEF Semaphore!Acquire
    <3> QED
      BY <2>0, <2>3, <3>1 DEF Semaphore!Acquire
  <2>4. ASSUME NEW p \in Procs, Semaphore!GiveBack(p) PROVE Balance'
    <3>1. /\ IsFiniteSet(Holders')
          /\ Cardinality(Holders') = Cardinality(Holders) - 1
      BY <2>4, FS_RemoveElement DEF Semaphore!GiveBack
    <3> QED
      BY <2>0, <2>4, <3>1 DEF Semaphore!GiveBack
  <2> QED
    BY <2>1, <2>2, <2>3, <2>4 DEF Semaphore!Next
<1> QED
  BY <1>1, <1>2, PTL DEF Semaphore!Spec

\* Two holders would need two permits: the account implies mutual exclusion.
LEMMA BalanceExcludes == Balance => MutualExclusion
<1> SUFFICES ASSUME Balance, strayUps = 0, NEW p \in Holders, NEW q \in Holders, p # q
             PROVE  FALSE
  BY DEF MutualExclusion, Semaphore!Exclusive
<1>1. IsFiniteSet({p, q}) /\ Cardinality({p, q}) = 2
  <2>1. IsFiniteSet({p}) /\ Cardinality({p}) = 1
    BY FS_Singleton
  <2>2. q \notin {p} /\ {p, q} = {p} \cup {q}
    OBVIOUS
  <2> QED
    BY <2>1, <2>2, FS_AddElement
<1>2. Cardinality({p, q}) <= Cardinality(Holders)
  BY <1>1, FS_Subset DEF Balance
<1>3. Cardinality(Holders) \in Nat
  BY FS_CardinalityType DEF Balance
<1> QED
  BY <1>1, <1>2, <1>3 DEF Balance

\* Hence no permit is lost and none appears but by the two stray up()s.
THEOREM PermitsConserved == Spec => []SemaphoreConserved
<1>1. Balance => SemaphoreConserved
  BY SameCount DEF Balance, SemaphoreConserved, Semaphore!Conserved
<1> QED
  BY <1>1, SemaphoreBalances, SemaphoreRefinement, PTL DEF SemaphoreSpec

\* ... and without them the driver's critical sections exclude each other.
THEOREM DriverExcludes == Spec => []MutualExclusion
  BY BalanceExcludes, SemaphoreBalances, SemaphoreRefinement, PTL DEF SemaphoreSpec

(***************************************************************************)
(* The ring pointers.  rd and count are only changed between a down and an *)
(* up, so the bound on rd + count holds from ReadCopy to the step that     *)
(* uses it because, and as long as, the semaphore excludes everybody else  *)
(* and no body has been copied over rd.                                    *)
(***************************************************************************)

\* strayUps never decreases: it is 0 before a step if it is 0 after.
LEMMA StrayBefore == TypeOK /\ [Next]_vars /\ strayUps' = 0 => strayUps = 0
<1> SUFFICES ASSUME TypeOK, [Next]_vars, strayUps' = 0 PROVE strayUps = 0
  OBVIOUS
<1>1. CASE UNCHANGED strayUps
  BY <1>1
<1>2. CASE \E w \in Writers : WriteFault(w)
  BY <1>2 DEF WriteFault, TypeOK
<1>3. UNCHANGED strayUps \/ \E w \in Writers : WriteFault(w)
  BY DEF Next, vars, errors, OpenClose, ReadStep, WriteStep, Open, OpenStore, OpenAdd,
     Release, ReleaseStore, ReleaseTest, ReleaseDec, ReleaseList, ReleaseLast,
     ReleaseClear, ReleaseFlag, Read, SpinFlag, SpinCount, SpinDown, SpinUp, WaitTest,
     ReadDown,
     ReadCopy, ReadFault, CountBroadcast, CountStore, CountTest, CountDecide,
     FinishBroadcast, FinishFlag, TakePrivate,
     ClearPrivate, ReadUp, Interrupt, Write, WriteInterrupt, WriteDown,
     WriteReject, WriteGetUserFault, WriteAccept, WriteBody, WriteOverrun, WriteUp,
     WriteFlag, WriteWake
<1> QED
  BY <1>1, <1>2, <1>3

\* No step is described once a body has run over the fields behind the buffer.
LEMMA IntactBefore == [Next]_vars /\ Intact' => Intact
<1> SUFFICES ASSUME [Next]_vars, Intact' PROVE Intact
  OBVIOUS
<1>1. CASE UNCHANGED vars
  BY <1>1 DEF vars, Intact
<1>2. ASSUME NEW r \in Readers, OpenClose(r) PROVE Intact
  BY <1>2 DEF OpenClose, Open, OpenStore, OpenAdd, Release, ReleaseStore, ReleaseTest,
     ReleaseDec, ReleaseList, ReleaseLast, ReleaseClear, ReleaseFlag, Go
<1>3. ASSUME NEW r \in Readers, ReadStep(r) PROVE Intact
  BY <1>3 DEF ReadStep, SpinFlag, SpinCount, SpinDown, SpinUp, WaitTest, ReadDown,
     ReadCopy, ReadFault, CountBroadcast, CountStore, CountTest, CountDecide,
     FinishBroadcast, FinishFlag, TakePrivate, ClearPrivate, ReadUp, Down, Up, Go
<1>4. ASSUME NEW r \in Readers, Read(r) \/ Interrupt(r) PROVE Intact
  BY <1>4 DEF Read, Interrupt, Go
<1>5. ASSUME NEW w \in Writers, Write(w) \/ WriteFault(w) \/ WriteInterrupt(w) PROVE Intact
  BY <1>5 DEF Write, WriteFault, WriteInterrupt, Go
<1>6. ASSUME NEW w \in Writers, WriteStep(w) PROVE Intact
  BY <1>6 DEF WriteStep, WriteDown, WriteReject, WriteGetUserFault, WriteAccept, WriteBody,
     WriteOverrun, WriteUp, WriteFlag, WriteWake, Down, Up, Go
<1> QED
  BY <1>1, <1>2, <1>3, <1>4, <1>5, <1>6 DEF Next

\* An overrun is a state with a writer at "overrun".
LEMMA OverrunShows ==
  ASSUME TypeOK, NEW w \in Writers, WriteOverrun(w)
  PROVE  ~Intact'
BY DEF WriteOverrun, Go, Intact, TypeOK, Procs

\* The steps that use the ring; every other step leaves it, and the lengths that
\* readers have computed and will use, alone.
RingStep ==
  \/ \E r \in Readers : ReadCopy(r) \/ FinishBroadcast(r) \/ TakePrivate(r)
  \/ \E w \in Writers : WriteBody(w)
RingKept ==
  /\ UNCHANGED ring
  /\ \A q \in Readers :
       pc'[q] \in Counting => pc[q] \in Counting /\ count'[q] = count[q]

\* A step either is one of those or leaves the ring, and every computed length, as it is.
LEMMA RingUsers == TypeOK /\ [Next]_vars /\ Intact' => RingStep \/ RingKept
<1> SUFFICES ASSUME TypeOK, [Next]_vars, Intact' PROVE RingStep \/ RingKept
  OBVIOUS
<1> USE DEF ring, Counting
<1>1. CASE UNCHANGED vars
  BY <1>1 DEF vars, RingKept
<1>2. ASSUME NEW r \in Readers, Open(r) PROVE RingKept
  BY <1>2 DEF Open, Go, RingKept, TypeOK, Procs
<1>3. ASSUME NEW r \in Readers, OpenStore(r) PROVE RingKept
  BY <1>3 DEF OpenStore, Go, RingKept, TypeOK, Procs
<1>4. ASSUME NEW r \in Readers, OpenAdd(r) PROVE RingKept
  BY <1>4 DEF OpenAdd, Go, RingKept, TypeOK, Procs
<1>5. ASSUME NEW r \in Readers, Release(r) PROVE RingKept
  BY <1>5 DEF Release, Go, RingKept, TypeOK, Procs
<1>6. ASSUME NEW r \in Readers, ReleaseStore(r) PROVE RingKept
  BY <1>6 DEF ReleaseStore, Go, RingKept, TypeOK, Procs
<1>7. ASSUME NEW r \in Readers, ReleaseTest(r) PROVE RingKept
  BY <1>7 DEF ReleaseTest, Go, RingKept, TypeOK, Procs
<1>8. ASSUME NEW r \in Readers, ReleaseDec(r) PROVE RingKept
  BY <1>8 DEF ReleaseDec, Go, RingKept, TypeOK, Procs
<1>9. ASSUME NEW r \in Readers, ReleaseList(r) PROVE RingKept
  BY <1>9 DEF ReleaseList, Go, RingKept, TypeOK, Procs
<1>10. ASSUME NEW r \in Readers, ReleaseLast(r) PROVE RingKept
  BY <1>10 DEF ReleaseLast, Go, RingKept, TypeOK, Procs
<1>11. ASSUME NEW r \in Readers, ReleaseClear(r) PROVE RingKept
  BY <1>11 DEF ReleaseClear, Go, RingKept, TypeOK, Procs
<1>12. ASSUME NEW r \in Readers, ReleaseFlag(r) PROVE RingKept
  BY <1>12 DEF ReleaseFlag, Go, RingKept, TypeOK, Procs
<1>13. ASSUME NEW r \in Readers, Read(r) PROVE RingKept
  BY <1>13 DEF Read, Go, RingKept, TypeOK, Procs
<1>14. ASSUME NEW r \in Readers, SpinFlag(r) PROVE RingKept
  BY <1>14 DEF SpinFlag, Go, RingKept, TypeOK, Procs
<1>15. ASSUME NEW r \in Readers, SpinCount(r) PROVE RingKept
  BY <1>15 DEF SpinCount, Go, RingKept, TypeOK, Procs
<1>16. ASSUME NEW r \in Readers, SpinDown(r) PROVE RingKept
  BY <1>16 DEF SpinDown, Down, Go, RingKept, TypeOK, Procs
<1>17. ASSUME NEW r \in Readers, SpinUp(r) PROVE RingKept
  BY <1>17 DEF SpinUp, Up, Go, RingKept, TypeOK, Procs
<1>18. ASSUME NEW r \in Readers, WaitTest(r) PROVE RingKept
  BY <1>18 DEF WaitTest, Go, RingKept, TypeOK, Procs
<1>19. ASSUME NEW r \in Readers, ReadDown(r) PROVE RingKept
  BY <1>19 DEF ReadDown, Down, Go, RingKept, TypeOK, Procs
<1>20. ASSUME NEW r \in Readers, ReadFault(r) PROVE RingKept
  BY <1>20 DEF ReadFault, Go, RingKept, TypeOK, Procs
<1>21. ASSUME NEW r \in Readers, CountBroadcast(r) PROVE RingKept
  BY <1>21 DEF CountBroadcast, Go, RingKept, TypeOK, Procs
<1>22. ASSUME NEW r \in Readers, CountStore(r) PROVE RingKept
  BY <1>22 DEF CountStore, Go, RingKept, TypeOK, Procs
<1>23. ASSUME NEW r \in Readers, CountTest(r) PROVE RingKept
  BY <1>23 DEF CountTest, Go, RingKept, TypeOK, Procs
<1>24. ASSUME NEW r \in Readers, CountDecide(r) PROVE RingKept
  BY <1>24 DEF CountDecide, Go, RingKept, TypeOK, Procs
<1>25. ASSUME NEW r \in Readers, FinishFlag(r) PROVE RingKept
  BY <1>25 DEF FinishFlag, Go, RingKept, TypeOK, Procs
<1>26. ASSUME NEW r \in Readers, ClearPrivate(r) PROVE RingKept
  BY <1>26 DEF ClearPrivate, Go, RingKept, TypeOK, Procs
<1>27. ASSUME NEW r \in Readers, ReadUp(r) PROVE RingKept
  BY <1>27 DEF ReadUp, Up, Go, RingKept, TypeOK, Procs
<1>28. ASSUME NEW r \in Readers, Interrupt(r) PROVE RingKept
  BY <1>28 DEF Interrupt, Go, RingKept, TypeOK, Procs
<1>29. ASSUME NEW w \in Writers, Write(w) PROVE RingKept
  BY <1>29 DEF Write, Go, RingKept, TypeOK, Procs
<1>30. ASSUME NEW w \in Writers, WriteFault(w) PROVE RingKept
  BY <1>30 DEF WriteFault, Go, RingKept, TypeOK, Procs
<1>31. ASSUME NEW w \in Writers, WriteInterrupt(w) PROVE RingKept
  BY <1>31 DEF WriteInterrupt, Go, RingKept, TypeOK, Procs
<1>32. ASSUME NEW w \in Writers, WriteDown(w) PROVE RingKept
  BY <1>32 DEF WriteDown, Down, Go, RingKept, TypeOK, Procs
<1>33. ASSUME NEW w \in Writers, WriteReject(w) PROVE RingKept
  BY <1>33 DEF WriteReject, Go, RingKept, TypeOK, Procs
<1>34. ASSUME NEW w \in Writers, WriteGetUserFault(w) PROVE RingKept
  BY <1>34 DEF WriteGetUserFault, Go, RingKept, TypeOK, Procs
<1>35. ASSUME NEW w \in Writers, WriteAccept(w) PROVE RingKept
  BY <1>35 DEF WriteAccept, Go, RingKept, TypeOK, Procs
<1>36. ASSUME NEW w \in Writers, WriteUp(w) PROVE RingKept
  BY <1>36 DEF WriteUp, Up, Go, RingKept, TypeOK, Procs
<1>37. ASSUME NEW w \in Writers, WriteFlag(w) PROVE RingKept
  BY <1>37 DEF WriteFlag, Go, RingKept, TypeOK, Procs
<1>38. ASSUME NEW w \in Writers, WriteWake(w) PROVE RingKept
  BY <1>38 DEF WriteWake, RingKept, TypeOK, Procs
<1>39. ASSUME NEW r \in Readers, OpenClose(r) PROVE RingKept
  BY <1>39, <1>2, <1>3, <1>4, <1>5, <1>6, <1>7, <1>8, <1>9, <1>10, <1>11, <1>12
     DEF OpenClose
<1>40. ASSUME NEW r \in Readers, ReadStep(r) PROVE RingStep \/ RingKept
  BY <1>40, <1>14, <1>15, <1>16, <1>17, <1>18, <1>19, <1>20, <1>26, <1>27,
     <1>21, <1>22, <1>23, <1>24, <1>25
     DEF ReadStep, RingStep
<1>41. ASSUME NEW w \in Writers, WriteStep(w) PROVE RingStep \/ RingKept
  BY <1>41, <1>32, <1>33, <1>34, <1>36, <1>37, <1>38, <1>35, OverrunShows
     DEF WriteStep, RingStep
<1>42. CASE Next
  BY <1>42, <1>13, <1>28, <1>29, <1>30, <1>31, <1>39, <1>40, <1>41 DEF Next
<1> QED
  BY <1>1, <1>42

\* Inductive together with the types and mutual exclusion.
LEMMA PointersStep ==
  TypeOK /\ MutualExclusion /\ PointersInBounds /\ [Next]_vars => PointersInBounds'
<1> SUFFICES ASSUME TypeOK, MutualExclusion, PointersInBounds, [Next]_vars,
                    strayUps' = 0, Intact'
             PROVE  /\ rd' \in Cells /\ wr' \in Cells
                    /\ \A r \in Readers : pc'[r] \in Counting => rd' + count'[r] <= MAXNUM
  BY DEF PointersInBounds
<1> DEFINE Goal == /\ rd' \in Cells /\ wr' \in Cells
                   /\ \A r \in Readers : pc'[r] \in Counting => rd' + count'[r] <= MAXNUM
<1>A. strayUps = 0 /\ Intact
  BY StrayBefore, IntactBefore
<1>B. /\ rd \in Cells /\ wr \in Cells
      /\ \A r \in Readers : pc[r] \in Counting => rd + count[r] <= MAXNUM
  BY <1>A DEF PointersInBounds
<1>C. \A p, q \in Procs : pc[p] \in Inside /\ pc[q] \in Inside => p = q
  BY <1>A DEF MutualExclusion, Semaphore!Exclusive, Holders
<1> HIDE DEF Goal
<1>1. ASSUME NEW r \in Readers, ReadCopy(r) PROVE Goal
  <2>1. count'[r] \in Nat /\ rd + count'[r] <= MAXNUM
    BY <1>1, <1>B, CharDeviceAssumption DEF ReadCopy, Least, Unread, AsSize, Cells, TypeOK
  <2>2. \A q \in Readers : pc'[q] \in Counting => q = r \/ pc[q] \in Counting
    BY <1>1 DEF ReadCopy, Go, TypeOK, Procs
  <2>3. \A q \in Readers \ {r} : count'[q] = count[q]
    BY <1>1 DEF ReadCopy, TypeOK
  <2> QED
    BY <1>1, <1>B, <2>1, <2>2, <2>3 DEF ReadCopy, ring, Goal
<1>2. ASSUME NEW r \in Readers, FinishBroadcast(r) \/ TakePrivate(r) PROVE Goal
  <2>1. pc[r] \in Counting /\ rd + count[r] <= MAXNUM
    BY <1>2, <1>B DEF FinishBroadcast, TakePrivate, Go, Counting
  <2>2. rd' \in Cells /\ wr' = wr
    <3>1. rd' = Wrap(rd + count[r]) /\ wr' = wr /\ count[r] \in Nat
      BY <1>2 DEF FinishBroadcast, TakePrivate, TypeOK
    <3> QED
      BY <1>B, <2>1, <3>1, CharDeviceAssumption DEF Wrap, Cells
  <2>3. \A q \in Readers : pc'[q] \notin Counting
    BY <1>2, <1>C, <2>1
       DEF FinishBroadcast, TakePrivate, Go, TypeOK, Procs, Inside, Counting
  <2> QED
    BY <1>B, <2>2, <2>3 DEF Goal
<1>3. ASSUME NEW w \in Writers, WriteBody(w) PROVE Goal
  <2>1. wr' \in Cells
    <3>1. msg[w].len \in Nat
      BY DEF TypeOK
    <3>2. Room \in Nat /\ wr + Room <= MAXNUM
      BY <1>B, CharDeviceAssumption DEF Room, AsSize, Cells
    <3>3. /\ Least(msg[w].len, Room) \in Nat
          /\ wr + Least(msg[w].len, Room) <= MAXNUM
      BY <1>B, <3>1, <3>2, CharDeviceAssumption DEF Least, Cells
    <3>4. wr' = Wrap(wr + Least(msg[w].len, Room))
      BY <1>3 DEF WriteBody
    <3> QED
      BY <1>B, <3>3, <3>4, CharDeviceAssumption DEF Wrap, Cells
  <2>2. \A q \in Readers : pc'[q] \in Counting => pc[q] \in Counting
    BY <1>3 DEF WriteBody, Go, TypeOK, Procs, Counting
  <2> QED
    BY <1>3, <1>B, <2>1, <2>2 DEF WriteBody, Goal
<1>4. ASSUME RingKept PROVE Goal
  BY <1>4, <1>B DEF RingKept, ring, Goal
<1>5. RingStep \/ RingKept
  BY RingUsers
<1>6. Goal
  BY <1>1, <1>2, <1>3, <1>4, <1>5 DEF RingStep
<1> QED
  BY <1>6 DEF Goal

\* Whatever is sent, both pointers stay inside the circular buffer, for every size of
\* it, until a body runs over them.
THEOREM PointersStayInBounds == Spec => []PointersInBounds
<1>1. Init => PointersInBounds
  BY CharDeviceAssumption DEF Init, PointersInBounds, Cells, Procs, Counting
<1> QED
  BY <1>1, PointersStep, TypeCorrect, DriverExcludes, PTL DEF Spec

\* The length a reader works with is the one it would compute now.
LengthRight ==
  strayUps = 0 /\ Intact =>
    \A r \in Readers : pc[r] \in Counting => count[r] = Least(ReadLen, Unread)

\* Whoever moves rd or wr is between a down and an up, so that no other reader is.
LEMMA LengthStep == TypeOK /\ MutualExclusion /\ LengthRight /\ [Next]_vars => LengthRight'
<1> SUFFICES ASSUME TypeOK, MutualExclusion, LengthRight, [Next]_vars, strayUps' = 0,
                    Intact', NEW q \in Readers, pc'[q] \in Counting
             PROVE  count'[q] = Least(ReadLen, Unread)'
  BY DEF LengthRight
<1>A. strayUps = 0 /\ Intact
  BY StrayBefore, IntactBefore
<1>B. pc[q] \in Counting => count[q] = Least(ReadLen, Unread)
  BY <1>A DEF LengthRight
<1>C. \A p, r \in Procs : pc[p] \in Inside /\ pc[r] \in Inside => p = r
  BY <1>A DEF MutualExclusion, Semaphore!Exclusive, Holders
<1>1. ASSUME NEW r \in Readers, ReadCopy(r) PROVE count'[q] = Least(ReadLen, Unread)'
  <2>1. q = r
    BY <1>1, <1>C DEF ReadCopy, Go, TypeOK, Procs, Inside, Counting
  <2> QED
    BY <1>1, <2>1 DEF ReadCopy, TypeOK, ring, Least, Unread
<1>2. ASSUME NEW r \in Readers, FinishBroadcast(r) \/ TakePrivate(r) PROVE FALSE
  BY <1>2, <1>C DEF FinishBroadcast, TakePrivate, Go, TypeOK, Procs, Inside, Counting
<1>3. ASSUME NEW w \in Writers, WriteBody(w) PROVE FALSE
  <2>1. pc[q] \in Counting /\ pc[w] = "write_body" /\ q # w
    BY <1>3, CharDeviceAssumption DEF WriteBody, Go, TypeOK, Procs
  <2> QED
    BY <1>C, <2>1 DEF Procs, Inside
<1>4. CASE RingKept
  BY <1>4, <1>B DEF RingKept, ring, Least, Unread
<1> QED
  BY <1>1, <1>2, <1>3, <1>4, RingUsers DEF RingStep

\* A body that fits goes behind what is unread.
LEMMA BodyAppended ==
  ASSUME TypeOK, PointersInBounds, strayUps = 0, Intact, NEW w \in Writers, WriteBody(w),
         Fits(msg[w].len)
  PROVE  Contents' = [k \in 0 .. UnreadBytes + msg[w].len - 1 |->
                        IF k < UnreadBytes THEN Contents[k] ELSE msg[w].id]
<1> DEFINE len == msg[w].len
<1>1. /\ rd \in 0 .. MAXNUM - 1 /\ wr \in 0 .. MAXNUM - 1 /\ len \in Nat
      /\ MAXNUM \in Nat /\ UnreadBytes + len < MAXNUM /\ wr + len <= MAXNUM
  BY CharDeviceAssumption DEF PointersInBounds, Cells, TypeOK, Fits
<1>2. /\ rd' = rd /\ wr' = Wrap(wr + Least(len, Room))
      /\ buffer' = [i \in Cells |-> IF i \in wr .. wr + len - 1 THEN msg[w].id
                                    ELSE IF i = wr + len THEN 0 ELSE buffer[i]]
  BY DEF WriteBody
<1> HIDE DEF len
<1>3. wr' = IF wr + len = MAXNUM THEN 0 ELSE wr + len
  BY <1>1, <1>2 DEF Wrap, Least, Room, AsSize, UnreadBytes
<1>4. UnreadBytes' = UnreadBytes + len
  BY <1>1, <1>2, <1>3 DEF UnreadBytes
<1>5. UnreadBytes \in Nat
  BY <1>1 DEF UnreadBytes
<1>6. ASSUME NEW k \in 0 .. UnreadBytes + len - 1
      PROVE  Contents'[k] = IF k < UnreadBytes THEN Contents[k] ELSE msg[w].id
  <2> DEFINE j == IF rd + k < MAXNUM THEN rd + k ELSE rd + k - MAXNUM
  <2>1. j \in Cells /\ Contents'[k] = buffer'[j]
    BY <1>1, <1>2, <1>4, <1>5 DEF Contents, Cells
  <2>2. CASE k < UnreadBytes
    <3>1. Contents[k] = buffer[j]
      BY <1>5, <2>2 DEF Contents
    <3>2. j \notin wr .. wr + len
      BY <1>1, <2>2 DEF UnreadBytes
    <3> QED
      BY <1>1, <1>2, <2>1, <2>2, <3>1, <3>2
  <2>3. CASE ~(k < UnreadBytes)
    <3>1. j \in wr .. wr + len - 1
      BY <1>1, <1>5, <2>3 DEF UnreadBytes
    <3> QED
      BY <1>2, <2>1, <2>3, <3>1
  <2> QED
    BY <2>2, <2>3
<1>7. Contents' = [k \in 0 .. UnreadBytes' - 1 |-> Contents'[k]]
  BY DEF Contents
<1>8. Contents' = [k \in 0 .. UnreadBytes + len - 1 |-> Contents'[k]]
  BY <1>1, <1>4, <1>5, <1>7
<1> DEFINE Want(k) == IF k < UnreadBytes THEN Contents[k] ELSE msg[w].id
<1>9. \A k \in 0 .. UnreadBytes + len - 1 : Contents'[k] = Want(k)
  BY <1>6
<1> HIDE DEF Want
<1>10. Contents' = [k \in 0 .. UnreadBytes + len - 1 |-> Want(k)]
  BY <1>8, <1>9
<1> QED
  BY <1>10 DEF Want, len

\* A read that finds something takes away what it copied.
LEMMA ReadTaken ==
  ASSUME TypeOK, PointersInBounds, LengthRight, strayUps = 0, Intact, NEW r \in Readers,
         FinishBroadcast(r) \/ TakePrivate(r), rd # wr
  PROVE  Contents' = [k \in 0 .. UnreadBytes - count[r] - 1 |-> Contents[k + count[r]]]
<1> DEFINE c == count[r]
<1>1. /\ rd \in 0 .. MAXNUM - 1 /\ wr \in 0 .. MAXNUM - 1
      /\ MAXNUM \in Nat /\ c = Least(ReadLen, Unread) /\ ReadLen \in Nat
  BY CharDeviceAssumption
  DEF PointersInBounds, Cells, LengthRight, FinishBroadcast, TakePrivate, Go, Counting
<1>2. rd' = Wrap(rd + c) /\ wr' = wr /\ buffer' = buffer
  BY DEF FinishBroadcast, TakePrivate
<1> HIDE DEF c
<1>3. c \in Nat /\ c <= UnreadBytes /\ rd + c <= MAXNUM /\ (rd < wr => rd + c <= wr)
  BY <1>1 DEF Least, Unread, AsSize, UnreadBytes
<1>4. rd' = IF rd + c = MAXNUM THEN 0 ELSE rd + c
  BY <1>2 DEF Wrap
<1>5. UnreadBytes' = UnreadBytes - c /\ UnreadBytes \in Nat
  BY <1>1, <1>2, <1>3, <1>4 DEF UnreadBytes
<1>6. ASSUME NEW k \in 0 .. UnreadBytes - c - 1 PROVE Contents'[k] = Contents[k + c]
  <2>1. k \in 0 .. UnreadBytes' - 1 /\ k + c \in 0 .. UnreadBytes - 1
    BY <1>3, <1>5
  <2>2. Contents'[k] = buffer[IF rd' + k < MAXNUM THEN rd' + k ELSE rd' + k - MAXNUM]
    BY <1>2, <2>1 DEF Contents
  <2>3. Contents[k + c] =
          buffer[IF rd + (k + c) < MAXNUM THEN rd + (k + c) ELSE rd + (k + c) - MAXNUM]
    BY <2>1 DEF Contents
  <2>4. (IF rd' + k < MAXNUM THEN rd' + k ELSE rd' + k - MAXNUM) =
        (IF rd + (k + c) < MAXNUM THEN rd + (k + c) ELSE rd + (k + c) - MAXNUM)
    BY <1>1, <1>3, <1>4, <1>5 DEF UnreadBytes
  <2> QED
    BY <2>2, <2>3, <2>4
<1>7. Contents' = [k \in 0 .. UnreadBytes' - 1 |-> Contents'[k]]
  BY DEF Contents
<1>8. Contents' = [k \in 0 .. UnreadBytes - c - 1 |-> Contents'[k]]
  BY <1>5, <1>7
<1> QED
  BY <1>6, <1>8 DEF c

\* For every size of the ring, the bytes between rd and wr are a queue.
THEOREM RingKeepsOrder == Spec => RingIsQueue
<1>1. Init => LengthRight
  BY DEF Init, LengthRight, Procs, Counting
<1>2. TypeOK /\ PointersInBounds /\ LengthRight /\ strayUps = 0 =>
        /\ \A w \in Writers : WriteBody(w) /\ Fits(msg[w].len) =>
             Contents' = [k \in 0 .. UnreadBytes + msg[w].len - 1 |->
                            IF k < UnreadBytes THEN Contents[k] ELSE msg[w].id]
        /\ \A r \in Readers : (FinishBroadcast(r) \/ TakePrivate(r)) /\ rd # wr =>
             Contents' = [k \in 0 .. UnreadBytes - count[r] - 1 |-> Contents[k + count[r]]]
  <2>1. \A w \in Writers : WriteBody(w) => Intact
    BY DEF WriteBody, Go
  <2>2. \A r \in Readers : FinishBroadcast(r) \/ TakePrivate(r) => Intact
    BY DEF FinishBroadcast, TakePrivate, Go
  <2> QED
    BY <2>1, <2>2, BodyAppended, ReadTaken
<1> QED
  BY <1>1, <1>2, LengthStep, TypeCorrect, DriverExcludes, PointersStayInBounds, PTL
  DEF Spec, RingIsQueue

(***************************************************************************)
(* Wake-ups.  With broadcasts only, private_chat_pid stays 0, and a reader *)
(* sleeps with flag set only between a writer's flag = 1 and its wake_up.  *)
(***************************************************************************)
\* One process goes from a place to another, the others stay.
LEMMA OneMoves ==
  ASSUME TypeOK, NEW p \in Procs, NEW from, NEW to, Go(p, from, to)
  PROVE  pc[p] = from /\ pc'[p] = to /\ \A q \in Procs \ {p} : pc'[q] = pc[q]
BY DEF TypeOK, Go

\* Every message is for everybody.
BroadcastOnly == private_chat_pid = Nobody

\* Only a message to one reader makes private_chat_pid a reader's.
LEMMA BroadcastStep ==
  ASSUME TypeOK, BroadcastOnly, Headers \cap Readers = {}, [Next]_vars
  PROVE  BroadcastOnly'
<1>1. ASSUME NEW w \in Writers, WriteBody(w) PROVE BroadcastOnly'
  <2>1. msg[w].to \in Headers \cup {Plain} /\ msg[w].to # Malformed
    BY <1>1 DEF WriteBody, Go, TypeOK
  <2>2. msg[w].to \in {Plain, Nobody}
    BY <2>1, CharDeviceAssumption
  <2> QED
    BY <1>1, <2>2 DEF WriteBody, ChatPid, BroadcastOnly
<1>2. \/ private_chat_pid' = private_chat_pid
      \/ \E r \in Readers : ClearPrivate(r)
      \/ \E w \in Writers : WriteBody(w)
  BY DEF Next, vars, OpenClose, ReadStep, WriteStep, Open, OpenStore, OpenAdd,
     Release, ReleaseStore, ReleaseTest, ReleaseDec, ReleaseList, ReleaseLast,
     ReleaseClear, ReleaseFlag, Read, SpinFlag, SpinCount, SpinDown, SpinUp, WaitTest,
     ReadDown,
     ReadCopy, ReadFault, CountBroadcast, CountStore, CountTest, CountDecide,
     FinishBroadcast, FinishFlag, TakePrivate,
     ReadUp, Interrupt, Write, WriteFault, WriteInterrupt, WriteDown,
     WriteReject, WriteGetUserFault, WriteAccept, WriteOverrun, WriteUp, WriteFlag,
     WriteWake
<1> QED
  BY <1>1, <1>2 DEF ClearPrivate, BroadcastOnly

\* A reader falls asleep only if flag is 0, and whoever sets it is about to wake.
LEMMA WakeStep ==
  ASSUME TypeOK, BroadcastOnly, BroadcastOnly', NoLostWakeup, [Next]_vars
  PROVE  NoLostWakeup'
<1> DEFINE Waker == \E w \in Writers : pc[w] = "write_wake"
<1>1. \A r \in Readers : pc[r] = "asleep" /\ flag # 0 => Waker
  BY DEF NoLostWakeup, BroadcastOnly, Awaited
<1>2. CASE UNCHANGED vars
  BY <1>2 DEF vars, NoLostWakeup, Awaited
<1>3. ASSUME NEW w \in Writers, WriteWake(w) PROVE NoLostWakeup'
  BY <1>3 DEF WriteWake, NoLostWakeup, TypeOK, Procs
<1>4. ASSUME NEW w \in Writers, WriteFlag(w) PROVE NoLostWakeup'
  BY <1>4 DEF WriteFlag, Go, NoLostWakeup, TypeOK, Procs
<1>5. ASSUME NEW p \in Procs, NEW from, NEW to, Go(p, from, to), from # "write_wake",
             to = "asleep" => flag = 0, flag' \in {flag, 0}
      PROVE  NoLostWakeup'
  <2>1. \A q \in Procs : pc[q] = "write_wake" => pc'[q] = "write_wake"
    BY <1>5, OneMoves
  <2>2. Waker => Waker'
    BY <2>1 DEF Procs
  <2>3. ASSUME NEW r \in Readers, pc'[r] = "asleep", flag' # 0 PROVE Waker
    BY <1>1, <1>5, <2>3, OneMoves DEF Procs
  <2> QED
    BY <2>2, <2>3 DEF NoLostWakeup, Awaited
<1> HIDE DEF Waker
<1>6. ASSUME NEW r \in Readers, Open(r) PROVE NoLostWakeup'
  BY <1>5, <1>6 DEF Open, Procs
<1>7. ASSUME NEW r \in Readers, OpenStore(r) PROVE NoLostWakeup'
  BY <1>5, <1>7 DEF OpenStore, Procs
<1>8. ASSUME NEW r \in Readers, OpenAdd(r) PROVE NoLostWakeup'
  BY <1>5, <1>8 DEF OpenAdd, Procs
<1>9. ASSUME NEW r \in Readers, ReleaseStore(r) PROVE NoLostWakeup'
  BY <1>5, <1>9 DEF ReleaseStore, Procs
<1>10. ASSUME NEW r \in Readers, ReleaseTest(r) PROVE NoLostWakeup'
  BY <1>5, <1>10 DEF ReleaseTest, Procs
<1>11. ASSUME NEW r \in Readers, ReleaseDec(r) PROVE NoLostWakeup'
  BY <1>5, <1>11 DEF ReleaseDec, Procs
<1>12. ASSUME NEW r \in Readers, ReleaseList(r) PROVE NoLostWakeup'
  BY <1>5, <1>12 DEF ReleaseList, Procs
<1>13. ASSUME NEW r \in Readers, ReleaseLast(r) PROVE NoLostWakeup'
  BY <1>5, <1>13 DEF ReleaseLast, Procs
<1>14. ASSUME NEW r \in Readers, ReleaseClear(r) PROVE NoLostWakeup'
  BY <1>5, <1>14 DEF ReleaseClear, Procs
<1>15. ASSUME NEW r \in Readers, ReleaseFlag(r) PROVE NoLostWakeup'
  BY <1>5, <1>15 DEF ReleaseFlag, Procs
<1>16. ASSUME NEW r \in Readers, Release(r) PROVE NoLostWakeup'
  BY <1>5, <1>16 DEF Release, Procs
<1>17. ASSUME NEW r \in Readers, Read(r) PROVE NoLostWakeup'
  BY <1>5, <1>17 DEF Read, Procs
<1>18. ASSUME NEW r \in Readers, SpinFlag(r) PROVE NoLostWakeup'
  BY <1>5, <1>18 DEF SpinFlag, Procs
<1>19. ASSUME NEW r \in Readers, SpinCount(r) PROVE NoLostWakeup'
  BY <1>5, <1>19 DEF SpinCount, Procs
<1>20. ASSUME NEW r \in Readers, SpinDown(r) PROVE NoLostWakeup'
  BY <1>5, <1>20 DEF SpinDown, Procs, Down
<1>21. ASSUME NEW r \in Readers, SpinUp(r) PROVE NoLostWakeup'
  BY <1>5, <1>21 DEF SpinUp, Procs, Up
<1>22. ASSUME NEW r \in Readers, ReadDown(r) PROVE NoLostWakeup'
  BY <1>5, <1>22 DEF ReadDown, Procs, Down
<1>23. ASSUME NEW r \in Readers, ReadUp(r) PROVE NoLostWakeup'
  BY <1>5, <1>23 DEF ReadUp, Procs, Up
<1>24. ASSUME NEW r \in Readers, WaitTest(r) PROVE NoLostWakeup'
  BY <1>5, <1>24 DEF WaitTest, Procs, Awaited, BroadcastOnly
<1>25. ASSUME NEW r \in Readers, Interrupt(r) PROVE NoLostWakeup'
  BY <1>5, <1>25 DEF Interrupt, Procs
<1>26. ASSUME NEW r \in Readers, ReadCopy(r) PROVE NoLostWakeup'
  BY <1>5, <1>26 DEF ReadCopy, Procs
<1>27. ASSUME NEW r \in Readers, ReadFault(r) PROVE NoLostWakeup'
  BY <1>5, <1>27 DEF ReadFault, Procs
<1>28. ASSUME NEW r \in Readers, CountBroadcast(r) PROVE NoLostWakeup'
  BY <1>5, <1>28 DEF CountBroadcast, Procs
<1>29. ASSUME NEW r \in Readers, CountStore(r) PROVE NoLostWakeup'
  BY <1>5, <1>29 DEF CountStore, Procs
<1>30. ASSUME NEW r \in Readers, CountTest(r) PROVE NoLostWakeup'
  BY <1>5, <1>30 DEF CountTest, Procs
<1>31. ASSUME NEW r \in Readers, CountDecide(r) PROVE NoLostWakeup'
  BY <1>5, <1>31 DEF CountDecide, Procs
<1>32. ASSUME NEW r \in Readers, FinishBroadcast(r) PROVE NoLostWakeup'
  BY <1>5, <1>32 DEF FinishBroadcast, Procs
<1>33. ASSUME NEW r \in Readers, FinishFlag(r) PROVE NoLostWakeup'
  BY <1>5, <1>33 DEF FinishFlag, Procs
<1>34. ASSUME NEW r \in Readers, TakePrivate(r) PROVE NoLostWakeup'
  BY <1>5, <1>34 DEF TakePrivate, Procs
<1>35. ASSUME NEW r \in Readers, ClearPrivate(r) PROVE NoLostWakeup'
  BY <1>5, <1>35 DEF ClearPrivate, Procs
<1>36. ASSUME NEW w \in Writers, Write(w) PROVE NoLostWakeup'
  BY <1>5, <1>36 DEF Write, Procs
<1>37. ASSUME NEW w \in Writers, WriteFault(w) PROVE NoLostWakeup'
  BY <1>5, <1>37 DEF WriteFault, Procs
<1>38. ASSUME NEW w \in Writers, WriteInterrupt(w) PROVE NoLostWakeup'
  BY <1>5, <1>38 DEF WriteInterrupt, Procs
<1>39. ASSUME NEW w \in Writers, WriteDown(w) PROVE NoLostWakeup'
  BY <1>5, <1>39 DEF WriteDown, Procs, Down
<1>40. ASSUME NEW w \in Writers, WriteReject(w) PROVE NoLostWakeup'
  BY <1>5, <1>40 DEF WriteReject, Procs
<1>41. ASSUME NEW w \in Writers, WriteGetUserFault(w) PROVE NoLostWakeup'
  BY <1>5, <1>41 DEF WriteGetUserFault, Procs
<1>42. ASSUME NEW w \in Writers, WriteAccept(w) PROVE NoLostWakeup'
  BY <1>5, <1>42 DEF WriteAccept, Procs
<1>43. ASSUME NEW w \in Writers, WriteBody(w) PROVE NoLostWakeup'
  BY <1>5, <1>43 DEF WriteBody, Procs
<1>44. ASSUME NEW w \in Writers, WriteOverrun(w) PROVE NoLostWakeup'
  BY <1>5, <1>44 DEF WriteOverrun, Procs
<1>45. ASSUME NEW w \in Writers, WriteUp(w) PROVE NoLostWakeup'
  BY <1>5, <1>45 DEF WriteUp, Procs, Up
<1> QED
  BY <1>1, <1>2, <1>3, <1>4, <1>5, <1>6, <1>7, <1>8, <1>9, <1>10, <1>11, <1>12,
     <1>13, <1>14, <1>15, <1>16, <1>17, <1>18, <1>19, <1>20, <1>21, <1>22, <1>23,
     <1>24, <1>25, <1>26, <1>27, <1>28, <1>29, <1>30, <1>31, <1>32, <1>33, <1>34,
     <1>35, <1>36, <1>37, <1>38, <1>39, <1>40, <1>41, <1>42, <1>43, <1>44, <1>45
     DEF Next, OpenClose, ReadStep, WriteStep

\* As long as nobody sends a private message, no wake-up is lost.
THEOREM BroadcastsWake ==
  ASSUME Headers \cap Readers = {}
  PROVE  Spec => []NoLostWakeup
<1>1. Init => BroadcastOnly /\ NoLostWakeup
  BY DEF Init, BroadcastOnly, NoLostWakeup, Procs
<1>2. TypeOK /\ BroadcastOnly /\ [Next]_vars => BroadcastOnly'
  BY BroadcastStep
<1>3. TypeOK /\ BroadcastOnly /\ BroadcastOnly' /\ NoLostWakeup /\ [Next]_vars => NoLostWakeup'
  BY WakeStep
<1> QED
  BY <1>1, <1>2, <1>3, TypeCorrect, PTL DEF Spec

(***************************************************************************)
(* Broadcast rounds.                                                       *)
(***************************************************************************)
\* Where a process is that is no registered reader: before its node is in the list
\* of readers, or after it is out of it.
Unlisted == {"closed", "open_store", "open_add", "rel_last", "rel_clear", "rel_flag", "gone"}
Listed ==
  /\ \A r \in Readers : r \in readers <=> pc[r] \notin Unlisted
  /\ IsFiniteSet(readers)

\* Nobody opens or leaves while a round is calm.
Quiet == round.calm => \A q \in Readers : pc[q] \notin Moving

\* What a read returns now, and what a reader that counts has copied.
Due == {buffer[i] : i \in Span(Least(ReadLen, Unread))} \ {0}
Copied ==
  strayUps = 0 /\ Intact =>
    \A r \in Readers : pc[r] \in Counting => Due \subseteq seen[r]

\* Where a reader is that has counted in a round that goes on: it cannot pass its wait.
Waiting == {"count_test", "count_decide", "finish", "read_up", "user", "spin_flag",
            "spin_count", "spin_down", "spin_up", "killed"}

\* What the reader that counts has loaded is still so when it uses it.
CountRight ==
  \A r \in Readers :
    /\ pc[r] \in {"count_store", "count_decide"} => reg[r] = read_count
    /\ pc[r] = "finish" => read_count = total_readers
    /\ pc[r] # "finish_flag"

\* A calm round: the readers counted are different, registered, have what is due and
\* wait for the others.
Calm ==
  strayUps = 0 /\ Intact /\ round.calm =>
    /\ flag = 1 /\ total_readers = Cardinality(readers)
    /\ round.counted \subseteq readers
    /\ read_count = Cardinality(round.counted) /\ read_count # 0
    /\ \A q \in round.counted : pc[q] \in Waiting /\ Due \subseteq seen[q]
    /\ CountRight

\* The inductive invariant of the rounds.
RoundInv == Listed /\ Quiet /\ Copied /\ Calm

\* What a reader has copied, it has copied, until it leaves the list.
LEMMA SeenGrows ==
  ASSUME TypeOK, [Next]_vars
  PROVE  \A q \in Readers : pc[q] # "rel_list" => seen[q] \subseteq seen'[q]
<1>1. ASSUME NEW r \in Readers, ReadCopy(r) PROVE \A q \in Readers : seen[q] \subseteq seen'[q]
  BY <1>1 DEF ReadCopy, TypeOK
<1>2. ASSUME NEW r \in Readers, ReleaseList(r)
      PROVE  \A q \in Readers : pc[q] # "rel_list" => seen[q] \subseteq seen'[q]
  BY <1>2 DEF ReleaseList, Go, TypeOK
<1>3. seen' = seen \/ \E r \in Readers : ReadCopy(r) \/ ReleaseList(r)
  BY DEF Next, vars, OpenClose, ReadStep, WriteStep, Open, OpenStore, OpenAdd,
     Release, ReleaseStore, ReleaseTest, ReleaseDec, ReleaseLast,
     ReleaseClear, ReleaseFlag, Read, SpinFlag, SpinCount, SpinDown, SpinUp, WaitTest,
     ReadDown,
     ReadFault, CountBroadcast, CountStore, CountTest, CountDecide, FinishBroadcast,
     FinishFlag, TakePrivate, ClearPrivate,
     ReadUp, Interrupt, Write, WriteFault, WriteInterrupt, WriteDown, WriteBody,
     WriteReject, WriteGetUserFault, WriteAccept, WriteOverrun, WriteUp, WriteFlag,
     WriteWake
<1> QED
  BY <1>1, <1>2, <1>3

\* Whoever moves rd or writes into the buffer excludes the readers that have copied.
LEMMA CopiedStep ==
  ASSUME TypeOK, MutualExclusion, Copied, [Next]_vars
  PROVE  Copied'
<1> SUFFICES ASSUME strayUps' = 0, Intact', NEW q \in Readers, pc'[q] \in Counting
             PROVE  Due' \subseteq seen'[q]
  BY DEF Copied
<1>1. strayUps = 0 /\ Intact
  BY StrayBefore, IntactBefore
<1>2. \A p, r \in Procs : pc[p] \in Inside /\ pc[r] \in Inside => p = r
  BY <1>1 DEF MutualExclusion, Semaphore!Exclusive, Holders
<1>3. ASSUME NEW r \in Readers, ReadCopy(r) PROVE Due' \subseteq seen'[q]
  <2>1. q = r
    BY <1>2, <1>3 DEF ReadCopy, Go, TypeOK, Procs, Inside, Counting
  <2>2. Due' = Due /\ seen'[r] = seen[r] \cup Due
    BY <1>3 DEF ReadCopy, ring, TypeOK, Due, Span, Unread
  <2> QED
    BY <2>1, <2>2
<1>4. ASSUME NEW r \in Readers, FinishBroadcast(r) \/ TakePrivate(r) PROVE FALSE
  BY <1>2, <1>4 DEF FinishBroadcast, TakePrivate, Go, TypeOK, Procs, Inside, Counting
<1>5. ASSUME NEW w \in Writers, WriteBody(w) PROVE FALSE
  <2>1. pc[q] \in Counting /\ pc[w] = "write_body" /\ q # w
    BY <1>5, CharDeviceAssumption DEF WriteBody, Go, TypeOK, Procs
  <2> QED
    BY <1>2, <2>1 DEF Procs, Inside
<1>6. ASSUME RingKept PROVE Due' \subseteq seen'[q]
  <2>1. Due' = Due /\ pc[q] \in Counting
    BY <1>6 DEF RingKept, ring, Due, Span, Unread
  <2> QED
    BY <1>1, <2>1, SeenGrows DEF Copied, Counting
<1> QED
  BY <1>3, <1>4, <1>5, <1>6, RingUsers DEF RingStep

\* A step that leaves the round as it is: it keeps the ring, the counters and the
\* lists, and takes nobody into open, release or the counting, nor a counted reader of
\* a round past its wait.
Unruffled ==
  /\ UNCHANGED <<ring, read_count, people, reg, round>> /\ flag' \in {flag, 1}
  /\ \A q \in Readers :
       /\ pc[q] \in Unlisted <=> pc'[q] \in Unlisted
       /\ pc'[q] \in Moving => pc[q] \in Moving
       /\ pc'[q] \in {"count_store", "count_decide", "finish", "finish_flag"} =>
            pc'[q] = pc[q]
       /\ pc[q] \in Waiting /\ flag = 1 /\ read_count # 0 => pc'[q] \in Waiting

\* Such a step keeps what RoundInv says of the round.
LEMMA UnruffledKeeps ==
  ASSUME TypeOK, [Next]_vars, RoundInv, Unruffled
  PROVE  Listed' /\ Quiet' /\ Calm'
<1>1. /\ readers' = readers /\ total_readers' = total_readers /\ round' = round
      /\ read_count' = read_count /\ flag' \in {flag, 1} /\ Due' = Due /\ reg' = reg
  BY DEF Unruffled, ring, people, Due, Span, Unread
<1>2. Listed' /\ Quiet'
  BY <1>1 DEF Unruffled, RoundInv, Listed, Quiet
<1>3. ASSUME strayUps' = 0, Intact', round.calm
      PROVE  /\ flag' = 1 /\ total_readers = Cardinality(readers)
             /\ round.counted \subseteq readers
             /\ read_count = Cardinality(round.counted) /\ read_count # 0
             /\ \A q \in round.counted : pc'[q] \in Waiting /\ Due \subseteq seen'[q]
             /\ CountRight'
  <2>1. strayUps = 0 /\ Intact
    BY <1>3, StrayBefore, IntactBefore
  <2>2. /\ flag = 1 /\ total_readers = Cardinality(readers)
        /\ round.counted \subseteq readers
        /\ read_count = Cardinality(round.counted) /\ read_count # 0
        /\ \A q \in round.counted : pc[q] \in Waiting /\ Due \subseteq seen[q]
        /\ CountRight
    BY <1>3, <2>1 DEF RoundInv, Calm
  <2>3. readers \subseteq Readers
    BY DEF TypeOK
  <2>4. CountRight'
    BY <1>1, <2>2 DEF CountRight, Unruffled
  <2>5. \A q \in round.counted : pc'[q] \in Waiting /\ Due \subseteq seen'[q]
    BY <2>2, <2>3, SeenGrows DEF Unruffled, Waiting
  <2> QED
    BY <1>1, <2>2, <2>4, <2>5
<1> QED
  BY <1>1, <1>2, <1>3 DEF Calm

\* The steps of a call to read or write outside its use of the ring.
LEMMA UnruffledSteps ==
  ASSUME TypeOK
  PROVE  /\ \A r \in Readers :
              Read(r) \/ SpinFlag(r) \/ SpinCount(r) \/ SpinDown(r)
              \/ SpinUp(r) \/ WaitTest(r) \/ ReadDown(r) \/ ReadCopy(r)
              \/ ReadFault(r) \/ ClearPrivate(r) \/ ReadUp(r) \/ Interrupt(r)
              => Unruffled
         /\ \A w \in Writers :
              Write(w) \/ WriteInterrupt(w) \/ WriteDown(w) \/ WriteReject(w)
              \/ WriteGetUserFault(w) \/ WriteAccept(w) \/ WriteUp(w) \/ WriteFlag(w)
              \/ WriteWake(w)
              => Unruffled
<1> USE DEF Unlisted, Waiting, Moving
<1>1. ASSUME NEW r \in Readers, Read(r) PROVE Unruffled
  BY <1>1, OneMoves DEF Read, ring, people, Unruffled, Procs
<1>2. ASSUME NEW r \in Readers, SpinFlag(r) PROVE Unruffled
  BY <1>2, OneMoves DEF SpinFlag, ring, people, Unruffled, Procs
<1>3. ASSUME NEW r \in Readers, SpinCount(r) PROVE Unruffled
  BY <1>3, OneMoves DEF SpinCount, ring, people, Unruffled, Procs
<1>4. ASSUME NEW r \in Readers, SpinDown(r) PROVE Unruffled
  BY <1>4, OneMoves DEF SpinDown, Down, ring, people, Unruffled, Procs
<1>5. ASSUME NEW r \in Readers, SpinUp(r) PROVE Unruffled
  BY <1>5, OneMoves DEF SpinUp, Up, ring, people, Unruffled, Procs
<1>6. ASSUME NEW r \in Readers, WaitTest(r) PROVE Unruffled
  BY <1>6, OneMoves DEF WaitTest, ring, people, Unruffled, Procs
<1>7. ASSUME NEW r \in Readers, ReadDown(r) PROVE Unruffled
  BY <1>7, OneMoves DEF ReadDown, Down, ring, people, Unruffled, Procs
<1>8. ASSUME NEW r \in Readers, ReadCopy(r) PROVE Unruffled
  BY <1>8, OneMoves DEF ReadCopy, ring, people, Unruffled, Procs
<1>9. ASSUME NEW r \in Readers, ReadFault(r) PROVE Unruffled
  BY <1>9, OneMoves DEF ReadFault, ring, people, Unruffled, Procs
<1>10. ASSUME NEW r \in Readers, ClearPrivate(r) PROVE Unruffled
  BY <1>10, OneMoves DEF ClearPrivate, ring, people, Unruffled, Procs
<1>11. ASSUME NEW r \in Readers, ReadUp(r) PROVE Unruffled
  BY <1>11, OneMoves DEF ReadUp, Up, ring, people, Unruffled, Procs
<1>12. ASSUME NEW r \in Readers, Interrupt(r) PROVE Unruffled
  BY <1>12, OneMoves DEF Interrupt, ring, people, Unruffled, Procs
<1>13. ASSUME NEW w \in Writers, Write(w) PROVE Unruffled
  BY <1>13, OneMoves, CharDeviceAssumption DEF Write, ring, people, Unruffled, Procs
<1>14. ASSUME NEW w \in Writers, WriteInterrupt(w) PROVE Unruffled
  BY <1>14, OneMoves, CharDeviceAssumption
     DEF WriteInterrupt, ring, people, Unruffled, Procs
<1>15. ASSUME NEW w \in Writers, WriteDown(w) PROVE Unruffled
  BY <1>15, OneMoves, CharDeviceAssumption
     DEF WriteDown, Down, ring, people, Unruffled, Procs
<1>16. ASSUME NEW w \in Writers, WriteReject(w) PROVE Unruffled
  BY <1>16, OneMoves, CharDeviceAssumption DEF WriteReject, ring, people, Unruffled, Procs
<1>17. ASSUME NEW w \in Writers, WriteGetUserFault(w) PROVE Unruffled
  BY <1>17, OneMoves, CharDeviceAssumption
     DEF WriteGetUserFault, ring, people, Unruffled, Procs
<1>18. ASSUME NEW w \in Writers, WriteUp(w) PROVE Unruffled
  BY <1>18, OneMoves, CharDeviceAssumption DEF WriteUp, Up, ring, people, Unruffled, Procs
<1>19. ASSUME NEW w \in Writers, WriteFlag(w) PROVE Unruffled
  BY <1>19, OneMoves, CharDeviceAssumption DEF WriteFlag, ring, people, Unruffled, Procs
<1>20. ASSUME NEW w \in Writers, WriteAccept(w) PROVE Unruffled
  BY <1>20, OneMoves, CharDeviceAssumption DEF WriteAccept, ring, people, Unruffled, Procs
<1>21. ASSUME NEW w \in Writers, WriteWake(w) PROVE Unruffled
  BY <1>21, CharDeviceAssumption DEF WriteWake, ring, people, Unruffled, Procs, TypeOK
<1> QED
  BY <1>1, <1>2, <1>3, <1>4, <1>5, <1>6, <1>7, <1>8, <1>9, <1>10, <1>11, <1>12,
     <1>13, <1>14, <1>15, <1>16, <1>17, <1>18, <1>19, <1>20, <1>21

\* A reader that moves between two listed, or two unlisted, places.
LEMMA ListedMove ==
  ASSUME TypeOK, Listed, NEW r \in Readers, NEW from, NEW to, Go(r, from, to),
         readers' = readers, from \in Unlisted <=> to \in Unlisted
  PROVE  Listed'
BY OneMoves DEF Listed, Procs

\* Open and close keep the list, and no round is calm while they go on.
LEMMA MovingSteps ==
  ASSUME TypeOK, Listed, Quiet, NEW r \in Readers, OpenClose(r)
  PROVE  Listed' /\ Quiet' /\ Calm'
<1>1. Listed'
  <2>1. CASE Open(r)
    BY <2>1, ListedMove DEF Open, people, Unlisted
  <2>2. CASE OpenStore(r)
    BY <2>2, ListedMove DEF OpenStore, people, Unlisted
  <2>3. CASE Release(r)
    BY <2>3, ListedMove DEF Release, people, Unlisted
  <2>4. CASE ReleaseStore(r)
    BY <2>4, ListedMove DEF ReleaseStore, people, Unlisted
  <2>5. CASE ReleaseTest(r)
    BY <2>5, ListedMove DEF ReleaseTest, people, Unlisted
  <2>6. CASE ReleaseDec(r)
    BY <2>6, ListedMove DEF ReleaseDec, people, Unlisted
  <2>7. CASE ReleaseLast(r)
    BY <2>7, ListedMove DEF ReleaseLast, people, Unlisted
  <2>8. CASE ReleaseClear(r)
    BY <2>8, ListedMove DEF ReleaseClear, people, Unlisted
  <2>9. CASE ReleaseFlag(r)
    BY <2>9, ListedMove DEF ReleaseFlag, people, Unlisted
  <2>10. CASE OpenAdd(r)
    <3>1. IsFiniteSet(readers')
      BY <2>10, FS_AddElement DEF OpenAdd, Listed
    <3> QED
      BY <2>10, <3>1, OneMoves DEF OpenAdd, Listed, Unlisted, Procs
  <2>11. CASE ReleaseList(r)
    <3>1. IsFiniteSet(readers')
      BY <2>11, FS_Subset DEF ReleaseList, Listed
    <3> QED
      BY <2>11, <3>1, OneMoves DEF ReleaseList, Listed, Unlisted, Procs
  <2> QED
    BY <2>1, <2>2, <2>3, <2>4, <2>5, <2>6, <2>7, <2>8, <2>9, <2>10, <2>11
       DEF OpenClose
<1>2. CASE Open(r) \/ Release(r)
  <2>1. round' = Disturbed
    BY <1>2 DEF Open, Release
  <2>2. ~round'.calm
    BY <2>1 DEF Disturbed, TypeOK
  <2> QED
    BY <1>1, <2>2 DEF Quiet, Calm
<1>3. CASE ~(Open(r) \/ Release(r))
  <2>1. pc[r] \in Moving /\ round' = round
    BY <1>3 DEF OpenClose, OpenStore, OpenAdd, ReleaseStore, ReleaseTest, ReleaseDec,
       ReleaseList, ReleaseLast, ReleaseClear, ReleaseFlag, Go, Moving
  <2> QED
    BY <1>1, <2>1 DEF Quiet, Calm
<1> QED
  BY <1>2, <1>3

\* A writer that fills the ring, and a reader that takes bytes out, end the calm.
LEMMA DisturbingSteps ==
  ASSUME TypeOK, Listed,
         \/ \E r \in Readers : TakePrivate(r) \/ FinishBroadcast(r)
         \/ \E w \in Writers : WriteBody(w)
  PROVE  Listed' /\ Quiet' /\ Calm'
<1>1. round' = Disturbed
  BY DEF TakePrivate, FinishBroadcast, WriteBody
<1>2. ~round'.calm
  BY <1>1 DEF Disturbed, TypeOK
<1>3. ASSUME NEW r \in Readers, TakePrivate(r) PROVE Listed'
  BY <1>3, ListedMove DEF TakePrivate, people, Unlisted
<1>4. ASSUME NEW r \in Readers, FinishBroadcast(r) PROVE Listed'
  BY <1>4, ListedMove DEF FinishBroadcast, people, Unlisted
<1>5. ASSUME NEW w \in Writers, WriteBody(w) PROVE Listed'
  BY <1>5, OneMoves, CharDeviceAssumption DEF WriteBody, people, Listed, Procs
<1> QED
  BY <1>2, <1>3, <1>4, <1>5 DEF Quiet, Calm

\* The reader that counts is the only one there.
LEMMA OneCounts ==
  ASSUME MutualExclusion, strayUps = 0, NEW r \in Readers, pc[r] \in Inside
  PROVE  \A q \in Readers \ {r} : pc[q] \notin Inside
BY DEF MutualExclusion, Semaphore!Exclusive, Holders, Procs

\* A load of read_count, and the decision whether the round is complete.
LEMMA TestStep ==
  ASSUME TypeOK, MutualExclusion, [Next]_vars, RoundInv, NEW r \in Readers,
         CountBroadcast(r) \/ CountTest(r) \/ CountDecide(r)
  PROVE  Listed' /\ Quiet' /\ Calm'
<1>1. /\ UNCHANGED <<flag, ring, read_count, people, seen, strayUps, round>> /\ Intact
      /\ \A q \in Readers \ {r} : reg'[q] = reg[q]
  BY DEF CountBroadcast, CountTest, CountDecide, errors, Go, TypeOK
<1>2. \/ pc[r] = "read_count" /\ pc'[r] = "count_store" /\ reg'[r] = read_count
      \/ pc[r] = "count_test" /\ pc'[r] = "count_decide" /\ reg'[r] = read_count
      \/ /\ pc[r] = "count_decide" /\ pc'[r] \in {"finish", "read_up"}
         /\ pc'[r] = "finish" => reg[r] = total_readers
  BY DEF CountBroadcast, CountTest, CountDecide, Go, TypeOK, Procs
<1>3. \A q \in Readers \ {r} : pc'[q] = pc[q]
  BY OneMoves DEF CountBroadcast, CountTest, CountDecide, Procs
<1>4. Listed' /\ Quiet'
  BY <1>1, <1>2, <1>3 DEF RoundInv, Listed, Quiet, people, Unlisted, Moving
<1>5. Due' = Due
  BY <1>1 DEF ring, Due, Span, Unread
<1>6. ASSUME strayUps = 0, round.calm
      PROVE  /\ flag' = 1 /\ total_readers' = Cardinality(readers')
             /\ round'.counted \subseteq readers'
             /\ read_count' = Cardinality(round'.counted) /\ read_count' # 0
             /\ \A q \in round'.counted : pc'[q] \in Waiting /\ Due' \subseteq seen'[q]
             /\ CountRight'
  <2>1. /\ flag = 1 /\ total_readers = Cardinality(readers)
        /\ round.counted \subseteq readers /\ readers \subseteq Readers
        /\ read_count = Cardinality(round.counted) /\ read_count # 0
        /\ \A q \in round.counted : pc[q] \in Waiting /\ Due \subseteq seen[q]
        /\ CountRight
    BY <1>1, <1>6 DEF RoundInv, Calm, TypeOK
  <2>2. \A q \in Readers \ {r} : pc[q] \notin Inside
    BY <1>2, <1>6, OneCounts DEF Inside, Counting
  <2>3. CountRight'
    BY <1>1, <1>2, <1>3, <2>1, <2>2 DEF CountRight, Inside, Counting, people
  <2>4. \A q \in round.counted : pc'[q] \in Waiting
    BY <1>2, <1>3, <2>1 DEF Waiting
  <2> QED
    BY <1>1, <1>5, <2>1, <2>3, <2>4 DEF people
<1> QED
  BY <1>1, <1>4, <1>6 DEF Calm

\* The readers counted so far, with one that is about to store its count.
LEMMA CountedOnce ==
  ASSUME TypeOK, RoundInv, strayUps = 0, Intact, round.calm,
         NEW r \in Readers, pc[r] = "count_store"
  PROVE  /\ reg[r] = read_count /\ round.counted \cup {r} \subseteq readers
         /\ Cardinality(round.counted \cup {r}) = read_count + 1
<1>1. /\ r \notin round.counted /\ r \in readers /\ round.counted \subseteq readers
      /\ read_count = Cardinality(round.counted) /\ reg[r] = read_count
  BY DEF RoundInv, Calm, CountRight, Listed, Waiting, Unlisted
<1>2. IsFiniteSet(round.counted)
  BY <1>1, FS_Subset DEF RoundInv, Listed
<1>3. Cardinality(round.counted \cup {r}) = Cardinality(round.counted) + 1
  BY <1>1, <1>2, FS_AddElement
<1> QED
  BY <1>1, <1>3

\* The store of a count begins a round or adds a reader to it.
LEMMA CountStep ==
  ASSUME TypeOK, MutualExclusion, [Next]_vars, RoundInv, NEW r \in Readers, CountStore(r)
  PROVE  Listed' /\ Quiet' /\ Calm'
<1>1. /\ UNCHANGED <<flag, ring, people, seen, strayUps>> /\ round' = RoundOf(r)
      /\ read_count' = reg[r] + 1 /\ pc[r] = "count_store" /\ pc'[r] = "count_test"
      /\ reg[r] \in Int /\ Intact
  BY DEF CountStore, errors, Go, TypeOK, Procs
<1>2. \A q \in Readers \ {r} : pc'[q] = pc[q]
  BY OneMoves DEF CountStore, Procs
<1>3. Listed'
  BY <1>1, <1>2 DEF RoundInv, Listed, people, Unlisted
<1>4. round'.calm => \A q \in Readers : pc[q] \notin Moving
  BY <1>1 DEF RoundOf, Disturbed, Settled, RoundInv, Quiet, TypeOK
<1>5. Quiet'
  BY <1>1, <1>2, <1>4 DEF Quiet, Moving
<1>6. Due' = Due
  BY <1>1 DEF ring, Due, Span, Unread
<1>7. ASSUME strayUps = 0, round'.calm
      PROVE  /\ flag = 1 /\ total_readers = Cardinality(readers)
             /\ round'.counted \subseteq readers
             /\ reg[r] + 1 = Cardinality(round'.counted) /\ reg[r] + 1 # 0
             /\ \A q \in round'.counted : pc'[q] \in Waiting /\ Due \subseteq seen[q]
             /\ CountRight'
  <2>1. r \in readers /\ Due \subseteq seen[r] /\ readers \subseteq Readers
    BY <1>1, <1>7 DEF RoundInv, Listed, Unlisted, Copied, Counting, TypeOK
  <2>2. \A q \in Readers : pc'[q] \in Inside => q = r
    BY <1>1, <1>2, <1>7, OneCounts DEF Inside, Counting
  <2>3. CountRight'
    BY <1>1, <2>2 DEF CountRight, Inside, Counting
  <2>4. CASE reg[r] = 0
    <3>1. round' = [counted |-> {r}, calm |-> TRUE] /\ Settled
      BY <1>1, <1>7, <2>4 DEF RoundOf, Disturbed
    <3>2. Cardinality({r}) = 1
      BY FS_Singleton
    <3> QED
      BY <1>1, <1>7, <2>1, <2>3, <2>4, <3>1, <3>2 DEF Settled, Waiting
  <2>5. CASE reg[r] # 0
    <3>1. round'.counted = round.counted \cup {r} /\ round.calm
      BY <1>1, <1>7, <2>5 DEF RoundOf, Disturbed, TypeOK
    <3>2. /\ reg[r] = read_count /\ round.counted \cup {r} \subseteq readers
          /\ Cardinality(round.counted \cup {r}) = read_count + 1
      BY <1>1, <1>7, <3>1, CountedOnce
    <3>3. /\ flag = 1 /\ total_readers = Cardinality(readers)
          /\ \A q \in round.counted : pc[q] \in Waiting /\ Due \subseteq seen[q]
      BY <1>1, <1>7, <3>1 DEF RoundInv, Calm
    <3>4. reg[r] + 1 # 0
      <4>1. IsFiniteSet(round.counted)
        BY <3>2, FS_Subset DEF RoundInv, Listed
      <4>2. read_count \in Nat
        BY <1>1, <1>7, <3>1, <4>1, FS_CardinalityType DEF RoundInv, Calm
      <4> QED
        BY <3>2, <4>2
    <3>5. \A q \in round'.counted : pc'[q] \in Waiting /\ Due \subseteq seen[q]
      BY <1>1, <1>2, <2>1, <3>1, <3>2, <3>3 DEF Waiting
    <3> QED
      BY <2>3, <3>1, <3>2, <3>3, <3>4, <3>5
  <2> QED
    BY <2>4, <2>5
<1> QED
  BY <1>1, <1>3, <1>5, <1>6, <1>7 DEF Calm, people

\* The reset of flag comes after the round is over.
LEMMA FlagStep ==
  ASSUME TypeOK, [Next]_vars, RoundInv, NEW r \in Readers, FinishFlag(r)
  PROVE  Listed' /\ Quiet' /\ Calm'
<1>1. /\ pc[r] = "finish_flag" /\ UNCHANGED <<people, round, strayUps>> /\ Intact
  BY DEF FinishFlag, Go, errors
<1>2. Listed'
  BY <1>1, ListedMove DEF FinishFlag, RoundInv, people, Unlisted
<1>3. Quiet'
  BY <1>1, OneMoves DEF FinishFlag, RoundInv, Quiet, Moving, Procs
<1>4. strayUps = 0 => ~round.calm
  BY <1>1 DEF RoundInv, Calm, CountRight
<1> QED
  BY <1>1, <1>2, <1>3, <1>4 DEF Calm

\* A step after which nothing is claimed of the round keeps the lists.
LEMMA LostStep ==
  ASSUME TypeOK, RoundInv, NEW w \in Writers, WriteFault(w) \/ WriteOverrun(w)
  PROVE  Listed' /\ Quiet' /\ Calm'
<1>1. strayUps' # 0 \/ ~Intact'
  BY OverrunShows DEF WriteFault, TypeOK
<1>2. readers' = readers /\ round' = round
  BY DEF WriteFault, WriteOverrun, people
<1>3. \A q \in Readers : pc'[q] = pc[q]
  BY OneMoves, CharDeviceAssumption DEF WriteFault, WriteOverrun, Procs
<1> QED
  BY <1>1, <1>2, <1>3 DEF RoundInv, Listed, Quiet, Calm

\* Every step keeps the invariant of the rounds.
LEMMA RoundStep == TypeOK /\ MutualExclusion /\ RoundInv /\ [Next]_vars => RoundInv'
<1> SUFFICES ASSUME TypeOK, MutualExclusion, RoundInv, [Next]_vars PROVE RoundInv'
  OBVIOUS
<1>1. Copied'
  BY CopiedStep DEF RoundInv
<1> DEFINE Goal == Listed' /\ Quiet' /\ Calm'
<1>2. CASE UNCHANGED vars
  <2>1. Unruffled
    BY <1>2 DEF vars, Unruffled
  <2> QED
    BY <1>1, <2>1, UnruffledKeeps DEF RoundInv
<1>3. ASSUME NEW r \in Readers, OpenClose(r) PROVE Goal
  BY <1>3, MovingSteps DEF RoundInv
<1>4. ASSUME NEW r \in Readers, Read(r) \/ ReadStep(r) \/ Interrupt(r) PROVE Goal
  <2>1. CASE TakePrivate(r) \/ FinishBroadcast(r)
    BY <2>1, DisturbingSteps DEF RoundInv
  <2>2. CASE CountBroadcast(r) \/ CountTest(r) \/ CountDecide(r)
    BY <2>2, TestStep
  <2>3. CASE CountStore(r)
    BY <2>3, CountStep
  <2>4. CASE FinishFlag(r)
    BY <2>4, FlagStep
  <2>5. CASE Read(r) \/ SpinFlag(r) \/ SpinCount(r) \/ SpinDown(r) \/ SpinUp(r)
             \/ WaitTest(r) \/ ReadDown(r) \/ ReadCopy(r) \/ ReadFault(r)
             \/ ClearPrivate(r) \/ ReadUp(r) \/ Interrupt(r)
    <3>1. Unruffled
      BY <2>5, UnruffledSteps
    <3> QED
      BY <3>1, UnruffledKeeps
  <2> QED
    BY <1>4, <2>1, <2>2, <2>3, <2>4, <2>5 DEF ReadStep
<1>5. ASSUME NEW w \in Writers, Write(w) \/ WriteInterrupt(w) \/ WriteStep(w) PROVE Goal
  <2>1. CASE WriteBody(w)
    BY <2>1, DisturbingSteps DEF RoundInv
  <2>2. CASE WriteOverrun(w)
    BY <2>2, LostStep
  <2>3. CASE ~WriteBody(w) /\ ~WriteOverrun(w)
    <3>1. Unruffled
      BY <1>5, <2>3, UnruffledSteps DEF WriteStep
    <3> QED
      BY <3>1, UnruffledKeeps
  <2> QED
    BY <2>1, <2>2, <2>3
<1>6. ASSUME NEW w \in Writers, WriteFault(w) PROVE Goal
  BY <1>6, LostStep
<1> QED
  BY <1>1, <1>2, <1>3, <1>4, <1>5, <1>6 DEF Next, RoundInv

\* When a calm round ends, every registered reader has counted.
LEMMA AllCounted ==
  ASSUME TypeOK, RoundInv, LengthRight, strayUps = 0,
         NEW r \in Readers, FinishBroadcast(r), round.calm
  PROVE  /\ round.counted = readers
         /\ \A q \in readers : {buffer[i] : i \in Span(count[r])} \ {0} \subseteq seen[q]
<1>1. pc[r] = "finish" /\ Intact /\ IsFiniteSet(readers)
  BY DEF FinishBroadcast, Go, RoundInv, Listed
<1>2. {buffer[i] : i \in Span(count[r])} \ {0} = Due
  BY <1>1 DEF LengthRight, Due, Counting
<1>3. /\ total_readers = Cardinality(readers) /\ read_count = total_readers
      /\ round.counted \subseteq readers /\ read_count = Cardinality(round.counted)
      /\ \A q \in round.counted : Due \subseteq seen[q]
  BY <1>1 DEF RoundInv, Calm, CountRight
<1>4. round.counted = readers
  BY <1>1, <1>3, FS_Subset
<1> QED
  BY <1>2, <1>3, <1>4

\* A calm broadcast round gives up no byte that a registered reader has not copied.
THEOREM CalmRoundsDeliver == Spec => CalmRoundDelivers
<1>1. Init => RoundInv /\ LengthRight
  <2> SUFFICES ASSUME Init PROVE RoundInv /\ LengthRight
    OBVIOUS
  <2>1. /\ readers = {} /\ round = [counted |-> {}, calm |-> FALSE]
        /\ \A r \in Readers : pc[r] = "closed"
    BY DEF Init, Procs
  <2>2. IsFiniteSet(readers)
    BY <2>1, FS_EmptySet
  <2> QED
    BY <2>1, <2>2 DEF RoundInv, Listed, Unlisted, Quiet, Copied, Calm, LengthRight, Counting
<1>2. TypeOK /\ RoundInv /\ LengthRight /\ strayUps = 0 =>
        \A r \in Readers :
          FinishBroadcast(r) /\ round.calm =>
            /\ round.counted = readers
            /\ \A q \in readers :
                 {buffer[i] : i \in Span(count[r])} \ {0} \subseteq seen[q]
  BY AllCounted
<1> QED
  BY <1>1, <1>2, RoundStep, LengthStep, TypeCorrect, DriverExcludes, PTL
     DEF Spec, CalmRoundDelivers
=============================================================================
