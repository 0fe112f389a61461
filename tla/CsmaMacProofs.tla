---------------------------- MODULE CsmaMacProofs ----------------------------
(***************************************************************************)
(* CsmaMac, for all packets and all sizes of the buffers: the types, that  *)
(* an answer is on its way for as long as the MAC waits for one, that no   *)
(* transmission is cut off, and that the send buffer is a queue.           *)
(***************************************************************************)
EXTENDS CsmaMac, FiniteSetTheorems, SequenceTheorems, TLAPS

-----------------------------------------------------------------------------
(***************************************************************************)
(* The ring of messages.                                                   *)
(***************************************************************************)
Rings(size) == [msgPtr : [0 .. size - 1 -> 0 .. size], nextCleanBuffer : 0 .. size - 1,
                firstFullBuffer : 0 .. size - 1, numElements : 0 .. size]

LEMMA RingSize ==
    ASSUME NEW size \in Nat \ {0}, NEW b \in Rings(size)
    PROVE  Ring!Size(b) = size
<1>1. DOMAIN b.msgPtr = 0 .. size - 1
  BY DEF Rings
<1>2. Cardinality(0 .. size - 1) = size
  BY FS_Interval
<1>. QED BY <1>1, <1>2 DEF Ring!Size, Ring!Cardinality, Cardinality

\* Positions wrap once.
LEMMA ModWraps ==
    ASSUME NEW s \in Nat \ {0}, NEW x \in Nat, x < 2 * s
    PROVE  x % s = IF x < s THEN x ELSE x - s
OBVIOUS

\* What the operators of the ring do with its fields.
LEMMA RingSteps ==
    ASSUME NEW size \in Nat \ {0}, NEW b \in Rings(size)
    PROVE  /\ Ring!IsFull(b) <=> b.numElements = size
           /\ Ring!IsEmpty(b) <=> b.numElements = 0
           /\ ~Ring!IsFull(b) =>
                 /\ Ring!GetNextFreeBuffer(b) \in Rings(size)
                 /\ Ring!GetNextFreeBuffer(b).msgPtr = b.msgPtr
                 /\ Ring!GetNextFreeBuffer(b).firstFullBuffer = b.firstFullBuffer
                 /\ Ring!GetNextFreeBuffer(b).numElements = b.numElements + 1
                 /\ Ring!GetNextFreeBuffer(b).nextCleanBuffer =
                       IF b.nextCleanBuffer + 1 = size THEN 0 ELSE b.nextCleanBuffer + 1
           /\ ~Ring!IsEmpty(b) =>
                 /\ Ring!GetFirstFullBuffer(b) \in Rings(size)
                 /\ Ring!GetFirstFullBuffer(b).msgPtr = b.msgPtr
                 /\ Ring!GetFirstFullBuffer(b).nextCleanBuffer = b.nextCleanBuffer
                 /\ Ring!GetFirstFullBuffer(b).numElements = b.numElements - 1
                 /\ Ring!GetFirstFullBuffer(b).firstFullBuffer =
                       IF b.firstFullBuffer + 1 = size THEN 0 ELSE b.firstFullBuffer + 1
<1>1. (Ring!IsFull(b) <=> b.numElements = size) /\ (Ring!IsEmpty(b) <=> b.numElements = 0)
  BY RingSize DEF Ring!IsFull, Ring!IsEmpty
<1>2. \A i \in 0 .. size - 1 :
         /\ Ring!Following(b, i) = IF i + 1 = size THEN 0 ELSE i + 1
         /\ Ring!Following(b, i) \in 0 .. size - 1
  BY RingSize DEF Ring!Following
<1>3. ASSUME ~Ring!IsFull(b)
      PROVE  /\ Ring!GetNextFreeBuffer(b) \in Rings(size)
             /\ Ring!GetNextFreeBuffer(b).msgPtr = b.msgPtr
             /\ Ring!GetNextFreeBuffer(b).firstFullBuffer = b.firstFullBuffer
             /\ Ring!GetNextFreeBuffer(b).numElements = b.numElements + 1
             /\ Ring!GetNextFreeBuffer(b).nextCleanBuffer =
                   IF b.nextCleanBuffer + 1 = size THEN 0 ELSE b.nextCleanBuffer + 1
  <2>. DEFINE f == Ring!Following(b, b.nextCleanBuffer)
              c == [msgPtr |-> b.msgPtr, nextCleanBuffer |-> f,
                    firstFullBuffer |-> b.firstFullBuffer, numElements |-> b.numElements + 1]
  <2>1. /\ b.nextCleanBuffer \in 0 .. size - 1 /\ b.firstFullBuffer \in 0 .. size - 1
        /\ b.numElements \in 0 .. size /\ b.msgPtr \in [0 .. size - 1 -> 0 .. size]
        /\ b.numElements # size
    BY <1>1, <1>3 DEF Rings
  <2>2. f \in 0 .. size - 1 /\ f = IF b.nextCleanBuffer + 1 = size THEN 0 ELSE b.nextCleanBuffer + 1
    BY <1>2, <2>1
  <2>. HIDE DEF f
  <2>3. Ring!GetNextFreeBuffer(b) = c
    <3>. DEFINE mid == [b EXCEPT !.nextCleanBuffer = f]
    <3>1. /\ mid = [msgPtr |-> b.msgPtr, nextCleanBuffer |-> f,
                    firstFullBuffer |-> b.firstFullBuffer, numElements |-> b.numElements]
          /\ Ring!GetNextFreeBuffer(b) = [mid EXCEPT !.numElements = mid.numElements + 1]
      BY DEF Ring!GetNextFreeBuffer, Rings, f
    <3>. HIDE DEF mid
    <3>. QED BY <3>1
  <2>4. c \in Rings(size)
    BY <2>1, <2>2 DEF Rings
  <2>. QED BY <2>2, <2>3, <2>4
<1>4. ASSUME ~Ring!IsEmpty(b)
      PROVE  /\ Ring!GetFirstFullBuffer(b) \in Rings(size)
             /\ Ring!GetFirstFullBuffer(b).msgPtr = b.msgPtr
             /\ Ring!GetFirstFullBuffer(b).nextCleanBuffer = b.nextCleanBuffer
             /\ Ring!GetFirstFullBuffer(b).numElements = b.numElements - 1
             /\ Ring!GetFirstFullBuffer(b).firstFullBuffer =
                   IF b.firstFullBuffer + 1 = size THEN 0 ELSE b.firstFullBuffer + 1
  <2>. DEFINE f == Ring!Following(b, b.firstFullBuffer)
              c == [msgPtr |-> b.msgPtr, nextCleanBuffer |-> b.nextCleanBuffer,
                    firstFullBuffer |-> f, numElements |-> b.numElements - 1]
  <2>1. /\ b.nextCleanBuffer \in 0 .. size - 1 /\ b.firstFullBuffer \in 0 .. size - 1
        /\ b.numElements \in 0 .. size /\ b.msgPtr \in [0 .. size - 1 -> 0 .. size]
        /\ b.numElements # 0
    BY <1>1, <1>4 DEF Rings
  <2>2. f \in 0 .. size - 1 /\ f = IF b.firstFullBuffer + 1 = size THEN 0 ELSE b.firstFullBuffer + 1
    BY <1>2, <2>1
  <2>. HIDE DEF f
  <2>3. Ring!GetFirstFullBuffer(b) = c
    <3>. DEFINE mid == [b EXCEPT !.firstFullBuffer = f]
    <3>1. /\ mid = [msgPtr |-> b.msgPtr, nextCleanBuffer |-> b.nextCleanBuffer,
                    firstFullBuffer |-> f, numElements |-> b.numElements]
          /\ Ring!GetFirstFullBuffer(b) = [mid EXCEPT !.numElements = mid.numElements - 1]
      BY DEF Ring!GetFirstFullBuffer, Rings, f
    <3>. HIDE DEF mid
    <3>. QED BY <3>1
  <2>4. c \in Rings(size)
    BY <2>1, <2>2 DEF Rings
  <2>. QED BY <2>2, <2>3, <2>4
<1>. QED BY <1>1, <1>3, <1>4

\* The next clean position is the one after the messages, which are at
\* positions of their own.
Wrap(size, x) == IF x < size THEN x ELSE x - size
Placed(size, b) == b.nextCleanBuffer = Wrap(size, b.firstFullBuffer + b.numElements)

IsRing(size, b) == size \in Nat \ {0} /\ b \in Rings(size) /\ b.msgPtr = Own(size)
Messages(size, S) == [0 .. size - 1 -> S]

IsInOrder(size, b, S, m, c) ==
    /\ c \in Seq(S)
    /\ Len(c) = b.numElements
    /\ \A n \in 1 .. b.numElements : c[n] = m[Wrap(size, b.firstFullBuffer + n - 1)]

LEMMA ContentsAre ==
    ASSUME NEW size, NEW b, NEW S, NEW m, IsRing(size, b), m \in Messages(size, S)
    PROVE  IsInOrder(size, b, S, m, Ring!Contents(b, m))
<1>. DEFINE first == b.firstFullBuffer
            num == b.numElements
            c == [n \in 1 .. num |-> m[Wrap(size, first + n - 1)]]
<1>0. /\ size \in Nat \ {0} /\ b \in Rings(size) /\ b.msgPtr = Own(size)
      /\ m \in [0 .. size - 1 -> S]
  BY DEF IsRing, Messages
<1>1. first \in 0 .. size - 1 /\ num \in 0 .. size
  BY <1>0 DEF Rings
<1>. HIDE DEF first, num
<1>2. ASSUME NEW n \in 1 .. num
      PROVE  /\ (first + n - 1) % size = Wrap(size, first + n - 1)
             /\ Wrap(size, first + n - 1) \in 0 .. size - 1
             /\ b.msgPtr[Wrap(size, first + n - 1)] = Wrap(size, first + n - 1)
  <2>1. first + n - 1 \in Nat /\ first + n - 1 < 2 * size
    BY <1>0, <1>1
  <2>2. (first + n - 1) % size = Wrap(size, first + n - 1)
    BY <1>0, <2>1, ModWraps DEF Wrap
  <2>3. Wrap(size, first + n - 1) \in 0 .. size - 1
    BY <1>0, <2>1 DEF Wrap
  <2>. QED BY <1>0, <2>2, <2>3 DEF Own
<1>3. Ring!Contents(b, m) = c
  BY <1>0, <1>2, RingSize DEF Ring!Contents, first, num
<1>4. c \in Seq(S) /\ Len(c) = num /\ \A n \in 1 .. num : c[n] = m[Wrap(size, first + n - 1)]
  <2>1. \A n \in 1 .. num : m[Wrap(size, first + n - 1)] \in S
    BY <1>0, <1>2
  <2>2. c \in [1 .. num -> S]
    BY <2>1
  <2>3. num \in Nat
    BY <1>0, <1>1
  <2>4. \A n \in 1 .. num : c[n] = m[Wrap(size, first + n - 1)]
    OBVIOUS
  <2>. HIDE DEF c
  <2>5. c \in Seq(S)
    BY <2>2, <2>3, SeqDef
  <2>6. Len(c) = num
    BY <2>2, <2>3, <2>5
  <2>. QED BY <2>4, <2>5, <2>6
<1>. QED BY <1>3, <1>4 DEF first, num, IsInOrder

\* Only the message at k is another one.
AgreeBut(k, m, after) == \A i \in DOMAIN m : i # k => after[i] = m[i]

\* A message that is stored comes last.
LEMMA StoreAppends ==
    ASSUME NEW size, NEW b, NEW S, NEW m, NEW after, NEW p, IsRing(size, b), Placed(size, b),
           ~Ring!IsFull(b), m \in Messages(size, S), after \in Messages(size, S),
           after[Ring!NextFree(b)] = p, AgreeBut(Ring!NextFree(b), m, after)
    PROVE  /\ Placed(size, Ring!GetNextFreeBuffer(b)) /\ IsRing(size, Ring!GetNextFreeBuffer(b))
           /\ Ring!Contents(Ring!GetNextFreeBuffer(b), after) =
                 Append(Ring!Contents(b, m), p)
<1>. DEFINE c == Ring!GetNextFreeBuffer(b)
            first == b.firstFullBuffer
            num == b.numElements
            next == b.nextCleanBuffer
<1>0. /\ size \in Nat \ {0} /\ b \in Rings(size) /\ b.msgPtr = Own(size)
      /\ DOMAIN m = 0 .. size - 1 /\ after \in [0 .. size - 1 -> S]
  BY DEF IsRing, Messages
<1>1. /\ first \in 0 .. size - 1 /\ num \in 0 .. size - 1 /\ next \in 0 .. size - 1
      /\ next = Wrap(size, first + num)
  <2>1. num # size
    BY <1>0, RingSteps
  <2>. QED BY <1>0, <2>1 DEF Rings, Placed
<1>2. /\ c \in Rings(size) /\ c.msgPtr = Own(size) /\ c.firstFullBuffer = first
      /\ c.numElements = num + 1
      /\ c.nextCleanBuffer = IF next + 1 = size THEN 0 ELSE next + 1
  BY <1>0, RingSteps
<1>3. Ring!NextFree(b) = next
  BY <1>0, <1>1 DEF Ring!NextFree, Own
<1>. HIDE DEF c, first, num, next
<1>4. /\ after[next] = p /\ p \in S
      /\ \A i \in 0 .. size - 1 : i # next => after[i] = m[i]
  BY <1>0, <1>1, <1>3 DEF AgreeBut
<1>5. Placed(size, c) /\ IsRing(size, c)
  BY <1>0, <1>1, <1>2 DEF Placed, Wrap, IsRing
<1>. DEFINE old == Ring!Contents(b, m)
            new == Ring!Contents(c, after)
<1>6. /\ old \in Seq(S) /\ Len(old) = num
      /\ \A n \in 1 .. num : old[n] = m[Wrap(size, first + n - 1)]
  <2>1. IsInOrder(size, b, S, m, old)
    BY ContentsAre
  <2>. QED BY <2>1 DEF IsInOrder, first, num
<1>7. /\ new \in Seq(S) /\ Len(new) = num + 1
      /\ \A n \in 1 .. num + 1 : new[n] = after[Wrap(size, first + n - 1)]
  <2>1. IsInOrder(size, c, S, after, new)
    BY <1>5, ContentsAre
  <2>. QED BY <1>2, <2>1 DEF IsInOrder
<1>. HIDE DEF old, new
<1>8. \A n \in 1 .. num : new[n] = old[n]
  <2>1. SUFFICES ASSUME NEW n \in 1 .. num PROVE new[n] = old[n]
    OBVIOUS
  <2>2. Wrap(size, first + n - 1) \in 0 .. size - 1 /\ Wrap(size, first + n - 1) # next
    BY <1>0, <1>1, <2>1 DEF Wrap
  <2>. QED BY <1>1, <1>4, <1>6, <1>7, <2>2
<1>9. new[num + 1] = p
  <2>1. first + (num + 1) - 1 = first + num /\ num + 1 \in 1 .. num + 1
    BY <1>0, <1>1
  <2>. QED BY <1>1, <1>4, <1>7, <2>1
<1>10. new = Append(old, p)
  <2>1. /\ Append(old, p) \in Seq(S) /\ Len(Append(old, p)) = num + 1
        /\ \A n \in 1 .. num : Append(old, p)[n] = old[n]
        /\ Append(old, p)[num + 1] = p
    BY <1>4, <1>6, AppendProperties
  <2>2. \A n \in 1 .. num + 1 : new[n] = Append(old, p)[n]
    BY <1>1, <1>8, <1>9, <2>1
  <2>. QED BY <1>7, <2>1, <2>2, SeqEqual
<1>. QED BY <1>4, <1>5, <1>10 DEF c, old, new

\* The message that is taken is the first, whatever becomes of its place.
LEMMA TakeIsTail ==
    ASSUME NEW size, NEW b, NEW S, NEW m, NEW after, IsRing(size, b), Placed(size, b),
           ~Ring!IsEmpty(b), m \in Messages(size, S), after \in Messages(size, S),
           AgreeBut(Ring!FirstFull(b), m, after)
    PROVE  /\ Placed(size, Ring!GetFirstFullBuffer(b)) /\ IsRing(size, Ring!GetFirstFullBuffer(b))
           /\ Ring!Contents(b, m) # <<>>
           /\ Ring!Contents(Ring!GetFirstFullBuffer(b), after) = Tail(Ring!Contents(b, m))
<1>. DEFINE c == Ring!GetFirstFullBuffer(b)
            first == b.firstFullBuffer
            num == b.numElements
<1>0. /\ size \in Nat \ {0} /\ b \in Rings(size) /\ b.msgPtr = Own(size)
      /\ DOMAIN m = 0 .. size - 1
  BY DEF IsRing, Messages
<1>1. /\ first \in 0 .. size - 1 /\ num \in 1 .. size
      /\ b.nextCleanBuffer = Wrap(size, first + num)
  <2>1. num # 0
    BY <1>0, RingSteps
  <2>. QED BY <1>0, <2>1 DEF Rings, Placed
<1>2. /\ c \in Rings(size) /\ c.msgPtr = Own(size) /\ c.nextCleanBuffer = b.nextCleanBuffer
      /\ c.numElements = num - 1
      /\ c.firstFullBuffer = IF first + 1 = size THEN 0 ELSE first + 1
  BY <1>0, RingSteps
<1>3. Ring!FirstFull(b) = first
  BY <1>0, <1>1 DEF Ring!FirstFull, Own
<1>. HIDE DEF c, first, num
<1>4. \A i \in 0 .. size - 1 : i # first => after[i] = m[i]
  BY <1>0, <1>3 DEF AgreeBut
<1>5. Placed(size, c) /\ IsRing(size, c)
  BY <1>0, <1>1, <1>2 DEF Placed, Wrap, IsRing
<1>. DEFINE old == Ring!Contents(b, m)
            new == Ring!Contents(c, after)
            next == c.firstFullBuffer
<1>6. /\ old \in Seq(S) /\ Len(old) = num
      /\ \A n \in 1 .. num : old[n] = m[Wrap(size, first + n - 1)]
  <2>1. IsInOrder(size, b, S, m, old)
    BY ContentsAre
  <2>. QED BY <2>1 DEF IsInOrder, first, num
<1>7. /\ new \in Seq(S) /\ Len(new) = num - 1
      /\ \A n \in 1 .. num - 1 : new[n] = after[Wrap(size, next + n - 1)]
  <2>1. IsInOrder(size, c, S, after, new)
    BY <1>5, ContentsAre
  <2>. QED BY <1>2, <2>1 DEF IsInOrder
<1>8. next = IF first + 1 = size THEN 0 ELSE first + 1
  BY <1>2
<1>. HIDE DEF old, new, next
<1>9. \A n \in 1 .. num - 1 : new[n] = old[n + 1]
  <2>1. SUFFICES ASSUME NEW n \in 1 .. num - 1 PROVE new[n] = old[n + 1]
    OBVIOUS
  <2>2. /\ Wrap(size, next + n - 1) = Wrap(size, first + (n + 1) - 1)
        /\ Wrap(size, next + n - 1) \in 0 .. size - 1 /\ Wrap(size, next + n - 1) # first
    BY <1>1, <1>8, <2>1, <1>0 DEF Wrap
  <2>3. n + 1 \in 1 .. num
    BY <1>0, <1>1, <2>1
  <2>. QED BY <1>4, <1>6, <1>7, <2>2, <2>3
<1>10. new = Tail(old) /\ old # <<>>
  <2>1. old # <<>>
    BY <1>1, <1>6, EmptySeq
  <2>2. /\ Tail(old) \in Seq(S) /\ Len(Tail(old)) = num - 1
        /\ \A n \in 1 .. num - 1 : Tail(old)[n] = old[n + 1]
    BY <1>6, <2>1, HeadTailProperties
  <2>. QED BY <1>7, <1>9, <2>1, <2>2, SeqEqual
<1>. QED BY <1>4, <1>5, <1>10 DEF c, old, new

-----------------------------------------------------------------------------
(***************************************************************************)
(* The invariant.                                                          *)
(***************************************************************************)

\* The buffers.
SendTyped ==
    /\ IsRing(SendSize, send) /\ Placed(SendSize, send)
    /\ sendMsg \in Messages(SendSize, SendPacket \cup {Nothing})
RecvTyped ==
    /\ recv \in Rings(RecvSize)
    /\ recvMsg \in [0 .. RecvSize -> AirPacket \cup {Nothing}]

\* The timers: a callback waits once.
Once == \A i, j \in DOMAIN queue : queue[i] = queue[j] => i = j
TimersTyped ==
    /\ running \subseteq TimerName
    /\ queue \in Seq(TimerName) /\ Once

\* The rest.
FlagsTyped ==
    /\ Initialized \in BOOLEAN /\ RadioAckPending \in BOOLEAN
    /\ flushTimerRunning \in BOOLEAN /\ onAir \in BOOLEAN /\ failed \in BOOLEAN
    /\ pc \in {"idle", "first", "sense", "transmit", "reset"}
    /\ state \in {"IDLE", "RX", "CAD", "TX"}

\* The thread senses the channel only with a packet to send and no answer to
\* wait for, and waits for one from when it has taken the packet.
Sensing ==
    /\ pc = "sense" => ~Ring!IsEmpty(send) /\ ~RadioAckPending
    /\ pc = "transmit" => RadioAckPending

\* What is on the air is waited for, and the driver knows that it sends.
OnAir == onAir /\ Initialized => RadioAckPending /\ state = "TX" /\ pc # "transmit"

CsmaInv ==
    /\ SendTyped /\ RecvTyped /\ TimersTyped /\ FlagsTyped
    /\ Sensing /\ OnAir /\ PendingIsAnswered

LEMMA InvGivesTypes == ASSUME CsmaAssumption, CsmaInv PROVE TypeOK
<1>1. send \in [msgPtr : {Own(SendSize)}, nextCleanBuffer : 0 .. SendSize - 1,
                firstFullBuffer : 0 .. SendSize - 1, numElements : 0 .. SendSize]
  BY DEF CsmaInv, SendTyped, IsRing, Rings
<1>2. recv \in [msgPtr : [0 .. RecvSize - 1 -> 0 .. RecvSize],
                nextCleanBuffer : 0 .. RecvSize - 1,
                firstFullBuffer : 0 .. RecvSize - 1, numElements : 0 .. RecvSize]
  BY DEF CsmaInv, RecvTyped, Rings
<1>3. {Initialized, RadioAckPending, flushTimerRunning, onAir, failed} \subseteq BOOLEAN
  BY Zenon DEF CsmaInv, FlagsTyped
<1>. QED
  BY <1>1, <1>2, <1>3
  DEF CsmaInv, SendTyped, Messages, RecvTyped, TimersTyped, FlagsTyped, TypeOK

LEMMA NewRing ==
    ASSUME NEW size \in Nat \ {0}, NEW b, b = Ring!Initialize(Own(size))
    PROVE  /\ b \in Rings(size) /\ b.msgPtr = Own(size) /\ Placed(size, b)
           /\ b.numElements = 0 /\ \A m : Ring!Contents(b, m) = <<>>
<1>1. b = [msgPtr |-> Own(size), nextCleanBuffer |-> 0, firstFullBuffer |-> 0, numElements |-> 0]
  BY DEF Ring!Initialize
<1>2. Own(size) \in [0 .. size - 1 -> 0 .. size]
  BY DEF Own
<1>3. b \in Rings(size) /\ b.msgPtr = Own(size) /\ Placed(size, b) /\ b.numElements = 0
  BY <1>1, <1>2 DEF Rings, Placed, Wrap
<1>4. \A m : Ring!Contents(b, m) = <<>>
  BY <1>3 DEF Ring!Contents
<1>. QED BY <1>3, <1>4

LEMMA BeginsTypeCorrect == ASSUME CsmaAssumption, Init PROVE CsmaInv
<1>1. SendTyped
  BY NewRing DEF Init, SendTyped, IsRing, Messages, CsmaAssumption
<1>2. RecvTyped
  BY NewRing DEF Init, RecvTyped, CsmaAssumption
<1>3. TimersTyped
  BY DEF Init, TimersTyped, TimerName, OneShot, Once
<1>4. FlagsTyped /\ Sensing /\ OnAir /\ PendingIsAnswered
  BY DEF Init, FlagsTyped, Sensing, OnAir, PendingIsAnswered
<1>. QED BY <1>1, <1>2, <1>3, <1>4 DEF CsmaInv

-----------------------------------------------------------------------------
(***************************************************************************)
(* The send buffer.                                                        *)
(***************************************************************************)

\* What becomes of it.
SendBufferSteps ==
    \/ UNCHANGED <<send, sendMsg>>
    \/ \E p \in SendPacket : ~Ring!IsFull(send) /\ Store(p)
    \/ /\ ~Ring!IsEmpty(send)
       /\ sendMsg' = [sendMsg EXCEPT ![Ring!FirstFull(send)] = Nothing]
       /\ send' = Ring!GetFirstFullBuffer(send)
    \/ /\ send' = Ring!Initialize(Own(SendSize))
       /\ sendMsg' = [n \in 0 .. SendSize - 1 |-> Nothing]

LEMMA StepsOfSendBuffer == ASSUME CsmaInv, [Next]_vars PROVE SendBufferSteps
<1>1. CASE \E p \in AppPacket : Send(p)
  BY <1>1 DEF Send, SendBufferSteps, SendPacket
<1>2. CASE MAC_GetNextPacket \/ UnInitialize \/ (\E t \in TimerName : Expire(t))
  BY <1>2 DEF MAC_GetNextPacket, UnInitialize, Expire, macVars, SendBufferSteps
<1>3. CASE Initialize
  BY <1>3 DEF Initialize, Fresh, SendBufferSteps
<1>4. CASE ExtendedExecute
  <2>1. CASE StartFirst \/ SX1276OnTimeoutIrq
    BY <2>1 DEF StartFirst, SX1276OnTimeoutIrq, macVars, SendBufferSteps
  <2>2. CASE beaconScheduler
    BY <2>2 DEF beaconScheduler, SendBufferSteps, SendPacket
  <2>. QED BY <1>4, <2>1, <2>2 DEF ExtendedExecute
<1>5. CASE Thread
  <2>1. CASE StopFlush \/ SX1276SetTx \/ SX1276_HAL_TxTimeout \/ ChannelBusy \/ SendToRadio
    BY <2>1 DEF StopFlush, SX1276SetTx, SX1276_HAL_TxTimeout, ChannelBusy, SendToRadio,
                macVars, SendBufferSteps
  <2>2. CASE ChannelClear
    BY <2>2 DEF ChannelClear, SendBufferSteps, CsmaInv, Sensing
  <2>. QED BY <1>5, <2>1, <2>2 DEF Thread
<1>6. CASE SX1276_HAL_TxDone \/ (\E p \in AirPacket : SX1276_HAL_RxDone(p))
  BY <1>6 DEF SX1276_HAL_TxDone, SX1276_HAL_RxDone, macVars, SendBufferSteps
<1>7. CASE UNCHANGED vars
  BY <1>7 DEF vars, macVars, SendBufferSteps
<1>. QED BY <1>1, <1>2, <1>3, <1>4, <1>5, <1>6, <1>7 DEF Next

\* Each of them is a step of the queue, or none.
LEMMA SendBufferIsRefined ==
    ASSUME CsmaAssumption, SendTyped, SendBufferSteps
    PROVE  SendTyped' /\ [SendQueue!Next]_(Ring!Contents(send, sendMsg))
<1>. DEFINE Q == Ring!Contents(send, sendMsg)
            S == SendPacket \cup {Nothing}
<1>1. IsRing(SendSize, send) /\ Placed(SendSize, send) /\ sendMsg \in Messages(SendSize, S)
  BY DEF SendTyped
<1>2. CASE UNCHANGED <<send, sendMsg>>
  BY <1>2 DEF SendTyped
<1>3. ASSUME NEW p \in SendPacket, ~Ring!IsFull(send), Store(p)
      PROVE  SendTyped' /\ SendQueue!Next
  <2>1. /\ send' = Ring!GetNextFreeBuffer(send)
        /\ sendMsg' = [sendMsg EXCEPT ![Ring!NextFree(send)] = p]
    BY <1>3 DEF Store
  <2>2. Ring!NextFree(send) \in 0 .. SendSize - 1
    BY <1>1 DEF IsRing, Ring!NextFree, Rings, Own
  <2>3. /\ sendMsg' \in Messages(SendSize, S) /\ sendMsg'[Ring!NextFree(send)] = p
        /\ AgreeBut(Ring!NextFree(send), sendMsg, sendMsg')
    BY <1>1, <2>1, <2>2 DEF AgreeBut, Messages
  <2>. HIDE DEF S
  <2>4. /\ Placed(SendSize, send') /\ IsRing(SendSize, send')
        /\ Ring!Contents(send', sendMsg') = Append(Q, p)
    <3>. DEFINE b == Ring!GetNextFreeBuffer(send)
    <3>1. Placed(SendSize, b) /\ IsRing(SendSize, b) /\ Ring!Contents(b, sendMsg') = Append(Q, p)
      BY <1>1, <1>3, <2>3, StoreAppends
    <3>. QED BY <2>1, <3>1
  <2>5. Len(Q) < SendSize
    <3>1. IsInOrder(SendSize, send, S, sendMsg, Q)
      BY <1>1, ContentsAre
    <3>2. send.numElements # SendSize /\ send.numElements \in 0 .. SendSize
      BY <1>1, <1>3, RingSteps DEF IsRing, Rings
    <3>. QED BY <1>1, <3>1, <3>2 DEF IsInOrder, IsRing
  <2>6. SendTyped'
    BY <2>3, <2>4 DEF SendTyped, S
  <2>. QED BY <2>4, <2>5, <2>6 DEF SendQueue!Next, SendQueue!Store
<1>4. CASE /\ ~Ring!IsEmpty(send)
           /\ sendMsg' = [sendMsg EXCEPT ![Ring!FirstFull(send)] = Nothing]
           /\ send' = Ring!GetFirstFullBuffer(send)
  <2>0. ~Ring!IsEmpty(send)
    BY <1>4
  <2>1. /\ sendMsg' \in Messages(SendSize, S)
        /\ AgreeBut(Ring!FirstFull(send), sendMsg, sendMsg')
    BY <1>1, <1>4 DEF AgreeBut, Messages
  <2>. HIDE DEF S
  <2>2. /\ Placed(SendSize, send') /\ IsRing(SendSize, send')
        /\ Q # <<>> /\ Ring!Contents(send', sendMsg') = Tail(Q)
    <3>. DEFINE b == Ring!GetFirstFullBuffer(send)
    <3>1. /\ Placed(SendSize, b) /\ IsRing(SendSize, b)
          /\ Q # <<>> /\ Ring!Contents(b, sendMsg') = Tail(Q)
      BY <1>1, <2>0, <2>1, TakeIsTail
    <3>. QED BY <1>4, <3>1
  <2>3. SendTyped'
    BY <2>1, <2>2 DEF SendTyped, S
  <2>. QED BY <2>2, <2>3 DEF SendQueue!Next, SendQueue!GetOldest
<1>5. CASE /\ send' = Ring!Initialize(Own(SendSize))
           /\ sendMsg' = [n \in 0 .. SendSize - 1 |-> Nothing]
  <2>1. SendSize \in Nat \ {0}
    BY DEF CsmaAssumption
  <2>2. /\ IsRing(SendSize, send') /\ Placed(SendSize, send')
        /\ Ring!Contents(send', sendMsg') = <<>>
    BY <1>5, <2>1, NewRing DEF IsRing
  <2>3. SendTyped'
    BY <1>5, <2>2 DEF SendTyped, Messages
  <2>. QED BY <2>2, <2>3 DEF SendQueue!Next, SendQueue!Erase
<1>. QED BY <1>2, <1>3, <1>4, <1>5 DEF SendBufferSteps


-----------------------------------------------------------------------------
(***************************************************************************)
(* The receive buffer, and the timers.                                     *)
(***************************************************************************)

\* The message of the driver may take the place of a free one.
LEMMA ReceivedInPlace ==
    ASSUME NEW size \in Nat \ {0}, NEW b \in Rings(size), NEW room,
           room = IF Ring!IsFull(b) THEN Ring!GetFirstFullBuffer(b) ELSE b
    PROVE  [Ring!GetNextFreeBuffer(room) EXCEPT !.msgPtr[room.nextCleanBuffer] = size]
              \in Rings(size)
<1>1. room \in Rings(size) /\ ~Ring!IsFull(room)
  <2>1. CASE Ring!IsFull(b)
    <3>1. b.numElements = size /\ ~Ring!IsEmpty(b)
      BY <2>1, RingSteps
    <3>2. room \in Rings(size) /\ room.numElements = size - 1
      BY <2>1, <3>1, RingSteps
    <3>. QED BY <3>2, RingSteps
  <2>2. CASE ~Ring!IsFull(b)
    BY <2>2
  <2>. QED BY <2>1, <2>2
<1>. DEFINE c == Ring!GetNextFreeBuffer(room)
            k == room.nextCleanBuffer
            ptr == [c.msgPtr EXCEPT ![k] = size]
            after == [c EXCEPT !.msgPtr[k] = size]
            r == [msgPtr |-> ptr, nextCleanBuffer |-> c.nextCleanBuffer,
                  firstFullBuffer |-> c.firstFullBuffer, numElements |-> c.numElements]
<1>2. c \in Rings(size)
  BY <1>1, RingSteps
<1>. HIDE DEF c, k
<1>3. /\ c.nextCleanBuffer \in 0 .. size - 1 /\ c.firstFullBuffer \in 0 .. size - 1
      /\ c.numElements \in 0 .. size
  BY <1>2 DEF Rings
<1>4. ptr \in [0 .. size - 1 -> 0 .. size]
  <2>1. c.msgPtr \in [0 .. size - 1 -> 0 .. size]
    BY <1>2 DEF Rings
  <2>2. size \in 0 .. size
    OBVIOUS
  <2>. QED BY <2>1, <2>2
<1>5. after = r
  <2>1. c = [msgPtr |-> c.msgPtr, nextCleanBuffer |-> c.nextCleanBuffer,
             firstFullBuffer |-> c.firstFullBuffer, numElements |-> c.numElements]
    <3>1. c \in [msgPtr : [0 .. size - 1 -> 0 .. size],
                  nextCleanBuffer : 0 .. size - 1,
                  firstFullBuffer : 0 .. size - 1, numElements : 0 .. size]
      BY ONLY <1>2 DEF Rings
    <3>. QED BY ONLY <3>1
  <2>. QED BY <2>1
<1>6. r \in Rings(size)
  <2>. HIDE DEF ptr
  <2>. QED BY <1>3, <1>4 DEF Rings
<1>. QED BY <1>5, <1>6 DEF c, k

LEMMA ReceiveBufferSteps ==
    ASSUME CsmaAssumption, CsmaInv, [Next]_vars
    PROVE  RecvTyped'
<1>1. /\ RecvSize \in Nat \ {0} /\ recv \in Rings(RecvSize)
      /\ recvMsg \in [0 .. RecvSize -> AirPacket \cup {Nothing}]
  BY DEF CsmaAssumption, CsmaInv, RecvTyped
<1>2. SX1276SetRx => recvMsg' \in [0 .. RecvSize -> AirPacket \cup {Nothing}]
  BY <1>1 DEF SX1276SetRx, RxTxBuffer
<1>3. CASE UNCHANGED recv /\ (UNCHANGED recvMsg \/ SX1276SetRx)
  BY <1>1, <1>2, <1>3 DEF RecvTyped
<1>4. CASE MAC_GetNextPacket
  BY <1>1, <1>4, RingSteps DEF MAC_GetNextPacket, RecvTyped
<1>5. CASE Initialize
  BY <1>1, <1>2, <1>5, NewRing DEF Initialize, Fresh, RecvTyped
<1>6. ASSUME NEW p \in AirPacket, SX1276_HAL_RxDone(p) PROVE RecvTyped'
  <2>1. recvMsg' \in [0 .. RecvSize -> AirPacket \cup {Nothing}]
    BY <1>1, <1>6 DEF SX1276_HAL_RxDone, RxTxBuffer
  <2>2. recv' \in Rings(RecvSize)
    BY <1>1, <1>6, ReceivedInPlace DEF SX1276_HAL_RxDone, ReceiveHandler, RxTxBuffer
  <2>. QED BY <2>1, <2>2 DEF RecvTyped
<1>7. CASE (\E p \in AppPacket : Send(p)) \/ UnInitialize \/ (\E t \in TimerName : Expire(t))
  BY <1>3, <1>7 DEF Send, UnInitialize, Expire, recvVars
<1>8. CASE ExtendedExecute
  BY <1>3, <1>8
  DEF ExtendedExecute, StartFirst, beaconScheduler, SX1276OnTimeoutIrq, recvVars
<1>9. CASE Thread
  <2>1. CASE StopFlush \/ SX1276SetTx \/ ChannelBusy \/ ChannelClear
    BY <1>3, <2>1 DEF StopFlush, SX1276SetTx, ChannelBusy, ChannelClear, recvVars
  <2>2. CASE SendToRadio \/ SX1276_HAL_TxTimeout
    BY <1>3, <2>2 DEF SendToRadio, SX1276_HAL_TxTimeout
  <2>. QED BY <1>9, <2>1, <2>2 DEF Thread
<1>10. CASE SX1276_HAL_TxDone
  BY <1>3, <1>10 DEF SX1276_HAL_TxDone
<1>11. CASE UNCHANGED vars
  BY <1>3, <1>11 DEF vars, recvVars
<1>. QED BY <1>4, <1>5, <1>6, <1>7, <1>8, <1>9, <1>10, <1>11 DEF Next

\* Callbacks come and go one by one.
LEMMA CallbackQueued ==
    ASSUME NEW T, NEW q \in Seq(T), \A i, j \in DOMAIN q : q[i] = q[j] => i = j,
           NEW t \in T, t \notin ToSet(q)
    PROVE  /\ Append(q, t) \in Seq(T) /\ ToSet(Append(q, t)) = ToSet(q) \cup {t}
           /\ \A i, j \in DOMAIN Append(q, t) : Append(q, t)[i] = Append(q, t)[j] => i = j
<1>. DEFINE after == Append(q, t)
<1>1. /\ after \in Seq(T) /\ Len(q) \in Nat /\ DOMAIN q = 1 .. Len(q)
      /\ DOMAIN after = 1 .. Len(q) + 1 /\ after[Len(q) + 1] = t
      /\ \A i \in 1 .. Len(q) : after[i] = q[i]
  BY AppendProperties
<1>. HIDE DEF after
<1>2. \A i \in 1 .. Len(q) : q[i] # t
  BY <1>1 DEF ToSet
<1>3. ToSet(after) = ToSet(q) \cup {t}
  BY <1>1 DEF ToSet
<1>4. ASSUME NEW i \in DOMAIN after, NEW j \in DOMAIN after, after[i] = after[j]
      PROVE  i = j
  BY <1>1, <1>2, <1>4
<1>. QED BY <1>1, <1>3, <1>4 DEF after

LEMMA CallbackTaken ==
    ASSUME NEW T, NEW q \in Seq(T), \A i, j \in DOMAIN q : q[i] = q[j] => i = j,
           q # <<>>, NEW after, after = Tail(q)
    PROVE  /\ Head(q) \in T /\ after \in Seq(T) /\ ToSet(after) = ToSet(q) \ {Head(q)}
           /\ \A i, j \in DOMAIN after : after[i] = after[j] => i = j
<1>1. /\ Head(q) \in T /\ after \in Seq(T) /\ Len(q) \in Nat /\ Len(q) # 0
      /\ DOMAIN q = 1 .. Len(q) /\ Head(q) = q[1]
      /\ DOMAIN after = 1 .. Len(q) - 1
      /\ \A i \in 1 .. Len(q) - 1 : after[i] = q[i + 1]
  BY HeadTailProperties, EmptySeq
<1>2. ASSUME NEW x \in ToSet(after) PROVE x \in ToSet(q) \ {Head(q)}
  <2>1. PICK i \in 1 .. Len(q) - 1 : x = q[i + 1]
    BY <1>1, <1>2 DEF ToSet
  <2>2. i + 1 \in 1 .. Len(q) /\ 1 \in 1 .. Len(q) /\ i + 1 # 1
    BY <1>1, <2>1
  <2>. QED BY <1>1, <2>1, <2>2 DEF ToSet
<1>3. ASSUME NEW x \in ToSet(q) \ {Head(q)} PROVE x \in ToSet(after)
  <2>1. PICK i \in 1 .. Len(q) : x = q[i] /\ i # 1
    BY <1>1, <1>3 DEF ToSet
  <2>2. i - 1 \in 1 .. Len(q) - 1 /\ (i - 1) + 1 = i
    BY <1>1, <2>1
  <2>3. after[i - 1] = x
    BY <1>1, <2>1, <2>2
  <2>. QED BY <1>1, <2>2, <2>3 DEF ToSet
<1>4. ASSUME NEW i \in DOMAIN after, NEW j \in DOMAIN after, after[i] = after[j]
      PROVE  i = j
  <2>1. i + 1 \in DOMAIN q /\ j + 1 \in DOMAIN q /\ q[i + 1] = q[j + 1] /\ i \in Nat /\ j \in Nat
    BY <1>1, <1>4
  <2>2. i + 1 = j + 1
    BY <2>1
  <2>. QED BY <2>1, <2>2
<1>. QED BY <1>1, <1>2, <1>3, <1>4


LEMMA TimerSteps ==
    ASSUME CsmaInv, [Next]_vars
    PROVE  TimersTyped'
<1>1. running \subseteq TimerName /\ queue \in Seq(TimerName) /\ Once
  BY DEF CsmaInv, TimersTyped
<1>2. /\ {BEACON, SENDPKT, FLUSH, TXTIMEOUT} \subseteq TimerName
  BY DEF TimerName, OneShot
<1>3. ASSUME UNCHANGED queue, running' \subseteq TimerName PROVE TimersTyped'
  BY <1>1, <1>3 DEF TimersTyped, Once
<1>4. ASSUME NEW t \in TimerName, Expire(t) PROVE TimersTyped'
  <2>1. t \notin ToSet(queue) /\ queue' = Append(queue, t) /\ running' \subseteq running
    BY <1>4 DEF Expire
  <2>2. queue' \in Seq(TimerName) /\ Once'
    BY <1>1, <2>1, CallbackQueued DEF Once
  <2>. QED BY <1>1, <2>1, <2>2 DEF TimersTyped
<1>5. CASE ExtendedExecute
  <2>1. queue # <<>> /\ queue' = Tail(queue)
    BY <1>5 DEF ExtendedExecute
  <2>2. running' \subseteq running
    BY <1>5 DEF ExtendedExecute, StartFirst, beaconScheduler, SX1276OnTimeoutIrq
  <2>3. queue' \in Seq(TimerName) /\ Once'
    BY <1>1, <2>1, CallbackTaken DEF Once
  <2>. QED BY <1>1, <2>2, <2>3 DEF TimersTyped
<1>6. CASE (\E p \in AppPacket : Send(p)) \/ MAC_GetNextPacket \/ UnInitialize \/ Initialize
  BY <1>1, <1>2, <1>3, <1>6 DEF Send, MAC_GetNextPacket, UnInitialize, Initialize, timerVars
<1>7. CASE Thread
  <2>1. CASE StopFlush \/ SX1276_HAL_TxTimeout \/ ChannelClear
    BY <1>1, <1>3, <2>1 DEF StopFlush, SX1276_HAL_TxTimeout, ChannelClear, timerVars
  <2>2. CASE SendToRadio
    BY <1>1, <1>2, <1>3, <2>2 DEF SendToRadio, FlushOnMore
  <2>3. CASE ChannelBusy \/ SX1276SetTx
    BY <1>1, <1>2, <1>3, <2>3 DEF ChannelBusy, SX1276SetTx
  <2>. QED BY <1>7, <2>1, <2>2, <2>3 DEF Thread
<1>8. CASE SX1276_HAL_TxDone
  BY <1>1, <1>2, <1>3, <1>8 DEF SX1276_HAL_TxDone, SendAckHandler
<1>9. CASE (\E p \in AirPacket : SX1276_HAL_RxDone(p)) \/ UNCHANGED vars
  BY <1>1, <1>3, <1>9 DEF SX1276_HAL_RxDone, vars, timerVars
<1>. QED BY <1>4, <1>5, <1>6, <1>7, <1>8, <1>9 DEF Next

-----------------------------------------------------------------------------
(***************************************************************************)
(* The radio, and the answer that the MAC waits for.                       *)
(***************************************************************************)
Answering == FlagsTyped /\ Sensing /\ OnAir /\ PendingIsAnswered

\* A timeout of the driver leaves the timers only for the callbacks, and the
\* callbacks only for the reset of the radio.
LEMMA TimeoutStays ==
    ASSUME CsmaInv, [Next]_vars, TXTIMEOUT \in running \cup ToSet(queue)
    PROVE  \/ TXTIMEOUT \in running' \cup ToSet(queue')
           \/ ~RadioAckPending' \/ ~Initialized' \/ pc' = "reset" \/ state # "TX"
<1>1. running \subseteq TimerName /\ queue \in Seq(TimerName) /\ Once
  BY DEF CsmaInv, TimersTyped
<1>2. ASSUME NEW t \in TimerName, Expire(t)
      PROVE  TXTIMEOUT \in running' \cup ToSet(queue')
  <2>1. t \notin ToSet(queue) /\ queue' = Append(queue, t)
    BY <1>2 DEF Expire
  <2>2. ToSet(Append(queue, t)) = ToSet(queue) \cup {t}
    BY <1>1, <2>1, CallbackQueued DEF Once
  <2>3. running \subseteq running' \cup {t}
    BY <1>2 DEF Expire
  <2>. QED BY <2>1, <2>2, <2>3
<1>3. CASE ExtendedExecute
  <2>1. queue # <<>> /\ queue' = Tail(queue)
    BY <1>3 DEF ExtendedExecute
  <2>2. UNCHANGED running \/ SX1276OnTimeoutIrq
    BY <1>3 DEF ExtendedExecute, StartFirst, beaconScheduler
  <2>3. ToSet(queue') = ToSet(queue) \ {Head(queue)}
    BY <1>1, <2>1, CallbackTaken DEF Once
  <2>4. CASE Head(queue) # TXTIMEOUT /\ UNCHANGED running
    BY <2>3, <2>4
  <2>5. CASE SX1276OnTimeoutIrq
    BY <2>5 DEF SX1276OnTimeoutIrq
  <2>6. CASE StartFirst \/ beaconScheduler
    BY <2>2, <2>4, <2>6
    DEF StartFirst, beaconScheduler, SX1276OnTimeoutIrq, SENDPKT, FLUSH, BEACON, TXTIMEOUT
  <2>. QED BY <1>3, <2>5, <2>6 DEF ExtendedExecute
<1>4. CASE UnInitialize
  BY <1>4 DEF UnInitialize
<1>5. CASE Initialize
  BY <1>5 DEF Initialize, Fresh
<1>6. CASE SX1276_HAL_TxDone
  BY <1>6 DEF SX1276_HAL_TxDone, SendAckHandler
<1>7. ASSUME UNCHANGED queue, running \ {FLUSH} \subseteq running'
      PROVE  TXTIMEOUT \in running' \cup ToSet(queue')
  BY <1>7 DEF FLUSH, TXTIMEOUT
<1>8. CASE Thread
  <2>1. CASE StopFlush \/ ChannelBusy \/ ChannelClear \/ SX1276SetTx
    BY <1>7, <2>1 DEF StopFlush, ChannelBusy, ChannelClear, SX1276SetTx, timerVars
  <2>2. CASE SendToRadio
    BY <1>7, <2>2 DEF SendToRadio, FlushOnMore
  <2>3. CASE SX1276_HAL_TxTimeout
    BY <2>3 DEF SX1276_HAL_TxTimeout
  <2>. QED BY <1>8, <2>1, <2>2, <2>3 DEF Thread
<1>9. CASE \/ \E p \in AppPacket : Send(p)
           \/ MAC_GetNextPacket
           \/ \E p \in AirPacket : SX1276_HAL_RxDone(p)
           \/ UNCHANGED vars
  BY <1>7, <1>9 DEF Send, MAC_GetNextPacket, SX1276_HAL_RxDone, vars, timerVars
<1>. QED BY <1>2, <1>3, <1>4, <1>5, <1>6, <1>8, <1>9 DEF Next


\* Sending, and the callbacks that lead to it.
LEMMA RadioSteps ==
    ASSUME CsmaInv, [Next]_vars
    PROVE  FlagsTyped' /\ Sensing' /\ OnAir'
<1>. USE DEF CsmaInv, FlagsTyped, Sensing, OnAir
<1>1. ASSUME NEW p \in AppPacket, Send(p) PROVE FlagsTyped' /\ Sensing' /\ OnAir'
  BY <1>1 DEF Send, recvVars, timerVars, radioVars
<1>2. CASE MAC_GetNextPacket
  BY <1>2 DEF MAC_GetNextPacket, macVars, timerVars, radioVars
<1>3. CASE UnInitialize
  BY <1>3 DEF UnInitialize, recvVars, radioVars
<1>4. CASE Initialize
  BY <1>4 DEF Initialize, Fresh, SX1276SetRx
<1>5. ASSUME NEW t \in TimerName, Expire(t) PROVE FlagsTyped' /\ Sensing' /\ OnAir'
  BY <1>5 DEF Expire, macVars, recvVars, radioVars
<1>6. CASE ExtendedExecute
  <2>1. CASE StartFirst
    BY <1>6, <2>1 DEF ExtendedExecute, StartFirst, macVars, recvVars, radioVars
  <2>2. CASE beaconScheduler
    BY <1>6, <2>2 DEF ExtendedExecute, beaconScheduler, recvVars, radioVars
  <2>3. CASE SX1276OnTimeoutIrq
    BY <1>6, <2>3 DEF ExtendedExecute, SX1276OnTimeoutIrq, SX1276SetRx, macVars
  <2>. QED BY <1>6, <2>1, <2>2, <2>3 DEF ExtendedExecute
<1>7. CASE StopFlush
  BY <1>7 DEF StopFlush, macVars, recvVars, radioVars
<1>8. CASE SendToRadio
  BY <1>8 DEF SendToRadio, FlushOnMore, SX1276SetRx
<1>9. CASE ChannelBusy
  BY <1>9 DEF ChannelBusy, macVars
<1>10. CASE ChannelClear
  BY <1>10 DEF ChannelClear
<1>11. CASE SX1276SetTx
  BY <1>11 DEF SX1276SetTx, macVars
<1>12. CASE SX1276_HAL_TxTimeout
  BY <1>12 DEF SX1276_HAL_TxTimeout, SX1276SetRx
<1>13. CASE SX1276_HAL_TxDone
  BY <1>13 DEF SX1276_HAL_TxDone, SendAckHandler, SX1276SetRx
<1>14. ASSUME NEW p \in AirPacket, SX1276_HAL_RxDone(p) PROVE FlagsTyped' /\ Sensing' /\ OnAir'
  BY <1>14 DEF SX1276_HAL_RxDone, macVars, radioVars
<1>15. CASE UNCHANGED vars
  BY <1>15 DEF vars, macVars, radioVars
<1>. HIDE DEF CsmaInv, FlagsTyped, Sensing, OnAir
<1>. QED
  BY <1>1, <1>2, <1>3, <1>4, <1>5, <1>6, <1>7, <1>8, <1>9, <1>10, <1>11, <1>12, <1>13,
     <1>14, <1>15
  DEF Next, Thread


\* The answer stays on its way until it comes.
LEMMA PendingStays ==
    ASSUME CsmaInv, [Next]_vars
    PROVE  PendingIsAnswered'
<1>1. SUFFICES ASSUME RadioAckPending', Initialized', pc' # "transmit"
               PROVE  /\ state' = "TX"
                      /\ TXTIMEOUT \in running' \cup ToSet(queue') \/ pc' = "reset"
  BY DEF PendingIsAnswered
<1>. DEFINE Waits == /\ RadioAckPending /\ Initialized /\ pc # "transmit"
                     /\ state = "TX" => state' = "TX"
                     /\ pc = "reset" => pc' = "reset"
<1>2. CASE SX1276SetTx
  BY <1>2 DEF SX1276SetTx
<1>3. ASSUME Waits
      PROVE  /\ state' = "TX"
             /\ TXTIMEOUT \in running' \cup ToSet(queue') \/ pc' = "reset"
  <2>1. state = "TX" /\ (TXTIMEOUT \in running \cup ToSet(queue) \/ pc = "reset")
    BY <1>3 DEF CsmaInv, PendingIsAnswered
  <2>2. state' = "TX" /\ (pc = "reset" => pc' = "reset")
    BY <1>3, <2>1
  <2>3. CASE TXTIMEOUT \in running \cup ToSet(queue)
    BY <1>1, <2>1, <2>2, <2>3, TimeoutStays
  <2>. QED BY <2>1, <2>2, <2>3
<1>4. CASE (\E p \in AppPacket : Send(p)) \/ MAC_GetNextPacket
  BY <1>1, <1>3, <1>4 DEF Send, MAC_GetNextPacket, macVars, radioVars, Waits
<1>5. CASE UnInitialize \/ Initialize
  BY <1>1, <1>5 DEF UnInitialize, Initialize, Fresh
<1>6. CASE \E t \in TimerName : Expire(t)
  BY <1>1, <1>3, <1>6 DEF Expire, macVars, radioVars, Waits
<1>7. CASE ExtendedExecute
  <2>1. CASE StartFirst
    BY <1>1, <1>3, <1>7, <2>1 DEF ExtendedExecute, StartFirst, macVars, radioVars, Waits
  <2>2. CASE beaconScheduler
    BY <1>1, <1>3, <1>7, <2>2 DEF ExtendedExecute, beaconScheduler, radioVars, Waits
  <2>3. CASE SX1276OnTimeoutIrq
    BY <1>1, <1>3, <1>7, <2>3 DEF ExtendedExecute, SX1276OnTimeoutIrq, macVars, Waits
  <2>. QED BY <1>7, <2>1, <2>2, <2>3 DEF ExtendedExecute
<1>8. CASE StopFlush
  BY <1>1, <1>3, <1>8 DEF StopFlush, macVars, radioVars, Waits
<1>9. CASE SendToRadio
  BY <1>1, <1>3, <1>9 DEF SendToRadio, Waits
<1>10. CASE ChannelBusy
  BY <1>1, <1>10 DEF ChannelBusy, macVars, CsmaInv, Sensing
<1>11. CASE ChannelClear
  BY <1>1, <1>11 DEF ChannelClear
<1>12. CASE SX1276_HAL_TxTimeout \/ SX1276_HAL_TxDone
  BY <1>1, <1>12 DEF SX1276_HAL_TxTimeout, SX1276_HAL_TxDone, SendAckHandler
<1>13. CASE \E p \in AirPacket : SX1276_HAL_RxDone(p)
  BY <1>1, <1>3, <1>13 DEF SX1276_HAL_RxDone, macVars, radioVars, Waits
<1>14. CASE UNCHANGED vars
  BY <1>1, <1>3, <1>14 DEF vars, macVars, radioVars, Waits
<1>. HIDE DEF Waits
<1>. QED
  BY <1>2, <1>3, <1>4, <1>5, <1>6, <1>7, <1>8, <1>9, <1>10, <1>11, <1>12, <1>13, <1>14
  DEF Next, Thread

LEMMA CsmaSteps ==
    ASSUME CsmaAssumption, CsmaInv, [Next]_vars
    PROVE  CsmaInv' /\ [SendQueue!Next]_(Ring!Contents(send, sendMsg))
<1>1. SendTyped' /\ [SendQueue!Next]_(Ring!Contents(send, sendMsg))
  BY StepsOfSendBuffer, SendBufferIsRefined DEF CsmaInv
<1>. QED
  BY <1>1, ReceiveBufferSteps, TimerSteps, RadioSteps, PendingStays DEF CsmaInv

LEMMA CsmaInvariant == ASSUME CsmaAssumption PROVE Spec => []CsmaInv
<1>1. Init => CsmaInv
  BY BeginsTypeCorrect
<1>2. CsmaInv /\ [Next]_vars => CsmaInv'
  BY CsmaSteps
<1>. QED BY <1>1, <1>2, PTL DEF Spec

-----------------------------------------------------------------------------
(***************************************************************************)
(* The theorems.                                                           *)
(***************************************************************************)

\* The buffers, the timers, the thread and the driver stay as they are typed:
\* the positions of both rings within them, and no callback waiting twice.
THEOREM CsmaTypeCorrect == ASSUME CsmaAssumption PROVE Spec => []TypeOK
<1>1. CsmaInv => TypeOK
  BY InvGivesTypes
<1>. QED BY <1>1, CsmaInvariant, PTL

\* While the MAC waits for an answer the driver sends, and its timer runs, or
\* the callback of it is on its way, or the thread resets the radio.
THEOREM AnswerIsOnItsWay == ASSUME CsmaAssumption PROVE Spec => []PendingIsAnswered
<1>1. CsmaInv => PendingIsAnswered
  BY DEF CsmaInv
<1>. QED BY <1>1, CsmaInvariant, PTL

\* Between TxDone and the reset after a timeout, one of which ends it and lets
\* the next packet go, a transmission is left alone: no callback and no call of
\* the client has the radio receive, sense or send in the meantime.
THEOREM NoTransmissionCutOff == ASSUME CsmaAssumption PROVE Spec => NotCutOff
<1>. DEFINE Goes == state' = "TX" /\ pc' \notin {"sense", "transmit"}
            Ends == /\ SX1276_HAL_TxDone \/ SX1276_HAL_TxTimeout
                    /\ RadioAckPending /\ ~RadioAckPending'
            A == onAir /\ Initialized /\ Initialized' => IF onAir' THEN Goes ELSE Ends
<1>1. CsmaInv /\ [Next]_vars => [A]_vars
  <2>1. SUFFICES ASSUME CsmaInv, Next, onAir, Initialized, Initialized'
                 PROVE  IF onAir' THEN Goes ELSE Ends
    OBVIOUS
  <2>2. /\ RadioAckPending /\ state = "TX" /\ pc # "transmit" /\ pc # "sense"
        /\ onAir' \in BOOLEAN
    BY <2>1, RadioSteps DEF CsmaInv, OnAir, Sensing, FlagsTyped
  <2>3. CASE (\E p \in AppPacket : Send(p)) \/ MAC_GetNextPacket \/ UnInitialize \/ Initialize
    BY <2>1, <2>2, <2>3 DEF Send, MAC_GetNextPacket, UnInitialize, Initialize, radioVars
  <2>4. CASE \E t \in TimerName : Expire(t)
    BY <2>1, <2>2, <2>4 DEF Expire, radioVars
  <2>5. CASE ExtendedExecute
    BY <2>1, <2>2, <2>5
    DEF ExtendedExecute, StartFirst, beaconScheduler, SX1276OnTimeoutIrq, radioVars
  <2>6. CASE StopFlush \/ SendToRadio \/ SX1276SetTx \/ ChannelBusy \/ ChannelClear
    BY <2>1, <2>2, <2>6
    DEF StopFlush, SendToRadio, SX1276SetTx, ChannelBusy, ChannelClear, radioVars
  <2>7. CASE SX1276_HAL_TxTimeout \/ SX1276_HAL_TxDone
    <3>1. ~onAir' /\ ~RadioAckPending'
      BY <2>1, <2>7 DEF SX1276_HAL_TxTimeout, SX1276_HAL_TxDone, SendAckHandler, SX1276SetRx
    <3>. QED BY <2>2, <2>7, <3>1
  <2>8. CASE \E p \in AirPacket : SX1276_HAL_RxDone(p)
    BY <2>1, <2>2, <2>8 DEF SX1276_HAL_RxDone, radioVars
  <2>. QED BY <2>1, <2>3, <2>4, <2>5, <2>6, <2>7, <2>8 DEF Next, Thread
<1>. HIDE DEF A
<1>2. Spec => [][A]_vars
  BY <1>1, CsmaInvariant, PTL DEF Spec
<1>. QED BY <1>2 DEF NotCutOff, A, Goes, Ends

\* The send buffer implements the bounded queue of packets: with interrupts,
\* timers and the client's calls in any order, packets leave it in the order
\* in which they were accepted, each of them once.
THEOREM SendBufferImplementsQueue == ASSUME CsmaAssumption PROVE Spec => SendBufferIsQueue
<1>1. Init => SendQueue!Init
  BY NewRing DEF Init, SendQueue!Init, CsmaAssumption
<1>2. CsmaInv /\ [Next]_vars => [SendQueue!Next]_(Ring!Contents(send, sendMsg))
  BY CsmaSteps
<1>. QED
  BY <1>1, <1>2, CsmaInvariant, PTL DEF Spec, SendBufferIsQueue, SendQueue!Spec

=============================================================================
