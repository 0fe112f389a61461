------------------------------- MODULE CsmaMac -------------------------------
(***************************************************************************)
(* csmaMAC on the SX1276 radio driver, as the STM32H743 solution builds    *)
(* them.                                                                   *)
(*                                                                         *)
(* The thread runs the client's calls and, from a queue of continuations,  *)
(* the callbacks of the virtual timers: none of them interrupts another.   *)
(* The radio's DIO0 interrupt comes between any two of the thread's steps  *)
(* and runs TxDone and RxDone, and with them the MAC's SendAckHandler and  *)
(* ReceiveHandler, in the interrupt.                                       *)
(***************************************************************************)
EXTENDS Sequences, Integers, SequencesExt

CONSTANTS
    AppPacket,   \* packets the client sends
    AirPacket,   \* packets that arrive for this node
    SendSize,    \* Buffer_15_4_t_SIZE, of g_send_buffer
    RecvSize,    \* and of g_receive_buffer
    Hello,       \* the discovery packet of SendHello
    Nothing      \* what a message holds that has no packet in it

ASSUME CsmaAssumption ==
    /\ SendSize \in Nat \ {0} /\ RecvSize \in Nat \ {0}
    /\ Hello \notin AppPacket /\ Nothing \notin AppPacket \cup AirPacket \cup {Hello}

SENDPKT == "SENDPKT"          \* try again after carrier sensing, one-shot
FLUSH == "FLUSHBUFFER"        \* empty the send buffer, periodic
BEACON == "BEACON"            \* periodic
TXTIMEOUT == "TX_TIMEOUT"     \* the radio driver's, one-shot
OneShot == {SENDPKT, TXTIMEOUT}
TimerName == OneShot \cup {FLUSH, BEACON}

Ring == INSTANCE CircularBuffer

VARIABLES
    Initialized,
    RadioAckPending,
    flushTimerRunning,
    send,         \* g_send_buffer
    sendMsg,      \* its messages; what is behind a free one is not kept
    recv,         \* g_receive_buffer
    recvMsg,      \* its messages, and the radio driver's RxTxBuffer
    running,      \* virtual timers that run
    queue,        \* callbacks in the continuations of the virtual timers
    pc,           \* where the thread is
    state,        \* SX1276.Settings.State
    onAir,        \* the radio is transmitting
    failed        \* history: the last answer of the radio was a timeout

macVars == <<Initialized, RadioAckPending, flushTimerRunning, send, sendMsg>>
recvVars == <<recv, recvMsg>>
timerVars == <<running, queue>>
radioVars == <<state, onAir, failed>>
vars == <<macVars, recvVars, timerVars, radioVars, pc>>

Own(size) == [n \in 0 .. size - 1 |-> n]
RxTxBuffer == RecvSize
SendPacket == AppPacket \cup {Hello}

TypeOK ==
    /\ {Initialized, RadioAckPending, flushTimerRunning, onAir, failed} \subseteq BOOLEAN
    /\ send \in [msgPtr : {Own(SendSize)}, nextCleanBuffer : 0 .. SendSize - 1,
                 firstFullBuffer : 0 .. SendSize - 1, numElements : 0 .. SendSize]
    /\ sendMsg \in [0 .. SendSize - 1 -> SendPacket \cup {Nothing}]
    /\ recv \in [msgPtr : [0 .. RecvSize - 1 -> 0 .. RecvSize],
                 nextCleanBuffer : 0 .. RecvSize - 1,
                 firstFullBuffer : 0 .. RecvSize - 1, numElements : 0 .. RecvSize]
    /\ recvMsg \in [0 .. RecvSize -> AirPacket \cup {Nothing}]
    /\ running \subseteq TimerName
    /\ queue \in Seq(TimerName)
    /\ pc \in {"idle", "first", "sense", "transmit", "reset"}
    /\ state \in {"IDLE", "RX", "CAD", "TX"}

\* What csmaMAC::Initialize and SX1276_HAL_Initialize leave behind.
Fresh ==
    /\ Initialized' = TRUE
    /\ RadioAckPending' = FALSE
    /\ flushTimerRunning' = FALSE
    /\ send' = Ring!Initialize(Own(SendSize))
    /\ sendMsg' = [n \in 0 .. SendSize - 1 |-> Nothing]
    /\ recv' = Ring!Initialize(Own(RecvSize))

Init ==
    /\ Initialized = TRUE
    /\ RadioAckPending = FALSE
    /\ flushTimerRunning = FALSE
    /\ send = Ring!Initialize(Own(SendSize))
    /\ sendMsg = [n \in 0 .. SendSize - 1 |-> Nothing]
    /\ recv = Ring!Initialize(Own(RecvSize))
    /\ recvMsg = [n \in 0 .. RecvSize |-> Nothing]
    /\ running = {BEACON}
    /\ queue = <<>>
    /\ pc = "idle"
    /\ state = "RX"
    /\ onAir = FALSE
    /\ failed = FALSE

\* SX1276SetRx: the radio receives, into an RxTxBuffer that is wiped first.
SX1276SetRx ==
    /\ state' = "RX"
    /\ onAir' = FALSE
    /\ recvMsg' = [recvMsg EXCEPT ![RxTxBuffer] = Nothing]

-----------------------------------------------------------------------------
(***************************************************************************)
(* The client's calls.                                                     *)
(***************************************************************************)

\* Buffer_15_4::Store.
Store(p) ==
    /\ send' = Ring!GetNextFreeBuffer(send)
    /\ sendMsg' = [sendMsg EXCEPT ![Ring!NextFree(send)] = p]

\* Send and SendTimeStamped: the packet is stored and the thread goes on with
\* SendFirstPacketToRadio.  With a full buffer they return FALSE.
Send(p) ==
    /\ pc = "idle" /\ Initialized
    /\ ~Ring!IsFull(send)
    /\ Store(p)
    /\ pc' = "first"
    /\ UNCHANGED <<Initialized, RadioAckPending, flushTimerRunning, recvVars,
                   timerVars, radioVars>>

\* MAC_GetNextPacket, with interrupts off, after a look at GetReceivePending.
MAC_GetNextPacket ==
    /\ pc = "idle" /\ Initialized
    /\ ~Ring!IsEmpty(recv)
    /\ recv' = Ring!GetFirstFullBuffer(recv)
    /\ UNCHANGED <<macVars, recvMsg, timerVars, radioVars, pc>>

\* The timers are stopped; callbacks that wait in continuations are not.  The
\* driver forgets its events, and with them its acknowledgements.
UnInitialize ==
    /\ pc = "idle" /\ Initialized
    /\ Initialized' = FALSE
    /\ running' = running \ {BEACON, SENDPKT, FLUSH}
    /\ UNCHANGED <<RadioAckPending, flushTimerRunning, send, sendMsg, recvVars,
                   queue, radioVars, pc>>

\* Setting the driver's timers again stops them, setting the MAC's does not.
Initialize ==
    /\ pc = "idle" /\ ~Initialized
    /\ Fresh /\ SX1276SetRx
    /\ running' = (running \ {TXTIMEOUT}) \cup {BEACON}
    /\ UNCHANGED <<queue, failed, pc>>

-----------------------------------------------------------------------------
(***************************************************************************)
(* The virtual timers, and the callbacks the thread runs for them.         *)
(***************************************************************************)

\* A timer runs out and its callback is queued.  Bound: one callback of a
\* timer at a time, where the pool of continuations is the code's bound.
Expire(t) ==
    /\ t \in running /\ t \notin ToSet(queue)
    /\ queue' = Append(queue, t)
    /\ running' = IF t \in OneShot THEN running \ {t} ELSE running
    /\ UNCHANGED <<macVars, recvVars, radioVars, pc>>

\* The timers' callback SendFirstPacketToRadio, which Send calls too.
StartFirst ==
    /\ Head(queue) \in {SENDPKT, FLUSH}
    /\ pc' = "first"
    /\ UNCHANGED <<macVars, recvVars, running, radioVars>>

\* beaconScheduler: SendHello is a Send, refused when the buffer is full.
beaconScheduler ==
    /\ Head(queue) = BEACON
    /\ IF Ring!IsFull(send)
       THEN UNCHANGED <<send, sendMsg, pc>>
       ELSE Store(Hello) /\ pc' = "first"
    /\ UNCHANGED <<Initialized, RadioAckPending, flushTimerRunning, recvVars,
                   running, radioVars>>

\* SX1276OnTimeoutIrq looks at the state only: its timer may have been for a
\* transmission that is over.  When receiving, RxTimeout resets the radio, and
\* with SX1276SetSleep stops its timers.
SX1276OnTimeoutIrq ==
    /\ Head(queue) = TXTIMEOUT
    /\ IF state = "RX" /\ Initialized
       THEN SX1276SetRx /\ running' = running \ {TXTIMEOUT}
       ELSE UNCHANGED <<state, onAir, recvMsg, running>>
    /\ pc' = IF state = "TX" THEN "reset" ELSE pc
    /\ UNCHANGED <<macVars, recv, failed>>

ExtendedExecute ==
    /\ pc = "idle" /\ queue # <<>>
    /\ queue' = Tail(queue)
    /\ StartFirst \/ beaconScheduler \/ SX1276OnTimeoutIrq

-----------------------------------------------------------------------------
(***************************************************************************)
(* Sending.                                                                *)
(***************************************************************************)

\* SendFirstPacketToRadio with nothing to send stops the flush timer, and
\* leaves the flag that says it runs.
StopFlush ==
    /\ pc = "first" /\ Ring!IsEmpty(send)
    /\ running' = IF flushTimerRunning THEN running \ {FLUSH} ELSE running
    /\ pc' = "idle"
    /\ UNCHANGED <<macVars, recvVars, queue, radioVars>>

\* More than one packet starts the flush timer.  (That SendToRadio stops it
\* when there is none does not happen: its caller has looked.)
FlushOnMore(before) ==
    IF send.numElements > 1 /\ ~flushTimerRunning
    THEN /\ running' = before \cup {FLUSH}
         /\ flushTimerRunning' = TRUE
    ELSE /\ running' = before
         /\ UNCHANGED flushTimerRunning

\* Mutant: the radio is used although a packet is on its way.
SendToRadio_NoWait ==
    /\ pc = "first" /\ ~Ring!IsEmpty(send)
    /\ FlushOnMore(running)
    /\ SX1276SetRx /\ pc' = "sense"
    /\ UNCHANGED <<Initialized, RadioAckPending, send, sendMsg, recv, queue, failed>>

\* SendToRadio up to CPU_Radio_TurnOnRx, which ends a transmission.
SendToRadio ==
    /\ pc = "first" /\ ~Ring!IsEmpty(send)
    /\ FlushOnMore(running)
    /\ IF RadioAckPending
       THEN pc' = "idle" /\ UNCHANGED <<state, onAir, recvMsg>>
       ELSE pc' = "sense" /\ SX1276SetRx
    /\ UNCHANGED <<Initialized, RadioAckPending, send, sendMsg, recv, queue, failed>>

\* CPU_Radio_ClearChannelAssesment does not let the packet go: later.
ChannelBusy ==
    /\ pc = "sense"
    /\ state' = "CAD"
    /\ running' = running \cup {SENDPKT}
    /\ pc' = "idle"
    /\ UNCHANGED <<macVars, recvVars, queue, onAir, failed>>

\* The oldest packet is copied out of the buffer and waits for its answer.
ChannelClear ==
    /\ pc = "sense"
    /\ state' = "CAD"
    /\ sendMsg' = [sendMsg EXCEPT ![Ring!FirstFull(send)] = Nothing]
    /\ send' = Ring!GetFirstFullBuffer(send)
    /\ RadioAckPending' = TRUE
    /\ pc' = "transmit"
    /\ UNCHANGED <<Initialized, flushTimerRunning, recvVars, timerVars, onAir, failed>>

\* Mutant: no limit is set to the transmission.
SX1276SetTx_NoTimer ==
    /\ pc = "transmit"
    /\ state' = "TX" /\ onAir' = Initialized
    /\ pc' = "idle"
    /\ UNCHANGED <<macVars, recvVars, timerVars, failed>>

\* SX1276_HAL_Send, SX1276Send and SX1276SetTx.  Once the MAC has given its
\* SPI port back, nothing the driver writes reaches the radio.
SX1276SetTx ==
    /\ pc = "transmit"
    /\ state' = "TX" /\ onAir' = Initialized
    /\ running' = running \cup {TXTIMEOUT}
    /\ pc' = "idle"
    /\ UNCHANGED <<macVars, recvVars, queue, failed>>

-----------------------------------------------------------------------------
(***************************************************************************)
(* Answers of the radio.                                                   *)
(***************************************************************************)

\* Mutant: the next packet is left to somebody else.
SendAckHandler_NoFlush(before) ==
    /\ RadioAckPending' = FALSE
    /\ running' = before
    /\ UNCHANGED flushTimerRunning

\* SendAckHandler with NetworkOperations_Success and timers as given.
SendAckHandler(before) ==
    /\ RadioAckPending' = FALSE
    /\ IF Ring!IsEmpty(send)
       THEN running' = before /\ UNCHANGED flushTimerRunning
       ELSE running' = before \cup {FLUSH} /\ flushTimerRunning' = TRUE

\* The DIO0 interrupt while sending: SX1276_HAL_TxDone turns the receiver on
\* and acknowledges, unless the driver has been uninitialized.
SX1276_HAL_TxDone ==
    /\ onAir /\ state = "TX"
    /\ IF Initialized
       THEN SX1276SetRx /\ failed' = FALSE /\ SendAckHandler(running \ {TXTIMEOUT})
       ELSE /\ state' = "IDLE" /\ onAir' = FALSE /\ running' = running \ {TXTIMEOUT}
            /\ UNCHANGED <<RadioAckPending, flushTimerRunning, recvMsg, failed>>
    /\ UNCHANGED <<Initialized, send, sendMsg, recv, queue, pc>>

\* The rest of SX1276OnTimeoutIrq: the radio is reset, its timers are stopped,
\* and TxTimeout reports NetworkOperations_Fail, for which SendAckHandler does
\* nothing more than to let the next packet go.
SX1276_HAL_TxTimeout ==
    /\ pc = "reset"
    /\ pc' = "idle"
    /\ running' = running \ {TXTIMEOUT}
    /\ IF Initialized
       THEN SX1276SetRx /\ failed' = TRUE /\ RadioAckPending' = FALSE
       ELSE /\ state' = "IDLE" /\ onAir' = FALSE
            /\ UNCHANGED <<recvMsg, failed, RadioAckPending>>
    /\ UNCHANGED <<Initialized, flushTimerRunning, send, sendMsg, recv, queue>>

\* ReceiveHandler puts the driver's message in the place of a free one, dropping
\* the oldest when there is none, and returns the free one.
ReceiveHandler(msg) ==
    LET room == IF Ring!IsFull(recv) THEN Ring!GetFirstFullBuffer(recv) ELSE recv
    IN  recv' = [Ring!GetNextFreeBuffer(room) EXCEPT
                     !.msgPtr[room.nextCleanBuffer] = msg]

\* The DIO0 interrupt while receiving.  The driver does not take the message it
\* is given in exchange: the next packet is read into the same RxTxBuffer.
SX1276_HAL_RxDone(p) ==
    /\ state = "RX" /\ Initialized
    /\ ReceiveHandler(RxTxBuffer)
    /\ recvMsg' = [recvMsg EXCEPT ![RxTxBuffer] = p]
    /\ UNCHANGED <<macVars, timerVars, radioVars, pc>>

-----------------------------------------------------------------------------
Thread ==
    \/ StopFlush \/ SendToRadio \/ SX1276SetTx \/ SX1276_HAL_TxTimeout
    \/ ChannelBusy \/ ChannelClear

Next ==
    \/ \E p \in AppPacket : Send(p)
    \/ MAC_GetNextPacket \/ UnInitialize \/ Initialize
    \/ \E t \in TimerName : Expire(t)
    \/ ExtendedExecute \/ Thread
    \/ SX1276_HAL_TxDone
    \/ \E p \in AirPacket : SX1276_HAL_RxDone(p)

Spec == Init /\ [][Next]_vars

\* The thread goes on and comes back to its continuations, timers run out,
\* and carrier sensing does not keep a packet for ever.  That transmissions
\* end is not assumed.
Fairness ==
    /\ WF_vars(Thread) /\ SF_vars(ExtendedExecute) /\ SF_vars(ChannelClear)
    /\ \A t \in TimerName : WF_vars(Expire(t))

FairSpec == Spec /\ Fairness

-----------------------------------------------------------------------------
(***************************************************************************)
(* Properties.                                                             *)
(***************************************************************************)

\* An answer is on its way for as long as the MAC waits for one: nothing but
\* an answer lets the next packet go, and TxDone, a timeout that has been
\* queued for an earlier packet and SendToRadio meet in any order.
PendingIsAnswered ==
    RadioAckPending /\ Initialized /\ pc # "transmit" =>
        /\ state = "TX"
        /\ TXTIMEOUT \in running \cup ToSet(queue) \/ pc = "reset"

\* A transmission goes on until TxDone or the reset of a timeout ends it, and
\* answers it: nothing else turns the radio to receiving, or has it sense or
\* take another packet, while it sends.  The MAC, the timers' callbacks and the
\* interrupt share the radio, with no more than RadioAckPending between them.
\* The timeout need not be its own, see TimeoutIsItsOwn.
NotCutOff ==
    [][onAir /\ Initialized /\ Initialized' =>
          IF onAir'
          THEN state' = "TX" /\ pc' \notin {"sense", "transmit"}
          ELSE /\ SX1276_HAL_TxDone \/ SX1276_HAL_TxTimeout
               /\ RadioAckPending /\ ~RadioAckPending']_vars

\* A transmission is reset only when its own time has run out.  This is not
\* so: the callback of an earlier packet's timeout may still be queued when
\* the next packet is sent, and does not see that its packet was acknowledged.
TimeoutIsItsOwn == pc = "reset" => TXTIMEOUT \notin running

\* With more than one packet in the send buffer the flush timer runs, or its
\* callback is on its way.
MoreThanOneFlushes ==
    send.numElements > 1 /\ Initialized /\ pc = "idle" =>
        FLUSH \in running \cup ToSet(queue)

\* Packets leave in the order in which they were accepted, each of them once.
SendQueue == INSTANCE PacketQueue WITH
    Packet <- SendPacket, Capacity <- SendSize,
    queue <- Ring!Contents(send, sendMsg)
SendBufferIsQueue == SendQueue!Spec

\* What the client fetches is what was received, oldest first, the oldest
\* being dropped when there is no room.
Received == Ring!Contents(recv, recvMsg)
ReceivedIsQueue ==
    [][\/ Received' = Received \/ Received' = <<>>
       \/ Received # <<>> /\ Received' = Tail(Received)
       \/ \E p \in AirPacket :
            Received' = Append(IF Len(Received) = RecvSize THEN Tail(Received)
                               ELSE Received, p)]_vars

\* A packet in the send buffer is taken in the end, also after transmissions
\* that timed out: the beacon gets the MAC going again, unless the buffer was
\* full by then and the beacon is refused.
StoredIsTaken ==
    send.numElements > 0 ~>
        \/ pc = "transmit" \/ ~Initialized
        \/ failed /\ Ring!IsFull(send)
=============================================================================
