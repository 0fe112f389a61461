--------------------------- MODULE CircularBuffer ---------------------------
(***************************************************************************)
(* CircularBuffer<MessageT, BufferSizeT>: an array of pointers to messages *)
(* used as a ring, as operators on a record.  The messages are kept apart  *)
(* (a function from pointers): a client may put a pointer of its own into  *)
(* the ring, which is how received messages are exchanged.                 *)
(***************************************************************************)
EXTENDS Naturals, FiniteSets

Size(b) == Cardinality(DOMAIN b.msgPtr)

Following(b, position) == IF position + 1 >= Size(b) THEN 0 ELSE position + 1

\* A ring over the messages with the given pointers, one per position.
Initialize(pointers) ==
    [msgPtr |-> pointers, nextCleanBuffer |-> 0, firstFullBuffer |-> 0,
     numElements |-> 0]

IsFull(b) == b.numElements = Size(b)
IsEmpty(b) == b.numElements = 0

\* Mutant: the position goes on past the end of the array.
GetNextFreeBuffer_NoWrap(b) ==
    [b EXCEPT !.nextCleanBuffer = @ + 1, !.numElements = @ + 1]

\* Mutant: the position stays at the end of the array.
GetNextFreeBuffer_Stays(b) ==
    [b EXCEPT !.nextCleanBuffer = IF @ + 1 >= Size(b) THEN @ ELSE @ + 1,
              !.numElements = @ + 1]

\* The ring after GetNextFreeBuffer and GetNextFreeBufferPtr, which return
\* the pointer at nextCleanBuffer, or its place in the array.
GetNextFreeBuffer(b) ==
    [b EXCEPT !.nextCleanBuffer = Following(b, @), !.numElements = @ + 1]

\* The ring after GetFirstFullBuffer and GetFirstFullBufferPtr.
GetFirstFullBuffer(b) ==
    [b EXCEPT !.firstFullBuffer = Following(b, @), !.numElements = @ - 1]

FirstFull(b) == b.msgPtr[b.firstFullBuffer]
NextFree(b) == b.msgPtr[b.nextCleanBuffer]

\* The messages in the ring, oldest first.
Contents(b, messages) ==
    [n \in 1 .. b.numElements |->
        messages[b.msgPtr[(b.firstFullBuffer + n - 1) % Size(b)]]]
=============================================================================
