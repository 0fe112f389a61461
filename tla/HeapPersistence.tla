--------------------------- MODULE HeapPersistence ---------------------------
(***************************************************************************)
(* The CLR's persistence manager: extended weak references that survive a  *)
(* loss of power, in two banks of flash of which one is in use and the     *)
(* other is for compaction.                                                *)
(*                                                                         *)
(* The manager works in the callback of a completion, a step whenever the  *)
(* CLR is idle for long enough, or in Flush, at once.  The power may fail  *)
(* between any two writes to the flash.                                    *)
(*                                                                         *)
(* Objects have one length, a slot of a bank, and all references the same  *)
(* priority, which puts the last one that was set first.                   *)
(***************************************************************************)
EXTENDS LinkedLists, FiniteSetsExt

CONSTANTS
    Weak,          \* extended weak references that survive a power down
    Slots,         \* objects that find room in a bank
    BlockSlots,    \* those in its first block
    SafeObjects,   \* objects in m_totalSafeBytes
    Nothing,       \* m_targetSerialized is NULL
    Ram,           \* it is an array in the heap
    Unsequenced,   \* m_sequenceNumber of a bank that has just been formatted
    MaxSets,       \* bound: targets the clients set, and references they move
    MaxFaults,     \* bound: losses of power, writes and erasures that fail
    FailsUnsequenced,  \* power fails also while a bank has no sequence number,
                       \* and writing the number may fail
    MoveWhenIdle       \* references are also moved when all is saved

ASSUME PersistenceAssumption ==
    /\ IsFiniteSet(Weak)
    /\ Slots \in Nat /\ BlockSlots \in 1 .. Slots /\ SafeObjects \in 0 .. Slots
    /\ Nothing # Ram /\ {Nothing, Ram} \cap (Weak \cup Nat) = {}
    /\ Unsequenced \in Nat \ {0, 1} /\ MaxSets \in Nat /\ MaxFaults \in Nat
    /\ FailsUnsequenced \in BOOLEAN /\ MoveWhenIdle \in BOOLEAN

Bank == {"STORAGE_A", "STORAGE_B"}
Slot == 1 .. Slots
Complete == 2              \* writes of an object after the first of its header
Erased == [object |-> Nothing, version |-> 0, written |-> 0, live |-> FALSE]
NoPending == [object |-> Nothing, bank |-> "STORAGE_A", slot |-> 0]

VARIABLES
    flash,            \* the banks: m_sequenceNumber (0: no header) and objects
    active,           \* the bank that m_bankA is
    weakReferences,   \* m_weakReferences of the execution engine
    target,           \* m_targetSerialized; a slot of the bank in use if WR_Persisted
    copied,           \* m_targetCopied, 0 if it is NULL
    pending,          \* m_pending_object and m_pending_header
    state,            \* m_state; NoSector is EraseSector past the last block
    armed,            \* m_completion is enqueued
    running,          \* who runs AdvanceState
    latest,           \* history: version of the object, 0 if there is none
    sets, faults      \* counted for the bounds

clientVars == <<weakReferences, latest, sets>>
vars == <<flash, active, target, copied, pending, state, armed, running, faults,
          clientVars>>

Other == CHOOSE b \in Bank : b # active
Entries == [object : Weak \cup {Nothing}, version : 0 .. MaxSets,
            written : 0 .. Complete, live : BOOLEAN]

TypeOK ==
    /\ flash \in [Bank -> [sequence : 0 .. Unsequenced, slots : [Slot -> Entries]]]
    /\ active \in Bank
    /\ weakReferences \in Seq(Weak) /\ NoRepeats(weakReferences)
    /\ target \in [Weak -> {Nothing, Ram} \cup Slot]
    /\ copied \in [Weak -> 0 .. Slots]
    /\ pending \in [object : Weak \cup {Nothing}, bank : Bank, slot : 0 .. Slots]
    /\ state \in {"FlushNextObject", "Idle", "Erase", "EraseSector", "NoSector",
                  "Format", "CopyToOtherBank", "CopyBackToRam", "SwitchBank"}
    /\ armed \in BOOLEAN
    /\ running \in {"no", "boot", "callback", "flush", "flushAgain"}
    /\ latest \in [Weak -> 0 .. MaxSets]
    /\ sets \in 0 .. MaxSets /\ faults \in 0 .. MaxFaults

-----------------------------------------------------------------------------
(***************************************************************************)
(* Banks.                                                                  *)
(***************************************************************************)

\* ObjectHeader::IsGood without and with the data, and BankHeader::IsGood.
HeaderIsGood(e) == e # Erased /\ e.written > 0
IsGood(e) == HeaderIsGood(e) /\ e.live /\ e.written = Complete
BankIsGood(b) == flash[b].sequence # 0

\* Where WriteHeader writes: past the objects with a good header, and past
\* what a header torn by a loss of power has left; 0 if there is no room.
FreeSlot(b) ==
    LET after == {n \in Slot : \A m \in n .. Slots : ~HeaderIsGood(flash[b].slots[m])}
        free == {n \in after : flash[b].slots[n] = Erased}
    IN  IF free = {} THEN 0 ELSE Min(free)

\* ObjectHeader::Delete.
Delete(f, b, n) == [f EXCEPT ![b].slots[n].live = FALSE]

\* Mutant: the first bank is used if it is good.
Chosen_First == IF BankIsGood("STORAGE_A") THEN "STORAGE_A" ELSE "STORAGE_B"

\* The bank Initialize chooses, and the slots it restores a reference from.
Chosen ==
    IF /\ BankIsGood("STORAGE_B")
       /\ BankIsGood("STORAGE_A") =>
            flash["STORAGE_A"].sequence < flash["STORAGE_B"].sequence
    THEN "STORAGE_B" ELSE "STORAGE_A"
Restored(w) ==
    IF ~BankIsGood(Chosen) THEN {}
    ELSE {n \in Slot : /\ IsGood(flash[Chosen].slots[n])
                       /\ flash[Chosen].slots[n].object = w}

\* usedBytes when a walk along the references arrives at the i-th.
UsedUpTo(i) == Cardinality({j \in 1 .. i : target[weakReferences[j]] # Nothing})

\* The first reference that needs attention; 0 if there is none.
First(Needs(_)) ==
    LET is == {i \in DOMAIN weakReferences : Needs(weakReferences[i])}
    IN  IF is = {} THEN 0 ELSE Min(is)

-----------------------------------------------------------------------------
(***************************************************************************)
(* Initialize, and losses of power.                                        *)
(***************************************************************************)

\* The flash is new, and Initialize has formatted the first bank.
Init ==
    /\ flash = [b \in Bank |-> [sequence |-> IF b = "STORAGE_A" THEN Unsequenced ELSE 0,
                                slots |-> [n \in Slot |-> Erased]]]
    /\ active = "STORAGE_A"
    /\ weakReferences = <<>>
    /\ target = [w \in Weak |-> Nothing]
    /\ copied = [w \in Weak |-> 0]
    /\ pending = NoPending
    /\ state = "FlushNextObject"
    /\ armed = TRUE /\ running = "boot"
    /\ latest = [w \in Weak |-> 0]
    /\ sets = 0 /\ faults = 0

\* Initialize: RecoverObjects has linked the references kept in RAM, in the
\* order in which the heap happens to hold them; those of the chosen bank come
\* before them, the last one first.  If no bank is good, the first is erased
\* and formatted, and then gets its sequence number.
Restart(kept) ==
    LET back == {w \in Weak : Restored(w) # {}}
        position == [w \in back |-> Max(Restored(w))]
        Before(v, w) == IF v \in back THEN w \in back => position[v] > position[w]
                                      ELSE w \notin back
        good == BankIsGood(Chosen)
    IN  /\ active' = Chosen
        /\ \E order \in SetToSeqs(back \cup kept) :
              /\ \A i, j \in DOMAIN order : i < j => Before(order[i], order[j])
              /\ weakReferences' = order
        /\ target' = [w \in Weak |-> CASE w \in back -> position[w]
                                       [] w \in kept \ back -> Ram
                                       [] OTHER -> Nothing]
        /\ latest' = [w \in Weak |-> IF w \in back \cup kept THEN latest[w] ELSE 0]
        /\ copied' = [w \in Weak |-> 0] /\ pending' = NoPending
        /\ state' = "FlushNextObject" /\ armed' = TRUE
        /\ running' = IF good THEN "no" ELSE "boot"
        /\ flash' = IF good THEN flash
                    ELSE [flash EXCEPT ![Chosen] = [sequence |-> Unsequenced,
                                                    slots |-> [n \in Slot |-> Erased]]]
SetFirstSequence ==
    /\ running = "boot"
    /\ flash' = [flash EXCEPT ![active].sequence = 1]
    /\ running' = "no"
    /\ UNCHANGED <<active, target, copied, pending, state, armed, faults, clientVars>>

PowerFails ==
    /\ faults < MaxFaults
    /\ FailsUnsequenced \/ \A b \in Bank : flash[b].sequence # Unsequenced
    /\ Restart({})
    /\ faults' = faults + 1
    /\ UNCHANGED sets

\* A reboot of the CLR alone: the objects in the heap are found again.
RebootClr ==
    /\ running = "no" /\ faults < MaxFaults
    /\ FailsUnsequenced \/ \A b \in Bank : flash[b].sequence # Unsequenced
    /\ Restart({w \in Weak : target[w] = Ram})
    /\ faults' = faults + 1
    /\ UNCHANGED sets

-----------------------------------------------------------------------------
(***************************************************************************)
(* What the managed program and the garbage collector do.                  *)
(***************************************************************************)

\* The banks when what is in flash of w, or on its way there, is deleted.
Deleted(w) ==
    LET aborted == IF pending.object = w THEN Delete(flash, pending.bank, pending.slot)
                   ELSE flash
    IN  IF target[w] \in Slot /\ IsGood(flash[active].slots[target[w]])
        THEN Delete(aborted, active, target[w]) ELSE aborted

\* Mutant: a copy that goes on takes the deleted object along.
InvalidateEntry_CopyGoesOn(w) ==
    /\ flash' = Deleted(w)
    /\ pending' = IF pending.object = w THEN NoPending ELSE pending
    /\ state' = IF state = "Idle" THEN "FlushNextObject" ELSE state
    /\ armed' = (armed \/ state = "Idle")

\* Mutant: nobody is told that there is something to save.
InvalidateEntry_StaysIdle(w) ==
    /\ flash' = Deleted(w)
    /\ pending' = IF pending.object = w THEN NoPending ELSE pending
    /\ state' = IF state \in {"CopyToOtherBank", "CopyBackToRam"} THEN "Erase" ELSE state
    /\ UNCHANGED armed

\* InvalidateEntry: what is in flash is deleted at once, a copy of the bank
\* that may hold it is begun again.
InvalidateEntry(w) ==
    /\ flash' = Deleted(w)
    /\ pending' = IF pending.object = w THEN NoPending ELSE pending
    /\ state' = CASE state = "Idle" -> "FlushNextObject"
                  [] state \in {"CopyToOtherBank", "CopyBackToRam"} -> "Erase"
                  [] OTHER -> state
    /\ armed' = (armed \/ state = "Idle")

\* Mutant: the reference is not unlinked first.
SetTarget_LinkedTwice(w) ==
    /\ running = "no" /\ sets < MaxSets
    /\ InvalidateEntry(w)
    /\ target' = [target EXCEPT ![w] = Ram]
    /\ weakReferences' = <<w>> \o weakReferences
    /\ latest' = [latest EXCEPT ![w] = sets + 1]
    /\ sets' = sets + 1
    /\ UNCHANGED <<active, copied, running, faults>>

\* SetTarget with another object.
SetTarget(w) ==
    /\ running = "no" /\ sets < MaxSets
    /\ InvalidateEntry(w)
    /\ target' = [target EXCEPT ![w] = Ram]
    /\ weakReferences' = LinkedAtFront(weakReferences, w)
    /\ latest' = [latest EXCEPT ![w] = sets + 1]
    /\ sets' = sets + 1
    /\ UNCHANGED <<active, copied, running, faults>>

\* set_Priority, and SetTarget with an equal object, move the reference.
InsertInPriorityOrder(w) ==
    /\ running = "no" /\ sets < MaxSets
    /\ MoveWhenIdle \/ state # "Idle"
    /\ w \in ToSet(weakReferences)
    /\ weakReferences' = LinkedAtFront(weakReferences, w)
    /\ sets' = sets + 1
    /\ UNCHANGED <<flash, active, target, copied, pending, state, armed, running,
                   faults, latest>>

\* The collector drops the object, and with MarkWeak the reference too.
Collect(w) ==
    /\ running = "no" /\ w \in ToSet(weakReferences)
    /\ target[w] # Nothing
    /\ InvalidateEntry(w)
    /\ target' = [target EXCEPT ![w] = Nothing]
    /\ weakReferences' \in {weakReferences, Unlinked(weakReferences, w)}
    /\ latest' = [latest EXCEPT ![w] = 0]
    /\ UNCHANGED <<active, copied, running, faults, sets>>

-----------------------------------------------------------------------------
(***************************************************************************)
(* AdvanceState, one write at a time.                                      *)
(***************************************************************************)
AdvanceVars == <<active, faults, clientVars>>
Advances == running \in {"callback", "flush", "flushAgain"}

Callback ==
    /\ running = "no" /\ armed
    /\ running' = "callback" /\ armed' = FALSE
    /\ UNCHANGED <<flash, target, copied, pending, state, AdvanceVars>>

\* FlushAll: Flush twice.
FlushAll ==
    /\ running = "no" /\ running' = "flush"
    /\ UNCHANGED <<flash, target, copied, pending, state, armed, AdvanceVars>>

\* AdvanceState returns in state s.  What it returns matters to the callback
\* only: FlushAll goes on with STATE_FlushNextObject and then is done.
Return(s, more) ==
    /\ running' = IF running = "flush" THEN "flushAgain" ELSE "no"
    /\ state' = IF running = "flush" THEN "FlushNextObject" ELSE s
    /\ armed' = (armed \/ (running = "callback" /\ more))

\* There is not enough idle time, except before the first data of an object.
NoIdleTime ==
    /\ running = "callback" /\ state \notin {"Idle", "Format", "SwitchBank"}
    /\ pending.object # Nothing /\ state \in {"FlushNextObject", "CopyToOtherBank"} =>
            HeaderIsGood(flash[pending.bank].slots[pending.slot])
    /\ Return(state, TRUE)
    /\ UNCHANGED <<flash, target, copied, pending, AdvanceVars>>

Synchronized ==
    /\ Advances /\ state = "Idle"
    /\ Return("Idle", FALSE)
    /\ UNCHANGED <<flash, target, copied, pending, AdvanceVars>>

\* WriteHeader begins with the header of the i-th reference.
WriteHeader(i, b) ==
    LET w == weakReferences[i]
        n == FreeSlot(b)
    IN  /\ flash' = [flash EXCEPT ![b].slots[n] =
                        [object |-> w, version |-> latest[w], written |-> 0, live |-> TRUE]]
        /\ pending' = [object |-> w, bank |-> b, slot |-> n]

NeedsFlush(w) == target[w] = Ram

FlushHeader ==
    LET i == First(NeedsFlush) IN
    /\ Advances /\ state = "FlushNextObject" /\ pending = NoPending
    /\ i # 0 /\ FreeSlot(active) # 0
    /\ WriteHeader(i, active)
    /\ UNCHANGED <<target, copied, state, armed, running, AdvanceVars>>

\* Mutant: the banks are switched whenever there is no room.
TriggerCopy_NoMargin ==
    /\ Advances /\ state = "FlushNextObject" /\ pending = NoPending
    /\ First(NeedsFlush) # 0 /\ FreeSlot(active) = 0
    /\ Return("Erase", TRUE)
    /\ UNCHANGED <<flash, target, copied, pending, AdvanceVars>>

\* No room: the banks are to be switched if that makes enough of it.
TriggerCopy ==
    LET i == First(NeedsFlush) IN
    /\ Advances /\ state = "FlushNextObject" /\ pending = NoPending
    /\ i # 0 /\ FreeSlot(active) = 0 /\ UsedUpTo(i) <= SafeObjects
    /\ Return("Erase", TRUE)
    /\ UNCHANGED <<flash, target, copied, pending, AdvanceVars>>

NothingToFlush ==
    LET i == First(NeedsFlush) IN
    /\ Advances /\ state = "FlushNextObject" /\ pending = NoPending
    /\ i # 0 => FreeSlot(active) = 0 /\ UsedUpTo(i) > SafeObjects
    /\ state' = "Idle"
    /\ UNCHANGED <<flash, target, copied, pending, armed, running, AdvanceVars>>

Pending == flash[pending.bank].slots[pending.slot]
Written == [flash EXCEPT ![pending.bank].slots[pending.slot].written = @ + 1]

\* The next write of the pending object, in either state that writes objects.
WriteNext ==
    /\ Advances /\ state \in {"FlushNextObject", "CopyToOtherBank"}
    /\ pending # NoPending
    /\ flash' = Written
    /\ IF Pending.written + 1 < Complete
       THEN UNCHANGED <<target, copied, pending>>
       ELSE /\ pending' = NoPending
            /\ IF state = "FlushNextObject"
               THEN /\ target' = [target EXCEPT ![pending.object] = pending.slot]
                    /\ UNCHANGED copied
               ELSE /\ copied' = [copied EXCEPT ![pending.object] = pending.slot]
                    /\ UNCHANGED target
    /\ UNCHANGED <<state, armed, running, AdvanceVars>>

\* A write of data fails: the header is deleted.
WriteFails ==
    /\ Advances /\ state \in {"FlushNextObject", "CopyToOtherBank"}
    /\ pending # NoPending /\ HeaderIsGood(Pending)
    /\ faults < MaxFaults /\ faults' = faults + 1
    /\ flash' = Delete(flash, pending.bank, pending.slot)
    /\ pending' = NoPending
    /\ UNCHANGED <<active, target, copied, state, armed, running, clientVars>>

Erase ==
    /\ Advances /\ state = "Erase"
    /\ copied' = [w \in Weak |-> 0]
    /\ pending' = NoPending
    /\ state' = "EraseSector"
    /\ UNCHANGED <<flash, target, armed, running, AdvanceVars>>

FirstBlockErased ==
    [flash EXCEPT ![Other] =
        [sequence |-> 0,
         slots |-> [n \in Slot |-> IF n <= BlockSlots THEN Erased
                                   ELSE flash[Other].slots[n]]]]

\* The first block of the other bank is erased, and then the bank formatted.
EraseSector ==
    /\ Advances /\ state = "EraseSector"
    /\ flash' = FirstBlockErased
    /\ state' = "Format"
    /\ UNCHANGED <<target, copied, pending, armed, running, AdvanceVars>>

\* The erasure fails, and leaves the block erased or as it was.  m_eraseIndex
\* goes on to the next block all the same: in a bank of one block no further
\* attempt is made, and the state stays what it is.  (A bank of more blocks
\* goes on with the next of them, which is left out.)
EraseFails ==
    /\ Advances /\ state = "EraseSector" /\ BlockSlots = Slots
    /\ faults < MaxFaults /\ faults' = faults + 1
    /\ flash' \in {flash, FirstBlockErased}
    /\ state' = "NoSector"
    /\ UNCHANGED <<active, target, copied, pending, armed, running, clientVars>>

\* Erase finds no block at m_eraseIndex: AdvanceState goes round, for as long
\* as there is idle time, or in a Flush for ever.
NoSectorLeft ==
    /\ Advances /\ state = "NoSector"
    /\ UNCHANGED vars

\* A header that cannot be written is written a word further on.
Format ==
    /\ Advances /\ state = "Format"
    /\ flash' = [flash EXCEPT ![Other].sequence = Unsequenced]
    /\ state' = "CopyToOtherBank"
    /\ UNCHANGED <<target, copied, pending, armed, running, AdvanceVars>>

NeedsCopy(w) == target[w] \in Slot /\ copied[w] = 0

CopyHeader ==
    LET i == First(NeedsCopy) IN
    /\ Advances /\ state = "CopyToOtherBank" /\ pending = NoPending
    /\ IF i # 0 /\ UsedUpTo(i) <= SafeObjects /\ FreeSlot(Other) # 0
       THEN WriteHeader(i, Other) /\ UNCHANGED state
       ELSE state' = "CopyBackToRam" /\ UNCHANGED <<flash, pending>>
    /\ UNCHANGED <<target, copied, armed, running, AdvanceVars>>

NeedsRevert(w) == NeedsCopy(w) /\ IsGood(flash[active].slots[target[w]])

\* What has not been copied goes back to RAM, before the banks are switched.
RevertToRam ==
    LET i == First(NeedsRevert)
        w == weakReferences[i]
    IN
    /\ Advances /\ state = "CopyBackToRam"
    /\ IF i = 0
       THEN state' = "SwitchBank" /\ UNCHANGED <<flash, target>>
       ELSE /\ target' = [target EXCEPT ![w] = Ram]
            /\ flash' = Delete(flash, active, target[w])
            /\ UNCHANGED state
    /\ UNCHANGED <<copied, pending, armed, running, AdvanceVars>>

\* There is no memory for it: the copy is begun again.
NoMemory ==
    /\ Advances /\ state = "CopyBackToRam" /\ First(NeedsRevert) # 0
    /\ Return("Erase", TRUE)
    /\ UNCHANGED <<flash, target, copied, pending, AdvanceVars>>

\* SetSequence gives up after ten attempts, and the banks are switched all the
\* same.
SwitchBank ==
    /\ Advances /\ state = "SwitchBank"
    /\ target' = [w \in Weak |-> IF copied[w] # 0 THEN copied[w] ELSE target[w]]
    /\ copied' = [w \in Weak |-> 0]
    /\ \/ /\ flash' = [flash EXCEPT ![Other].sequence =
                           (flash[active].sequence + 1) % (Unsequenced + 1)]
          /\ UNCHANGED faults
       \/ /\ FailsUnsequenced /\ faults < MaxFaults
          /\ UNCHANGED flash
          /\ faults' = faults + 1
    /\ active' = Other
    /\ state' = "FlushNextObject"
    /\ UNCHANGED <<pending, armed, running, clientVars>>

AdvanceState ==
    \/ Synchronized \/ FlushHeader \/ TriggerCopy \/ NothingToFlush \/ WriteNext
    \/ Erase \/ EraseSector \/ NoSectorLeft \/ Format \/ CopyHeader \/ RevertToRam
    \/ SwitchBank

-----------------------------------------------------------------------------
Next ==
    \/ PowerFails \/ RebootClr \/ SetFirstSequence
    \/ \E w \in Weak : SetTarget(w) \/ InsertInPriorityOrder(w) \/ Collect(w)
    \/ Callback \/ FlushAll
    \/ AdvanceState \/ NoIdleTime \/ WriteFails \/ EraseFails \/ NoMemory

Spec == Init /\ [][Next]_vars

\* The completion fires, and the CLR is idle for long enough now and then, and
\* has memory then.
FairSpec ==
    /\ Spec
    /\ WF_vars(SetFirstSequence) /\ WF_vars(Callback)
    /\ SF_vars(AdvanceState) /\ SF_vars(RevertToRam)

-----------------------------------------------------------------------------
(***************************************************************************)
(* Properties.                                                             *)
(***************************************************************************)
Sequenced == \A b \in Bank : flash[b].sequence # Unsequenced

\* A reference that is marked as persisted has its object in the bank in use,
\* whole and not deleted, and its copy, if there is one, in the other bank:
\* through flushes, compactions that are begun again, deletions and restarts.
PersistedIsStored ==
    \A w \in Weak :
        /\ target[w] \in Slot =>
              flash[active].slots[target[w]] =
                 [object |-> w, version |-> latest[w], written |-> Complete, live |-> TRUE]
        /\ copied[w] # 0 /\ target[w] \in Slot =>
              flash[Other].slots[copied[w]] =
                 [object |-> w, version |-> latest[w], written |-> Complete, live |-> TRUE]

\* If the power fails now, a reference that is marked as persisted comes back,
\* and what comes back is the latest object of a reference, once: no object
\* that was replaced, dropped or half written, and nothing that the bank holds
\* from its last use.  While a bank is formatted and has no sequence number
\* yet this is not so, see FailsUnsequenced.
RestartKeeps ==
    FailsUnsequenced \/ Sequenced => \A w \in Weak :
        /\ target[w] \in Slot => Restored(w) # {}
        /\ Cardinality(Restored(w)) <= 1
        /\ \A n \in Restored(w) : flash[Chosen].slots[n].version = latest[w]

\* When the manager says that its content is synchronized, every object that
\* fits, in the order of the references, is in flash.
IdleMeansSaved ==
    running = "no" /\ state = "Idle" =>
        \A i \in DOMAIN weakReferences :
            UsedUpTo(i) <= SafeObjects => target[weakReferences[i]] # Ram

AtRest == running = "no" /\ state = "Idle"

\* The manager comes to rest: while there is something left to do its completion
\* is enqueued, and it does not compact for ever, whatever writes fail and
\* objects change meanwhile.  An erasure that fails is excepted: it leaves the
\* manager without rest, and with nothing more saved, until the next start.
ComesToRest == []<>(AtRest \/ state = "NoSector")
=============================================================================
