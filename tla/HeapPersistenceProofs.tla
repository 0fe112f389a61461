------------------------ MODULE HeapPersistenceProofs ------------------------
(***************************************************************************)
(* HeapPersistence, for every set of references, every size of the banks   *)
(* and every bound: the types, what a restart finds in the bank in use,    *)
(* and that the manager is idle only when all that fits is in flash.       *)
(***************************************************************************)
EXTENDS HeapPersistence, LinkedListLemmas, FiniteSetTheorems

Flash == [Bank -> [sequence : 0 .. Unsequenced, slots : [Slot -> Entries]]]

-----------------------------------------------------------------------------
(***************************************************************************)
(* The operators of the model.                                             *)
(***************************************************************************)

LEMMA OtherIsBank ==
    ASSUME active \in Bank
    PROVE  /\ Other \in Bank /\ Other # active
           /\ \A b \in Bank : b = active \/ b = Other
<1>1. \E b \in Bank : b # active
  BY DEF Bank
<1>2. Other \in Bank /\ Other # active
  BY <1>1 DEF Other
<1>. QED BY <1>2 DEF Bank

\* A bounded set of naturals has a greatest element.
LEMMA GreatestNat ==
    ASSUME NEW n \in Nat, NEW T, T \subseteq 0..n, T # {}
    PROVE  Max(T) \in T /\ \A y \in T : Max(T) >= y
<1>. DEFINE below == {n - x : x \in T}
<1>1. below \subseteq Nat /\ below # {}
  <2>1. \A x \in T : n - x \in Nat
    OBVIOUS
  <2>. QED BY <2>1
<1>2. PICK y \in below : \A z \in below : y <= z
  <2>. HIDE DEF below
  <2>. QED BY <1>1, LeastNat
<1>3. PICK x \in T : y = n - x
  BY <1>2
<1>4. \A z \in T : x >= z
  <2>1. \A z \in T : n - z \in below
    OBVIOUS
  <2>2. \A z \in T : y <= n - z
    BY <1>2, <2>1
  <2>. QED BY <1>3, <2>2
<1>. QED BY <1>3, <1>4 DEF Max

\* The first of the references that need attention, where a walk stops.
LEMMA LeastOf ==
    ASSUME NEW is, is \subseteq Nat, 0 \notin is,
           NEW i, i = IF is = {} THEN 0 ELSE Min(is)
    PROVE  /\ i = 0 <=> is = {}
           /\ i # 0 => i \in is /\ \A j \in is : i <= j
<1>1. CASE is = {}
  BY <1>1
<1>2. CASE is # {}
  <2>1. \E x \in is : \A y \in is : x <= y
    BY <1>2, LeastNat
  <2>2. Min(is) \in is /\ \A y \in is : Min(is) <= y
    BY <2>1 DEF Min
  <2>. QED BY <1>2, <2>2
<1>. QED BY <1>1, <1>2

\* There is room in a bank: an erased slot with no good header after it.
HasRoom(b) ==
    \E n \in Slot : /\ flash[b].slots[n] = Erased
                    /\ \A m \in n .. Slots : ~HeaderIsGood(flash[b].slots[m])

LEMMA FreeSlotIsErased ==
    ASSUME PersistenceAssumption, NEW b
    PROVE  /\ FreeSlot(b) = 0 <=> ~HasRoom(b)
           /\ FreeSlot(b) # 0 =>
                 FreeSlot(b) \in Slot /\ flash[b].slots[FreeSlot(b)] = Erased
<1>. DEFINE after == {n \in Slot : \A m \in n .. Slots :
                                     ~HeaderIsGood(flash[b].slots[m])}
            free == {n \in after : flash[b].slots[n] = Erased}
<1>1. FreeSlot(b) = IF free = {} THEN 0 ELSE Min(free)
  BY DEF FreeSlot
<1>2. free \subseteq Slot /\ (free = {} <=> ~HasRoom(b))
      /\ \A n \in free : flash[b].slots[n] = Erased
  BY DEF HasRoom
<1>3. Slot \subseteq Nat /\ 0 \notin Slot
  BY DEF Slot, PersistenceAssumption
<1>. HIDE DEF free
<1>4. (FreeSlot(b) = 0 <=> free = {}) /\ (FreeSlot(b) # 0 => FreeSlot(b) \in free)
  BY <1>1, <1>2, <1>3, LeastOf
<1>. QED BY <1>2, <1>4

\* Deleting an object touches one entry, which then is not good, but still in
\* the way of others.
LEMMA DeleteProperties ==
    ASSUME NEW f \in Flash, NEW b \in Bank, NEW n \in Slot
    PROVE  /\ Delete(f, b, n) \in Flash
           /\ \A c \in Bank : Delete(f, b, n)[c].sequence = f[c].sequence
           /\ Delete(f, b, n)[b].slots[n] = [f[b].slots[n] EXCEPT !.live = FALSE]
           /\ \A c \in Bank, m \in Slot :
                 c # b \/ m # n => Delete(f, b, n)[c].slots[m] = f[c].slots[m]
<1>1. f[b].slots[n] \in Entries
  BY DEF Flash
<1>2. [f[b].slots[n] EXCEPT !.live = FALSE] \in Entries
  BY <1>1 DEF Entries
<1>. QED BY <1>2 DEF Delete, Flash

LEMMA DeletedEntry ==
    ASSUME NEW e \in Entries, NEW d, d = [e EXCEPT !.live = FALSE]
    PROVE  /\ ~IsGood(d)
           /\ HeaderIsGood(e) => HeaderIsGood(d)
           /\ d.object = e.object /\ d.version = e.version /\ d.written = e.written
           /\ e.object # Nothing => d # Erased
<1>1. /\ d.live = FALSE /\ d.object = e.object /\ d.version = e.version
      /\ d.written = e.written /\ e.written \in Nat
  BY DEF Entries, Complete
<1>2. Erased.written = 0 /\ Erased.object = Nothing
  BY DEF Erased
<1>3. ~IsGood(d)
  BY <1>1 DEF IsGood
<1>4. d = Erased => e.object = Nothing /\ e.written = 0
  BY <1>1, <1>2
<1>5. HeaderIsGood(e) => HeaderIsGood(d)
  BY <1>1, <1>4 DEF HeaderIsGood
<1>. QED BY <1>1, <1>3, <1>4, <1>5

-----------------------------------------------------------------------------
(***************************************************************************)
(* The part of the invariant that holds wherever the power fails.          *)
(***************************************************************************)

\* A pending object has a torn entry of its own, in the bank its state writes
\* to, and still waits for it.
Torn ==
    pending # NoPending =>
        /\ pending.object \in Weak /\ pending.slot \in Slot
        /\ Pending.object = pending.object
        /\ Pending.version = latest[pending.object]
        /\ Pending.live = TRUE /\ Pending.written < Complete
        /\ state \in {"FlushNextObject", "CopyToOtherBank", "Erase"}
        /\ state = "FlushNextObject" =>
              /\ pending.bank = active /\ NeedsFlush(pending.object)
              /\ \A w \in Weak : copied[w] = 0
        /\ state = "CopyToOtherBank" => pending.bank = Other /\ NeedsCopy(pending.object)
        /\ state = "Erase" => pending.bank = Other

\* What has an object is in the list that the walks go along.
Linked == \A w \in Weak : target[w] # Nothing => w \in ToSet(weakReferences)

\* Clients never see the manager about to switch the banks.
Switching == state = "SwitchBank" => Advances

\* A copy goes on, or what is left of one is kept: then it is full, since new
\* objects would be taken for copied ones.
Compacting ==
    \/ \E w \in Weak : copied[w] # 0
    \/ state \in {"Erase", "EraseSector", "NoSector", "Format",
                  "CopyToOtherBank", "CopyBackToRam", "SwitchBank"}
NoRoom == Compacting => ~HasRoom(active)

\* What is copied is taken from flash, and a copy is begun with nothing copied.
Copying == state \in {"CopyToOtherBank", "CopyBackToRam", "SwitchBank"}
FromFlash ==
    /\ Copying => \A w \in Weak : copied[w] # 0 => target[w] \in Slot
    /\ state \in {"EraseSector", "NoSector", "Format"} => \A w \in Weak : copied[w] = 0

TypeInv == TypeOK /\ Torn /\ Linked /\ Switching /\ NoRoom /\ FromFlash

\* What the following steps need of it.
LEMMA Facts ==
    ASSUME PersistenceAssumption, TypeOK
    PROVE  /\ flash \in Flash /\ active \in Bank /\ Other \in Bank /\ Other # active
           /\ \A b \in Bank : b = active \/ b = Other
           /\ \A b \in Bank, n \in Slot : flash[b].slots[n] \in Entries
           /\ weakReferences \in Seq(Weak) /\ NoRepeats(weakReferences)
           /\ target \in [Weak -> {Nothing, Ram} \cup Slot]
           /\ copied \in [Weak -> 0 .. Slots] /\ latest \in [Weak -> 0 .. MaxSets]
           /\ \A w \in Weak : copied[w] # 0 => copied[w] \in Slot
           /\ Nothing \notin Weak /\ Nothing # Ram /\ Ram \notin Slot /\ Nothing \notin Slot
           /\ Slots \in Nat /\ Slot \subseteq Nat /\ 0 \notin Slot
           /\ MaxSets \in Nat /\ MaxFaults \in Nat /\ Unsequenced \in Nat
           /\ Erased \in Entries /\ Erased.object = Nothing
           /\ NoPending.object = Nothing
           /\ NoPending \in [object : Weak \cup {Nothing}, bank : Bank, slot : 0 .. Slots]
<1>1. /\ Slots \in Nat /\ Slot \subseteq Nat /\ 0 \notin Slot
      /\ MaxSets \in Nat /\ MaxFaults \in Nat /\ Unsequenced \in Nat
      /\ Nothing \notin Weak /\ Nothing # Ram /\ Ram \notin Slot /\ Nothing \notin Slot
  BY DEF PersistenceAssumption, Slot
<1>2. flash \in Flash /\ active \in Bank /\ Other \in Bank /\ Other # active
      /\ \A b \in Bank : b = active \/ b = Other
  BY OtherIsBank DEF TypeOK, Flash
<1>3. Erased \in Entries /\ Erased.object = Nothing
  BY <1>1 DEF Erased, Entries, Complete
<1>4. /\ NoPending.object = Nothing
      /\ NoPending \in [object : Weak \cup {Nothing}, bank : Bank, slot : 0 .. Slots]
  BY <1>1 DEF NoPending, Bank
<1>5. \A w \in Weak : copied[w] # 0 => copied[w] \in Slot
  BY <1>1 DEF TypeOK, Slot
<1>6. \A b \in Bank, n \in Slot : flash[b].slots[n] \in Entries
  BY <1>2 DEF Flash
<1>. QED BY <1>1, <1>2, <1>3, <1>4, <1>5, <1>6 DEF TypeOK

\* A step that erases nothing in the bank in use makes no room there.
LEMMA KeepsNoRoom ==
    ASSUME Slots \in Nat, NoRoom, active' = active, Compacting' => Compacting,
           \A n \in Slot :
              /\ flash'[active].slots[n] = Erased => flash[active].slots[n] = Erased
              /\ HeaderIsGood(flash[active].slots[n]) =>
                    HeaderIsGood(flash'[active].slots[n])
    PROVE  NoRoom'
<1>1. SUFFICES ASSUME Compacting', NEW n \in Slot,
                      flash'[active].slots[n] = Erased,
                      \A m \in n .. Slots : ~HeaderIsGood(flash'[active].slots[m])
               PROVE  FALSE
  BY DEF NoRoom, HasRoom
<1>2. n .. Slots \subseteq Slot
  BY DEF Slot
<1>3. \A m \in n .. Slots : ~HeaderIsGood(flash[active].slots[m])
  BY <1>1, <1>2
<1>4. HasRoom(active)
  BY <1>1, <1>3 DEF HasRoom
<1>. QED BY <1>1, <1>4 DEF NoRoom

\* The walks along the references.
LEMMA Walks ==
    ASSUME weakReferences \in Seq(Weak)
    PROVE  /\ DOMAIN weakReferences \subseteq Nat /\ 0 \notin DOMAIN weakReferences
           /\ \A i \in DOMAIN weakReferences :
                 weakReferences[i] \in Weak /\ weakReferences[i] \in ToSet(weakReferences)
           /\ \A w \in ToSet(weakReferences) :
                 \E i \in DOMAIN weakReferences : weakReferences[i] = w
           /\ ToSet(weakReferences) \subseteq Weak
           /\ First(NeedsFlush) # 0 =>
                 /\ First(NeedsFlush) \in DOMAIN weakReferences
                 /\ NeedsFlush(weakReferences[First(NeedsFlush)])
           /\ \A i \in DOMAIN weakReferences :
                 NeedsFlush(weakReferences[i]) =>
                    First(NeedsFlush) # 0 /\ First(NeedsFlush) <= i
           /\ First(NeedsCopy) # 0 =>
                 /\ First(NeedsCopy) \in DOMAIN weakReferences
                 /\ NeedsCopy(weakReferences[First(NeedsCopy)])
           /\ First(NeedsRevert) # 0 =>
                 /\ First(NeedsRevert) \in DOMAIN weakReferences
                 /\ NeedsRevert(weakReferences[First(NeedsRevert)])
           /\ \A i \in DOMAIN weakReferences :
                 NeedsRevert(weakReferences[i]) => First(NeedsRevert) # 0
<1>1. DOMAIN weakReferences = 1..Len(weakReferences) /\ Len(weakReferences) \in Nat
  BY LenProperties
<1>2. /\ DOMAIN weakReferences \subseteq Nat /\ 0 \notin DOMAIN weakReferences
      /\ \A i \in DOMAIN weakReferences :
            weakReferences[i] \in Weak /\ weakReferences[i] \in ToSet(weakReferences)
      /\ \A w \in ToSet(weakReferences) :
            \E i \in DOMAIN weakReferences : weakReferences[i] = w
      /\ ToSet(weakReferences) \subseteq Weak
  BY <1>1, ElementOfSeq DEF ToSet
<1>. DEFINE flush == {i \in DOMAIN weakReferences : NeedsFlush(weakReferences[i])}
            copy == {i \in DOMAIN weakReferences : NeedsCopy(weakReferences[i])}
            revert == {i \in DOMAIN weakReferences : NeedsRevert(weakReferences[i])}
<1>3. /\ First(NeedsFlush) = IF flush = {} THEN 0 ELSE Min(flush)
      /\ First(NeedsCopy) = IF copy = {} THEN 0 ELSE Min(copy)
      /\ First(NeedsRevert) = IF revert = {} THEN 0 ELSE Min(revert)
  BY DEF First
<1>4. /\ flush \subseteq Nat /\ 0 \notin flush
      /\ copy \subseteq Nat /\ 0 \notin copy
      /\ revert \subseteq Nat /\ 0 \notin revert
  BY <1>2
<1>5. /\ (First(NeedsFlush) = 0) = (flush = {})
      /\ First(NeedsFlush) # 0 => /\ First(NeedsFlush) \in flush
                                  /\ \A j \in flush : First(NeedsFlush) <= j
  <2>. HIDE DEF flush
  <2>. QED BY <1>3, <1>4, LeastOf
<1>6. /\ (First(NeedsCopy) = 0) = (copy = {})
      /\ First(NeedsCopy) # 0 => First(NeedsCopy) \in copy
  <2>. HIDE DEF copy
  <2>. QED BY <1>3, <1>4, LeastOf
<1>7. /\ (First(NeedsRevert) = 0) = (revert = {})
      /\ First(NeedsRevert) # 0 => First(NeedsRevert) \in revert
  <2>. HIDE DEF revert
  <2>. QED BY <1>3, <1>4, LeastOf
<1>8. \A i \in DOMAIN weakReferences :
         NeedsFlush(weakReferences[i]) => First(NeedsFlush) # 0 /\ First(NeedsFlush) <= i
  BY <1>5
<1>9. \A i \in DOMAIN weakReferences : NeedsRevert(weakReferences[i]) => First(NeedsRevert) # 0
  BY <1>7
<1>. QED BY <1>2, <1>5, <1>6, <1>7, <1>8, <1>9

-----------------------------------------------------------------------------
(***************************************************************************)
(* What the managed program and the collector do.                          *)
(***************************************************************************)

\* What InvalidateEntry deletes: the torn entry of the object, and the object
\* in the bank in use.
DeletedBy(w, b, n) ==
    \/ pending.object = w /\ b = pending.bank /\ n = pending.slot
    \/ b = active /\ n = target[w] /\ IsGood(flash[b].slots[n])

LEMMA DeletedIs ==
    ASSUME PersistenceAssumption, TypeInv, NEW w \in Weak
    PROVE  /\ Deleted(w) \in Flash
           /\ \A b \in Bank : Deleted(w)[b].sequence = flash[b].sequence
           /\ \A b \in Bank, n \in Slot : Deleted(w)[b].slots[n] =
                 IF DeletedBy(w, b, n) THEN [flash[b].slots[n] EXCEPT !.live = FALSE]
                 ELSE flash[b].slots[n]
<1>1. /\ flash \in Flash /\ active \in Bank /\ w # Nothing
      /\ pending.object = w =>
            /\ pending.bank \in Bank /\ pending.slot \in Slot
            /\ ~IsGood(flash[pending.bank].slots[pending.slot])
  <2>1. NoPending.object # w /\ pending.bank \in Bank
    BY Facts DEF TypeInv, TypeOK
  <2>2. ASSUME pending.object = w
        PROVE  pending.slot \in Slot /\ Pending.written < Complete
    BY <2>1, <2>2 DEF TypeInv, Torn
  <2>3. Complete \in Nat
    BY DEF Complete
  <2>. QED BY <2>1, <2>2, <2>3, Facts DEF TypeInv, Pending, IsGood
<1>. DEFINE aborted == IF pending.object = w
                       THEN Delete(flash, pending.bank, pending.slot) ELSE flash
<1>2. /\ aborted \in Flash
      /\ \A b \in Bank : aborted[b].sequence = flash[b].sequence
      /\ \A b \in Bank, n \in Slot : aborted[b].slots[n] =
            IF pending.object = w /\ b = pending.bank /\ n = pending.slot
            THEN [flash[b].slots[n] EXCEPT !.live = FALSE] ELSE flash[b].slots[n]
  <2>1. CASE pending.object # w
    BY <1>1, <2>1
  <2>2. CASE pending.object = w
    <3>. DEFINE c == pending.bank
                n == pending.slot
                del == Delete(flash, c, n)
    <3>1. aborted = del /\ c \in Bank /\ n \in Slot
      BY <1>1, <2>2
    <3>. HIDE DEF aborted, c, n
    <3>2. /\ del \in Flash
          /\ \A b \in Bank : del[b].sequence = flash[b].sequence
          /\ del[c].slots[n] = [flash[c].slots[n] EXCEPT !.live = FALSE]
          /\ \A b \in Bank, m \in Slot :
                b # c \/ m # n => del[b].slots[m] = flash[b].slots[m]
      BY <1>1, <3>1, DeleteProperties
    <3>. HIDE DEF del
    <3>3. \A b \in Bank, m \in Slot : del[b].slots[m] =
             IF b = c /\ m = n THEN [flash[b].slots[m] EXCEPT !.live = FALSE]
             ELSE flash[b].slots[m]
      BY <3>2
    <3>. QED BY <2>2, <3>1, <3>2, <3>3 DEF c, n
  <2>. QED BY <2>1, <2>2
<1>3. Deleted(w) = IF target[w] \in Slot /\ IsGood(flash[active].slots[target[w]])
                   THEN Delete(aborted, active, target[w]) ELSE aborted
  BY DEF Deleted
<1>. HIDE DEF aborted
<1>4. CASE target[w] \in Slot /\ IsGood(flash[active].slots[target[w]])
  <2>. DEFINE n == target[w]
              out == Delete(aborted, active, n)
  <2>1. Deleted(w) = out /\ n \in Slot /\ IsGood(flash[active].slots[n])
    BY <1>3, <1>4
  <2>2. aborted[active].slots[n] = flash[active].slots[n]
    BY <1>1, <1>2, <2>1
  <2>3. /\ out \in Flash
        /\ \A b \in Bank : out[b].sequence = aborted[b].sequence
        /\ out[active].slots[n] = [aborted[active].slots[n] EXCEPT !.live = FALSE]
        /\ \A b \in Bank, m \in Slot :
              b # active \/ m # n => out[b].slots[m] = aborted[b].slots[m]
    <3>. HIDE DEF n
    <3>. QED BY <1>1, <1>2, <2>1, DeleteProperties
  <2>4. \A b \in Bank, m \in Slot :
           b # active \/ m # n =>
              (DeletedBy(w, b, m) <=> pending.object = w /\ b = pending.bank /\ m = pending.slot)
    BY DEF DeletedBy
  <2>5. DeletedBy(w, active, n)
    BY <2>1 DEF DeletedBy
  <2>. HIDE DEF out, n
  <2>6. \A b \in Bank, m \in Slot : out[b].slots[m] =
           IF DeletedBy(w, b, m) THEN [flash[b].slots[m] EXCEPT !.live = FALSE]
           ELSE flash[b].slots[m]
    <3>1. SUFFICES ASSUME NEW b \in Bank, NEW m \in Slot
                   PROVE  out[b].slots[m] =
                             IF DeletedBy(w, b, m) THEN [flash[b].slots[m] EXCEPT !.live = FALSE]
                             ELSE flash[b].slots[m]
      OBVIOUS
    <3>2. CASE b = active /\ m = n
      BY <2>2, <2>3, <2>5, <3>2
    <3>3. CASE b # active \/ m # n
      BY <1>2, <2>3, <2>4, <3>3
    <3>. QED BY <3>2, <3>3
  <2>. QED BY <1>2, <2>1, <2>3, <2>6
<1>5. CASE ~(target[w] \in Slot /\ IsGood(flash[active].slots[target[w]]))
  <2>1. \A b \in Bank, m \in Slot :
           DeletedBy(w, b, m) <=> pending.object = w /\ b = pending.bank /\ m = pending.slot
    BY <1>5 DEF DeletedBy
  <2>. QED BY <1>2, <1>3, <1>5, <2>1
<1>. QED BY <1>4, <1>5

\* Torn entries of the other objects are left alone.
LEMMA InvalidateKeepsTorn ==
    ASSUME PersistenceAssumption, TypeInv, NEW w \in Weak, InvalidateEntry(w),
           active' = active, copied' = copied,
           \A v \in Weak \ {w} : target'[v] = target[v] /\ latest'[v] = latest[v]
    PROVE  Torn'
<1>1. SUFFICES ASSUME pending' # NoPending PROVE Torn'
  BY DEF Torn
<1>2. pending.object # w /\ pending' = pending /\ pending # NoPending
  BY <1>1 DEF InvalidateEntry
<1>. DEFINE v == pending.object
<1>3. /\ v \in Weak /\ v # w /\ pending.slot \in Slot /\ pending.bank \in Bank
      /\ Pending.object = v /\ Pending.version = latest[v]
      /\ Pending.live = TRUE /\ Pending.written < Complete
      /\ state \in {"FlushNextObject", "CopyToOtherBank", "Erase"}
  BY <1>2 DEF TypeInv, Torn, TypeOK
<1>4. Pending' = Pending
  <2>1. ~IsGood(Pending) /\ Complete \in Nat
    BY <1>3 DEF IsGood, Complete
  <2>2. ~DeletedBy(w, pending.bank, pending.slot)
    BY <1>2, <2>1 DEF DeletedBy, Pending
  <2>3. flash'[pending.bank].slots[pending.slot] = flash[pending.bank].slots[pending.slot]
    <3>1. flash' = Deleted(w)
      BY DEF InvalidateEntry
    <3>2. \A b \in Bank, n \in Slot :
             ~DeletedBy(w, b, n) => Deleted(w)[b].slots[n] = flash[b].slots[n]
      BY DeletedIs
    <3>. QED BY <1>3, <2>2, <3>1, <3>2
  <2>. QED BY <1>2, <2>3 DEF Pending
<1>5. target'[v] = target[v] /\ latest'[v] = latest[v]
  BY <1>3
<1>6. Other' = Other
  BY DEF Other
<1>7. CASE state = "FlushNextObject"
  <2>1. state' = "FlushNextObject"
    BY <1>7 DEF InvalidateEntry
  <2>2. pending.bank = active /\ NeedsFlush(v) /\ \A u \in Weak : copied[u] = 0
    BY <1>2, <1>7 DEF TypeInv, Torn
  <2>. QED BY <1>2, <1>3, <1>4, <1>5, <2>1, <2>2 DEF Torn, NeedsFlush
<1>8. CASE state \in {"CopyToOtherBank", "Erase"}
  <2>1. state' = "Erase"
    BY <1>8 DEF InvalidateEntry
  <2>2. pending.bank = Other
    BY <1>2, <1>8 DEF TypeInv, Torn
  <2>. QED BY <1>2, <1>3, <1>4, <1>5, <1>6, <2>1, <2>2 DEF Torn
<1>. QED BY <1>3, <1>7, <1>8

\* A deletion makes no room, and begins no copy.
LEMMA InvalidateKeepsNoRoom ==
    ASSUME PersistenceAssumption, TypeInv, NEW w \in Weak, InvalidateEntry(w),
           active' = active, copied' = copied
    PROVE  NoRoom'
<1>1. Compacting' => Compacting
  <2>1. state' \in {"Erase", "EraseSector", "NoSector", "Format", "CopyToOtherBank",
                    "CopyBackToRam", "SwitchBank"} =>
        state \in {"Erase", "EraseSector", "NoSector", "Format", "CopyToOtherBank",
                   "CopyBackToRam", "SwitchBank"}
    BY DEF InvalidateEntry
  <2>. QED BY <2>1 DEF Compacting
<1>2. flash' = Deleted(w)
  BY DEF InvalidateEntry
<1>3. ASSUME NEW n \in Slot
      PROVE  /\ flash'[active].slots[n] = Erased => flash[active].slots[n] = Erased
             /\ HeaderIsGood(flash[active].slots[n]) => HeaderIsGood(flash'[active].slots[n])
  <2>. DEFINE e == flash[active].slots[n]
              d == [e EXCEPT !.live = FALSE]
  <2>1. e \in Entries /\ active \in Bank
    BY Facts DEF TypeInv
  <2>2. Deleted(w)[active].slots[n] = IF DeletedBy(w, active, n) THEN d ELSE e
    BY <2>1, DeletedIs
  <2>3. DeletedBy(w, active, n) => e.object # Nothing \/ HeaderIsGood(e)
    <3>1. w # Nothing /\ NoPending.object # w
      BY Facts DEF TypeInv
    <3>2. CASE pending.object = w /\ active = pending.bank /\ n = pending.slot
      BY <3>1, <3>2 DEF TypeInv, Torn, Pending
    <3>3. CASE IsGood(e)
      BY <3>3 DEF IsGood
    <3>. QED BY <3>2, <3>3 DEF DeletedBy
  <2>. HIDE DEF d
  <2>4. /\ HeaderIsGood(e) => HeaderIsGood(d)
        /\ e.object # Nothing => d # Erased
    BY <2>1, DeletedEntry DEF d
  <2>. QED BY <1>2, <2>2, <2>3, <2>4 DEF HeaderIsGood
<1>. QED BY <1>1, <1>3, KeepsNoRoom, Facts DEF TypeInv

LEMMA ClientsKeepTypes ==
    ASSUME PersistenceAssumption, TypeInv, NEW w \in Weak,
           SetTarget(w) \/ InsertInPriorityOrder(w) \/ Collect(w)
    PROVE  TypeInv'
<1>1. /\ weakReferences \in Seq(Weak) /\ NoRepeats(weakReferences)
      /\ target \in [Weak -> {Nothing, Ram} \cup Slot]
      /\ latest \in [Weak -> 0 .. MaxSets] /\ sets \in 0 .. MaxSets /\ MaxSets \in Nat
  BY Facts DEF TypeInv, TypeOK
<1>. DEFINE front == LinkedAtFront(weakReferences, w)
            rest == Unlinked(weakReferences, w)
<1>2. /\ front \in Seq(Weak) /\ NoRepeats(front)
      /\ ToSet(front) = ToSet(weakReferences) \cup {w}
      /\ rest \in Seq(Weak) /\ NoRepeats(rest)
      /\ ToSet(rest) = ToSet(weakReferences) \ {w}
  BY <1>1, LinkedAtFrontProperties, UnlinkedProperties
<1>. HIDE DEF front, rest
<1>3. ASSUME InvalidateEntry(w), running = "no"
      PROVE  /\ flash' \in Flash /\ armed' \in BOOLEAN
             /\ pending' \in [object : Weak \cup {Nothing}, bank : Bank, slot : 0 .. Slots]
             /\ state' \in {"FlushNextObject", "Idle", "Erase", "EraseSector", "NoSector",
                            "Format", "CopyToOtherBank", "CopyBackToRam", "SwitchBank"}
             /\ ~Copying'
             /\ state' \in {"EraseSector", "NoSector", "Format"} => state = state'
  <2>1. flash' \in Flash
    BY <1>3, DeletedIs DEF InvalidateEntry
  <2>2. pending' \in [object : Weak \cup {Nothing}, bank : Bank, slot : 0 .. Slots]
    BY <1>3, Facts DEF InvalidateEntry, TypeInv, TypeOK
  <2>3. armed' \in BOOLEAN
    BY <1>3, Zenon DEF InvalidateEntry, TypeInv, TypeOK
  <2>4. state # "SwitchBank"
    BY <1>3 DEF TypeInv, Switching, Advances
  <2>5. /\ state' \in {"FlushNextObject", "Idle", "Erase", "EraseSector", "NoSector",
                       "Format", "CopyToOtherBank", "CopyBackToRam", "SwitchBank"}
        /\ ~Copying'
        /\ state' \in {"EraseSector", "NoSector", "Format"} => state = state'
    BY <1>3, <2>4 DEF InvalidateEntry, TypeInv, TypeOK, Copying
  <2>. QED BY <2>1, <2>2, <2>3, <2>5
<1>4. CASE SetTarget(w)
  <2>1. /\ InvalidateEntry(w) /\ running = "no" /\ weakReferences' = front
        /\ target' = [target EXCEPT ![w] = Ram]
        /\ latest' = [latest EXCEPT ![w] = sets + 1] /\ sets' = sets + 1
        /\ sets < MaxSets
        /\ UNCHANGED <<active, copied, running, faults>>
    BY <1>4 DEF SetTarget, front
  <2>2. /\ target' \in [Weak -> {Nothing, Ram} \cup Slot]
        /\ latest' \in [Weak -> 0 .. MaxSets] /\ sets' \in 0 .. MaxSets
    BY <1>1, <2>1
  <2>3. TypeOK'
    BY <1>2, <1>3, <2>1, <2>2 DEF TypeInv, TypeOK, Flash
  <2>4. Torn'
    BY <1>1, <2>1, InvalidateKeepsTorn
  <2>5. Linked'
    BY <1>1, <1>2, <2>1 DEF TypeInv, Linked
  <2>6. Switching' /\ NoRoom' /\ FromFlash'
    BY <1>3, <2>1, InvalidateKeepsNoRoom DEF Switching, Copying, FromFlash, TypeInv
  <2>. QED BY <2>3, <2>4, <2>5, <2>6 DEF TypeInv
<1>5. CASE Collect(w)
  <2>1. /\ InvalidateEntry(w) /\ running = "no"
        /\ weakReferences' = weakReferences \/ weakReferences' = rest
        /\ target' = [target EXCEPT ![w] = Nothing]
        /\ latest' = [latest EXCEPT ![w] = 0]
        /\ UNCHANGED <<active, copied, running, faults, sets>>
    BY <1>5 DEF Collect, rest
  <2>2. /\ target' \in [Weak -> {Nothing, Ram} \cup Slot]
        /\ latest' \in [Weak -> 0 .. MaxSets]
    BY <1>1, <2>1
  <2>3. TypeOK'
    BY <1>1, <1>2, <1>3, <2>1, <2>2 DEF TypeInv, TypeOK, Flash
  <2>4. Torn'
    BY <1>1, <2>1, InvalidateKeepsTorn
  <2>5. Linked'
    BY <1>1, <1>2, <2>1 DEF TypeInv, Linked
  <2>6. Switching' /\ NoRoom' /\ FromFlash'
    BY <1>3, <2>1, InvalidateKeepsNoRoom DEF Switching, Copying, FromFlash, TypeInv
  <2>. QED BY <2>3, <2>4, <2>5, <2>6 DEF TypeInv
<1>6. CASE InsertInPriorityOrder(w)
  <2>1. /\ weakReferences' = front /\ sets' = sets + 1 /\ sets < MaxSets
        /\ UNCHANGED <<flash, active, target, copied, pending, state, armed, running,
                       faults, latest>>
    BY <1>6 DEF InsertInPriorityOrder, front
  <2>2. TypeOK'
    BY <1>1, <1>2, <2>1 DEF TypeInv, TypeOK
  <2>3. Torn' /\ Switching' /\ NoRoom' /\ FromFlash'
    BY <2>1 DEF TypeInv, Torn, Switching, Pending, NeedsFlush, NeedsCopy, Other, Advances,
                NoRoom, Compacting, HasRoom, FromFlash, Copying
  <2>4. Linked'
    BY <1>2, <2>1 DEF TypeInv, Linked
  <2>. QED BY <2>2, <2>3, <2>4 DEF TypeInv
<1>. QED BY <1>4, <1>5, <1>6

-----------------------------------------------------------------------------
(***************************************************************************)
(* What AdvanceState does.                                                 *)
(***************************************************************************)

\* A header is begun in an erased slot, and nothing else changes in flash.
LEMMA WriteHeaderIs ==
    ASSUME PersistenceAssumption, TypeOK, NEW b \in Bank,
           NEW i \in DOMAIN weakReferences, FreeSlot(b) # 0, WriteHeader(i, b)
    PROVE  /\ flash' \in Flash /\ \A c \in Bank : flash'[c].sequence = flash[c].sequence
           /\ weakReferences[i] \in Weak /\ FreeSlot(b) \in Slot
           /\ flash[b].slots[FreeSlot(b)] = Erased
           /\ pending' = [object |-> weakReferences[i], bank |-> b, slot |-> FreeSlot(b)]
           /\ pending' # NoPending
           /\ pending' \in [object : Weak \cup {Nothing}, bank : Bank, slot : 0 .. Slots]
           /\ Pending' = [object |-> weakReferences[i], version |-> latest[weakReferences[i]],
                          written |-> 0, live |-> TRUE]
           /\ flash'[b].slots[FreeSlot(b)] = Pending'
           /\ \A c \in Bank, m \in Slot :
                 c # b \/ m # FreeSlot(b) => flash'[c].slots[m] = flash[c].slots[m]
<1>. DEFINE w == weakReferences[i]
            n == FreeSlot(b)
            e == [object |-> w, version |-> latest[w], written |-> 0, live |-> TRUE]
            p == [object |-> w, bank |-> b, slot |-> n]
<1>1. w \in Weak
  BY Walks, Facts
<1>2. n \in Slot /\ flash[b].slots[n] = Erased
  BY FreeSlotIsErased
<1>3. e \in Entries
  <2>1. latest[w] \in 0 .. MaxSets /\ 0 \in 0 .. Complete
    BY <1>1, Facts DEF Complete
  <2>. QED BY <1>1, <2>1 DEF Entries
<1>4. flash' = [flash EXCEPT ![b].slots[n] = e] /\ pending' = p
  BY DEF WriteHeader
<1>5. p \in [object : Weak \cup {Nothing}, bank : Bank, slot : 0 .. Slots] /\ p # NoPending
  <2>1. p.object # NoPending.object
    BY <1>1, Facts
  <2>2. n \in 0 .. Slots
    BY <1>2 DEF Slot, PersistenceAssumption
  <2>. QED BY <1>1, <2>1, <2>2
<1>. HIDE DEF w, n, e
<1>6. /\ flash' \in Flash /\ \A c \in Bank : flash'[c].sequence = flash[c].sequence
      /\ flash'[b].slots[n] = e
      /\ \A c \in Bank, m \in Slot :
            c # b \/ m # n => flash'[c].slots[m] = flash[c].slots[m]
  <2>1. flash \in Flash
    BY Facts
  <2>. QED BY <1>2, <1>3, <1>4, <2>1 DEF Flash
<1>7. Pending' = e
  BY <1>4, <1>6 DEF Pending
<1>. QED BY <1>1, <1>2, <1>4, <1>5, <1>6, <1>7 DEF w, n, e

\* The next write of the pending object changes its entry only.
LEMMA WrittenIs ==
    ASSUME PersistenceAssumption, TypeInv, pending # NoPending
    PROVE  /\ Written \in Flash /\ \A c \in Bank : Written[c].sequence = flash[c].sequence
           /\ pending.object \in Weak /\ pending.bank \in Bank /\ pending.slot \in Slot
           /\ Pending \in Entries /\ Pending.written \in Nat
           /\ Pending.written + 1 <= Complete
           /\ Written[pending.bank].slots[pending.slot] =
                 [Pending EXCEPT !.written = Pending.written + 1]
           /\ \A c \in Bank, m \in Slot :
                 c # pending.bank \/ m # pending.slot =>
                    Written[c].slots[m] = flash[c].slots[m]
<1>. DEFINE b == pending.bank
            n == pending.slot
            e == [Pending EXCEPT !.written = Pending.written + 1]
<1>1. /\ pending.object \in Weak /\ b \in Bank /\ n \in Slot /\ Pending.written < Complete
      /\ flash \in Flash
  BY Facts DEF TypeInv, TypeOK, Torn
<1>2. Pending \in Entries /\ Pending = flash[b].slots[n]
  BY <1>1, Facts DEF Pending, TypeInv
<1>3. Pending.written \in Nat /\ Pending.written + 1 <= Complete
  BY <1>1, <1>2 DEF Entries, Complete
<1>4. e \in Entries
  BY <1>2, <1>3 DEF Entries, Complete
<1>5. Written = [flash EXCEPT ![b].slots[n] = e]
  BY <1>1, <1>2 DEF Written, Flash, Entries
<1>. HIDE DEF b, n, e
<1>6. /\ Written \in Flash /\ \A c \in Bank : Written[c].sequence = flash[c].sequence
      /\ Written[b].slots[n] = e
      /\ \A c \in Bank, m \in Slot : c # b \/ m # n => Written[c].slots[m] = flash[c].slots[m]
  BY <1>1, <1>4, <1>5 DEF Flash
<1>. QED BY <1>1, <1>2, <1>3, <1>6 DEF b, n, e


\* A header, or the next write of an object, keeps the types, and what its entry
\* must be like for the writes after it.
LEMMA HeaderKeepsTypes ==
    ASSUME PersistenceAssumption, TypeInv, FlushHeader \/ (CopyHeader /\ pending' # pending)
    PROVE  TypeInv'
<1>. DEFINE i == IF state = "FlushNextObject" THEN First(NeedsFlush) ELSE First(NeedsCopy)
            b == IF state = "FlushNextObject" THEN active ELSE Other
            w == weakReferences[i]
            n == FreeSlot(b)
<1>1. /\ i \in DOMAIN weakReferences /\ n # 0 /\ WriteHeader(i, b) /\ b \in Bank
      /\ UNCHANGED <<target, copied, state, armed, running, active, faults,
                     weakReferences, latest, sets>>
      /\ pending = NoPending
      /\ \/ state = "FlushNextObject" /\ b = active /\ NeedsFlush(w)
         \/ state = "CopyToOtherBank" /\ b = Other /\ NeedsCopy(w)
  <2>1. weakReferences \in Seq(Weak) /\ active \in Bank /\ Other \in Bank
    BY Facts DEF TypeInv
  <2>2. CASE FlushHeader
    <3>1. /\ state = "FlushNextObject" /\ First(NeedsFlush) # 0 /\ FreeSlot(active) # 0
          /\ WriteHeader(First(NeedsFlush), active) /\ pending = NoPending
          /\ UNCHANGED <<target, copied, state, armed, running, active, faults,
                         weakReferences, latest, sets>>
      BY <2>2 DEF FlushHeader, AdvanceVars, clientVars
    <3>. QED BY <2>1, <3>1, Walks
  <2>3. CASE CopyHeader /\ pending' # pending
    <3>1. /\ state = "CopyToOtherBank" /\ First(NeedsCopy) # 0 /\ FreeSlot(Other) # 0
          /\ WriteHeader(First(NeedsCopy), Other) /\ pending = NoPending
          /\ UNCHANGED <<target, copied, state, armed, running, active, faults,
                         weakReferences, latest, sets>>
      BY <2>3 DEF CopyHeader, AdvanceVars, clientVars
    <3>. QED BY <2>1, <3>1, Walks
  <2>. QED BY <2>2, <2>3
<1>. HIDE DEF i, b
<1>2. /\ flash' \in Flash /\ w \in Weak /\ n \in Slot
      /\ flash[b].slots[n] = Erased
      /\ pending' = [object |-> w, bank |-> b, slot |-> n]
      /\ pending' \in [object : Weak \cup {Nothing}, bank : Bank, slot : 0 .. Slots]
      /\ Pending' = [object |-> w, version |-> latest[w], written |-> 0, live |-> TRUE]
      /\ \A c \in Bank, m \in Slot :
            c # b \/ m # n => flash'[c].slots[m] = flash[c].slots[m]
  BY <1>1, WriteHeaderIs DEF TypeInv
<1>. HIDE DEF w, n
<1>3. TypeOK'
  BY <1>1, <1>2 DEF TypeInv, TypeOK, Flash
<1>4. NoRoom'
  <2>1. ASSUME NEW m \in Slot
        PROVE  /\ flash'[active].slots[m] = Erased => flash[active].slots[m] = Erased
               /\ HeaderIsGood(flash[active].slots[m]) => HeaderIsGood(flash'[active].slots[m])
    <3>1. active \in Bank
      BY Facts DEF TypeInv
    <3>2. CASE active = b /\ m = n
      BY <1>2, <3>2 DEF HeaderIsGood
    <3>3. CASE active # b \/ m # n
      BY <1>2, <3>1, <3>3
    <3>. QED BY <3>2, <3>3
  <2>2. Compacting' => Compacting
    BY <1>1 DEF Compacting
  <2>. QED BY <1>1, <2>1, <2>2, KeepsNoRoom, Facts DEF TypeInv
<1>5. Torn'
  <2>1. /\ pending'.object = w /\ pending'.bank = b /\ pending'.slot = n
        /\ Pending'.object = w /\ Pending'.version = latest'[w] /\ Pending'.live = TRUE
        /\ Pending'.written < Complete
    BY <1>1, <1>2 DEF Complete
  <2>2. Other' = Other /\ active' = active
    BY <1>1 DEF Other
  <2>3. CASE state = "FlushNextObject" /\ b = active /\ NeedsFlush(w)
    <3>1. \A v \in Weak : copied[v] = 0
      <4>1. HasRoom(active)
        BY <1>1, <2>3, FreeSlotIsErased DEF n
      <4>. QED BY <4>1 DEF TypeInv, NoRoom, Compacting
    <3>. QED BY <1>1, <1>2, <2>1, <2>2, <2>3, <3>1 DEF Torn, NeedsFlush
  <2>4. CASE state = "CopyToOtherBank" /\ b = Other /\ NeedsCopy(w)
    BY <1>1, <1>2, <2>1, <2>2, <2>4 DEF Torn, NeedsCopy
  <2>. QED BY <1>1, <2>3, <2>4 DEF w
<1>6. Linked' /\ Switching' /\ FromFlash'
  BY <1>1 DEF TypeInv, Linked, Switching, Advances, FromFlash, Copying
<1>. QED BY <1>3, <1>4, <1>5, <1>6 DEF TypeInv

LEMMA WriteNextKeepsTypes ==
    ASSUME PersistenceAssumption, TypeInv, WriteNext
    PROVE  TypeInv'
<1>. DEFINE w == pending.object
            b == pending.bank
            n == pending.slot
<1>1. /\ Advances /\ pending # NoPending /\ flash' = Written
      /\ state \in {"FlushNextObject", "CopyToOtherBank"}
      /\ UNCHANGED <<state, armed, running, active, faults, weakReferences, latest, sets>>
  BY DEF WriteNext, AdvanceVars, clientVars
<1>2. /\ Written \in Flash
      /\ w \in Weak /\ b \in Bank /\ n \in Slot /\ Pending \in Entries
      /\ Pending.written \in Nat /\ Pending.written + 1 <= Complete
      /\ Written[b].slots[n] = [Pending EXCEPT !.written = Pending.written + 1]
      /\ \A c \in Bank, m \in Slot : c # b \/ m # n => Written[c].slots[m] = flash[c].slots[m]
  BY <1>1, WrittenIs
<1>3. /\ Pending = flash[b].slots[n]
      /\ Pending.object = w /\ Pending.version = latest[w] /\ Pending.live = TRUE
      /\ state = "FlushNextObject" => b = active /\ NeedsFlush(w) /\ \A v \in Weak : copied[v] = 0
      /\ state = "CopyToOtherBank" => b = Other /\ NeedsCopy(w)
  BY <1>1 DEF TypeInv, Torn, Pending
<1>4. \/ /\ Pending.written + 1 < Complete
         /\ UNCHANGED <<target, copied, pending>>
      \/ /\ pending' = NoPending /\ state = "FlushNextObject"
         /\ target' = [target EXCEPT ![w] = n] /\ UNCHANGED copied
      \/ /\ pending' = NoPending /\ state = "CopyToOtherBank"
         /\ copied' = [copied EXCEPT ![w] = n] /\ UNCHANGED target
  BY <1>1 DEF WriteNext
<1>. HIDE DEF w, b, n
<1>5. /\ target' \in [Weak -> {Nothing, Ram} \cup Slot] /\ copied' \in [Weak -> 0 .. Slots]
      /\ pending' \in [object : Weak \cup {Nothing}, bank : Bank, slot : 0 .. Slots]
  <2>1. Slot \subseteq 0 .. Slots
    BY DEF Slot, PersistenceAssumption
  <2>2. /\ target \in [Weak -> {Nothing, Ram} \cup Slot] /\ copied \in [Weak -> 0 .. Slots]
        /\ pending \in [object : Weak \cup {Nothing}, bank : Bank, slot : 0 .. Slots]
        /\ NoPending \in [object : Weak \cup {Nothing}, bank : Bank, slot : 0 .. Slots]
    BY Facts DEF TypeInv, TypeOK
  <2>. QED BY <1>2, <1>4, <2>1, <2>2
<1>6. TypeOK'
  BY <1>1, <1>2, <1>5 DEF TypeInv, TypeOK, Flash
<1>7. NoRoom'
  <2>1. ASSUME NEW m \in Slot
        PROVE  /\ flash'[active].slots[m] = Erased => flash[active].slots[m] = Erased
               /\ HeaderIsGood(flash[active].slots[m]) => HeaderIsGood(flash'[active].slots[m])
    <3>1. active \in Bank /\ Nothing \notin Weak /\ Erased.object = Nothing
      BY Facts DEF TypeInv
    <3>2. CASE active = b /\ m = n
      <4>1. /\ flash'[active].slots[m].object = w
            /\ flash'[active].slots[m].written = Pending.written + 1
        BY <1>1, <1>2, <1>3, <3>2 DEF Entries
      <4>2. flash'[active].slots[m] # Erased /\ flash'[active].slots[m].written > 0
        BY <1>2, <3>1, <4>1
      <4>. QED BY <4>2 DEF HeaderIsGood
    <3>3. CASE active # b \/ m # n
      BY <1>1, <1>2, <3>1, <3>3
    <3>. QED BY <3>2, <3>3
  <2>2. Compacting' => Compacting
    BY <1>1, <1>3, <1>4 DEF Compacting
  <2>. QED BY <1>1, <2>1, <2>2, KeepsNoRoom, Facts DEF TypeInv
<1>8. Torn'
  <2>1. CASE pending' = NoPending
    BY <2>1 DEF Torn
  <2>2. CASE Pending.written + 1 < Complete /\ UNCHANGED <<target, copied, pending>>
    <3>1. Pending' = [Pending EXCEPT !.written = Pending.written + 1]
      BY <1>1, <1>2, <2>2 DEF Pending, b, n
    <3>2. /\ Pending'.object = w /\ Pending'.version = latest[w] /\ Pending'.live = TRUE
          /\ Pending'.written < Complete
      BY <1>2, <1>3, <2>2, <3>1 DEF Entries
    <3>3. Other' = Other
      BY <1>1 DEF Other
    <3>. QED BY <1>1, <1>2, <1>3, <2>2, <3>2, <3>3 DEF Torn, NeedsFlush, NeedsCopy, w, b, n
  <2>. QED BY <1>4, <2>1, <2>2
<1>9. Linked' /\ Switching'
  <2>1. w \in ToSet(weakReferences)
    <3>1. target[w] # Nothing
      BY <1>1, <1>3, Facts DEF NeedsFlush, NeedsCopy, TypeInv
    <3>. QED BY <1>2, <3>1 DEF TypeInv, Linked
  <2>2. \A v \in Weak : v # w => target'[v] = target[v]
    BY <1>4, Facts DEF TypeInv
  <2>. QED BY <1>1, <2>1, <2>2 DEF TypeInv, Linked, Switching
<1>10. FromFlash'
  <2>1. target \in [Weak -> {Nothing, Ram} \cup Slot] /\ copied \in [Weak -> 0 .. Slots]
    BY Facts DEF TypeInv
  <2>2. CASE state = "FlushNextObject"
    BY <1>1, <2>2 DEF FromFlash, Copying
  <2>3. CASE state = "CopyToOtherBank"
    BY <1>1, <1>2, <1>3, <1>4, <2>1, <2>3 DEF FromFlash, Copying, TypeInv, NeedsCopy
  <2>. QED BY <1>1, <2>2, <2>3
<1>. QED BY <1>6, <1>7, <1>8, <1>9, <1>10 DEF TypeInv


\* The steps that return, without a write.
LEMMA ReturnKeepsTypes ==
    ASSUME PersistenceAssumption, TypeInv,
           Synchronized \/ TriggerCopy \/ NoMemory \/ NoIdleTime
    PROVE  TypeInv'
<1>1. /\ UNCHANGED <<flash, target, copied, pending, active, faults, weakReferences,
                     latest, sets>>
      /\ \E s \in {"Idle", "Erase", state}, more \in BOOLEAN :
            /\ Return(s, more) /\ Advances
            /\ \/ running # "flush" /\ state \notin {"Idle", "SwitchBank", "Format"} /\ s = state
               \/ s = "Idle" /\ pending = NoPending /\ state = "Idle"
               \/ s = "Erase" /\ pending = NoPending /\ ~HasRoom(active)
  <2>1. CASE Synchronized
    <3>1. state = "Idle" /\ pending = NoPending
      BY <2>1 DEF Synchronized, TypeInv, Torn
    <3>. QED BY <2>1, <3>1 DEF Synchronized, AdvanceVars, clientVars
  <2>2. CASE TriggerCopy
    <3>1. ~HasRoom(active) /\ pending = NoPending
      BY <2>2, FreeSlotIsErased DEF TriggerCopy
    <3>. QED BY <2>2, <3>1 DEF TriggerCopy, AdvanceVars, clientVars
  <2>3. CASE NoMemory
    <3>1. ~HasRoom(active) /\ pending = NoPending
      BY <2>3 DEF NoMemory, TypeInv, NoRoom, Compacting, Torn
    <3>. QED BY <2>3, <3>1 DEF NoMemory, AdvanceVars, clientVars
  <2>4. CASE NoIdleTime
    BY <2>4 DEF NoIdleTime, AdvanceVars, clientVars, Advances
  <2>. QED BY <2>1, <2>2, <2>3, <2>4
<1>2. PICK s \in {"Idle", "Erase", state}, more \in BOOLEAN :
         /\ Return(s, more) /\ Advances
         /\ \/ running # "flush" /\ state \notin {"Idle", "SwitchBank", "Format"} /\ s = state
            \/ s = "Idle" /\ pending = NoPending /\ state = "Idle"
            \/ s = "Erase" /\ pending = NoPending /\ ~HasRoom(active)
  BY <1>1
<1>3. /\ running' \in {"flushAgain", "no"}
      /\ state' = IF running = "flush" THEN "FlushNextObject" ELSE s
  BY <1>2 DEF Return
<1>4. armed' \in BOOLEAN
  BY <1>2, Zenon DEF Return
<1>5. TypeOK'
  BY <1>1, <1>3, <1>4 DEF TypeInv, TypeOK
<1>6. Torn'
  <2>1. Other' = Other /\ Pending' = Pending
    BY <1>1 DEF Other, Pending
  <2>. QED BY <1>1, <1>2, <1>3, <2>1 DEF TypeInv, Torn, NeedsFlush, NeedsCopy
<1>7. NoRoom' /\ Switching'
  <2>1. HasRoom(active)' = HasRoom(active)
    BY <1>1 DEF HasRoom
  <2>. QED BY <1>1, <1>2, <1>3, <2>1 DEF TypeInv, NoRoom, Compacting, Switching
<1>8. Linked' /\ FromFlash'
  BY <1>1, <1>2, <1>3 DEF TypeInv, Linked, FromFlash, Copying
<1>. QED BY <1>5, <1>6, <1>7, <1>8 DEF TypeInv

\* The steps of a compaction, but for the objects it writes.
LEMMA CompactionKeepsTypes ==
    ASSUME PersistenceAssumption, TypeInv,
           Erase \/ EraseSector \/ EraseFails \/ Format \/ (CopyHeader /\ pending' = pending)
    PROVE  TypeInv'
<1>1. /\ UNCHANGED <<target, active, armed, running, weakReferences, latest, sets>>
      /\ Compacting /\ ~HasRoom(active)
      /\ copied' = copied \/ copied' = [w \in Weak |-> 0]
      /\ state' \in {"EraseSector", "NoSector", "Format", "CopyToOtherBank", "CopyBackToRam"}
  BY DEF Erase, EraseSector, EraseFails, Format, CopyHeader, WriteHeader, AdvanceVars, clientVars, TypeInv,
         NoRoom, Compacting
<1>2. /\ pending' = NoPending
      /\ flash' \in Flash /\ flash'[active] = flash[active]
  <2>1. /\ flash \in Flash /\ active \in Bank /\ Other \in Bank /\ Other # active
        /\ Unsequenced \in Nat /\ Erased \in Entries
    BY Facts DEF TypeInv
  <2>2. CASE Erase
    BY <2>1, <2>2 DEF Erase
  <2>3. CASE EraseSector \/ EraseFails
    <3>. DEFINE s == [n \in Slot |-> IF n <= BlockSlots THEN Erased ELSE flash[Other].slots[n]]
    <3>1. s \in [Slot -> Entries]
      BY <2>1 DEF Flash
    <3>2. flash' = flash \/ flash' = [flash EXCEPT ![Other] = [sequence |-> 0, slots |-> s]]
      BY <2>3 DEF EraseSector, EraseFails, FirstBlockErased
    <3>3. pending' = NoPending
      BY <2>3 DEF EraseSector, EraseFails, TypeInv, Torn
    <3>. HIDE DEF s
    <3>. QED BY <2>1, <3>1, <3>2, <3>3 DEF Flash
  <2>4. CASE Format
    <3>1. flash' = [flash EXCEPT ![Other].sequence = Unsequenced]
      BY <2>4 DEF Format
    <3>2. pending' = NoPending
      BY <2>4 DEF Format, TypeInv, Torn
    <3>. QED BY <2>1, <3>1, <3>2 DEF Flash
  <2>5. CASE CopyHeader /\ pending' = pending
    <3>1. pending = NoPending /\ (flash' = flash \/ \E i \in DOMAIN weakReferences :
                FreeSlot(Other) # 0 /\ WriteHeader(i, Other))
      <4>1. weakReferences \in Seq(Weak)
        BY Facts DEF TypeInv
      <4>. QED BY <2>5, <4>1, Walks DEF CopyHeader
    <3>2. ~\E i \in DOMAIN weakReferences : FreeSlot(Other) # 0 /\ WriteHeader(i, Other)
      BY <2>1, <2>5, <3>1, WriteHeaderIs DEF TypeInv
    <3>. QED BY <2>1, <2>5, <3>1, <3>2
  <2>. QED BY <2>2, <2>3, <2>4, <2>5
<1>3. copied' \in [Weak -> 0 .. Slots]
  <2>1. copied \in [Weak -> 0 .. Slots] /\ Slots \in Nat
    BY Facts DEF TypeInv
  <2>. QED BY <1>1, <2>1
<1>4. TypeOK'
  <2>1. NoPending \in [object : Weak \cup {Nothing}, bank : Bank, slot : 0 .. Slots]
    BY Facts DEF TypeInv
  <2>2. faults' \in 0 .. MaxFaults
    <3>1. faults \in 0 .. MaxFaults /\ MaxFaults \in Nat
      BY Facts DEF TypeInv, TypeOK
    <3>2. faults' = faults \/ (faults < MaxFaults /\ faults' = faults + 1)
      BY DEF Erase, EraseSector, EraseFails, Format, CopyHeader, AdvanceVars
    <3>. QED BY <3>1, <3>2
  <2>. QED BY <1>1, <1>2, <1>3, <2>1, <2>2 DEF TypeInv, TypeOK, Flash
<1>5. NoRoom' /\ Torn' /\ Switching' /\ Linked'
  BY <1>1, <1>2 DEF NoRoom, HasRoom, Torn, Switching, Linked, TypeInv
<1>6. FromFlash'
  <2>1. CASE Erase
    BY <2>1 DEF Erase, FromFlash, Copying
  <2>2. CASE EraseSector \/ EraseFails \/ Format
    BY <2>2 DEF EraseSector, EraseFails, Format, FromFlash, Copying, TypeInv
  <2>3. CASE CopyHeader /\ pending' = pending
    <3>1. state \in {"CopyToOtherBank", "CopyBackToRam"}
          /\ state' \in {"CopyToOtherBank", "CopyBackToRam"} /\ copied' = copied
      BY <2>3 DEF CopyHeader
    <3>. QED BY <1>1, <3>1 DEF FromFlash, Copying, TypeInv
  <2>. QED BY <2>1, <2>2, <2>3
<1>. QED BY <1>4, <1>5, <1>6 DEF TypeInv


LEMMA RevertKeepsTypes ==
    ASSUME PersistenceAssumption, TypeInv, RevertToRam
    PROVE  TypeInv'
<1>. DEFINE i == First(NeedsRevert)
            w == weakReferences[i]
<1>1. /\ UNCHANGED <<copied, active, armed, running, faults, weakReferences, latest, sets, pending>>
      /\ state = "CopyBackToRam" /\ pending = NoPending /\ Advances
  BY DEF RevertToRam, AdvanceVars, clientVars, TypeInv, Torn
<1>2. CASE i = 0
  <2>1. UNCHANGED <<flash, target>> /\ state' = "SwitchBank"
    BY <1>2 DEF RevertToRam
  <2>2. TypeOK' /\ Torn' /\ Linked' /\ Switching'
    BY <1>1, <2>1 DEF TypeInv, TypeOK, Torn, Linked, Switching, Advances
  <2>3. NoRoom' /\ FromFlash'
    BY <1>1, <2>1 DEF TypeInv, NoRoom, Compacting, HasRoom, FromFlash, Copying
  <2>. QED BY <2>2, <2>3 DEF TypeInv
<1>3. CASE i # 0
  <2>1. weakReferences \in Seq(Weak)
    BY Facts DEF TypeInv
  <2>2. w \in Weak /\ w \in ToSet(weakReferences) /\ NeedsRevert(w)
    BY <1>3, <2>1, Walks
  <2>3. /\ target' = [target EXCEPT ![w] = Ram] /\ state' = state
        /\ flash' = Delete(flash, active, target[w])
    BY <1>3 DEF RevertToRam
  <2>. HIDE DEF i, w
  <2>. DEFINE n == target[w]
  <2>4. /\ n \in Slot /\ copied[w] = 0 /\ IsGood(flash[active].slots[n])
        /\ flash \in Flash /\ active \in Bank
        /\ target \in [Weak -> {Nothing, Ram} \cup Slot]
        /\ flash[active].slots[n] \in Entries
    BY <2>2, Facts DEF NeedsRevert, NeedsCopy, TypeInv
  <2>. HIDE DEF n
  <2>5. /\ flash' \in Flash
        /\ flash'[active].slots[n] = [flash[active].slots[n] EXCEPT !.live = FALSE]
        /\ \A m \in Slot : m # n => flash'[active].slots[m] = flash[active].slots[m]
    BY <2>3, <2>4, DeleteProperties DEF n
  <2>6. target' \in [Weak -> {Nothing, Ram} \cup Slot]
    BY <2>3, <2>4
  <2>7. TypeOK' /\ Torn' /\ Linked' /\ Switching'
    BY <1>1, <2>2, <2>3, <2>4, <2>5, <2>6
    DEF TypeInv, TypeOK, Torn, Linked, Switching, Flash, Advances
  <2>8. NoRoom'
    <3>1. HeaderIsGood(flash'[active].slots[n])
      <4>. DEFINE e == flash[active].slots[n]
                  d == [e EXCEPT !.live = FALSE]
      <4>1. e \in Entries /\ HeaderIsGood(e)
        BY <2>4 DEF IsGood
      <4>. HIDE DEF d
      <4>2. HeaderIsGood(d)
        BY <4>1, DeletedEntry DEF d
      <4>. QED BY <2>5, <4>2 DEF d
    <3>2. \A m \in Slot :
             /\ flash'[active].slots[m] = Erased => flash[active].slots[m] = Erased
             /\ HeaderIsGood(flash[active].slots[m]) => HeaderIsGood(flash'[active].slots[m])
      BY <2>5, <3>1 DEF HeaderIsGood
    <3>3. Compacting' => Compacting
      BY <1>1 DEF Compacting
    <3>. QED BY <1>1, <3>2, <3>3, KeepsNoRoom, Facts DEF TypeInv
  <2>9. FromFlash'
    BY <1>1, <2>2, <2>3, <2>4 DEF TypeInv, FromFlash, Copying
  <2>. QED BY <2>7, <2>8, <2>9 DEF TypeInv
<1>. QED BY <1>2, <1>3

LEMMA SwitchKeepsTypes ==
    ASSUME PersistenceAssumption, TypeInv, SwitchBank
    PROVE  TypeInv'
<1>1. /\ UNCHANGED <<armed, running, weakReferences, latest, sets, pending>>
      /\ state = "SwitchBank" /\ state' = "FlushNextObject" /\ pending = NoPending
      /\ copied' = [w \in Weak |-> 0] /\ active' = Other
      /\ target' = [w \in Weak |-> IF copied[w] # 0 THEN copied[w] ELSE target[w]]
      /\ \/ flash' = [flash EXCEPT ![Other].sequence =
                         (flash[active].sequence + 1) % (Unsequenced + 1)]
         \/ flash' = flash
      /\ faults' = faults \/ (faults < MaxFaults /\ faults' = faults + 1)
  <2>1. pending = NoPending
    BY DEF SwitchBank, TypeInv, Torn
  <2>. QED BY <2>1 DEF SwitchBank, clientVars
<1>2. flash' \in Flash
  <2>1. flash \in Flash /\ active \in Bank /\ Other \in Bank /\ Unsequenced \in Nat
    BY Facts DEF TypeInv
  <2>2. flash[active].sequence \in Nat
    BY <2>1 DEF Flash
  <2>3. (flash[active].sequence + 1) % (Unsequenced + 1) \in 0 .. Unsequenced
    BY <2>1, <2>2
  <2>. QED BY <1>1, <2>1, <2>3 DEF Flash
<1>3. target' \in [Weak -> {Nothing, Ram} \cup Slot] /\ copied' \in [Weak -> 0 .. Slots]
  <2>1. /\ target \in [Weak -> {Nothing, Ram} \cup Slot] /\ Slots \in Nat
        /\ \A w \in Weak : copied[w] # 0 => copied[w] \in Slot
    BY Facts DEF TypeInv
  <2>. QED BY <1>1, <2>1
<1>4. TypeOK'
  <2>1. Other \in Bank
    BY Facts DEF TypeInv
  <2>2. faults' \in 0 .. MaxFaults
    <3>1. faults \in 0 .. MaxFaults /\ MaxFaults \in Nat
      BY Facts DEF TypeInv, TypeOK
    <3>. QED BY <1>1, <3>1
  <2>. QED BY <1>1, <1>2, <1>3, <2>1, <2>2 DEF TypeInv, TypeOK, Flash
<1>5. Torn' /\ Switching' /\ NoRoom' /\ FromFlash'
  BY <1>1 DEF Torn, Switching, NoRoom, Compacting, FromFlash, Copying
<1>6. Linked'
  <2>1. \A w \in Weak : copied[w] # 0 => target[w] # Nothing
    BY <1>1, Facts DEF TypeInv, FromFlash, Copying
  <2>. QED BY <1>1, <2>1 DEF TypeInv, Linked
<1>. QED BY <1>4, <1>5, <1>6 DEF TypeInv

\* A write that fails leaves an entry that is deleted.
LEMMA FailureKeepsTypes ==
    ASSUME PersistenceAssumption, TypeInv, WriteFails
    PROVE  TypeInv'
<1>. DEFINE b == pending.bank
            n == pending.slot
<1>1. /\ UNCHANGED <<active, target, copied, state, armed, running, weakReferences, latest, sets>>
      /\ pending # NoPending /\ HeaderIsGood(Pending) /\ pending' = NoPending
      /\ faults < MaxFaults /\ faults' = faults + 1
      /\ flash' = Delete(flash, b, n)
  BY DEF WriteFails, clientVars
<1>2. /\ b \in Bank /\ n \in Slot /\ flash \in Flash
      /\ Pending = flash[b].slots[n] /\ Pending \in Entries
      /\ active \in Bank
      /\ NoPending \in [object : Weak \cup {Nothing}, bank : Bank, slot : 0 .. Slots]
  BY <1>1, WrittenIs, Facts DEF Pending, TypeInv
<1>. HIDE DEF b, n
<1>3. /\ flash' \in Flash
      /\ flash'[b].slots[n] = [Pending EXCEPT !.live = FALSE]
      /\ \A c \in Bank, m \in Slot : c # b \/ m # n => flash'[c].slots[m] = flash[c].slots[m]
  BY <1>1, <1>2, DeleteProperties
<1>4. faults' \in 0 .. MaxFaults
  BY <1>1, Facts DEF TypeInv, TypeOK
<1>5. TypeOK' /\ Torn' /\ Linked' /\ Switching' /\ FromFlash'
  BY <1>1, <1>2, <1>3, <1>4
  DEF TypeInv, TypeOK, Flash, Torn, Linked, Switching, Advances, FromFlash, Copying
<1>6. NoRoom'
  <2>1. HeaderIsGood([Pending EXCEPT !.live = FALSE])
    <3>. DEFINE d == [Pending EXCEPT !.live = FALSE]
    <3>. HIDE DEF d
    <3>1. HeaderIsGood(d)
      BY <1>1, <1>2, DeletedEntry DEF d
    <3>. QED BY <3>1 DEF d
  <2>2. \A m \in Slot :
           /\ flash'[active].slots[m] = Erased => flash[active].slots[m] = Erased
           /\ HeaderIsGood(flash[active].slots[m]) => HeaderIsGood(flash'[active].slots[m])
    BY <1>2, <1>3, <2>1 DEF HeaderIsGood
  <2>3. Compacting' => Compacting
    BY <1>1 DEF Compacting
  <2>. QED BY <1>1, <2>2, <2>3, KeepsNoRoom, Facts DEF TypeInv
<1>. QED BY <1>5, <1>6 DEF TypeInv


-----------------------------------------------------------------------------
(***************************************************************************)
(* Restarts.                                                               *)
(***************************************************************************)
LEMMA OrdersOfASet ==
    ASSUME NEW S, IsFiniteSet(S), NEW order \in SetToSeqs(S)
    PROVE  order \in Seq(S) /\ NoRepeats(order) /\ ToSet(order) = S
<1>. DEFINE n == Cardinality(S)
            D == 1 .. n
<1>1. n \in Nat
  BY FS_CardinalityType
<1>. HIDE DEF n
<1>2. order \in [D -> S] /\ \A i, j \in D : i # j => order[i] # order[j]
  BY DEF SetToSeqs, n
<1>3. order \in Seq(S)
  BY <1>1, <1>2, SeqDef
<1>4. NoRepeats(order)
  BY <1>2 DEF NoRepeats
<1>5. order \in Injection(D, S)
  BY <1>2 DEF Injection, IsInjective
<1>6. IsFiniteSet(D) /\ Cardinality(D) = n
  BY <1>1, FS_Interval
<1>7. order \in Surjection(D, S)
  BY <1>5, <1>6, FS_Injection DEF n
<1>8. \A x \in S : \E i \in D : order[i] = x
  BY <1>7 DEF Surjection
<1>9. ToSet(order) = S
  BY <1>2, <1>8 DEF ToSet
<1>. QED BY <1>3, <1>4, <1>9

\* What a restart makes of the references.
LEMMA RestartIs ==
    ASSUME PersistenceAssumption, TypeOK, NEW kept \in SUBSET Weak, Restart(kept)
    PROVE  /\ Chosen \in Bank /\ active' = Chosen
           /\ \A w \in Weak : Restored(w) \subseteq Slot
           /\ weakReferences' \in Seq(Weak) /\ NoRepeats(weakReferences')
           /\ \A w \in Weak : Restored(w) # {} \/ w \in kept => w \in ToSet(weakReferences')
           /\ target' \in [Weak -> {Nothing, Ram} \cup Slot]
           /\ \A w \in Weak : Restored(w) # {} =>
                 target'[w] \in Restored(w) /\ latest'[w] = latest[w]
           /\ \A w \in Weak : Restored(w) = {} => target'[w] \notin Slot
           /\ \A w \in Weak : Restored(w) = {} /\ w \notin kept => target'[w] = Nothing
           /\ latest' \in [Weak -> 0 .. MaxSets]
           /\ copied' = [w \in Weak |-> 0] /\ pending' = NoPending
           /\ state' = "FlushNextObject" /\ armed' = TRUE
           /\ \/ BankIsGood(Chosen) /\ flash' = flash /\ running' = "no"
              \/ /\ ~BankIsGood(Chosen) /\ running' = "boot"
                 /\ flash' = [flash EXCEPT ![Chosen] = [sequence |-> Unsequenced,
                                                        slots |-> [n \in Slot |-> Erased]]]
                 /\ \A w \in Weak : Restored(w) = {}
           /\ flash' \in Flash
<1>. DEFINE back == {w \in Weak : Restored(w) # {}}
            position == [w \in back |-> Max(Restored(w))]
<1>1. /\ flash \in Flash /\ weakReferences \in Seq(Weak)
      /\ latest \in [Weak -> 0 .. MaxSets]
      /\ Slots \in Nat /\ MaxSets \in Nat /\ Unsequenced \in Nat
      /\ Ram \notin Slot /\ Nothing \notin Slot /\ Erased \in Entries
  BY Facts
<1>2. Chosen \in Bank
  BY DEF Chosen, Bank
<1>3. \A w \in Weak : Restored(w) \subseteq Slot
  BY DEF Restored
<1>4. ASSUME NEW w \in back PROVE position[w] \in Restored(w)
  <2>. DEFINE R == Restored(w)
  <2>1. R \subseteq 0 .. Slots /\ R # {}
    BY <1>1, <1>3 DEF Slot
  <2>. HIDE DEF R
  <2>2. Max(R) \in R
    BY <1>1, <2>1, GreatestNat
  <2>. QED BY <2>2 DEF R
<1>. HIDE DEF position
<1>5. /\ active' = Chosen
      /\ \E order \in SetToSeqs(back \cup kept) : weakReferences' = order
      /\ target' = [w \in Weak |-> CASE w \in back -> position[w]
                                     [] w \in kept \ back -> Ram
                                     [] OTHER -> Nothing]
      /\ latest' = [w \in Weak |-> IF w \in back \cup kept THEN latest[w] ELSE 0]
      /\ copied' = [w \in Weak |-> 0] /\ pending' = NoPending
      /\ state' = "FlushNextObject" /\ armed' = TRUE
      /\ running' = IF BankIsGood(Chosen) THEN "no" ELSE "boot"
      /\ flash' = IF BankIsGood(Chosen) THEN flash
                  ELSE [flash EXCEPT ![Chosen] = [sequence |-> Unsequenced,
                                                  slots |-> [n \in Slot |-> Erased]]]
  BY DEF Restart, position
<1>6. weakReferences' \in Seq(Weak) /\ NoRepeats(weakReferences')
      /\ ToSet(weakReferences') = back \cup kept
  <2>. DEFINE S == back \cup kept
  <2>1. IsFiniteSet(S) /\ S \subseteq Weak
    BY FS_Subset DEF PersistenceAssumption
  <2>. HIDE DEF S
  <2>2. PICK order \in SetToSeqs(S) : weakReferences' = order
    BY <1>5 DEF S
  <2>3. order \in Seq(S) /\ NoRepeats(order) /\ ToSet(order) = S
    BY <2>1, OrdersOfASet
  <2>4. order \in Seq(Weak)
    BY <2>1, <2>3
  <2>. QED BY <2>2, <2>3, <2>4 DEF S
<1>7. \A w \in Weak : target'[w] = IF w \in back THEN position[w]
                                   ELSE IF w \in kept THEN Ram ELSE Nothing
  BY <1>5
<1>8. target' \in [Weak -> {Nothing, Ram} \cup Slot]
  <2>1. \A w \in Weak : target'[w] \in {Nothing, Ram} \cup Slot
    BY <1>3, <1>4, <1>7
  <2>2. target' = [w \in Weak |-> target'[w]]
    BY <1>5
  <2>. QED BY <2>1, <2>2
<1>9. latest' \in [Weak -> 0 .. MaxSets]
  BY <1>1, <1>5
<1>10. flash' \in Flash
  <2>. DEFINE f == [sequence |-> Unsequenced, slots |-> [n \in Slot |-> Erased]]
  <2>1. f \in [sequence : 0 .. Unsequenced, slots : [Slot -> Entries]]
    BY <1>1
  <2>. HIDE DEF f
  <2>2. [flash EXCEPT ![Chosen] = f] \in Flash
    BY <1>1, <1>2, <2>1 DEF Flash
  <2>. QED BY <1>1, <1>5, <2>2 DEF f
<1>11. ~BankIsGood(Chosen) => \A w \in Weak : Restored(w) = {}
  BY DEF Restored
<1>. QED BY <1>1, <1>2, <1>3, <1>4, <1>5, <1>6, <1>7, <1>8, <1>9, <1>10, <1>11

LEMMA RestartKeepsTypes ==
    ASSUME PersistenceAssumption, TypeInv, PowerFails \/ RebootClr
    PROVE  TypeInv'
<1>1. PICK kept \in SUBSET Weak : Restart(kept)
  BY DEF PowerFails, RebootClr
<1>2. faults < MaxFaults /\ faults' = faults + 1 /\ sets' = sets
  BY DEF PowerFails, RebootClr
<1>3. /\ active' \in Bank /\ flash' \in Flash
      /\ weakReferences' \in Seq(Weak) /\ NoRepeats(weakReferences')
      /\ target' \in [Weak -> {Nothing, Ram} \cup Slot]
      /\ latest' \in [Weak -> 0 .. MaxSets]
      /\ copied' = [w \in Weak |-> 0] /\ pending' = NoPending
      /\ state' = "FlushNextObject" /\ armed' = TRUE
      /\ running' \in {"no", "boot"}
      /\ \A w \in Weak : target'[w] # Nothing => w \in ToSet(weakReferences')
  BY <1>1, RestartIs DEF TypeInv
<1>4. TypeOK'
  <2>1. faults' \in 0 .. MaxFaults /\ sets' \in 0 .. MaxSets
    BY <1>2, Facts DEF TypeInv, TypeOK
  <2>2. copied' \in [Weak -> 0 .. Slots] /\ armed' \in BOOLEAN
    BY <1>3 DEF PersistenceAssumption
  <2>3. pending' \in [object : Weak \cup {Nothing}, bank : Bank, slot : 0 .. Slots]
    BY <1>3, Facts DEF TypeInv
  <2>. QED BY <1>3, <2>1, <2>2, <2>3 DEF TypeOK, Flash
<1>5. Torn' /\ Switching' /\ NoRoom' /\ FromFlash'
  BY <1>3 DEF Torn, Switching, NoRoom, Compacting, FromFlash, Copying
<1>6. Linked'
  BY <1>3 DEF Linked
<1>. QED BY <1>4, <1>5, <1>6 DEF TypeInv

-----------------------------------------------------------------------------
(***************************************************************************)
(* Type correctness.                                                       *)
(***************************************************************************)
LEMMA BeginsTypeCorrect == ASSUME PersistenceAssumption, Init PROVE TypeInv
<1>1. /\ Slots \in Nat /\ MaxSets \in Nat /\ MaxFaults \in Nat /\ Unsequenced \in Nat
      /\ Nothing \notin Weak
  BY DEF PersistenceAssumption
<1>2. Erased \in Entries
  BY <1>1 DEF Erased, Entries, Complete
<1>3. flash \in Flash
  <2>. DEFINE s == [n \in Slot |-> Erased]
  <2>1. s \in [Slot -> Entries]
    BY <1>2
  <2>2. flash = [b \in Bank |-> [sequence |-> IF b = "STORAGE_A" THEN Unsequenced ELSE 0,
                                 slots |-> s]]
    BY DEF Init
  <2>. HIDE DEF s
  <2>. QED BY <1>1, <2>1, <2>2 DEF Flash
<1>4. weakReferences \in Seq(Weak) /\ NoRepeats(weakReferences)
  BY DEF Init, NoRepeats
<1>5. NoPending \in [object : Weak \cup {Nothing}, bank : Bank, slot : 0 .. Slots]
  BY <1>1 DEF NoPending, Bank
<1>6. TypeOK
  BY <1>1, <1>3, <1>4, <1>5 DEF Init, TypeOK, Flash, Bank
<1>7. Torn /\ Linked /\ Switching /\ NoRoom /\ FromFlash
  BY DEF Init, Torn, Linked, Switching, NoRoom, Compacting, FromFlash, Copying
<1>. QED BY <1>6, <1>7 DEF TypeInv

LEMMA NextKeepsTypes ==
    ASSUME PersistenceAssumption, TypeInv, [Next]_vars
    PROVE  TypeInv'
<1>8. ASSUME UNCHANGED vars PROVE TypeInv'
  BY <1>8 DEF vars, clientVars, TypeInv, TypeOK, Torn, Pending, NeedsFlush, NeedsCopy, Other,
              Linked, Switching, Advances, NoRoom, Compacting, HasRoom, FromFlash, Copying
<1>1. CASE PowerFails \/ RebootClr
  BY <1>1, RestartKeepsTypes
<1>2. CASE SetFirstSequence
  <2>1. /\ flash' = [flash EXCEPT ![active].sequence = 1] /\ running' = "no"
        /\ UNCHANGED <<active, target, copied, pending, state, armed, faults,
                       weakReferences, latest, sets>>
        /\ running = "boot"
    BY <1>2 DEF SetFirstSequence, clientVars
  <2>2. flash' \in Flash /\ \A b \in Bank : flash'[b].slots = flash[b].slots
    <3>1. flash \in Flash /\ active \in Bank /\ 1 \in 0 .. Unsequenced
      BY Facts DEF TypeInv, PersistenceAssumption
    <3>. QED BY <2>1, <3>1 DEF Flash
  <2>3. TypeOK'
    BY <2>1, <2>2 DEF TypeInv, TypeOK, Flash
  <2>4. Torn'
    <3>1. Other' = Other
      BY <2>1 DEF Other
    <3>2. Pending' = Pending
      BY <2>1, <2>2 DEF Pending, TypeInv, TypeOK
    <3>. QED BY <2>1, <3>1, <3>2 DEF TypeInv, Torn, NeedsFlush, NeedsCopy
  <2>5. NoRoom'
    BY <2>1, <2>2 DEF TypeInv, TypeOK, NoRoom, Compacting, HasRoom
  <2>6. Linked' /\ Switching' /\ FromFlash'
    BY <2>1 DEF TypeInv, Linked, Switching, Advances, FromFlash, Copying
  <2>. QED BY <2>3, <2>4, <2>5, <2>6 DEF TypeInv
<1>3. CASE \E w \in Weak : SetTarget(w) \/ InsertInPriorityOrder(w) \/ Collect(w)
  BY <1>3, ClientsKeepTypes
<1>4. CASE Callback \/ FlushAll
  <2>1. /\ UNCHANGED <<flash, target, copied, pending, state, active, faults,
                       weakReferences, latest, sets>>
        /\ running' \in {"callback", "flush"} /\ armed' \in {FALSE, armed}
    BY <1>4 DEF Callback, FlushAll, AdvanceVars, clientVars
  <2>2. TypeOK'
    BY <2>1 DEF TypeInv, TypeOK
  <2>3. Torn'
    BY <2>1 DEF TypeInv, Torn, Pending, NeedsFlush, NeedsCopy, Other
  <2>4. NoRoom' /\ Linked' /\ Switching' /\ FromFlash'
    BY <2>1
    DEF TypeInv, NoRoom, Compacting, HasRoom, Linked, Switching, Advances, FromFlash, Copying
  <2>. QED BY <2>2, <2>3, <2>4 DEF TypeInv
<1>5. CASE AdvanceState
  <2>1. CASE Synchronized \/ TriggerCopy
    BY <2>1, ReturnKeepsTypes
  <2>2. CASE FlushHeader
    BY <2>2, HeaderKeepsTypes
  <2>3. CASE NothingToFlush
    <3>1. /\ UNCHANGED <<flash, target, copied, pending, active, armed, running, faults,
                         weakReferences, latest, sets>>
          /\ state = "FlushNextObject" /\ state' = "Idle" /\ pending = NoPending
      BY <2>3 DEF NothingToFlush, AdvanceVars, clientVars
    <3>2. TypeOK' /\ Torn' /\ Linked'
      BY <3>1 DEF TypeInv, TypeOK, Torn, Linked
    <3>3. NoRoom' /\ Switching' /\ FromFlash'
      BY <3>1 DEF TypeInv, NoRoom, Compacting, HasRoom, Switching, FromFlash, Copying
    <3>. QED BY <3>2, <3>3 DEF TypeInv
  <2>4. CASE WriteNext
    BY <2>4, WriteNextKeepsTypes
  <2>5. CASE Erase \/ EraseSector \/ Format
    BY <2>5, CompactionKeepsTypes
  <2>6. CASE CopyHeader
    BY <2>6, HeaderKeepsTypes, CompactionKeepsTypes
  <2>7. CASE RevertToRam
    BY <2>7, RevertKeepsTypes
  <2>8. CASE SwitchBank
    BY <2>8, SwitchKeepsTypes
  <2>9. CASE NoSectorLeft
    BY <1>8, <2>9 DEF NoSectorLeft
  <2>. QED BY <1>5, <2>1, <2>2, <2>3, <2>4, <2>5, <2>6, <2>7, <2>8, <2>9 DEF AdvanceState
<1>6. CASE NoIdleTime \/ NoMemory
  BY <1>6, ReturnKeepsTypes
<1>7. CASE WriteFails
  BY <1>7, FailureKeepsTypes
<1>9. CASE EraseFails
  BY <1>9, CompactionKeepsTypes
<1>. QED BY <1>1, <1>2, <1>3, <1>4, <1>5, <1>6, <1>7, <1>8, <1>9 DEF Next

\* The state has its types, wherever the power fails, whatever fails to be
\* written and whenever a client changes what is being saved: among others, an
\* object that is being written, or was, has a slot of its bank.
THEOREM PersistenceTypeCorrect ==
    ASSUME PersistenceAssumption
    PROVE  Spec => []TypeOK
<1>1. Init => TypeInv
  BY BeginsTypeCorrect
<1>2. TypeInv /\ [Next]_vars => TypeInv'
  BY NextKeepsTypes
<1>3. TypeInv => TypeOK
  BY DEF TypeInv
<1>. QED BY <1>1, <1>2, <1>3, PTL DEF Spec


-----------------------------------------------------------------------------
(***************************************************************************)
(* At rest.                                                                *)
(***************************************************************************)

\* While the manager is idle, no reference that fits waits to be written.
Saved ==
    state = "Idle" =>
        \A i \in DOMAIN weakReferences :
            UsedUpTo(i) <= SafeObjects => target[weakReferences[i]] # Ram

\* The farther a walk gets, the more bytes have been used.
LEMMA UsedGrows ==
    ASSUME NEW i \in Nat, NEW j \in Nat, i <= j
    PROVE  /\ UsedUpTo(i) \in Nat /\ UsedUpTo(j) \in Nat
           /\ UsedUpTo(i) <= UsedUpTo(j)
<1>. DEFINE U(k) == {n \in 1 .. k : target[weakReferences[n]] # Nothing}
<1>1. U(i) \subseteq U(j) /\ U(j) \subseteq 1 .. j
  OBVIOUS
<1>2. IsFiniteSet(1 .. j)
  BY FS_Interval
<1>3. UsedUpTo(i) = Cardinality(U(i)) /\ UsedUpTo(j) = Cardinality(U(j))
  BY DEF UsedUpTo
<1>. HIDE DEF U
<1>4. IsFiniteSet(U(j))
  BY <1>1, <1>2, FS_Subset
<1>5. IsFiniteSet(U(i)) /\ Cardinality(U(i)) <= Cardinality(U(j))
  BY <1>1, <1>4, FS_Subset
<1>. QED BY <1>3, <1>4, <1>5, FS_CardinalityType

LEMMA BecomesIdleSaved ==
    ASSUME PersistenceAssumption, TypeInv, NothingToFlush
    PROVE  Saved'
<1>1. /\ weakReferences \in Seq(Weak) /\ SafeObjects \in Nat
      /\ UNCHANGED <<target, weakReferences>>
      /\ First(NeedsFlush) # 0 => UsedUpTo(First(NeedsFlush)) > SafeObjects
  BY Facts DEF NothingToFlush, AdvanceVars, clientVars, TypeInv, PersistenceAssumption
<1>2. ASSUME NEW j \in DOMAIN weakReferences, target[weakReferences[j]] = Ram
      PROVE  ~(UsedUpTo(j) <= SafeObjects)
  <2>. DEFINE i == First(NeedsFlush)
  <2>1. i # 0 /\ i <= j /\ i \in Nat /\ j \in Nat
    BY <1>1, <1>2, Walks DEF NeedsFlush
  <2>. HIDE DEF i
  <2>2. UsedUpTo(i) \in Nat /\ UsedUpTo(j) \in Nat /\ UsedUpTo(i) <= UsedUpTo(j)
    BY <2>1, UsedGrows
  <2>3. UsedUpTo(i) > SafeObjects
    BY <1>1, <2>1 DEF i
  <2>. QED BY <1>1, <2>2, <2>3
<1>3. \A j : UsedUpTo(j)' = UsedUpTo(j)
  BY <1>1 DEF UsedUpTo
<1>. QED BY <1>1, <1>2, <1>3 DEF Saved

LEMMA NextKeepsSaved ==
    ASSUME PersistenceAssumption, ~MoveWhenIdle, TypeInv, Saved, [Next]_vars
    PROVE  Saved'
<1>1. CASE state' # "Idle"
  BY <1>1 DEF Saved
<1>2. CASE NothingToFlush
  BY <1>2, BecomesIdleSaved
<1>3. CASE state = "Idle" /\ UNCHANGED <<weakReferences, target>>
  <2>1. \A i : UsedUpTo(i)' = UsedUpTo(i)
    BY <1>3 DEF UsedUpTo
  <2>. QED BY <1>3, <2>1 DEF Saved
<1>4. \/ state' # "Idle" \/ NothingToFlush
      \/ state = "Idle" /\ UNCHANGED <<weakReferences, target>>
  <2>1. CASE PowerFails \/ RebootClr
    BY <2>1 DEF PowerFails, RebootClr, Restart
  <2>2. CASE SetFirstSequence \/ Callback \/ FlushAll
    BY <2>2 DEF SetFirstSequence, Callback, FlushAll, AdvanceVars, clientVars
  <2>3. ASSUME NEW w \in Weak, SetTarget(w) \/ Collect(w) PROVE state' # "Idle"
    <3>1. InvalidateEntry(w)
      BY <2>3 DEF SetTarget, Collect
    <3>. QED BY <3>1 DEF InvalidateEntry
  <2>4. ASSUME NEW w \in Weak, InsertInPriorityOrder(w) PROVE state' # "Idle"
    BY <2>4 DEF InsertInPriorityOrder
  <2>5. CASE AdvanceState
    <3>1. CASE Synchronized
      BY <3>1 DEF Synchronized, AdvanceVars, clientVars
    <3>2. CASE TriggerCopy
      BY <3>2 DEF TriggerCopy, Return
    <3>3. CASE FlushHeader \/ WriteNext \/ Erase \/ EraseSector \/ Format
      BY <3>3 DEF FlushHeader, WriteNext, Erase, EraseSector, Format
    <3>4. CASE CopyHeader \/ RevertToRam \/ SwitchBank
      BY <3>4 DEF CopyHeader, RevertToRam, SwitchBank
    <3>5. CASE NoSectorLeft
      BY <3>5 DEF NoSectorLeft, vars
    <3>. QED BY <2>5, <3>1, <3>2, <3>3, <3>4, <3>5 DEF AdvanceState
  <2>6. CASE NoIdleTime \/ NoMemory \/ WriteFails \/ EraseFails
    BY <2>6 DEF NoIdleTime, NoMemory, WriteFails, EraseFails, Return
  <2>7. CASE UNCHANGED vars
    BY <2>7 DEF vars, clientVars
  <2>. QED BY <2>1, <2>2, <2>3, <2>4, <2>5, <2>6, <2>7 DEF Next
<1>. QED BY <1>1, <1>2, <1>3, <1>4

\* When the manager says that its content is synchronized, every object that
\* fits, in the order of the references, is in flash, whatever the clients did
\* meanwhile; as long as they leave the order alone while it is idle.
THEOREM IdleIsSaved ==
    ASSUME PersistenceAssumption, ~MoveWhenIdle
    PROVE  Spec => []IdleMeansSaved
<1>1. Init => TypeInv /\ Saved
  BY BeginsTypeCorrect DEF Init, Saved
<1>2. TypeInv /\ Saved /\ [Next]_vars => TypeInv' /\ Saved'
  BY NextKeepsTypes, NextKeepsSaved
<1>3. Saved => IdleMeansSaved
  BY DEF Saved, IdleMeansSaved
<1>. QED BY <1>1, <1>2, <1>3, PTL DEF Spec


-----------------------------------------------------------------------------
(***************************************************************************)
(* What is stored, when the power does not fail while a bank has no        *)
(* sequence number, and a bank is erased as a whole.                       *)
(***************************************************************************)

\* An object whose writes are all done.
Whole(w) == [object |-> w, version |-> latest[w], written |-> Complete, live |-> TRUE]

\* The sequence numbers do not wrap: that takes as many compactions as there
\* are numbers, each of which erases the block again.
NoWrap == flash[active].sequence + 1 # Unsequenced

\* The bank in use is the one that a restart will choose.
BankInUse ==
    IF running = "boot"
    THEN flash[active].sequence = Unsequenced /\ flash[Other].sequence = 0
    ELSE /\ flash[active].sequence \in 1 .. (Unsequenced - 1)
         /\ \/ flash[Other].sequence < flash[active].sequence
            \/ flash[Other].sequence = Unsequenced

\* The bank in use holds the objects of the references that are marked as
\* persisted, and no others.
Stored == \A w \in Weak : target[w] \in Slot => flash[active].slots[target[w]] = Whole(w)
OnlyStored ==
    \A n \in Slot :
        IsGood(flash[active].slots[n]) =>
            /\ flash[active].slots[n].object \in Weak
            /\ target[flash[active].slots[n].object] = n

\* So does the other bank with the copies, once it has been erased.
Copies ==
    \A w \in Weak : copied[w] # 0 /\ target[w] \in Slot =>
                       flash[Other].slots[copied[w]] = Whole(w)
OnlyCopied ==
    \A n \in Slot :
        IsGood(flash[Other].slots[n]) =>
            /\ flash[Other].slots[n].object \in Weak
            /\ copied[flash[Other].slots[n].object] = n
Compaction ==
    /\ Copying => OnlyCopied
    /\ state = "Format" => \A n \in Slot : flash[Other].slots[n] = Erased
    /\ state = "SwitchBank" => \A w \in Weak : target[w] \in Slot => copied[w] # 0

StoreInv == TypeInv /\ BankInUse /\ Stored /\ OnlyStored /\ Copies /\ Compaction

LEMMA WholeIsGood ==
    ASSUME PersistenceAssumption, NEW w \in Weak
    PROVE  /\ IsGood(Whole(w)) /\ Whole(w) # Erased
           /\ Whole(w).object = w /\ Whole(w).version = latest[w]
           /\ Whole(w).written = Complete /\ Whole(w).live = TRUE
<1>1. Erased.object = Nothing /\ w # Nothing
  BY DEF Erased, PersistenceAssumption
<1>2. Whole(w).object = w /\ Whole(w).written = 2 /\ Whole(w).live = TRUE
  BY DEF Whole, Complete
<1>. QED BY <1>1, <1>2 DEF IsGood, HeaderIsGood, Complete, Whole

\* A step that touches only entries which are not good, and leaves them so,
\* takes nothing from what is stored and adds nothing to it.
LEMMA TornEntriesOnly ==
    ASSUME PersistenceAssumption, TypeInv, Stored, OnlyStored, Copies,
           UNCHANGED <<active, target, copied, latest>>,
           \A b \in Bank, n \in Slot :
              \/ flash'[b].slots[n] = flash[b].slots[n]
              \/ ~IsGood(flash[b].slots[n]) /\ ~IsGood(flash'[b].slots[n])
    PROVE  Stored' /\ OnlyStored' /\ Copies' /\ (OnlyCopied => OnlyCopied')
<1>1. /\ active \in Bank /\ Other \in Bank /\ Other' = Other
      /\ \A w \in Weak : copied[w] # 0 => copied[w] \in Slot
  BY Facts DEF TypeInv, Other
<1>2. \A w \in Weak : Whole(w)' = Whole(w) /\ IsGood(Whole(w))
  BY WholeIsGood DEF Whole
<1>3. \A b \in Bank, n \in Slot, w \in Weak :
         flash[b].slots[n] = Whole(w) => flash'[b].slots[n] = Whole(w)
  BY <1>2
<1>4. \A b \in Bank, n \in Slot :
         IsGood(flash'[b].slots[n]) => flash'[b].slots[n] = flash[b].slots[n]
  OBVIOUS
<1>5. Stored'
  BY <1>1, <1>2, <1>3 DEF Stored
<1>6. OnlyStored'
  BY <1>1, <1>4 DEF OnlyStored
<1>7. Copies'
  BY <1>1, <1>2, <1>3 DEF Copies
<1>8. OnlyCopied => OnlyCopied'
  BY <1>1, <1>4 DEF OnlyCopied
<1>. QED BY <1>5, <1>6, <1>7, <1>8

\* A restart chooses the bank in use, and finds what is stored there.
LEMMA RestartFinds ==
    ASSUME PersistenceAssumption, StoreInv, Sequenced
    PROVE  /\ Chosen = active /\ BankIsGood(active) /\ running # "boot"
           /\ \A w \in Weak :
                 Restored(w) = IF target[w] \in Slot THEN {target[w]} ELSE {}
<1>1. /\ active \in Bank /\ Other \in Bank /\ Other # active
      /\ flash[active].sequence # Unsequenced /\ flash[Other].sequence # Unsequenced
      /\ Unsequenced \in Nat
  BY Facts DEF StoreInv, TypeInv, Sequenced
<1>2. /\ running # "boot" /\ flash[active].sequence \in 1 .. (Unsequenced - 1)
      /\ flash[Other].sequence < flash[active].sequence
      /\ flash[Other].sequence \in Nat
  <2>1. flash[Other].sequence \in Nat
    BY <1>1, Facts DEF StoreInv, TypeInv, Flash
  <2>. QED BY <1>1, <2>1 DEF StoreInv, BankInUse
<1>3. BankIsGood(active)
  BY <1>2 DEF BankIsGood
<1>4. Chosen = active
  <2>1. CASE active = "STORAGE_A"
    <3>1. Other = "STORAGE_B"
      BY <1>1, <2>1 DEF Bank
    <3>. QED BY <1>2, <1>3, <2>1, <3>1 DEF Chosen
  <2>2. CASE active = "STORAGE_B"
    <3>1. Other = "STORAGE_A"
      BY <1>1, <2>2 DEF Bank
    <3>. QED BY <1>2, <1>3, <2>2, <3>1 DEF Chosen
  <2>. QED BY <1>1, <2>1, <2>2 DEF Bank
<1>5. ASSUME NEW w \in Weak
      PROVE  Restored(w) = IF target[w] \in Slot THEN {target[w]} ELSE {}
  <2>1. Restored(w) = {n \in Slot : /\ IsGood(flash[active].slots[n])
                                    /\ flash[active].slots[n].object = w}
    BY <1>3, <1>4 DEF Restored
  <2>2. \A n \in Slot :
           IsGood(flash[active].slots[n]) /\ flash[active].slots[n].object = w =>
              n = target[w]
    BY DEF StoreInv, OnlyStored
  <2>3. target[w] \in Slot =>
           IsGood(flash[active].slots[target[w]]) /\ flash[active].slots[target[w]].object = w
    BY WholeIsGood DEF StoreInv, Stored
  <2>. QED BY <2>1, <2>2, <2>3
<1>. QED BY <1>2, <1>3, <1>4, <1>5

LEMMA RestartKeepsStored ==
    ASSUME PersistenceAssumption, ~FailsUnsequenced, StoreInv, PowerFails \/ RebootClr
    PROVE  BankInUse' /\ Stored' /\ OnlyStored' /\ Copies' /\ Compaction'
<1>1. Sequenced /\ TypeOK
  BY DEF PowerFails, RebootClr, Sequenced, StoreInv, TypeInv
<1>2. PICK kept \in SUBSET Weak : Restart(kept)
  BY DEF PowerFails, RebootClr
<1>3. /\ Chosen = active /\ BankIsGood(active) /\ running # "boot"
      /\ \A w \in Weak : Restored(w) = IF target[w] \in Slot THEN {target[w]} ELSE {}
  BY <1>1, RestartFinds
<1>4. /\ active' = active /\ flash' = flash /\ running' = "no"
      /\ copied' = [w \in Weak |-> 0] /\ state' = "FlushNextObject"
      /\ \A w \in Weak : target[w] \in Slot => target'[w] = target[w] /\ latest'[w] = latest[w]
      /\ \A w \in Weak : target[w] \notin Slot => target'[w] \notin Slot
  BY <1>1, <1>2, <1>3, RestartIs
<1>5. BankInUse'
  BY <1>3, <1>4 DEF StoreInv, BankInUse, Other
<1>6. Stored'
  BY <1>4 DEF StoreInv, Stored, Whole
<1>7. OnlyStored'
  BY <1>4 DEF StoreInv, OnlyStored
<1>8. Copies' /\ Compaction'
  BY <1>4 DEF Copies, Compaction, Copying
<1>. QED BY <1>5, <1>6, <1>7, <1>8


\* What a deletion leaves of the entries.
LEMMA DeletionLeaves ==
    ASSUME PersistenceAssumption, StoreInv, NEW w \in Weak
    PROVE  /\ \A v \in Weak \ {w}, b \in Bank, n \in Slot :
                 flash[b].slots[n] = Whole(v) => Deleted(w)[b].slots[n] = Whole(v)
           /\ \A b \in Bank, n \in Slot :
                 IsGood(Deleted(w)[b].slots[n]) =>
                    /\ Deleted(w)[b].slots[n] = flash[b].slots[n]
                    /\ ~(b = active /\ n = target[w])
<1>1. ASSUME NEW v \in Weak \ {w}, NEW b \in Bank, NEW n \in Slot,
             flash[b].slots[n] = Whole(v)
      PROVE  Deleted(w)[b].slots[n] = Whole(v)
  <2>1. ~DeletedBy(w, b, n)
    <3>1. CASE pending.object = w /\ b = pending.bank /\ n = pending.slot
      <4>1. pending # NoPending
        BY <3>1, Facts DEF StoreInv, TypeInv
      <4>2. Pending.written < Complete /\ Pending = flash[b].slots[n]
        BY <3>1, <4>1 DEF StoreInv, TypeInv, Torn, Pending
      <4>3. Whole(v).written = Complete
        BY WholeIsGood
      <4>. QED BY <1>1, <4>2, <4>3 DEF Complete
    <3>2. CASE b = active /\ n = target[w]
      <4>1. flash[b].slots[n] = Whole(w)
        BY <3>2 DEF StoreInv, Stored
      <4>2. Whole(v).object = v /\ Whole(w).object = w
        BY WholeIsGood
      <4>. QED BY <1>1, <4>1, <4>2
    <3>. QED BY <3>1, <3>2 DEF DeletedBy
  <2>. QED BY <1>1, <2>1, DeletedIs DEF StoreInv
<1>2. ASSUME NEW b \in Bank, NEW n \in Slot, IsGood(Deleted(w)[b].slots[n])
      PROVE  Deleted(w)[b].slots[n] = flash[b].slots[n] /\ ~(b = active /\ n = target[w])
  <2>. DEFINE e == flash[b].slots[n]
              d == [e EXCEPT !.live = FALSE]
  <2>1. Deleted(w)[b].slots[n] = IF DeletedBy(w, b, n) THEN d ELSE e
    BY DeletedIs DEF StoreInv
  <2>2. e \in Entries
    BY Facts DEF StoreInv, TypeInv
  <2>. HIDE DEF d
  <2>3. ~IsGood(d)
    BY <2>2, DeletedEntry DEF d
  <2>4. ~DeletedBy(w, b, n)
    BY <1>2, <2>1, <2>3
  <2>5. IsGood(e)
    BY <1>2, <2>1, <2>4
  <2>. QED BY <2>1, <2>4, <2>5 DEF DeletedBy
<1>. QED BY <1>1, <1>2

LEMMA ClientsKeepStored ==
    ASSUME PersistenceAssumption, StoreInv, NEW w \in Weak,
           SetTarget(w) \/ InsertInPriorityOrder(w) \/ Collect(w)
    PROVE  BankInUse' /\ Stored' /\ OnlyStored' /\ Copies' /\ Compaction'
<1>1. CASE InsertInPriorityOrder(w)
  BY <1>1 DEF InsertInPriorityOrder, StoreInv, BankInUse, Stored, OnlyStored, Copies,
              Compaction, Copying, OnlyCopied, Other, Whole
<1>2. CASE SetTarget(w) \/ Collect(w)
  <2>1. /\ InvalidateEntry(w) /\ running = "no"
        /\ UNCHANGED <<active, copied, running>>
        /\ target'[w] \notin Slot
        /\ \A v \in Weak \ {w} : target'[v] = target[v] /\ Whole(v)' = Whole(v)
    <3>1. /\ target \in [Weak -> {Nothing, Ram} \cup Slot] /\ latest \in [Weak -> 0 .. MaxSets]
          /\ Ram \notin Slot /\ Nothing \notin Slot
      BY Facts DEF StoreInv, TypeInv
    <3>2. CASE SetTarget(w)
      BY <3>1, <3>2 DEF SetTarget, Whole
    <3>3. CASE Collect(w)
      BY <3>1, <3>3 DEF Collect, Whole
    <3>. QED BY <1>2, <3>2, <3>3
  <2>2. /\ active \in Bank /\ Other \in Bank /\ Other # active /\ Other' = Other
        /\ \A v \in Weak : copied[v] # 0 => copied[v] \in Slot
    BY <2>1, Facts DEF StoreInv, TypeInv, Other
  <2>3. flash' = Deleted(w)
    BY <2>1 DEF InvalidateEntry
  <2>4. \A b \in Bank : flash'[b].sequence = flash[b].sequence
    BY <2>3, DeletedIs DEF StoreInv
  <2>5. /\ \A v \in Weak \ {w}, b \in Bank, n \in Slot :
              flash[b].slots[n] = Whole(v) => flash'[b].slots[n] = Whole(v)
        /\ \A b \in Bank, n \in Slot :
              IsGood(flash'[b].slots[n]) =>
                 flash'[b].slots[n] = flash[b].slots[n] /\ ~(b = active /\ n = target[w])
    BY <2>3, DeletionLeaves
  <2>6. BankInUse'
    BY <2>1, <2>2, <2>4 DEF StoreInv, BankInUse
  <2>7. Stored'
    <3>1. SUFFICES ASSUME NEW v \in Weak, target'[v] \in Slot
                   PROVE  flash'[active].slots[target'[v]] = Whole(v)'
      BY <2>1 DEF Stored
    <3>2. v \in Weak \ {w} /\ target'[v] = target[v] /\ Whole(v)' = Whole(v)
      BY <2>1, <3>1
    <3>3. flash[active].slots[target[v]] = Whole(v)
      BY <3>1, <3>2 DEF StoreInv, Stored
    <3>. QED BY <2>2, <2>5, <3>1, <3>2, <3>3
  <2>8. OnlyStored'
    <3>1. SUFFICES ASSUME NEW n \in Slot, IsGood(flash'[active].slots[n])
                   PROVE  /\ flash'[active].slots[n].object \in Weak
                          /\ target'[flash'[active].slots[n].object] = n
      BY <2>1 DEF OnlyStored
    <3>2. flash'[active].slots[n] = flash[active].slots[n] /\ n # target[w]
      BY <2>2, <2>5, <3>1
    <3>3. /\ flash[active].slots[n].object \in Weak
          /\ target[flash[active].slots[n].object] = n
      BY <3>1, <3>2 DEF StoreInv, OnlyStored
    <3>. QED BY <2>1, <3>2, <3>3
  <2>9. Copies'
    <3>1. SUFFICES ASSUME NEW v \in Weak, copied[v] # 0, target'[v] \in Slot
                   PROVE  flash'[Other].slots[copied[v]] = Whole(v)'
      BY <2>1, <2>2 DEF Copies
    <3>2. v \in Weak \ {w} /\ target'[v] = target[v] /\ Whole(v)' = Whole(v)
      BY <2>1, <3>1
    <3>3. flash[Other].slots[copied[v]] = Whole(v)
      BY <3>1, <3>2 DEF StoreInv, Copies
    <3>. QED BY <2>2, <2>5, <3>1, <3>2, <3>3
  <2>10. Compaction'
    <3>1. state # "SwitchBank"
      BY <2>1 DEF StoreInv, TypeInv, Switching, Advances
    <3>2. ~Copying' /\ (state' = "Format" => state = "Format")
      BY <2>1, <3>1 DEF InvalidateEntry, Copying
    <3>3. ASSUME state = "Format" PROVE \A n \in Slot : flash'[Other].slots[n] = Erased
      <4>1. pending = NoPending
        BY <3>3 DEF StoreInv, TypeInv, Torn
      <4>2. pending.object # w
        BY <4>1, Facts DEF StoreInv, TypeInv
      <4>3. \A n \in Slot : ~DeletedBy(w, Other, n)
        BY <2>2, <4>2 DEF DeletedBy
      <4>4. \A n \in Slot : Deleted(w)[Other].slots[n] = flash[Other].slots[n]
        BY <2>2, <4>3, DeletedIs DEF StoreInv
      <4>. QED BY <2>3, <3>3, <4>4 DEF StoreInv, Compaction
    <3>. QED BY <2>2, <3>2, <3>3 DEF Compaction, Copying
  <2>. QED BY <2>6, <2>7, <2>8, <2>9, <2>10
<1>. QED BY <1>1, <1>2


\* The steps that touch torn entries only, or none.
LEMMA TornStepsKeepStored ==
    ASSUME PersistenceAssumption, StoreInv,
           \/ SetFirstSequence \/ Callback \/ FlushAll \/ Synchronized \/ TriggerCopy
           \/ NoMemory \/ NoIdleTime \/ NothingToFlush \/ FlushHeader \/ CopyHeader
           \/ WriteFails \/ (WriteNext /\ UNCHANGED pending)
    PROVE  BankInUse' /\ Stored' /\ OnlyStored' /\ Copies' /\ Compaction'
<1>0. /\ flash \in Flash /\ active \in Bank /\ Other \in Bank /\ Other # active
      /\ weakReferences \in Seq(Weak)
      /\ Unsequenced \in Nat /\ Unsequenced > 1
  BY Facts DEF StoreInv, TypeInv, PersistenceAssumption
<1>1. \A b \in Bank, n \in Slot :
         \/ flash'[b].slots[n] = flash[b].slots[n]
         \/ ~IsGood(flash[b].slots[n]) /\ ~IsGood(flash'[b].slots[n])
  <2>1. CASE UNCHANGED flash
    BY <2>1
  <2>2. CASE SetFirstSequence
    BY <1>0, <2>2 DEF SetFirstSequence, Flash
  <2>3. ASSUME NEW b \in Bank, NEW i \in DOMAIN weakReferences,
               FreeSlot(b) # 0, WriteHeader(i, b)
        PROVE  \A c \in Bank, n \in Slot :
                  \/ flash'[c].slots[n] = flash[c].slots[n]
                  \/ ~IsGood(flash[c].slots[n]) /\ ~IsGood(flash'[c].slots[n])
    <3>1. /\ flash[b].slots[FreeSlot(b)] = Erased
          /\ flash'[b].slots[FreeSlot(b)].written = 0
          /\ \A c \in Bank, m \in Slot :
                c # b \/ m # FreeSlot(b) => flash'[c].slots[m] = flash[c].slots[m]
      BY <2>3, WriteHeaderIs DEF StoreInv, TypeInv
    <3>2. /\ ~IsGood(flash[b].slots[FreeSlot(b)])
          /\ ~IsGood(flash'[b].slots[FreeSlot(b)])
      BY <3>1 DEF IsGood, HeaderIsGood
    <3>. QED BY <3>1, <3>2
  <2>4. CASE FlushHeader
    BY <1>0, <2>3, <2>4, Walks DEF FlushHeader
  <2>5. CASE CopyHeader
    <3>1. CASE WriteHeader(First(NeedsCopy), Other) /\ First(NeedsCopy) # 0 /\ FreeSlot(Other) # 0
      BY <1>0, <2>3, <3>1, Walks
    <3>. QED BY <2>1, <2>5, <3>1 DEF CopyHeader
  <2>6. CASE WriteFails \/ (WriteNext /\ UNCHANGED pending)
    <3>. DEFINE b == pending.bank
                n == pending.slot
    <3>1. /\ pending # NoPending /\ b \in Bank /\ n \in Slot
          /\ Pending = flash[b].slots[n] /\ Pending \in Entries
          /\ Pending.written \in Nat /\ Pending.written + 1 <= Complete
      BY <2>6, WrittenIs DEF WriteFails, WriteNext, Pending, StoreInv
    <3>. HIDE DEF b, n
    <3>2. ~IsGood(flash[b].slots[n])
      BY <3>1 DEF IsGood, Complete
    <3>3. CASE WriteFails
      <4>1. flash' = Delete(flash, b, n)
        BY <3>3 DEF WriteFails, b, n
      <4>2. /\ flash'[b].slots[n] = [Pending EXCEPT !.live = FALSE]
            /\ \A c \in Bank, m \in Slot :
                  c # b \/ m # n => flash'[c].slots[m] = flash[c].slots[m]
        BY <1>0, <3>1, <4>1, DeleteProperties
      <4>3. ~IsGood([Pending EXCEPT !.live = FALSE])
        BY <3>1 DEF IsGood, Entries
      <4>. QED BY <3>2, <4>2, <4>3
    <3>4. CASE WriteNext /\ UNCHANGED pending
      <4>1. flash' = Written /\ Pending.written + 1 < Complete
        BY <3>1, <3>4 DEF WriteNext
      <4>2. /\ flash'[b].slots[n] = [Pending EXCEPT !.written = Pending.written + 1]
            /\ \A c \in Bank, m \in Slot :
                  c # b \/ m # n => flash'[c].slots[m] = flash[c].slots[m]
        BY <3>1, <4>1, WrittenIs DEF b, n, StoreInv
      <4>3. ~IsGood([Pending EXCEPT !.written = Pending.written + 1])
        BY <3>1, <4>1 DEF IsGood, Entries
      <4>. QED BY <3>2, <4>2, <4>3
    <3>. QED BY <2>6, <3>3, <3>4
  <2>7. CASE Callback \/ FlushAll \/ Synchronized \/ TriggerCopy \/ NoMemory \/ NoIdleTime
             \/ NothingToFlush
    BY <2>1, <2>7 DEF Callback, FlushAll, Synchronized, TriggerCopy, NoMemory, NoIdleTime,
                      NothingToFlush
  <2>. QED BY <2>2, <2>4, <2>5, <2>6, <2>7
<1>2. UNCHANGED <<active, target, copied, latest>>
  <2>1. CASE SetFirstSequence \/ Callback \/ FlushAll \/ Synchronized \/ TriggerCopy
             \/ NoMemory \/ NoIdleTime \/ NothingToFlush \/ WriteFails
    BY <2>1 DEF SetFirstSequence, Callback, FlushAll, Synchronized, TriggerCopy, NoMemory,
                NoIdleTime, NothingToFlush, WriteFails, AdvanceVars, clientVars
  <2>2. CASE FlushHeader \/ CopyHeader
    BY <2>2 DEF FlushHeader, CopyHeader, AdvanceVars, clientVars
  <2>3. CASE WriteNext /\ UNCHANGED pending
    BY <2>3 DEF WriteNext, AdvanceVars, clientVars
  <2>. QED BY <2>1, <2>2, <2>3
<1>3. Stored' /\ OnlyStored' /\ Copies' /\ (OnlyCopied => OnlyCopied')
  BY <1>1, <1>2, TornEntriesOnly DEF StoreInv
<1>4. Other' = Other
  BY <1>2 DEF Other
<1>5. CASE SetFirstSequence
  <2>1. /\ running = "boot" /\ running' = "no" /\ state' = state
        /\ flash' = [flash EXCEPT ![active].sequence = 1]
    BY <1>5 DEF SetFirstSequence
  <2>2. /\ flash'[active].sequence = 1 /\ flash'[Other].sequence = flash[Other].sequence
        /\ \A b \in Bank : flash'[b].slots = flash[b].slots
    BY <1>0, <2>1 DEF Flash
  <2>3. BankInUse'
    BY <1>0, <1>2, <1>4, <2>1, <2>2 DEF StoreInv, BankInUse
  <2>4. Compaction'
    BY <1>0, <1>2, <1>3, <1>4, <2>1, <2>2 DEF StoreInv, Compaction, Copying
  <2>. QED BY <1>3, <2>3, <2>4
<1>6. CASE ~SetFirstSequence
  <2>1. running # "boot" /\ running' # "boot"
    BY <1>6 DEF Callback, FlushAll, Synchronized, TriggerCopy, NoMemory, NoIdleTime, Return,
                NothingToFlush, FlushHeader, CopyHeader, WriteFails, WriteNext, Advances
  <2>2. \A b \in Bank : flash'[b].sequence = flash[b].sequence
    <3>1. CASE UNCHANGED flash
      BY <3>1
    <3>2. CASE FlushHeader
      BY <1>0, <3>2, Walks, WriteHeaderIs DEF FlushHeader, StoreInv, TypeInv
    <3>3. CASE CopyHeader
      <4>1. CASE WriteHeader(First(NeedsCopy), Other) /\ First(NeedsCopy) # 0
                 /\ FreeSlot(Other) # 0
        <5>1. First(NeedsCopy) \in DOMAIN weakReferences
          BY <1>0, <4>1, Walks
        <5>. QED BY <1>0, <4>1, <5>1, WriteHeaderIs DEF StoreInv, TypeInv
      <4>. QED BY <3>1, <3>3, <4>1 DEF CopyHeader
    <3>4. CASE WriteNext
      BY <3>4, WrittenIs DEF WriteNext, StoreInv
    <3>5. CASE WriteFails
      <4>. DEFINE b == pending.bank
                  n == pending.slot
      <4>1. flash' = Delete(flash, b, n) /\ b \in Bank /\ n \in Slot
        BY <3>5, WrittenIs DEF WriteFails, StoreInv
      <4>. HIDE DEF b, n
      <4>2. /\ flash'[b].slots[n] = [flash[b].slots[n] EXCEPT !.live = FALSE]
            /\ \A c \in Bank : flash'[c].sequence = flash[c].sequence
        BY <1>0, <4>1, DeleteProperties
      <4>. QED BY <4>2
    <3>6. CASE Callback \/ FlushAll \/ Synchronized \/ TriggerCopy \/ NoMemory \/ NoIdleTime
               \/ NothingToFlush
      BY <3>1, <3>6 DEF Callback, FlushAll, Synchronized, TriggerCopy, NoMemory, NoIdleTime,
                        NothingToFlush
    <3>. QED BY <1>6, <3>2, <3>3, <3>4, <3>5, <3>6
  <2>3. BankInUse'
    BY <1>0, <1>2, <1>4, <2>1, <2>2 DEF StoreInv, BankInUse
  <2>4. \/ state' = state /\ (state = "Format" => UNCHANGED flash)
        \/ state' \in {"Idle", "Erase", "FlushNextObject"}
        \/ state = "CopyToOtherBank" /\ state' = "CopyBackToRam"
    <3>1. CASE Callback \/ FlushAll
      BY <3>1 DEF Callback, FlushAll
    <3>2. CASE Synchronized \/ TriggerCopy \/ NoMemory
      BY <3>2 DEF Synchronized, TriggerCopy, NoMemory, Return
    <3>3. CASE NoIdleTime
      BY <3>3 DEF NoIdleTime, Return
    <3>4. CASE NothingToFlush
      BY <3>4 DEF NothingToFlush
    <3>5. CASE FlushHeader \/ WriteNext \/ WriteFails
      BY <3>5 DEF FlushHeader, WriteNext, WriteFails
    <3>6. CASE CopyHeader
      BY <3>6 DEF CopyHeader
    <3>. QED BY <1>6, <3>1, <3>2, <3>3, <3>4, <3>5, <3>6
  <2>5. Compaction'
    BY <1>2, <1>3, <1>4, <2>4 DEF StoreInv, Compaction, Copying
  <2>. QED BY <1>3, <2>3, <2>5
<1>. QED BY <1>5, <1>6


\* The last write of an object: it is stored from now on, or copied.
LEMMA LastWriteKeepsStored ==
    ASSUME PersistenceAssumption, StoreInv, WriteNext, pending' # pending
    PROVE  BankInUse' /\ Stored' /\ OnlyStored' /\ Copies' /\ Compaction'
<1>. DEFINE w == pending.object
            b == pending.bank
            n == pending.slot
<1>1. /\ Advances /\ pending # NoPending /\ flash' = Written
      /\ UNCHANGED <<state, running, active, latest>>
      /\ ~(Pending.written + 1 < Complete)
      /\ \/ /\ state = "FlushNextObject"
            /\ target' = [target EXCEPT ![w] = n] /\ UNCHANGED copied
         \/ /\ state = "CopyToOtherBank"
            /\ copied' = [copied EXCEPT ![w] = n] /\ UNCHANGED target
  BY DEF WriteNext, AdvanceVars, clientVars
<1>2. /\ w \in Weak /\ b \in Bank /\ n \in Slot /\ Pending \in Entries
      /\ Pending.written \in Nat /\ Pending.written + 1 = Complete
      /\ flash'[b].slots[n] = [Pending EXCEPT !.written = Pending.written + 1]
      /\ \A c \in Bank : flash'[c].sequence = flash[c].sequence
      /\ \A c \in Bank, m \in Slot : c # b \/ m # n => flash'[c].slots[m] = flash[c].slots[m]
  BY <1>1, WrittenIs DEF StoreInv, Complete
<1>3. /\ Pending = flash[b].slots[n]
      /\ Pending.object = w /\ Pending.version = latest[w] /\ Pending.live = TRUE
      /\ state = "FlushNextObject" => b = active /\ NeedsFlush(w) /\ \A v \in Weak : copied[v] = 0
      /\ state = "CopyToOtherBank" => b = Other /\ NeedsCopy(w)
  BY <1>1 DEF StoreInv, TypeInv, Torn, Pending
<1>4. flash'[b].slots[n] = Whole(w) /\ \A v \in Weak : flash[b].slots[n] # Whole(v)
  <2>1. flash'[b].slots[n] = Whole(w)
    BY <1>2, <1>3 DEF Entries, Whole
  <2>2. \A v \in Weak : Whole(v).written = Complete
    BY WholeIsGood
  <2>3. flash[b].slots[n].written + 1 = Complete /\ flash[b].slots[n].written \in Nat
    BY <1>2, <1>3
  <2>4. \A v \in Weak : flash[b].slots[n] # Whole(v)
    BY <2>2, <2>3 DEF Complete
  <2>. QED BY <2>1, <2>4
<1>5. /\ active \in Bank /\ Other \in Bank /\ Other # active /\ Other' = Other
      /\ \A v \in Weak : copied[v] # 0 => copied[v] \in Slot
      /\ target \in [Weak -> {Nothing, Ram} \cup Slot] /\ copied \in [Weak -> 0 .. Slots]
      /\ Ram \notin Slot /\ 0 \notin Slot
      /\ \A v \in Weak : Whole(v)' = Whole(v)
  BY <1>1, Facts DEF StoreInv, TypeInv, Other, Whole
<1>. HIDE DEF w, b, n
<1>6. BankInUse'
  BY <1>1, <1>2, <1>5 DEF StoreInv, BankInUse
<1>7. CASE state = "FlushNextObject"
  <2>1. /\ b = active /\ target[w] = Ram /\ \A v \in Weak : copied[v] = 0
        /\ target' = [target EXCEPT ![w] = n] /\ UNCHANGED copied
    BY <1>1, <1>3, <1>7 DEF NeedsFlush
  <2>2. \A v \in Weak : target'[v] = IF v = w THEN n ELSE target[v]
    BY <1>5, <2>1
  <2>3. Stored'
    <3>1. SUFFICES ASSUME NEW v \in Weak, target'[v] \in Slot
                   PROVE  flash'[active].slots[target'[v]] = Whole(v)
      BY <1>1, <1>5 DEF Stored
    <3>2. CASE v = w
      BY <1>4, <2>1, <2>2, <3>2
    <3>3. CASE v # w
      <4>1. target'[v] = target[v] /\ flash[active].slots[target[v]] = Whole(v)
        BY <2>2, <3>1, <3>3 DEF StoreInv, Stored
      <4>. QED BY <1>2, <1>4, <1>5, <2>1, <3>1, <4>1
    <3>. QED BY <3>2, <3>3
  <2>4. OnlyStored'
    <3>1. SUFFICES ASSUME NEW m \in Slot, IsGood(flash'[active].slots[m])
                   PROVE  /\ flash'[active].slots[m].object \in Weak
                          /\ target'[flash'[active].slots[m].object] = m
      BY <1>1 DEF OnlyStored
    <3>2. CASE m = n
      <4>1. flash'[active].slots[m].object = w
        <5>1. flash'[active].slots[m] = Whole(w)
          BY <1>4, <2>1, <3>2
        <5>. QED BY <1>2, <5>1, WholeIsGood
      <4>. QED BY <1>2, <2>2, <3>2, <4>1
    <3>3. CASE m # n
      <4>1. flash'[active].slots[m] = flash[active].slots[m]
        BY <1>2, <1>5, <2>1, <3>3
      <4>2. /\ flash[active].slots[m].object \in Weak
            /\ target[flash[active].slots[m].object] = m
        BY <3>1, <4>1 DEF StoreInv, OnlyStored
      <4>. QED BY <1>5, <2>1, <2>2, <4>1, <4>2
    <3>. QED BY <3>2, <3>3
  <2>5. Copies' /\ Compaction'
    BY <1>1, <1>7, <2>1 DEF Copies, Compaction, Copying
  <2>. QED BY <1>6, <2>3, <2>4, <2>5
<1>8. CASE state = "CopyToOtherBank"
  <2>1. /\ b = Other /\ target[w] \in Slot /\ copied[w] = 0
        /\ copied' = [copied EXCEPT ![w] = n] /\ UNCHANGED target
    BY <1>1, <1>3, <1>8 DEF NeedsCopy
  <2>2. \A v \in Weak : copied'[v] = IF v = w THEN n ELSE copied[v]
    BY <1>5, <2>1
  <2>3. Stored' /\ OnlyStored'
    <3>1. \A m \in Slot : flash'[active].slots[m] = flash[active].slots[m]
      BY <1>2, <1>5, <2>1
    <3>. QED BY <1>1, <1>5, <2>1, <3>1 DEF StoreInv, Stored, OnlyStored
  <2>4. Copies'
    <3>1. SUFFICES ASSUME NEW v \in Weak, copied'[v] # 0, target[v] \in Slot
                   PROVE  flash'[Other].slots[copied'[v]] = Whole(v)
      BY <1>1, <1>5, <2>1 DEF Copies
    <3>2. CASE v = w
      BY <1>4, <2>1, <2>2, <3>2
    <3>3. CASE v # w
      <4>1. copied'[v] = copied[v] /\ flash[Other].slots[copied[v]] = Whole(v)
        BY <2>2, <3>1, <3>3 DEF StoreInv, Copies
      <4>. QED BY <1>2, <1>4, <1>5, <2>1, <3>1, <4>1
    <3>. QED BY <3>2, <3>3
  <2>5. OnlyCopied'
    <3>1. SUFFICES ASSUME NEW m \in Slot, IsGood(flash'[Other].slots[m])
                   PROVE  /\ flash'[Other].slots[m].object \in Weak
                          /\ copied'[flash'[Other].slots[m].object] = m
      BY <1>5 DEF OnlyCopied
    <3>2. CASE m = n
      <4>1. flash'[Other].slots[m].object = w
        <5>1. flash'[Other].slots[m] = Whole(w)
          BY <1>4, <2>1, <3>2
        <5>. QED BY <1>2, <5>1, WholeIsGood
      <4>. QED BY <1>2, <2>2, <3>2, <4>1
    <3>3. CASE m # n
      <4>1. flash'[Other].slots[m] = flash[Other].slots[m]
        BY <1>2, <1>5, <2>1, <3>3
      <4>2. OnlyCopied
        BY <1>8 DEF StoreInv, Compaction, Copying
      <4>3. /\ flash[Other].slots[m].object \in Weak
            /\ copied[flash[Other].slots[m].object] = m
        BY <3>1, <4>1, <4>2 DEF OnlyCopied
      <4>. QED BY <1>5, <2>1, <2>2, <4>1, <4>3
    <3>. QED BY <3>2, <3>3
  <2>6. Compaction'
    BY <1>1, <1>8, <2>5 DEF Compaction
  <2>. QED BY <1>6, <2>3, <2>4, <2>6
<1>. QED BY <1>1, <1>7, <1>8


\* The other bank is erased before anything is copied to it.
LEMMA CompactionKeepsStored ==
    ASSUME PersistenceAssumption, BlockSlots = Slots, StoreInv,
           Erase \/ EraseSector \/ EraseFails \/ Format
    PROVE  BankInUse' /\ Stored' /\ OnlyStored' /\ Copies' /\ Compaction'
<1>1. /\ Advances /\ UNCHANGED <<target, active, running, latest>>
      /\ \A w \in Weak : copied'[w] = 0
  BY DEF Erase, EraseSector, EraseFails, Format, AdvanceVars, clientVars, StoreInv, TypeInv,
         FromFlash
<1>2. /\ active \in Bank /\ Other \in Bank /\ Other # active /\ Other' = Other
      /\ flash \in Flash /\ Slots \in Nat /\ Unsequenced \in Nat
  BY <1>1, Facts DEF StoreInv, TypeInv, Other
<1>3. /\ flash'[active] = flash[active]
      /\ \/ flash'[Other] = flash[Other]
         \/ flash'[Other].sequence \in {0, Unsequenced}
  BY <1>2 DEF Erase, EraseSector, EraseFails, FirstBlockErased, Format, Flash
<1>4. BankInUse'
  <2>1. running # "boot"
    BY <1>1 DEF Advances
  <2>2. flash[active].sequence \in 1 .. (Unsequenced - 1)
    BY <2>1 DEF StoreInv, BankInUse
  <2>3. \/ flash'[Other].sequence < flash'[active].sequence
        \/ flash'[Other].sequence = Unsequenced
    BY <1>2, <1>3, <2>1, <2>2 DEF StoreInv, BankInUse
  <2>. QED BY <1>1, <1>2, <1>3, <2>1, <2>2, <2>3 DEF BankInUse
<1>5. Stored' /\ OnlyStored'
  BY <1>1, <1>3 DEF StoreInv, Stored, OnlyStored, Whole
<1>6. Copies'
  BY <1>1 DEF Copies
<1>7. Compaction'
  <2>1. CASE Erase
    BY <2>1 DEF Erase, Compaction, Copying
  <2>2. CASE EraseSector
    <3>1. \A n \in Slot : flash'[Other].slots[n] = Erased
      BY <1>2, <2>2 DEF EraseSector, FirstBlockErased, Flash, Slot
    <3>2. state' = "Format"
      BY <2>2 DEF EraseSector
    <3>. QED BY <1>2, <3>1, <3>2 DEF Compaction, Copying
  <2>3. CASE Format
    <3>1. \A n \in Slot : flash'[Other].slots[n] = Erased
      BY <1>2, <2>3 DEF Format, Flash, StoreInv, Compaction
    <3>2. ~IsGood(Erased)
      BY DEF IsGood, HeaderIsGood
    <3>3. OnlyCopied'
      BY <1>2, <3>1, <3>2 DEF OnlyCopied
    <3>4. state' = "CopyToOtherBank"
      BY <2>3 DEF Format
    <3>. QED BY <3>3, <3>4 DEF Compaction
  <2>4. CASE EraseFails
    BY <2>4 DEF EraseFails, Compaction, Copying
  <2>. QED BY <2>1, <2>2, <2>3, <2>4
<1>. QED BY <1>4, <1>5, <1>6, <1>7

\* What goes back to RAM is deleted, and the banks are switched when there is
\* nothing left that would.
LEMMA RevertKeepsStored ==
    ASSUME PersistenceAssumption, StoreInv, RevertToRam
    PROVE  BankInUse' /\ Stored' /\ OnlyStored' /\ Copies' /\ Compaction'
<1>. DEFINE i == First(NeedsRevert)
            w == weakReferences[i]
            n == target[w]
<1>1. /\ Advances /\ state = "CopyBackToRam"
      /\ UNCHANGED <<copied, active, running, latest>>
  BY DEF RevertToRam, AdvanceVars, clientVars
<1>2. /\ active \in Bank /\ Other \in Bank /\ Other # active /\ Other' = Other
      /\ flash \in Flash /\ weakReferences \in Seq(Weak)
      /\ target \in [Weak -> {Nothing, Ram} \cup Slot]
      /\ Ram \notin Slot
      /\ \A v \in Weak : copied[v] # 0 => copied[v] \in Slot
      /\ \A v \in Weak : Whole(v)' = Whole(v)
  BY <1>1, Facts DEF StoreInv, TypeInv, Other, Whole
<1>3. CASE i = 0
  <2>1. state' = "SwitchBank" /\ UNCHANGED <<flash, target>>
    BY <1>3 DEF RevertToRam
  <2>2. ASSUME NEW v \in Weak, target[v] \in Slot PROVE copied[v] # 0
    <3>1. v \in ToSet(weakReferences)
      BY <2>2, Facts DEF StoreInv, TypeInv, Linked
    <3>2. PICK j \in DOMAIN weakReferences : weakReferences[j] = v
      BY <1>2, <3>1, Walks
    <3>3. ~NeedsRevert(v)
      BY <1>2, <1>3, <3>2, Walks
    <3>4. IsGood(flash[active].slots[target[v]])
      BY <2>2, WholeIsGood DEF StoreInv, Stored
    <3>. QED BY <2>2, <3>3, <3>4 DEF NeedsRevert, NeedsCopy
  <2>3. BankInUse' /\ Stored' /\ OnlyStored' /\ Copies'
    BY <1>1, <1>2, <2>1 DEF StoreInv, BankInUse, Stored, OnlyStored, Copies
  <2>4. Compaction'
    BY <1>1, <1>2, <2>1, <2>2 DEF StoreInv, Compaction, Copying, OnlyCopied
  <2>. QED BY <2>3, <2>4
<1>4. CASE i # 0
  <2>1. w \in Weak /\ NeedsRevert(w)
    BY <1>2, <1>4, Walks
  <2>2. /\ target' = [target EXCEPT ![w] = Ram] /\ state' = state
        /\ flash' = Delete(flash, active, n)
    BY <1>4 DEF RevertToRam
  <2>. HIDE DEF i, w
  <2>3. /\ n \in Slot /\ flash[active].slots[n] = Whole(w)
        /\ \A v \in Weak : target'[v] = IF v = w THEN Ram ELSE target[v]
    BY <1>2, <2>1, <2>2 DEF NeedsRevert, NeedsCopy, StoreInv, Stored
  <2>4. n = target[w]
    OBVIOUS
  <2>. HIDE DEF n
  <2>5. /\ flash'[active].slots[n] = [flash[active].slots[n] EXCEPT !.live = FALSE]
        /\ \A c \in Bank : flash'[c].sequence = flash[c].sequence
        /\ \A c \in Bank, m \in Slot :
              c # active \/ m # n => flash'[c].slots[m] = flash[c].slots[m]
    BY <1>2, <2>2, <2>3, DeleteProperties
  <2>6. ~IsGood(flash'[active].slots[n])
    BY <2>3, <2>5 DEF IsGood, Whole
  <2>7. BankInUse'
    BY <1>1, <1>2, <2>5 DEF StoreInv, BankInUse
  <2>8. Stored'
    <3>1. SUFFICES ASSUME NEW v \in Weak, target'[v] \in Slot
                   PROVE  flash'[active].slots[target'[v]] = Whole(v)
      BY <1>1, <1>2 DEF Stored
    <3>2. v # w /\ target'[v] = target[v] /\ flash[active].slots[target[v]] = Whole(v)
      BY <1>2, <2>3, <3>1 DEF StoreInv, Stored
    <3>3. Whole(v).object = v /\ Whole(w).object = w
      BY <2>1, WholeIsGood
    <3>4. target[v] # n
      BY <2>3, <3>2, <3>3
    <3>. QED BY <1>2, <2>5, <3>1, <3>2, <3>4
  <2>9. OnlyStored'
    <3>1. SUFFICES ASSUME NEW m \in Slot, IsGood(flash'[active].slots[m])
                   PROVE  /\ flash'[active].slots[m].object \in Weak
                          /\ target'[flash'[active].slots[m].object] = m
      BY <1>1 DEF OnlyStored
    <3>2. m # n /\ flash'[active].slots[m] = flash[active].slots[m]
      BY <1>2, <2>5, <2>6, <3>1
    <3>3. /\ flash[active].slots[m].object \in Weak
          /\ target[flash[active].slots[m].object] = m
      BY <3>1, <3>2 DEF StoreInv, OnlyStored
    <3>. QED BY <2>3, <2>4, <3>2, <3>3
  <2>10. \A m \in Slot : flash'[Other].slots[m] = flash[Other].slots[m]
    BY <1>2, <2>5
  <2>11. Copies'
    <3>1. SUFFICES ASSUME NEW v \in Weak, copied[v] # 0, target'[v] \in Slot
                   PROVE  flash'[Other].slots[copied[v]] = Whole(v)
      BY <1>1, <1>2 DEF Copies
    <3>2. flash[Other].slots[copied[v]] = Whole(v)
      BY <1>2, <2>3, <3>1 DEF StoreInv, Copies
    <3>. QED BY <1>2, <2>10, <3>1, <3>2
  <2>12. Compaction'
    <3>1. OnlyCopied'
      BY <1>1, <1>2, <2>10 DEF StoreInv, Compaction, Copying, OnlyCopied
    <3>. QED BY <1>1, <2>2, <3>1 DEF Compaction
  <2>. QED BY <2>7, <2>8, <2>9, <2>11, <2>12
<1>. QED BY <1>3, <1>4

\* The other bank takes over with the next sequence number, and has everything
\* that was persisted.
LEMMA SwitchKeepsStored ==
    ASSUME PersistenceAssumption, ~FailsUnsequenced, StoreInv, NoWrap, SwitchBank
    PROVE  BankInUse' /\ Stored' /\ OnlyStored' /\ Copies' /\ Compaction'
<1>1. /\ Advances /\ state = "SwitchBank" /\ state' = "FlushNextObject"
      /\ active' = Other /\ running' = running
      /\ copied' = [w \in Weak |-> 0]
      /\ target' = [w \in Weak |-> IF copied[w] # 0 THEN copied[w] ELSE target[w]]
      /\ flash' = [flash EXCEPT ![Other].sequence =
                      (flash[active].sequence + 1) % (Unsequenced + 1)]
      /\ latest' = latest
  BY DEF SwitchBank, clientVars
<1>2. /\ active \in Bank /\ Other \in Bank /\ Other # active /\ Other' = active
      /\ \A b \in Bank : b = active \/ b = Other
      /\ flash \in Flash /\ Unsequenced \in Nat
      /\ \A w \in Weak : copied[w] # 0 => copied[w] \in Slot
      /\ \A w \in Weak : Whole(w)' = Whole(w)
      /\ 0 \notin Slot
  <2>1. /\ active \in Bank /\ Other \in Bank /\ Other # active
        /\ \A b \in Bank : b = active \/ b = Other
        /\ flash \in Flash /\ Unsequenced \in Nat
        /\ \A w \in Weak : copied[w] # 0 => copied[w] \in Slot
        /\ 0 \notin Slot
    BY Facts DEF StoreInv, TypeInv
  <2>2. active' \in Bank /\ Other' \in Bank /\ Other' # active'
    <3>1. \E b \in Bank : b # active'
      BY <1>1, <2>1
    <3>. QED BY <1>1, <2>1, <3>1 DEF Other
  <2>. QED BY <1>1, <2>1, <2>2 DEF Whole
<1>3. BankInUse'
  <2>. DEFINE s == flash[active].sequence
  <2>1. running # "boot" /\ s \in 1 .. (Unsequenced - 1) /\ s + 1 # Unsequenced
    BY <1>1 DEF Advances, StoreInv, BankInUse, NoWrap
  <2>. HIDE DEF s
  <2>2. (s + 1) % (Unsequenced + 1) = s + 1
    BY <1>2, <2>1
  <2>3. flash'[Other].sequence = s + 1 /\ flash'[active].sequence = s
    BY <1>1, <1>2, <2>2 DEF Flash, s
  <2>. QED BY <1>1, <1>2, <2>1, <2>3 DEF BankInUse
<1>4. \A n \in Slot : flash'[Other].slots[n] = flash[Other].slots[n]
  BY <1>1, <1>2 DEF Flash
<1>5. ASSUME NEW w \in Weak, target'[w] \in Slot
      PROVE  /\ copied[w] # 0 /\ target'[w] = copied[w]
             /\ flash[Other].slots[copied[w]] = Whole(w)
  <2>1. copied[w] # 0
    BY <1>1, <1>5 DEF StoreInv, Compaction
  <2>2. target[w] \in Slot
    BY <1>1, <2>1 DEF StoreInv, TypeInv, FromFlash, Copying
  <2>. QED BY <1>1, <2>1, <2>2 DEF StoreInv, Copies
<1>6. Stored'
  BY <1>1, <1>2, <1>4, <1>5 DEF Stored
<1>7. OnlyStored'
  <2>1. SUFFICES ASSUME NEW n \in Slot, IsGood(flash'[Other].slots[n])
                 PROVE  /\ flash'[Other].slots[n].object \in Weak
                        /\ target'[flash'[Other].slots[n].object] = n
    BY <1>1 DEF OnlyStored
  <2>2. /\ flash[Other].slots[n].object \in Weak
        /\ copied[flash[Other].slots[n].object] = n
    BY <1>1, <1>4, <2>1 DEF StoreInv, Compaction, Copying, OnlyCopied
  <2>. QED BY <1>1, <1>2, <1>4, <2>2
<1>8. Copies' /\ Compaction'
  BY <1>1 DEF Copies, Compaction, Copying
<1>. QED BY <1>3, <1>6, <1>7, <1>8


LEMMA BeginsStored == ASSUME PersistenceAssumption, Init PROVE StoreInv
<1>1. TypeInv
  BY BeginsTypeCorrect
<1>2. active = "STORAGE_A" /\ Other = "STORAGE_B" /\ active \in Bank /\ Other \in Bank
  BY <1>1, OtherIsBank DEF Init, Bank
<1>3. /\ flash[active].sequence = Unsequenced /\ flash[Other].sequence = 0
      /\ \A n \in Slot : flash[active].slots[n] = Erased
  BY <1>2 DEF Init
<1>4. BankInUse
  BY <1>3 DEF Init, BankInUse
<1>5. ~IsGood(Erased)
  BY DEF IsGood, HeaderIsGood
<1>6. Stored /\ OnlyStored
  <2>1. \A w \in Weak : target[w] \notin Slot
    BY Facts, <1>1 DEF Init, TypeInv
  <2>. QED BY <1>3, <1>5, <2>1 DEF Stored, OnlyStored
<1>7. Copies /\ Compaction
  BY DEF Init, Copies, Compaction, Copying
<1>. QED BY <1>1, <1>4, <1>6, <1>7 DEF StoreInv

LEMMA NextKeepsStored ==
    ASSUME PersistenceAssumption, ~FailsUnsequenced, BlockSlots = Slots,
           StoreInv, NoWrap, [Next]_vars
    PROVE  StoreInv'
<1>1. TypeInv'
  BY NextKeepsTypes DEF StoreInv
<1>2. CASE PowerFails \/ RebootClr
  BY <1>1, <1>2, RestartKeepsStored DEF StoreInv
<1>3. CASE \E w \in Weak : SetTarget(w) \/ InsertInPriorityOrder(w) \/ Collect(w)
  BY <1>1, <1>3, ClientsKeepStored DEF StoreInv
<1>4. CASE SetFirstSequence \/ Callback \/ FlushAll \/ Synchronized \/ TriggerCopy
           \/ NoMemory \/ NoIdleTime \/ NothingToFlush \/ FlushHeader \/ CopyHeader
           \/ WriteFails
  <2>1. BankInUse' /\ Stored' /\ OnlyStored' /\ Copies' /\ Compaction'
    BY <1>4, TornStepsKeepStored
  <2>. QED BY <1>1, <2>1 DEF StoreInv
<1>5. CASE WriteNext
  BY <1>1, <1>5, TornStepsKeepStored, LastWriteKeepsStored DEF StoreInv
<1>6. CASE Erase \/ EraseSector \/ EraseFails \/ Format
  BY <1>1, <1>6, CompactionKeepsStored DEF StoreInv
<1>7. CASE RevertToRam
  BY <1>1, <1>7, RevertKeepsStored DEF StoreInv
<1>8. CASE SwitchBank
  BY <1>1, <1>8, SwitchKeepsStored DEF StoreInv
<1>9. CASE UNCHANGED vars \/ NoSectorLeft
  <2>1. UNCHANGED vars
    BY <1>9 DEF NoSectorLeft
  <2>. QED
    BY <1>1, <2>1 DEF vars, clientVars, StoreInv, BankInUse, Stored, OnlyStored, Copies,
                      Compaction, Copying, OnlyCopied, Other, Whole
<1>. QED
  BY <1>2, <1>3, <1>4, <1>5, <1>6, <1>7, <1>8, <1>9 DEF Next, AdvanceState

\* A reference that is marked as persisted has its object in the bank in use,
\* whole and not deleted, and its copy, if there is one, in the other bank:
\* however flushes, compactions that are begun again, deletions by the clients,
\* writes that fail and losses of power come one after another.
THEOREM PersistedStaysStored ==
    ASSUME PersistenceAssumption, ~FailsUnsequenced, BlockSlots = Slots
    PROVE  Spec /\ []NoWrap => []PersistedIsStored
<1>1. Init => StoreInv
  BY BeginsStored
<1>2. StoreInv /\ NoWrap /\ [Next]_vars => StoreInv'
  BY NextKeepsStored
<1>3. StoreInv => PersistedIsStored
  BY DEF StoreInv, PersistedIsStored, Stored, Copies, Whole
<1>. QED BY <1>1, <1>2, <1>3, PTL DEF Spec

\* If the power fails, what is marked as persisted comes back, and what comes
\* back is the latest object of its reference, once: the bank that a restart
\* chooses is the one in use, and has nothing good in it that was replaced,
\* dropped or half written.
THEOREM RestartLosesNothing ==
    ASSUME PersistenceAssumption, ~FailsUnsequenced, BlockSlots = Slots
    PROVE  Spec /\ []NoWrap => []RestartKeeps
<1>1. Init => StoreInv
  BY BeginsStored
<1>2. StoreInv /\ NoWrap /\ [Next]_vars => StoreInv'
  BY NextKeepsStored
<1>3. StoreInv => RestartKeeps
  <2>1. SUFFICES ASSUME StoreInv, Sequenced, NEW w \in Weak
                 PROVE  /\ target[w] \in Slot => Restored(w) # {}
                        /\ Cardinality(Restored(w)) <= 1
                        /\ \A n \in Restored(w) : flash[Chosen].slots[n].version = latest[w]
    BY DEF RestartKeeps
  <2>2. Chosen = active /\ Restored(w) = IF target[w] \in Slot THEN {target[w]} ELSE {}
    BY <2>1, RestartFinds
  <2>3. CASE target[w] \in Slot
    <3>1. Cardinality({target[w]}) = 1
      BY FS_Singleton
    <3>2. flash[active].slots[target[w]].version = latest[w]
      BY <2>1, <2>3, WholeIsGood DEF StoreInv, Stored
    <3>. QED BY <2>2, <2>3, <3>1, <3>2
  <2>4. CASE target[w] \notin Slot
    <3>1. Cardinality({}) = 0
      BY FS_EmptySet
    <3>. QED BY <2>2, <2>4, <3>1
  <2>. QED BY <2>3, <2>4
<1>. QED BY <1>1, <1>2, <1>3, PTL DEF Spec

=============================================================================
