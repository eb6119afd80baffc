---------------------- MODULE FinalizationQueue_proofs ----------------------
(***************************************************************************)
(* Proofs about the finalization queue, for every set of ids, window and   *)
(* budget: the cursor is sound and nothing is finalized early whatever     *)
(* fails; and with a budget of two or more probes, no more deposits a      *)
(* block than finalizations a block and no failing settlement, everything  *)
(* is finalized in the very block its window ends.                         *)
(***************************************************************************)
EXTENDS FinalizationQueue, FiniteSetTheorems, TLAPS

\* An id has at most one entry in the queue.
UniqueEntry == \A p, q \in pending : p[2] = q[2] => p = q

\* The inductive strengthening of NeverEarly and CursorSound.
SweepInv ==
  /\ TypeOK
  /\ UniqueEntry
  /\ phase = "dispatch" => due = {}
  /\ cursor <= block + 1
  /\ NeverEarly
  /\ CursorSound

-----------------------------------------------------------------------------
(* What one probe takes. *)

\* A prefix is a finite set of ids.
LEMMA PrefixFinite ==
  ASSUME NEW e
  PROVE  /\ Prefix(e) \in SUBSET Ids
         /\ IsFiniteSet(Prefix(e))
         /\ Cardinality(Prefix(e)) \in Nat
<1>1. Prefix(e) \in SUBSET Ids
  BY DEF Prefix
<1>2. IsFiniteSet(Prefix(e))
  BY <1>1, FS_Subset, QueueAssumption
<1> QED
  BY <1>1, <1>2, FS_CardinalityType

\* A probe takes part of its prefix, within the budget, and takes all of it
\* unless the budget is used up.
LEMMA TakesBounded ==
  ASSUME TypeOK, NEW e, NEW ids \in Takes(e)
  PROVE  /\ ids \subseteq Prefix(e)
         /\ Cardinality(ids) \in Nat
         /\ remaining - Cardinality(ids) \in Nat
         /\ remaining - Cardinality(ids) > 0 => ids = Prefix(e)
<1>1. ids \in SUBSET Prefix(e)
  BY DEF Takes
<1>2. Cardinality(ids) \in Nat
  BY <1>1, PrefixFinite, FS_Subset, FS_CardinalityType
<1>3. \/ ids = Prefix(e) /\ Cardinality(ids) <= remaining
      \/ Cardinality(ids) = remaining
  BY DEF Takes
<1> QED
  BY <1>1, <1>2, <1>3 DEF TypeOK

-----------------------------------------------------------------------------
(* The cursor is sound whatever fails. *)

LEMMA SweepInvInit == Init => SweepInv
  BY QueueAssumption DEF Init, SweepInv, TypeOK, UniqueEntry, NeverEarly, CursorSound

LEMMA SweepInvStep == SweepInv /\ [Next]_vars => SweepInv'
<1> SUFFICES ASSUME SweepInv, [Next]_vars PROVE SweepInv'
  OBVIOUS
<1> USE DEF SweepInv
<1>1. CASE BeginBlock
  BY <1>1, QueueAssumption DEF BeginBlock, TypeOK, UniqueEntry, NeverEarly, CursorSound
<1>2. CASE ProbePrefix
  <2>1. PICK ids \in Takes(cursor) :
          /\ due' = ids
          /\ remaining' = remaining - Cardinality(ids)
          /\ probes' = probes - 1
          /\ cursor' = IF remaining - Cardinality(ids) > 0 /\ probes - 1 > 0
                         THEN cursor + 1
                         ELSE cursor
    BY <1>2 DEF ProbePrefix
  <2>2. /\ ids \subseteq Prefix(cursor)
        /\ remaining - Cardinality(ids) \in Nat
        /\ remaining - Cardinality(ids) > 0 => ids = Prefix(cursor)
    BY TakesBounded
  <2>3. TypeOK'
    BY <1>2, <2>1, <2>2, PrefixFinite DEF ProbePrefix, Scanning, TypeOK
  <2>4. cursor' <= block' + 1
    BY <1>2, <2>1 DEF ProbePrefix, Scanning, TypeOK
  <2>5. UniqueEntry' /\ (phase = "dispatch" => due = {})'
    BY <1>2 DEF ProbePrefix, UniqueEntry
  <2>6. NeverEarly'
    <3> SUFFICES ASSUME NEW p \in pending, p[2] \in ids PROVE p[1] <= block
      BY <1>2, <2>1 DEF ProbePrefix, NeverEarly
    <3>1. <<cursor, p[2]>> \in pending
      BY <2>2 DEF Prefix
    <3>2. p = <<cursor, p[2]>>
      BY <3>1 DEF UniqueEntry
    <3> QED
      BY <1>2, <3>2 DEF ProbePrefix, Scanning
  <2>7. CursorSound'
    <3> SUFFICES ASSUME NEW p \in pending, p[1] < cursor'
                 PROVE  p[2] \in ids \cup skipped
      BY <1>2, <2>1 DEF ProbePrefix, CursorSound
    <3>1. p = <<p[1], p[2]>> /\ p[1] \in Nat /\ p[2] \in Ids
      BY DEF TypeOK
    <3>2. CASE p[1] < cursor
      BY <1>2, <3>2 DEF ProbePrefix, CursorSound
    <3>3. CASE p[1] >= cursor
      <4>1. p[1] = cursor /\ ids = Prefix(cursor)
        BY <2>1, <2>2, <3>1, <3>3 DEF TypeOK
      <4> QED
        BY <3>1, <4>1 DEF Prefix
    <3> QED
      BY <3>1, <3>2, <3>3 DEF TypeOK
  <2> QED
    BY <2>3, <2>4, <2>5, <2>6, <2>7
<1>3. ASSUME NEW p \in pending, FinalizeOk(p[1], p[2]) PROVE SweepInv'
  <2>1. p = <<p[1], p[2]>>
    BY DEF TypeOK
  <2>2. \A q \in pending : q # p => q[2] # p[2]
    BY DEF UniqueEntry
  <2> QED
    BY <1>3, <2>1, <2>2
    DEF FinalizeOk, TypeOK, UniqueEntry, NeverEarly, CursorSound
<1>4. ASSUME NEW id \in CanFail, FinalizeErr(id) PROVE SweepInv'
  BY <1>4, QueueAssumption
  DEF FinalizeErr, TypeOK, UniqueEntry, NeverEarly, CursorSound
<1>5. CASE EndHook
  BY <1>5 DEF EndHook, TypeOK, UniqueEntry, NeverEarly, CursorSound
<1>6. ASSUME NEW id \in Ids, Deposit(id) PROVE SweepInv'
  <2>1. /\ pending' = pending \cup {<<block + Window, id>>}
        /\ UNCHANGED <<block, phase, cursor, remaining, probes, due, skipped>>
        /\ due = {}
        /\ \A p \in pending : p[2] # id
    BY <1>6 DEF Deposit, Enqueue, hookVars
  <2>2. block + Window \in Nat /\ cursor <= block + Window
    BY QueueAssumption DEF TypeOK
  <2>3. TypeOK'
    BY <2>1, <2>2 DEF TypeOK
  <2>4. UniqueEntry'
    BY <2>1 DEF UniqueEntry
  <2>5. NeverEarly' /\ CursorSound'
    BY <2>1, <2>2, QueueAssumption DEF NeverEarly, CursorSound, TypeOK
  <2> QED
    BY <2>1, <2>3, <2>4, <2>5
<1>7. ASSUME NEW p \in pending, Dequeue(p[1], p[2]) PROVE SweepInv'
  BY <1>7 DEF Dequeue, hookVars, TypeOK, UniqueEntry, NeverEarly, CursorSound
<1>8. CASE UNCHANGED vars
  BY <1>8 DEF vars, TypeOK, UniqueEntry, NeverEarly, CursorSound
<1> QED
  BY <1>1, <1>2, <1>3, <1>4, <1>5, <1>6, <1>7, <1>8 DEF Next

\* Every reachable state of the queue is well typed, whatever its size.
THEOREM TypeCorrect == Spec => []TypeOK
<1>1. SweepInv => TypeOK
  BY DEF SweepInv
<1> QED
  BY <1>1, SweepInvInit, SweepInvStep, PTL DEF Spec

\* on_initialize never collects a record whose window is still open.
THEOREM NothingFinalizedEarly == Spec => []NeverEarly
<1>1. SweepInv => NeverEarly
  BY DEF SweepInv
<1> QED
  BY <1>1, SweepInvInit, SweepInvStep, PTL DEF Spec

\* The cursor passes an entry only after trying to finalize it.
THEOREM CursorIsSound == Spec => []CursorSound
<1>1. SweepInv => CursorSound
  BY DEF SweepInv
<1> QED
  BY <1>1, SweepInvInit, SweepInvStep, PTL DEF Spec
-----------------------------------------------------------------------------
(* With enough budget nothing is late. *)

\* How far the hook of this block has come: it has not yet left the previous
\* block's prefix, or it is about to probe this block's own prefix, or it has
\* probed it and holds all of it in `due`.
AtPreviousPrefix ==
  /\ cursor = block - 1
  /\ remaining = Cap
  /\ probes = Cap
  /\ due = {}
  /\ \A p \in pending : p[1] >= block

AtOwnPrefix ==
  /\ cursor = block
  /\ remaining = Cap
  /\ probes > 0
  /\ due = {}
  /\ \A p \in pending : p[1] >= block

OwnPrefixTaken ==
  /\ cursor >= block
  /\ ~Scanning
  /\ \A p \in pending : p[1] <= block => p[2] \in due

\* The inductive strengthening of PromptFinalization.
PromptInv ==
  /\ SweepInv
  /\ \A e \in Nat : Cardinality(Prefix(e)) <= MaxPerPrefix
  /\ phase = "hook" => AtPreviousPrefix \/ AtOwnPrefix \/ OwnPrefixTaken
  /\ phase = "dispatch" => cursor >= block
  /\ PromptFinalization

\* Removing entries can only shrink a prefix.
LEMMA PrefixShrinks ==
  ASSUME NEW e, pending' \subseteq pending
  PROVE  /\ Cardinality(Prefix(e)') \in Nat
         /\ Cardinality(Prefix(e)') <= Cardinality(Prefix(e))
<1>1. Prefix(e)' \in SUBSET Prefix(e)
  BY DEF Prefix
<1> QED
  BY <1>1, PrefixFinite, FS_Subset, FS_CardinalityType

\* A probe with the whole budget takes all of a prefix no larger than it.
LEMMA WholePrefixTaken ==
  ASSUME TypeOK, remaining = Cap, NEW e, Cardinality(Prefix(e)) <= Cap,
         NEW ids \in Takes(e)
  PROVE  ids = Prefix(e)
<1>1. ids \in SUBSET Prefix(e)
  BY TakesBounded
<1>2. CASE Cardinality(ids) = Cap
  <2>1. Cardinality(ids) = Cardinality(Prefix(e))
    BY <1>1, <1>2, PrefixFinite, FS_Subset, QueueAssumption
  <2> QED
    BY <1>1, <2>1, PrefixFinite, FS_Subset
<1>3. CASE Cardinality(ids) # Cap
  BY <1>3 DEF Takes
<1> QED
  BY <1>2, <1>3

LEMMA PromptInvInit ==
  ASSUME Cap >= 2, FirstBlock = 1 PROVE Init => PromptInv
<1> SUFFICES ASSUME Init PROVE PromptInv
  OBVIOUS
<1>1. SweepInv
  BY SweepInvInit
<1>2. \A e \in Nat : Cardinality(Prefix(e)) <= MaxPerPrefix
  <2>1. \A e : Prefix(e) = {}
    BY DEF Init, Prefix
  <2> QED
    BY <2>1, FS_EmptySet, QueueAssumption
<1>3. AtPreviousPrefix
  BY DEF Init, AtPreviousPrefix
<1> QED
  BY <1>1, <1>2, <1>3 DEF PromptInv, PromptFinalization, Init

LEMMA PromptInvStep ==
  ASSUME Cap >= 2, MaxPerPrefix <= Cap, CanFail = {}
  PROVE  PromptInv /\ [Next]_vars => PromptInv'
<1> SUFFICES ASSUME PromptInv, [Next]_vars PROVE PromptInv'
  OBVIOUS
<1>0. SweepInv' /\ TypeOK /\ TypeOK'
  BY SweepInvStep DEF PromptInv, SweepInv
<1>1. CASE BeginBlock
  <2>1. \A e \in Nat : Cardinality(Prefix(e)')  <= MaxPerPrefix
    BY <1>1 DEF BeginBlock, PromptInv, Prefix
  <2>2. due = {} /\ cursor <= block + 1 /\ cursor >= block
    BY <1>1 DEF BeginBlock, PromptInv, SweepInv
  <2>3. \A p \in pending : p[1] > block /\ p[1] \in Nat
    BY <1>1, <1>0 DEF BeginBlock, PromptInv, PromptFinalization, TypeOK
  <2>4. AtPreviousPrefix' \/ AtOwnPrefix'
    BY <1>0, <1>1, <2>2, <2>3, QueueAssumption
    DEF BeginBlock, AtPreviousPrefix, AtOwnPrefix, TypeOK
  <2> QED
    BY <1>0, <1>1, <2>1, <2>4 DEF BeginBlock, PromptInv, PromptFinalization
<1>2. CASE ProbePrefix
  <2>1. PICK ids \in Takes(cursor) :
          /\ due' = ids
          /\ remaining' = remaining - Cardinality(ids)
          /\ probes' = probes - 1
          /\ cursor' = IF remaining - Cardinality(ids) > 0 /\ probes - 1 > 0
                         THEN cursor + 1
                         ELSE cursor
    BY <1>2 DEF ProbePrefix
  <2>2. /\ phase = "hook" /\ Scanning
        /\ UNCHANGED <<block, phase, pending, skipped>>
    BY <1>2 DEF ProbePrefix
  <2>3. \A e \in Nat : Cardinality(Prefix(e)')  <= MaxPerPrefix
    BY <2>2 DEF PromptInv, Prefix
  <2>4. CASE AtPreviousPrefix
    <3>1. Prefix(cursor) = {}
      BY <1>0, <2>4 DEF AtPreviousPrefix, Prefix, TypeOK
    <3>2. ids = {} /\ Cardinality(ids) = 0
      BY <3>1, <1>0, TakesBounded, FS_EmptySet
    <3>3. AtOwnPrefix'
      BY <1>0, <2>1, <2>2, <2>4, <3>2, QueueAssumption
      DEF AtPreviousPrefix, AtOwnPrefix, TypeOK
    <3> QED
      BY <1>0, <2>2, <2>3, <3>3 DEF PromptInv, PromptFinalization
  <2>5. CASE AtOwnPrefix
    <3>1. Cardinality(Prefix(cursor)) <= Cap
      BY <1>0, PrefixFinite, QueueAssumption DEF PromptInv, TypeOK
    <3>2. ids = Prefix(cursor)
      BY <1>0, <2>5, <3>1, WholePrefixTaken DEF AtOwnPrefix
    <3>3. \A p \in pending : p[1] <= block => p[2] \in ids
      <4> SUFFICES ASSUME NEW p \in pending, p[1] <= block PROVE p[2] \in ids
        OBVIOUS
      <4>1. p = <<p[1], p[2]>> /\ p[1] \in Nat /\ p[2] \in Ids
        BY <1>0 DEF TypeOK
      <4>2. p[1] = cursor
        BY <1>0, <2>5, <4>1 DEF AtOwnPrefix, TypeOK
      <4> QED
        BY <3>2, <4>1, <4>2 DEF Prefix
    <3>4. cursor' >= block /\ ~Scanning'
      <4>1. remaining - Cardinality(ids) \in Nat
        BY <1>0, TakesBounded
      <4> QED
        BY <1>0, <2>1, <2>2, <2>5, <4>1 DEF AtOwnPrefix, Scanning, TypeOK
    <3>5. OwnPrefixTaken'
      BY <2>1, <2>2, <3>3, <3>4 DEF OwnPrefixTaken
    <3> QED
      BY <1>0, <2>2, <2>3, <3>5 DEF PromptInv, PromptFinalization
  <2> QED
    BY <2>2, <2>4, <2>5 DEF PromptInv, OwnPrefixTaken
<1>3. ASSUME NEW p \in pending, FinalizeOk(p[1], p[2]) PROVE PromptInv'
  <2>1. pending' \subseteq pending
    BY <1>3 DEF FinalizeOk
  <2>2. \A e \in Nat : Cardinality(Prefix(e)')  <= MaxPerPrefix
    BY <2>1, PrefixShrinks, PrefixFinite, QueueAssumption DEF PromptInv
  <2>3. OwnPrefixTaken
    BY <1>3 DEF FinalizeOk, PromptInv, AtPreviousPrefix, AtOwnPrefix
  <2>4. \A q \in pending' : q[1] <= block => q[2] \in due \ {p[2]}
    <3> SUFFICES ASSUME NEW q \in pending', q[1] <= block PROVE q[2] \in due \ {p[2]}
      OBVIOUS
    <3>1. q \in pending /\ q # p
      BY <1>3, <1>0 DEF FinalizeOk, TypeOK
    <3> QED
      BY <3>1, <2>3 DEF OwnPrefixTaken, PromptInv, SweepInv, UniqueEntry
  <2>5. OwnPrefixTaken'
    BY <1>3, <2>3, <2>4 DEF FinalizeOk, OwnPrefixTaken, Scanning
  <2> QED
    BY <1>0, <1>3, <2>2, <2>5 DEF FinalizeOk, PromptInv, PromptFinalization
<1>4. CASE EndHook
  <2>1. OwnPrefixTaken
    BY <1>0, <1>4, QueueAssumption
    DEF EndHook, PromptInv, AtPreviousPrefix, AtOwnPrefix, Scanning, TypeOK
  <2>2. \A p \in pending : p[1] > block
    BY <1>0, <1>4, <2>1 DEF EndHook, OwnPrefixTaken, TypeOK
  <2>3. \A e \in Nat : Cardinality(Prefix(e)')  <= MaxPerPrefix
    BY <1>4 DEF EndHook, PromptInv, Prefix
  <2> QED
    BY <1>0, <1>4, <2>1, <2>2, <2>3
    DEF EndHook, PromptInv, PromptFinalization, OwnPrefixTaken
<1>5. ASSUME NEW id \in Ids, Deposit(id) PROVE PromptInv'
  <2>1. /\ pending' = pending \cup {<<block + Window, id>>}
        /\ UNCHANGED <<block, phase, cursor, remaining, probes, due, skipped>>
        /\ phase = "dispatch"
        /\ Cardinality(Prefix(block + Window)) < MaxPerPrefix
    BY <1>5 DEF Deposit, Enqueue, hookVars
  <2>2. block + Window \in Nat /\ block + Window > block
    BY <1>0, QueueAssumption DEF TypeOK
  <2>3. ASSUME NEW e \in Nat PROVE Cardinality(Prefix(e)') <= MaxPerPrefix
    <3>1. CASE e = block + Window
      <4>1. Prefix(e)' = Prefix(e) \cup {id}
        BY <2>1, <3>1 DEF Prefix
      <4>2. Cardinality(Prefix(e)') <= Cardinality(Prefix(e)) + 1
        BY <4>1, PrefixFinite, FS_AddElement
      <4>3. Cardinality(Prefix(e)') \in Nat
        BY <4>1, PrefixFinite, FS_AddElement, FS_CardinalityType
      <4> QED
        BY <2>1, <3>1, <4>2, <4>3, PrefixFinite, QueueAssumption
    <3>2. CASE e # block + Window
      BY <2>1, <3>2 DEF Prefix, PromptInv
    <3> QED
      BY <3>1, <3>2
  <2>4. PromptFinalization'
    BY <2>1, <2>2 DEF PromptFinalization, PromptInv
  <2> QED
    BY <1>0, <2>1, <2>3, <2>4 DEF PromptInv
<1>6. ASSUME NEW p \in pending, Dequeue(p[1], p[2]) PROVE PromptInv'
  <2>1. pending' \subseteq pending
    BY <1>6 DEF Dequeue
  <2>2. \A e \in Nat : Cardinality(Prefix(e)')  <= MaxPerPrefix
    BY <2>1, PrefixShrinks, PrefixFinite, QueueAssumption DEF PromptInv
  <2> QED
    BY <1>0, <1>6, <2>2 DEF Dequeue, hookVars, PromptInv, PromptFinalization
<1>7. CASE UNCHANGED vars
  BY <1>0, <1>7 DEF vars, PromptInv, PromptFinalization, Prefix, Scanning,
     AtPreviousPrefix, AtOwnPrefix, OwnPrefixTaken
<1> QED
  BY <1>1, <1>2, <1>3, <1>4, <1>5, <1>6, <1>7 DEF Next

\* From genesis, with a budget of at least two, no more deposits a block than
\* finalizations a block and no failing settlement, every record is
\* finalized in the block its window ends: the calibration rule of
\* MaxFinalizationsPerBlock is enough, and why the budget must not be one.
THEOREM FinalizationIsPrompt ==
  ASSUME FirstBlock = 1, Cap >= 2, MaxPerPrefix <= Cap, CanFail = {}
  PROVE  Spec => []PromptFinalization
<1>1. PromptInv => PromptFinalization
  BY DEF PromptInv
<1>2. Init => PromptInv
  BY PromptInvInit
<1>3. PromptInv /\ [Next]_vars => PromptInv'
  BY PromptInvStep
<1> QED
  BY <1>1, <1>2, <1>3, PTL DEF Spec
=============================================================================
