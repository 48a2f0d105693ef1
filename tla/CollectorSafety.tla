-------------------------- MODULE CollectorSafety ---------------------------
(***************************************************************************)
(* Why nothing reachable is ever freed, second part: what scripts, the     *)
(* host and finalizers do to existing objects between two units of         *)
(* collection preserves IInv, and so do allocation and its rollback.  So   *)
(* IInv is an invariant, and with it the properties the program relies on. *)
(***************************************************************************)
EXTENDS CollectorSteps

\* The leaves are proved by Zenon unless they cite another prover.
USE Zenon

\* One lemma for each action; those that only drop references are InvDrops.
LEMMA InvCollectCalled == ASSUME IInv, CollectCalled PROVE IInv'
  <1>1. TypeOK /\ TypeOK'
    BY TypeCollectCalled DEF IInv
  <1>2. Shrinks
    BY <1>1, QuietShrinks
       DEF CollectCalled, objVars, ageVars, finVars, markVars, cycleVars, capVars, mutVars
  <1>3. RegObjects' = RegObjects
    BY <1>1
       DEF RegObjects, CollectCalled, objVars, ageVars, finVars, markVars, cycleVars, capVars,
           mutVars
  <1> QED
    BY <1>1, <1>2, <1>3, InvDrops
       DEF CollectCalled, objVars, ageVars, finVars, markVars, cycleVars, capVars, mutVars

LEMMA InvCollectReturns == ASSUME IInv, CollectReturns PROVE IInv'
  <1>1. TypeOK /\ TypeOK'
    BY TypeCollectReturns DEF IInv
  <1>2. Shrinks
    BY <1>1, QuietShrinks
       DEF CollectReturns, objVars, ageVars, finVars, markVars, cycleVars, capVars, mutVars
  <1>3. RegObjects' = RegObjects
    BY <1>1
       DEF RegObjects, CollectReturns, objVars, ageVars, finVars, markVars, cycleVars, capVars,
           mutVars
  <1> QED
    BY <1>1, <1>2, <1>3, InvDrops
       DEF CollectReturns, objVars, ageVars, finVars, markVars, cycleVars, capVars, mutVars

LEMMA InvDropRoot == ASSUME IInv, NEW r \in Regs, DropRoot(r) PROVE IInv'
  <1>1. TypeOK /\ TypeOK'
    BY TypeDropRoot DEF IInv
  <1>2. Shrinks
    BY <1>1, QuietShrinks
       DEF DropRoot, objVars, ageVars, finVars, markVars, cycleVars, capVars, mutVars
  <1>3. RegObjects' \subseteq RegObjects
    BY <1>1
       DEF RegObjects, TypeOK, MutTypes, DropRoot, objVars, ageVars, finVars, markVars,
           cycleVars, capVars, mutVars
  <1> QED
    BY <1>1, <1>2, <1>3, InvDrops
       DEF DropRoot, objVars, ageVars, finVars, markVars, cycleVars, capVars, mutVars

LEMMA InvLoad == ASSUME IInv, NEW r \in Regs, NEW o \in Slots, Load(r, o) PROVE IInv'
  <1>1. TypeOK /\ TypeOK'
    BY TypeLoad DEF IInv
  <1>2. o \in Live /\ o # fresh
    BY <1>1, SlotsFinite, Domains, LiveShape
       DEF IInv, NoDangling, FreshUnknown, Load, SetRoot, objVars, ageVars, finVars, markVars,
           cycleVars, capVars, mutVars
  <1>3. RegObjects' \subseteq RegObjects \cup {o} /\ Roots' \subseteq Roots \cup {o}
    BY <1>1
       DEF TypeOK, MutTypes, Roots, RegObjects, QueuedObjects, Load, SetRoot, objVars, ageVars,
           finVars, markVars, cycleVars, capVars, mutVars
  <1>4. Shrinks
    BY <1>1, QuietShrinks
       DEF Load, SetRoot, objVars, ageVars, finVars, markVars, cycleVars, capVars, mutVars
  <1>5. /\ \A s \in Slots : Marked(s)' <=> Marked(s) \/ (phase # "Pause" /\ s \in {o})
        /\ \A s \in Slots : color'[s] = "Black" <=> color[s] = "Black"
        /\ WorkIsGray' /\ phase' = phase /\ work' \subseteq work \cup {o}
        /\ Whites({o}) = {} => UNCHANGED markVars
    <2>1. {o} \in SUBSET Slots
      BY <1>2, <1>1, Domains
    <2>2. phase = "Sweep" => Whites({o}) = {}
      BY <1>2, <1>1, LiveShape DEF IInv, Control, White, Marked, Whites
    <2> QED
      BY <1>1, <2>1, <2>2, MarkFacts
         DEF IInv, Load, SetRoot, objVars, ageVars, finVars, markVars, cycleVars, capVars,
             mutVars
  <1>6. Sealed' = Sealed
    BY DEF Sealed, Load, SetRoot, objVars, ageVars, finVars, markVars, cycleVars, capVars,
           mutVars
  <1>7. MarksLive
    BY <1>2, <1>5, MarkedLive DEF MarksLive
  <1>8. Control'
    BY <1>1, <1>5, <1>6, Domains
       DEF IInv, Control, occ, Sealed, Shrinks, Load, SetRoot, objVars, ageVars, finVars,
           markVars, cycleVars, capVars, mutVars
  <1>9. WorkIsGray'
    BY <1>5
  <1>10. RootsCovered'
    BY <1>1, <1>5, <1>3, <1>2, Domains
       DEF IInv, RootsCovered, Load, SetRoot, objVars, ageVars, finVars, markVars, cycleVars,
           capVars, mutVars
  <1>11. SlotShape'
    BY <1>4, <1>7, KeepSlotShape
       DEF IInv, SlotShape, Load, SetRoot, objVars, ageVars, finVars, markVars, cycleVars,
           capVars, mutVars
  <1>12. TriColor'
    BY <1>5, <1>4, <1>7, KeepTriColor
       DEF Load, SetRoot, objVars, ageVars, finVars, markVars, cycleVars, capVars, mutVars
  <1>13. WeakValuesCleared'
    BY <1>4, <1>7, <1>6, KeepWeakValues
       DEF Load, SetRoot, objVars, ageVars, finVars, markVars, cycleVars, capVars, mutVars
  <1>14. EphemeronsScanned'
    <2>1. CASE phase # "Pause" /\ White(o)
      <3>1. o \in work' /\ o # fresh'
        BY <2>1, <1>2
           DEF Mark, Whites, Load, SetRoot, objVars, ageVars, finVars, markVars, cycleVars,
               capVars, mutVars
      <3> QED
        BY <3>1, NotScanned
    <2>2. CASE ~(phase # "Pause" /\ White(o))
      <3>1. UNCHANGED markVars
        BY <2>2, <1>1, <1>2, <1>5
           DEF Whites, IInv, WorkIsGray, White, Mark, TypeOK, MarkTypes, Load, SetRoot, objVars,
               ageVars, finVars, markVars, cycleVars, capVars, mutVars
      <3>2. \A s \in Slots : Marked(s)' = Marked(s)
        BY <3>1
           DEF Marked, Load, SetRoot, objVars, ageVars, finVars, markVars, cycleVars, capVars,
               mutVars
      <3>3. work' \subseteq {fresh'} => work \subseteq {fresh}
        BY <3>1, <1>1, SlotsFinite
           DEF TypeOK, MarkTypes, Load, SetRoot, objVars, ageVars, finVars, markVars, cycleVars,
               capVars, mutVars
      <3> QED
        BY <3>1, <3>2, <3>3, <1>1, <1>4, <1>7, <1>6, KeepScanned
           DEF Load, SetRoot, objVars, ageVars, finVars, markVars, cycleVars, capVars, mutVars
    <2> QED
      BY <2>1, <2>2
  <1>15. FreshUnknown'
    <2>1. fresh # None => fresh \notin RegObjects' \cup QueuedObjects' /\ fin'[fresh] = fin[fresh]
      BY <1>3, <1>2
         DEF IInv, FreshUnknown, QueuedObjects, Load, SetRoot, objVars, ageVars, finVars,
             markVars, cycleVars, capVars, mutVars
    <2> QED
      BY <2>1, <1>1, <1>8, <1>4, <1>7, <1>6, KeepFresh
         DEF Load, SetRoot, objVars, ageVars, finVars, markVars, cycleVars, capVars, mutVars
  <1>16. SweptIsLive'
    BY <1>4, <1>7, KeepSwept
       DEF Load, SetRoot, objVars, ageVars, finVars, markVars, cycleVars, capVars, mutVars
  <1>17. FinalizersSeparated'
    BY <1>4, <1>7, KeepSeparated
       DEF Load, SetRoot, objVars, ageVars, finVars, markVars, cycleVars, capVars, mutVars
  <1>18. QueueIsPending'
    BY DEF IInv, QueueIsPending, QueuedObjects, Load, SetRoot, objVars, ageVars, finVars,
           markVars, cycleVars, capVars, mutVars
  <1>19. NoDangling'
    BY <1>1, <1>3, <1>2, <1>5, <1>8, <1>4, <1>7, <1>6, KeepNoDangling
       DEF IInv, NoDangling, Load, SetRoot, objVars, ageVars, finVars, markVars, cycleVars,
           capVars, mutVars
  <1> QED
    BY <1>1, <1>8, <1>9, <1>10, <1>11, <1>12, <1>13, <1>14, <1>15, <1>16, <1>17, <1>18, <1>19
       DEF IInv

LEMMA InvStartFinalizer ==
    ASSUME IInv, NEW e \in queue, NEW r \in Regs, StartFinalizer(e, r)
    PROVE  IInv'
  <1>1. TypeOK /\ TypeOK'
    BY TypeStartFinalizer DEF IInv
  <1>2. e.obj \in Live /\ e.obj # fresh /\ e.obj \in QueuedObjects /\ e.obj \in Slots
    BY <1>1, SlotsFinite, Domains
       DEF IInv, NoDangling, FreshUnknown, QueuedObjects, TypeOK, FinTypes
  <1>3. RegObjects' \subseteq RegObjects \cup {e.obj} /\ Roots' \subseteq Roots \cup {e.obj}
    BY <1>1
       DEF TypeOK, MutTypes, Roots, RegObjects, QueuedObjects, StartFinalizer, SetRoot, objVars,
           ageVars, finVars, markVars, cycleVars, capVars, mutVars
  <1>4. Shrinks
    BY <1>1, QuietShrinks
       DEF StartFinalizer, SetRoot, objVars, ageVars, finVars, markVars, cycleVars, capVars,
           mutVars
  <1>5. /\ \A s \in Slots : Marked(s)' <=> Marked(s) \/ (phase # "Pause" /\ s \in {e.obj})
        /\ \A s \in Slots : color'[s] = "Black" <=> color[s] = "Black"
        /\ WorkIsGray' /\ phase' = phase /\ work' \subseteq work \cup {e.obj}
        /\ Whites({e.obj}) = {} => UNCHANGED markVars
    <2>1. {e.obj} \in SUBSET Slots
      BY <1>2, <1>1, Domains
    <2>2. phase = "Sweep" => Whites({e.obj}) = {}
      BY <1>2, <1>1, LiveShape DEF IInv, Control, White, Marked, Whites
    <2> QED
      BY <1>1, <2>1, <2>2, MarkFacts
         DEF IInv, StartFinalizer, SetRoot, objVars, ageVars, finVars, markVars, cycleVars,
             capVars, mutVars
  <1>6. Sealed' = Sealed
    BY DEF Sealed, StartFinalizer, SetRoot, objVars, ageVars, finVars, markVars, cycleVars,
           capVars, mutVars
  <1>7. MarksLive
    BY <1>2, <1>5, MarkedLive DEF MarksLive
  <1>8. Control'
    BY <1>1, <1>5, <1>6, Domains
       DEF IInv, Control, occ, Sealed, Shrinks, StartFinalizer, SetRoot, objVars, ageVars,
           finVars, markVars, cycleVars, capVars, mutVars
  <1>9. WorkIsGray'
    BY <1>5
  <1>10. RootsCovered'
    BY <1>1, <1>5, <1>3, <1>2, Domains
       DEF IInv, RootsCovered, StartFinalizer, SetRoot, objVars, ageVars, finVars, markVars,
           cycleVars, capVars, mutVars
  <1>11. SlotShape'
    <2>1. \A s \in Slots : want'[s] \in WeakModes \cup {"strong"}
      BY DEF IInv, SlotShape, StartFinalizer, objVars
    <2>2. \A s \in Slots \ occ : fin'[s] = fin[s]
      <3>1. e.obj \in occ
        BY <1>1, <1>2, LiveShape DEF IInv
      <3> QED
        BY <1>1, <3>1 DEF TypeOK, FinTypes, StartFinalizer
    <2> QED
      BY <1>4, <1>7, <2>1, <2>2, KeepSlotShape
  <1>12. TriColor'
    BY <1>5, <1>4, <1>7, KeepTriColor
       DEF StartFinalizer, SetRoot, objVars, ageVars, finVars, markVars, cycleVars, capVars,
           mutVars
  <1>13. WeakValuesCleared'
    BY <1>4, <1>7, <1>6, KeepWeakValues
       DEF StartFinalizer, SetRoot, objVars, ageVars, finVars, markVars, cycleVars, capVars,
           mutVars
  <1>14. EphemeronsScanned'
    <2>1. CASE phase # "Pause" /\ White(e.obj)
      <3>1. e.obj \in work' /\ e.obj # fresh'
        BY <2>1, <1>2
           DEF Mark, Whites, StartFinalizer, SetRoot, objVars, ageVars, finVars, markVars,
               cycleVars, capVars, mutVars
      <3> QED
        BY <3>1, NotScanned
    <2>2. CASE ~(phase # "Pause" /\ White(e.obj))
      <3>1. UNCHANGED markVars
        BY <2>2, <1>1, <1>2, <1>5
           DEF Whites, IInv, WorkIsGray, White, Mark, TypeOK, MarkTypes, StartFinalizer,
               SetRoot, objVars, ageVars, finVars, markVars, cycleVars, capVars, mutVars
      <3>2. \A s \in Slots : Marked(s)' = Marked(s)
        BY <3>1
           DEF Marked, StartFinalizer, SetRoot, objVars, ageVars, finVars, markVars, cycleVars,
               capVars, mutVars
      <3>3. work' \subseteq {fresh'} => work \subseteq {fresh}
        BY <3>1, <1>1, SlotsFinite
           DEF TypeOK, MarkTypes, StartFinalizer, SetRoot, objVars, ageVars, finVars, markVars,
               cycleVars, capVars, mutVars
      <3> QED
        BY <3>1, <3>2, <3>3, <1>1, <1>4, <1>7, <1>6, KeepScanned
           DEF StartFinalizer, SetRoot, objVars, ageVars, finVars, markVars, cycleVars, capVars,
               mutVars
    <2> QED
      BY <2>1, <2>2
  <1>15. FreshUnknown'
    <2>1. fresh # None => fresh \notin RegObjects' \cup QueuedObjects' /\ fin'[fresh] = fin[fresh]
      BY <1>3, <1>2, <1>1
         DEF IInv, FreshUnknown, QueuedObjects, TypeOK, FinTypes, MutTypes, StartFinalizer,
             SetRoot, objVars, ageVars, finVars, markVars, cycleVars, capVars, mutVars
    <2> QED
      BY <2>1, <1>1, <1>8, <1>4, <1>7, <1>6, KeepFresh
         DEF StartFinalizer, SetRoot, objVars, ageVars, finVars, markVars, cycleVars, capVars,
             mutVars
  <1>16. SweptIsLive'
    BY <1>4, <1>7, KeepSwept
       DEF StartFinalizer, SetRoot, objVars, ageVars, finVars, markVars, cycleVars, capVars,
           mutVars
  <1>17. FinalizersSeparated'
    BY <1>1, <1>4, <1>7, KeepSeparated
       DEF TypeOK, FinTypes, StartFinalizer, SetRoot, objVars, ageVars, finVars, markVars,
           cycleVars, capVars, mutVars
  <1>18. QueueIsPending'
    BY <1>1, <1>2
       DEF IInv, QueueIsPending, QueuedObjects, TypeOK, FinTypes, StartFinalizer, SetRoot,
           objVars, ageVars, finVars, markVars, cycleVars, capVars, mutVars
  <1>19. NoDangling'
    BY <1>1, <1>3, <1>2, <1>5, <1>8, <1>4, <1>7, <1>6, KeepNoDangling
       DEF IInv, NoDangling, StartFinalizer, SetRoot, objVars, ageVars, finVars, markVars,
           cycleVars, capVars, mutVars
  <1> QED
    BY <1>1, <1>8, <1>9, <1>10, <1>11, <1>12, <1>13, <1>14, <1>15, <1>16, <1>17, <1>18, <1>19
       DEF IInv

LEMMA InvAllocateReturns == ASSUME IInv, NEW r \in Regs, AllocateReturns(r) PROVE IInv'
  <1>1. TypeOK /\ TypeOK'
    BY TypeAllocateReturns DEF IInv
  <1>2. fresh \in Live /\ fresh \in Roots /\ fresh \in Slots /\ fresh # None
    BY <1>1, Domains
       DEF IInv, NoDangling, Roots, AllocateReturns, SetRoot, objVars, ageVars, finVars,
           markVars, cycleVars, capVars, mutVars
  <1>3. Roots' \subseteq Roots
    BY <1>1, <1>2
       DEF TypeOK, MutTypes, Roots, RegObjects, QueuedObjects, AllocateReturns, SetRoot,
           objVars, ageVars, finVars, markVars, cycleVars, capVars, mutVars
  <1>4. Shrinks
    BY <1>1, QuietShrinks
       DEF AllocateReturns, SetRoot, objVars, ageVars, finVars, markVars, cycleVars, capVars,
           mutVars
  <1>5. /\ \A s \in Slots : Marked(s)' <=> Marked(s) \/ (phase # "Pause" /\ s \in {fresh})
        /\ \A s \in Slots : color'[s] = "Black" <=> color[s] = "Black"
        /\ WorkIsGray' /\ phase' = phase /\ work' \subseteq work \cup {fresh}
        /\ Whites({fresh}) = {} => UNCHANGED markVars
    <2>1. {fresh} \in SUBSET Slots
      BY <1>2, <1>1, Domains
    <2>2. phase = "Sweep" => Whites({fresh}) = {}
      BY <1>2, <1>1, LiveShape DEF IInv, Control, White, Marked, Whites
    <2> QED
      BY <1>1, <2>1, <2>2, MarkFacts
         DEF IInv, AllocateReturns, SetRoot, objVars, ageVars, finVars, markVars, cycleVars,
             capVars, mutVars
  <1>6. Sealed' = Sealed
    BY DEF Sealed, AllocateReturns, SetRoot, objVars, ageVars, finVars, markVars, cycleVars,
           capVars, mutVars
  <1>7. MarksLive
    BY <1>2, <1>5, MarkedLive DEF MarksLive
  <1>8. Control'
    BY <1>1, <1>5, <1>6, Domains
       DEF IInv, Control, occ, Sealed, Shrinks, AllocateReturns, SetRoot, objVars, ageVars,
           finVars, markVars, cycleVars, capVars, mutVars
  <1>9. WorkIsGray'
    BY <1>5
  <1>10. RootsCovered'
    BY <1>1, <1>5, <1>3, <1>2, Domains
       DEF IInv, RootsCovered, AllocateReturns, SetRoot, objVars, ageVars, finVars, markVars,
           cycleVars, capVars, mutVars
  <1>11. SlotShape'
    BY <1>4, <1>7, KeepSlotShape
       DEF IInv, SlotShape, AllocateReturns, SetRoot, objVars, ageVars, finVars, markVars,
           cycleVars, capVars, mutVars
  <1>12. TriColor'
    BY <1>5, <1>4, <1>7, KeepTriColor
       DEF AllocateReturns, SetRoot, objVars, ageVars, finVars, markVars, cycleVars, capVars,
           mutVars
  <1>13. WeakValuesCleared'
    BY <1>4, <1>7, <1>6, KeepWeakValues
       DEF AllocateReturns, SetRoot, objVars, ageVars, finVars, markVars, cycleVars, capVars,
           mutVars
  <1>14. EphemeronsScanned'
    <2>1. CASE phase # "Pause" /\ White(fresh)
      <3>1. fresh \in work' /\ fresh # fresh'
        BY <2>1, <1>2
           DEF Mark, Whites, AllocateReturns, SetRoot, objVars, ageVars, finVars, markVars,
               cycleVars, capVars, mutVars
      <3> QED
        BY <3>1, NotScanned
    <2>2. CASE ~(phase # "Pause" /\ White(fresh))
      <3>1. UNCHANGED markVars
        BY <2>2, <1>1, <1>2, <1>5
           DEF Whites, IInv, WorkIsGray, White, Mark, TypeOK, MarkTypes, AllocateReturns,
               SetRoot, objVars, ageVars, finVars, markVars, cycleVars, capVars, mutVars
      <3>2. \A s \in Slots : Marked(s)' = Marked(s)
        BY <3>1
           DEF Marked, AllocateReturns, SetRoot, objVars, ageVars, finVars, markVars, cycleVars,
               capVars, mutVars
      <3>3. work' \subseteq {fresh'} => work \subseteq {fresh}
        BY <3>1, <1>1, SlotsFinite
           DEF TypeOK, MarkTypes, AllocateReturns, SetRoot, objVars, ageVars, finVars, markVars,
               cycleVars, capVars, mutVars
      <3> QED
        BY <3>1, <3>2, <3>3, <1>1, <1>4, <1>7, <1>6, KeepScanned
           DEF AllocateReturns, SetRoot, objVars, ageVars, finVars, markVars, cycleVars,
               capVars, mutVars
    <2> QED
      BY <2>1, <2>2
  <1>15. FreshUnknown'
    BY DEF FreshUnknown, AllocateReturns, SetRoot, objVars, ageVars, finVars, markVars,
           cycleVars, capVars, mutVars
  <1>16. SweptIsLive'
    BY <1>4, <1>7, KeepSwept
       DEF AllocateReturns, SetRoot, objVars, ageVars, finVars, markVars, cycleVars, capVars,
           mutVars
  <1>17. FinalizersSeparated'
    BY <1>4, <1>7, KeepSeparated
       DEF AllocateReturns, SetRoot, objVars, ageVars, finVars, markVars, cycleVars, capVars,
           mutVars
  <1>18. QueueIsPending'
    BY DEF IInv, QueueIsPending, QueuedObjects, AllocateReturns, SetRoot, objVars, ageVars,
           finVars, markVars, cycleVars, capVars, mutVars
  <1>19. NoDangling'
    BY <1>1, <1>3, <1>2, <1>5, <1>8, <1>4, <1>7, <1>6, KeepNoDangling
       DEF IInv, NoDangling, AllocateReturns, SetRoot, objVars, ageVars, finVars, markVars,
           cycleVars, capVars, mutVars
  <1> QED
    BY <1>1, <1>8, <1>9, <1>10, <1>11, <1>12, <1>13, <1>14, <1>15, <1>16, <1>17, <1>18, <1>19
       DEF IInv

LEMMA InvFinishFinalizer == ASSUME IInv, NEW e \in queue, FinishFinalizer(e) PROVE IInv'
  <1>1. TypeOK /\ TypeOK'
    BY TypeFinishFinalizer DEF IInv
  <1>2. e.obj \in Roots /\ e.obj # fresh /\ e.obj \in occ /\ e.obj \in Slots
    BY <1>1, SlotsFinite, Domains, LiveShape
       DEF IInv, NoDangling, FreshUnknown, QueuedObjects, TypeOK, FinTypes
  <1>3. QueuedObjects' \subseteq QueuedObjects /\ Roots' \subseteq Roots
    BY DEF Roots, RegObjects, QueuedObjects, FinishFinalizer, objVars, ageVars, finVars,
           markVars, cycleVars, capVars, mutVars
  <1>4. Shrinks
    BY <1>1, QuietShrinks
       DEF FinishFinalizer, objVars, ageVars, finVars, markVars, cycleVars, capVars, mutVars
  <1>5. UNCHANGED <<color, work>> /\ \A s \in Slots : Marked(s)' = Marked(s)
    BY DEF Marked, FinishFinalizer, objVars, ageVars, finVars, markVars, cycleVars, capVars,
           mutVars
  <1>6. Sealed' = Sealed
    BY DEF Sealed, FinishFinalizer, objVars, ageVars, finVars, markVars, cycleVars, capVars,
           mutVars
  <1>7. MarksLive
    BY <1>5, MarkedLive DEF MarksLive
  <1>8. Control'
    BY <1>1, <1>5, <1>6, Domains
       DEF IInv, Control, occ, Sealed, Shrinks, FinishFinalizer, objVars, ageVars, finVars,
           markVars, cycleVars, capVars, mutVars
  <1>9. WorkIsGray'
    BY <1>5
       DEF IInv, WorkIsGray, FinishFinalizer, objVars, ageVars, finVars, markVars, cycleVars,
           capVars, mutVars
  <1>10. RootsCovered'
    BY <1>1, <1>5, <1>3, Domains
       DEF IInv, RootsCovered, FinishFinalizer, objVars, ageVars, finVars, markVars, cycleVars,
           capVars, mutVars
  <1>11. SlotShape'
    BY <1>1, <1>2, <1>4, <1>7, KeepSlotShape
       DEF IInv, SlotShape, TypeOK, FinTypes, FinishFinalizer, objVars, ageVars, finVars,
           markVars, cycleVars, capVars, mutVars
  <1>12. TriColor'
    BY <1>5, <1>4, <1>7, KeepTriColor
       DEF FinishFinalizer, objVars, ageVars, finVars, markVars, cycleVars, capVars, mutVars
  <1>13. WeakValuesCleared'
    BY <1>4, <1>7, <1>6, KeepWeakValues
       DEF FinishFinalizer, objVars, ageVars, finVars, markVars, cycleVars, capVars, mutVars
  <1>14. EphemeronsScanned'
    BY <1>1, <1>5, <1>4, <1>7, <1>6, KeepScanned
       DEF TypeOK, MarkTypes, FinishFinalizer, objVars, ageVars, finVars, markVars, cycleVars,
           capVars, mutVars
  <1>15. FreshUnknown'
    <2>1. fresh' = fresh /\ RegObjects' = RegObjects
      BY DEF RegObjects, FinishFinalizer, objVars, ageVars, finVars, markVars, cycleVars,
             capVars, mutVars
    <2>2. fresh # None => fin'[fresh] = fin[fresh]
      BY <1>1, <1>2
         DEF TypeOK, FinTypes, MutTypes, FinishFinalizer, objVars, ageVars, finVars, markVars,
             cycleVars, capVars, mutVars
    <2>3. fresh \notin RegObjects' \cup QueuedObjects' \/ fresh' = None
      BY <1>3, <2>1 DEF IInv, FreshUnknown
    <2> QED
      BY <1>1, <1>4, <1>6, <1>7, <1>8, <2>1, <2>2, <2>3, KeepFresh
  <1>16. SweptIsLive'
    BY <1>4, <1>7, KeepSwept
       DEF FinishFinalizer, objVars, ageVars, finVars, markVars, cycleVars, capVars, mutVars
  <1>17. FinalizersSeparated'
    BY <1>1, <1>2, <1>5, <1>4, ShrinkFacts, Domains
       DEF IInv, FinalizersSeparated, TypeOK, FinTypes, MarkTypes, RootsCovered, Control,
           FinishFinalizer, objVars, ageVars, finVars, markVars, cycleVars, capVars, mutVars
  <1>18. QueueIsPending'
    <2> SUFFICES ASSUME NEW s \in Slots, fin'[s] \in {"Pending", "Running"}
                 PROVE  s \in QueuedObjects'
      BY DEF QueueIsPending
    <2>1. /\ fin'[e.obj] \in {"Registered", "Finalized"}
          /\ \A t \in Slots \ {e.obj} : fin'[t] = fin[t]
      BY <1>1, <1>2 DEF TypeOK, FinTypes, FinishFinalizer
    <2>2. s # e.obj /\ fin'[s] = fin[s]
      BY <2>1
    <2>3. PICK x \in queue : s = x.obj
      BY <2>2 DEF IInv, QueueIsPending, QueuedObjects
    <2>4. x \in queue'
      BY <2>2, <2>3 DEF FinishFinalizer
    <2> QED
      BY <2>3, <2>4 DEF QueuedObjects
  <1>19. NoDangling'
    BY <1>1, <1>3, <1>8, <1>4, <1>7, <1>6, KeepNoDangling
       DEF IInv, NoDangling, FinishFinalizer, objVars, ageVars, finVars, markVars, cycleVars,
           capVars, mutVars
  <1> QED
    BY <1>1, <1>8, <1>9, <1>10, <1>11, <1>12, <1>13, <1>14, <1>15, <1>16, <1>17, <1>18, <1>19
       DEF IInv

LEMMA InvRegisterFinalizer == ASSUME IInv, NEW o \in Slots, RegisterFinalizer(o) PROVE IInv'
  <1>1. TypeOK /\ TypeOK'
    BY TypeRegisterFinalizer DEF IInv
  <1>2. o \in Roots /\ o # fresh /\ o \in occ
    BY <1>1, SlotsFinite, Domains, LiveShape
       DEF IInv, NoDangling, FreshUnknown, RegisterFinalizer, objVars, ageVars, finVars,
           markVars, cycleVars, capVars, mutVars
  <1>3. Shrinks
    BY <1>1, QuietShrinks
       DEF RegisterFinalizer, objVars, ageVars, finVars, markVars, cycleVars, capVars, mutVars
  <1>4. UNCHANGED <<color, work>> /\ \A s \in Slots : Marked(s)' = Marked(s)
    BY DEF Marked, RegisterFinalizer, objVars, ageVars, finVars, markVars, cycleVars, capVars,
           mutVars
  <1>5. Sealed' = Sealed
    BY DEF Sealed, RegisterFinalizer, objVars, ageVars, finVars, markVars, cycleVars, capVars,
           mutVars
  <1>6. MarksLive
    BY <1>4, MarkedLive DEF MarksLive
  <1>7. Control'
    BY <1>1, <1>4, <1>5, Domains
       DEF IInv, Control, occ, Sealed, Shrinks, RegisterFinalizer, objVars, ageVars, finVars,
           markVars, cycleVars, capVars, mutVars
  <1>8. WorkIsGray'
    BY <1>4
       DEF IInv, WorkIsGray, RegisterFinalizer, objVars, ageVars, finVars, markVars, cycleVars,
           capVars, mutVars
  <1>9. RootsCovered'
    <2>1. Roots' = Roots /\ UNCHANGED <<phase, rootsTodo>>
      BY DEF Roots, RegObjects, QueuedObjects, RegisterFinalizer, markVars, cycleVars, mutVars
    <2> QED
      BY <1>1, <1>4, <2>1, Domains DEF IInv, RootsCovered
  <1>10. SlotShape'
    BY <1>1, <1>2, <1>3, <1>6, KeepSlotShape
       DEF IInv, SlotShape, TypeOK, FinTypes, RegisterFinalizer, objVars, ageVars, finVars,
           markVars, cycleVars, capVars, mutVars
  <1>11. TriColor'
    BY <1>4, <1>3, <1>6, KeepTriColor
       DEF RegisterFinalizer, objVars, ageVars, finVars, markVars, cycleVars, capVars, mutVars
  <1>12. WeakValuesCleared'
    BY <1>3, <1>6, <1>5, KeepWeakValues
       DEF RegisterFinalizer, objVars, ageVars, finVars, markVars, cycleVars, capVars, mutVars
  <1>13. EphemeronsScanned'
    BY <1>1, <1>4, <1>3, <1>6, <1>5, KeepScanned
       DEF TypeOK, MarkTypes, RegisterFinalizer, objVars, ageVars, finVars, markVars, cycleVars,
           capVars, mutVars
  <1>14. FreshUnknown'
    <2>1. fresh # None => fresh \notin RegObjects' \cup QueuedObjects' /\ fin'[fresh] = fin[fresh]
      <3>1. RegObjects' = RegObjects /\ QueuedObjects' = QueuedObjects
        BY DEF RegObjects, QueuedObjects, RegisterFinalizer, mutVars
      <3>2. fresh # None => fin'[fresh] = fin[fresh]
        BY <1>1, <1>2 DEF TypeOK, FinTypes, MutTypes, RegisterFinalizer
      <3> QED
        BY <3>1, <3>2 DEF IInv, FreshUnknown
    <2> QED
      BY <2>1, <1>1, <1>7, <1>3, <1>6, <1>5, KeepFresh
         DEF RegisterFinalizer, objVars, ageVars, finVars, markVars, cycleVars, capVars, mutVars
  <1>15. SweptIsLive'
    BY <1>3, <1>6, KeepSwept
       DEF RegisterFinalizer, objVars, ageVars, finVars, markVars, cycleVars, capVars, mutVars
  <1>16. FinalizersSeparated'
    BY <1>1, <1>2, <1>4, <1>3, ShrinkFacts, Domains
       DEF IInv, FinalizersSeparated, TypeOK, FinTypes, MarkTypes, RootsCovered, Control,
           RegisterFinalizer, objVars, ageVars, finVars, markVars, cycleVars, capVars, mutVars
  <1>17. QueueIsPending'
    BY <1>1, <1>2
       DEF IInv, QueueIsPending, QueuedObjects, TypeOK, FinTypes, RegisterFinalizer, objVars,
           ageVars, finVars, markVars, cycleVars, capVars, mutVars
  <1>18. NoDangling'
    <2>1. Roots' = Roots /\ UNCHANGED <<rootsTodo, work, remTodo, remembered>>
      BY DEF Roots, RegObjects, QueuedObjects, RegisterFinalizer, markVars, cycleVars, mutVars
    <2>2. Roots \subseteq Live /\ rootsTodo \subseteq Live /\ work \subseteq Live
      BY DEF IInv, NoDangling
    <2>3. remTodo \subseteq remembered /\ remembered \subseteq occ
      BY DEF IInv, NoDangling
    <2> QED
      BY <1>1, <1>3, <1>5, <1>6, <1>7, <2>1, <2>2, <2>3, KeepNoDangling
  <1> QED
    BY <1>1, <1>7, <1>8, <1>9, <1>10, <1>11, <1>12, <1>13, <1>14, <1>15, <1>16, <1>17, <1>18
       DEF IInv

LEMMA InvSetWeakMode ==
    ASSUME IInv, NEW o \in Slots, NEW m \in WeakModes, SetWeakMode(o, m)
    PROVE  IInv'
  <1>1. TypeOK /\ TypeOK'
    BY TypeSetWeakMode DEF IInv
  <1>2. Shrinks
    BY <1>1, QuietShrinks
       DEF SetWeakMode, objVars, ageVars, finVars, markVars, cycleVars, capVars, mutVars
  <1>3. UNCHANGED <<color, work>> /\ \A s \in Slots : Marked(s)' = Marked(s)
    BY DEF Marked, SetWeakMode, objVars, ageVars, finVars, markVars, cycleVars, capVars, mutVars
  <1>4. Sealed' = Sealed
    BY DEF Sealed, SetWeakMode, objVars, ageVars, finVars, markVars, cycleVars, capVars, mutVars
  <1>5. MarksLive
    BY <1>3, MarkedLive DEF MarksLive
  <1>6. Control'
    BY <1>1, <1>3, <1>4, Domains
       DEF IInv, Control, occ, Sealed, Shrinks, SetWeakMode, objVars, ageVars, finVars,
           markVars, cycleVars, capVars, mutVars
  <1>7. WorkIsGray'
    BY <1>3
       DEF IInv, WorkIsGray, SetWeakMode, objVars, ageVars, finVars, markVars, cycleVars,
           capVars, mutVars
  <1>8. RootsCovered'
    BY <1>1, <1>3, Domains
       DEF IInv, RootsCovered, Roots, RegObjects, QueuedObjects, SetWeakMode, objVars, ageVars,
           finVars, markVars, cycleVars, capVars, mutVars
  <1>9. SlotShape'
    BY <1>1, <1>2, <1>5, KeepSlotShape
       DEF IInv, SlotShape, TypeOK, ObjTypes, SetWeakMode, objVars, ageVars, finVars, markVars,
           cycleVars, capVars, mutVars
  <1>10. TriColor'
    BY <1>3, <1>2, <1>5, KeepTriColor
       DEF SetWeakMode, objVars, ageVars, finVars, markVars, cycleVars, capVars, mutVars
  <1>11. WeakValuesCleared'
    BY <1>2, <1>5, <1>4, KeepWeakValues
       DEF SetWeakMode, objVars, ageVars, finVars, markVars, cycleVars, capVars, mutVars
  <1>12. EphemeronsScanned'
    BY <1>1, <1>3, <1>2, <1>5, <1>4, KeepScanned
       DEF TypeOK, MarkTypes, SetWeakMode, objVars, ageVars, finVars, markVars, cycleVars,
           capVars, mutVars
  <1>13. FreshUnknown'
    BY <1>1, <1>6, <1>2, <1>5, <1>4, KeepFresh
       DEF IInv, FreshUnknown, RegObjects, QueuedObjects, SetWeakMode, objVars, ageVars,
           finVars, markVars, cycleVars, capVars, mutVars
  <1>14. SweptIsLive'
    BY <1>2, <1>5, KeepSwept
       DEF SetWeakMode, objVars, ageVars, finVars, markVars, cycleVars, capVars, mutVars
  <1>15. FinalizersSeparated'
    BY <1>2, <1>5, KeepSeparated
       DEF SetWeakMode, objVars, ageVars, finVars, markVars, cycleVars, capVars, mutVars
  <1>16. QueueIsPending'
    BY DEF IInv, QueueIsPending, QueuedObjects, SetWeakMode, objVars, ageVars, finVars,
           markVars, cycleVars, capVars, mutVars
  <1>17. NoDangling'
    BY <1>1, <1>6, <1>2, <1>5, <1>4, <1>3, KeepNoDangling
       DEF IInv, NoDangling, Roots, RegObjects, QueuedObjects, SetWeakMode, objVars, ageVars,
           finVars, markVars, cycleVars, capVars, mutVars
  <1> QED
    BY <1>1, <1>6, <1>7, <1>8, <1>9, <1>10, <1>11, <1>12, <1>13, <1>14, <1>15, <1>16, <1>17
       DEF IInv

LEMMA InvSetGcMode == ASSUME IInv, SetGcMode PROVE IInv'
  <1>1. TypeOK /\ TypeOK'
    BY TypeSetGcMode DEF IInv
  <1>2. Shrinks
    BY <1>1, QuietShrinks
       DEF SetGcMode, objVars, ageVars, finVars, markVars, cycleVars, capVars, mutVars
  <1>3. UNCHANGED <<color, work>> /\ \A s \in Slots : Marked(s)' = Marked(s)
    BY DEF Marked, SetGcMode, objVars, ageVars, finVars, markVars, cycleVars, capVars, mutVars
  <1>4. Sealed' = Sealed
    BY DEF Sealed, SetGcMode, objVars, ageVars, finVars, markVars, cycleVars, capVars, mutVars
  <1>5. MarksLive
    BY <1>3, MarkedLive DEF MarksLive
  <1>6. Control'
    BY DEF IInv, Control, Sealed, SetGcMode, objVars, ageVars, finVars, markVars, cycleVars,
           capVars, mutVars
  <1>7. WorkIsGray'
    BY <1>3
       DEF IInv, WorkIsGray, SetGcMode, objVars, ageVars, finVars, markVars, cycleVars, capVars,
           mutVars
  <1>8. RootsCovered'
    BY <1>1, <1>3, Domains
       DEF IInv, RootsCovered, Roots, RegObjects, QueuedObjects, SetGcMode, objVars, ageVars,
           finVars, markVars, cycleVars, capVars, mutVars
  <1>9. SlotShape'
    BY <1>2, <1>5, KeepSlotShape
       DEF IInv, SlotShape, SetGcMode, objVars, ageVars, finVars, markVars, cycleVars, capVars,
           mutVars
  <1>10. TriColor'
    BY DEF TriColor, SetGcMode, objVars, ageVars, finVars, markVars, cycleVars, capVars, mutVars
  <1>11. WeakValuesCleared'
    BY <1>2, <1>5, <1>4, KeepWeakValues
       DEF SetGcMode, objVars, ageVars, finVars, markVars, cycleVars, capVars, mutVars
  <1>12. EphemeronsScanned'
    BY NotScanned
       DEF SetGcMode, objVars, ageVars, finVars, markVars, cycleVars, capVars, mutVars
  <1>13. FreshUnknown'
    BY <1>1, <1>6, <1>2, <1>5, <1>4, KeepFresh
       DEF IInv, FreshUnknown, RegObjects, QueuedObjects, SetGcMode, objVars, ageVars, finVars,
           markVars, cycleVars, capVars, mutVars
  <1>14. SweptIsLive'
    BY <1>2, <1>5, KeepSwept
       DEF SetGcMode, objVars, ageVars, finVars, markVars, cycleVars, capVars, mutVars
  <1>15. FinalizersSeparated'
    BY <1>2, <1>5, KeepSeparated
       DEF SetGcMode, objVars, ageVars, finVars, markVars, cycleVars, capVars, mutVars
  <1>16. QueueIsPending'
    BY DEF IInv, QueueIsPending, QueuedObjects, SetGcMode, objVars, ageVars, finVars, markVars,
           cycleVars, capVars, mutVars
  <1>17. NoDangling'
    BY <1>1, <1>6, <1>2, <1>5, <1>4, <1>3, KeepNoDangling
       DEF IInv, NoDangling, Roots, RegObjects, QueuedObjects, SetGcMode, objVars, ageVars,
           finVars, markVars, cycleVars, capVars, mutVars
  <1> QED
    BY <1>1, <1>6, <1>7, <1>8, <1>9, <1>10, <1>11, <1>12, <1>13, <1>14, <1>15, <1>16, <1>17
       DEF IInv

LEMMA InvClearRef == ASSUME IInv, NEW o \in Slots, NEW c \in Slots, ClearRef(o, c) PROVE IInv'
  <1>1. TypeOK /\ TypeOK'
    BY TypeClearRef DEF IInv
  <1>2. Shrinks
    BY <1>1
       DEF Shrinks, TypeOK, ObjTypes, ClearRef, objVars, ageVars, finVars, markVars, cycleVars,
           capVars, mutVars
  <1>3. RegObjects' = RegObjects
    BY <1>1
       DEF RegObjects, ClearRef, objVars, ageVars, finVars, markVars, cycleVars, capVars,
           mutVars
  <1> QED
    BY <1>1, <1>2, <1>3, InvDrops
       DEF ClearRef, objVars, ageVars, finVars, markVars, cycleVars, capVars, mutVars

LEMMA InvRawClear == ASSUME IInv, NEW o \in Slots, NEW p \in pairs[o], RawClear(o, p) PROVE IInv'
  <1>1. TypeOK /\ TypeOK'
    BY TypeRawClear DEF IInv
  <1>2. Shrinks
    BY <1>1
       DEF Shrinks, TypeOK, ObjTypes, RawClear, objVars, ageVars, finVars, markVars, cycleVars,
           capVars, mutVars
  <1>3. RegObjects' = RegObjects
    BY <1>1
       DEF RegObjects, RawClear, objVars, ageVars, finVars, markVars, cycleVars, capVars,
           mutVars
  <1> QED
    BY <1>1, <1>2, <1>3, InvDrops
       DEF RawClear, objVars, ageVars, finVars, markVars, cycleVars, capVars, mutVars

\* A store of rooted objects N into the rooted table o.
AddsRefs(o, N) ==
    /\ UNCHANGED <<kind, wmode>>
    /\ \A s \in Slots \ {o} : kids'[s] = kids[s] /\ pairs'[s] = pairs[s]
    /\ kids'[o] \subseteq kids[o] \cup N
    /\ \A p \in pairs'[o] : p \in pairs[o] \/ {p[1], p[2]} \subseteq N \cup {None}

\* A step that stores the references N in the object o.
LEMMA AddFacts ==
    ASSUME TypeOK, NEW o \in Slots, NEW N \in SUBSET Slots, AddsRefs(o, N)
    PROVE  /\ occ' = occ
           /\ \A s \in Slots : /\ Children(s)' \subseteq Children(s) \cup N
                               /\ StrongChildren(s)' \subseteq StrongChildren(s) \cup N
           /\ \A s \in Slots \cup {None} : /\ IsString(s)' = IsString(s)
                                           /\ IsObject(s)' = IsObject(s)
  <1>1. occ' = occ
    BY DEF occ, AddsRefs
  <1>2. \A s \in Slots \cup {None} : IsString(s)' = IsString(s) /\ IsObject(s)' = IsObject(s)
    BY DEF IsString, IsObject, AddsRefs
  <1>3. ASSUME NEW s \in Slots, NEW p \in pairs'[s]
        PROVE  p \in pairs[s] \/ {p[1], p[2]} \subseteq N \cup {None}
    BY <1>3 DEF AddsRefs
  <1>4. \A s \in Slots : kids'[s] \subseteq kids[s] \cup N
    BY DEF AddsRefs
  <1>5. ASSUME NEW s \in Slots PROVE Children(s)' \subseteq Children(s) \cup N
    <2> SUFFICES ASSUME NEW c \in Children(s)' PROVE c \in Children(s) \cup N
      OBVIOUS
    <2>1. CASE c \in kids'[s]
      BY <1>4, <2>1 DEF Children, ChildrenIn
    <2>2. CASE c \notin kids'[s]
      <3>1. PICK p \in pairs'[s] : c \in {p[1], p[2]} \ {None}
        BY <2>2 DEF Children, ChildrenIn, KeysOf, ValuesOf
      <3>2. CASE p \in pairs[s]
        BY <3>1, <3>2 DEF Children, ChildrenIn, KeysOf, ValuesOf
      <3>3. CASE {p[1], p[2]} \subseteq N \cup {None}
        BY <3>1, <3>3
      <3> QED
        BY <1>3, <3>2, <3>3
    <2> QED
      BY <2>1, <2>2
  <1>6. ASSUME NEW s \in Slots PROVE StrongChildren(s)' \subseteq StrongChildren(s) \cup N
    <2>0. wmode[s] \in {"strong", "keys", "values", "all"} /\ wmode'[s] = wmode[s] /\ kind' = kind
      BY DEF TypeOK, ObjTypes, AllModes, AddsRefs
    <2>1. StrongKeys(s)' \subseteq StrongKeys(s) \cup N
      <3>1. CASE wmode[s] \in {"strong", "values"}
        BY <1>3, <2>0, <3>1 DEF StrongKeys, KeysOf
      <3>2. CASE wmode[s] = "keys"
        BY <1>3, <2>0, <3>2 DEF StrongKeys, KeysOf, IsString
      <3>3. CASE wmode[s] = "all"
        BY <2>0, <3>3 DEF StrongKeys, KeysOf
      <3> QED
        BY <2>0, <3>1, <3>2, <3>3
    <2>2. StrongValues(s)' \subseteq StrongValues(s) \cup N
      BY <1>3, <2>0 DEF StrongValues, ValuesOf, IsString, IsObject
    <2> QED
      BY <1>4, <2>1, <2>2 DEF StrongChildren
  <1> QED
    BY <1>1, <1>2, <1>5, <1>6

\* A store into a rooted table, with the barrier that goes with it.
LEMMA InvStores ==
    ASSUME IInv, TypeOK', NEW o \in RegObjects, kind[o] = "table",
           NEW N \in SUBSET RegObjects, NEW S \in SUBSET N, AddsRefs(o, N), Mark(S),
           remTodo' \subseteq remembered', remembered' \subseteq remembered \cup {o},
           UNCHANGED <<want, ageVars, finVars, mode, cycle, rootsTodo, sweepCur, ephCur, stage,
                       converged, mutVars>>
    PROVE  IInv'
  <1>1. TypeOK /\ o \in Roots /\ N \subseteq Roots /\ Roots \subseteq Live /\ Live \subseteq Slots
    BY Domains, LiveShape DEF IInv, NoDangling
  <1>2. /\ occ' = occ /\ occ \subseteq Slots
        /\ \A s \in Slots : /\ Children(s)' \subseteq Children(s) \cup N
                            /\ StrongChildren(s)' \subseteq StrongChildren(s) \cup N
        /\ \A s \in Slots \cup {None} : /\ IsString(s)' = IsString(s)
                                        /\ IsObject(s)' = IsObject(s)
    <2>1. o \in Slots /\ N \in SUBSET Slots
      BY <1>1
    <2> QED
      BY <1>1, <2>1, AddFacts, Domains
  <1>3. phase \in {"Propagate", "Atomic", "Sweep"} => \A c \in N : Marked(c)
    BY <1>1 DEF IInv, RootsCovered
  <1>4. /\ \A s \in Slots : Marked(s)' <=> Marked(s) \/ (phase # "Pause" /\ s \in S)
        /\ \A s \in Slots : color'[s] = "Black" <=> color[s] = "Black"
        /\ WorkIsGray' /\ phase' = phase /\ work' \subseteq work \cup S
    <2>1. S \in SUBSET Slots
      BY <1>1
    <2>2. phase = "Sweep" => Whites(S) = {}
      BY <1>3 DEF Whites, White, Marked
    <2> QED
      BY <1>1, <2>1, <2>2, MarkFacts DEF IInv
  <1>5. phase \in {"Propagate", "Atomic", "Sweep"} =>
            work' = work /\ \A s \in Slots : Marked(s)' = Marked(s)
    BY <1>3, <1>4 DEF Mark, Whites, White, Marked
  <1>6. Sealed' = Sealed /\ Roots' = Roots /\ RegObjects' = RegObjects /\ QueuedObjects' = QueuedObjects
    BY DEF Sealed, Roots, RegObjects, QueuedObjects, ageVars, finVars, mutVars
  <1>7. Control'
    BY <1>2, <1>4, <1>6 DEF IInv, Control, ageVars, finVars, mutVars
  <1>8. Live' = Live
    <2>1. CASE ~Sealed
      BY <1>2, <1>6, <1>7, <2>1, LiveShape, LiveShapeNext DEF IInv
    <2>2. CASE Sealed
      <3>1. \A s \in Slots : Marked(s)' = Marked(s)
        BY <1>1, <1>5, <2>2, LiveShape DEF IInv
      <3> QED
        BY <1>2, <1>6, <1>7, <2>2, <3>1, LiveShape, LiveShapeNext DEF IInv
    <2> QED
      BY <2>1, <2>2
  <1>9. NoDangling'
    <2>1. \A s \in Live' : Children(s)' \subseteq Live'
      BY <1>1, <1>2, <1>8 DEF IInv, NoDangling
    <2>2. work' \subseteq Live /\ o \in occ
      BY <1>1, <1>4, LiveShape DEF IInv, NoDangling
    <2> QED
      BY <1>1, <1>2, <1>6, <1>8, <2>1, <2>2 DEF IInv, NoDangling
  <1>10. SlotShape'
    <2>1. \A s \in Slots : color[s] # "White" \/ s \in S => kind[s] # "free"
      BY <1>1, LiveShape DEF IInv, SlotShape, occ
    <2>2. \A s \in Slots : kind[s] # "table" => kids'[s] = {} /\ pairs'[s] = {}
      BY DEF IInv, SlotShape, AddsRefs
    <2>3. \A s \in Slots : kind[s] = "free" => color'[s] = "White"
      BY <1>4, <2>1 DEF Marked
    <2>4. kind' = kind /\ wmode' = wmode /\ want' = want /\ fin' = fin
      BY DEF AddsRefs, ageVars, finVars, mutVars
    <2> QED
      BY <2>2, <2>3, <2>4 DEF IInv, SlotShape
  <1>11. RootsCovered'
    BY <1>1, <1>4, <1>6 DEF IInv, RootsCovered
  <1>12. TriColor'
    <2> SUFFICES ASSUME phase' # "Pause", NEW s \in occ', color'[s] = "Black", ~Untraced(s)'
                 PROVE  phase' # "RootMark" /\ \A c \in StrongChildren(s)' : Marked(c)'
      BY DEF TriColor
    <2>1. s \in occ /\ s \in Slots /\ color[s] = "Black" /\ ~Untraced(s) /\ phase # "Pause"
      BY <1>2, <1>4 DEF Untraced, ageVars, finVars, mutVars
    <2>2. phase # "RootMark" /\ \A c \in StrongChildren(s) : Marked(c)
      BY <2>1 DEF IInv, TriColor
    <2>3. \A c \in N : Marked(c)
      BY <1>1, <1>3, <2>1, <2>2 DEF TypeOK, MarkTypes
    <2>4. StrongChildren(s)' \subseteq StrongChildren(s) \cup N /\ StrongChildren(s) \subseteq Slots
      BY <1>1, <1>2, <2>1, ChildTypes
    <2> QED
      BY <1>1, <1>4, <2>2, <2>3, <2>4
  <1>13. WeakValuesCleared'
    <2> SUFFICES ASSUME stage # "BeforeWeakValues", ~Sealed, NEW s \in occ',
                        wmode'[s] \in {"values", "all"}, NEW p \in pairs'[s]
                 PROVE  ~DeadRef(p[2])'
      BY <1>6 DEF WeakValuesCleared
    <2>1. s \in occ /\ s \in Slots /\ wmode'[s] = wmode[s]
      BY <1>2 DEF AddsRefs
    <2>2. phase \in {"Propagate", "Atomic", "Sweep"}
      BY <1>1 DEF IInv, Control, TypeOK, MarkTypes
    <2>3. p[2] \in Slots \cup {None}
      BY <2>1, PairTypes
    <2>4. p \in pairs[s] \/ p[2] \in N \cup {None}
      BY <2>1 DEF AddsRefs
    <2>5. CASE p \in pairs[s]
      BY <1>2, <1>5, <2>1, <2>2, <2>3, <2>5
         DEF IInv, WeakValuesCleared, DeadRef, IsObject, White, Marked
    <2>6. CASE p[2] \in N \cup {None}
      BY <1>2, <1>3, <1>5, <2>2, <2>3, <2>6 DEF DeadRef, IsObject, White, Marked
    <2> QED
      BY <2>4, <2>5, <2>6
  <1>14. EphemeronsScanned'
    <2> SUFFICES ASSUME phase' = "Atomic", work' \subseteq {fresh'}, ~Sealed,
                        NEW s \in occ', s <= ephCur, Marked(s)', wmode'[s] = "keys",
                        NEW p \in pairs'[s], (IsObject(p[1]) => Marked(p[1]))', p[2] # None
                 PROVE  Marked(p[2])'
      BY <1>6 DEF EphemeronsScanned
    <2>1. /\ s \in occ /\ s \in Slots /\ wmode[s] = "keys" /\ Marked(s)
          /\ phase = "Atomic" /\ work \subseteq {fresh}
      BY <1>2, <1>4, <1>5 DEF AddsRefs, ageVars, finVars, mutVars
    <2>2. p[1] \in Slots \cup {None} /\ p[2] \in Slots
      BY <2>1, PairTypes
    <2>3. p \in pairs[s] \/ p[2] \in N
      BY <2>1 DEF AddsRefs
    <2>4. CASE p \in pairs[s]
      <3>1. IsObject(p[1]) => Marked(p[1])
        BY <1>2, <1>5, <2>1, <2>2 DEF IsObject
      <3>2. Marked(p[2])
        BY <2>1, <2>4, <3>1 DEF IInv, EphemeronsScanned
      <3> QED
        BY <1>4, <2>2, <3>2
    <2>5. CASE p[2] \in N
      BY <1>3, <1>4, <2>1, <2>2, <2>5
    <2> QED
      BY <2>3, <2>4, <2>5
  <1>15. FreshUnknown'
    <2>1. fresh # None => fresh \notin N
      BY DEF IInv, FreshUnknown
    <2> QED
      BY <1>1, <1>2, <1>6, <1>8, <2>1 DEF IInv, FreshUnknown, ageVars, finVars, mutVars
  <1>16. SweptIsLive' /\ FinalizersSeparated' /\ QueueIsPending'
    BY <1>2, <1>4, <1>6
       DEF IInv, SweptIsLive, FinalizersSeparated, QueueIsPending, ageVars, finVars, mutVars
  <1> QED
    BY <1>4, <1>7, <1>9, <1>10, <1>11, <1>12, <1>13, <1>14, <1>15, <1>16 DEF IInv

LEMMA InvWriteRef == ASSUME IInv, NEW o \in Slots, NEW c \in Slots, WriteRef(o, c) PROVE IInv'
  <1>1. TypeOK /\ TypeOK'
    BY TypeWriteRef DEF IInv
  <1>2. AddsRefs(o, {c})
    <2>1. kids'[o] = kids[o] \cup {c} /\ \A s \in Slots \ {o} : kids'[s] = kids[s]
      BY <1>1 DEF TypeOK, ObjTypes, WriteRef
    <2>2. UNCHANGED <<kind, wmode, pairs>>
      BY DEF WriteRef
    <2> QED
      BY <2>1, <2>2 DEF AddsRefs
  <1>3. Mark(IF color[o] = "Black" THEN {c} ELSE {}) /\ (IF color[o] = "Black" THEN {c} ELSE {}) \in SUBSET {c}
    BY DEF WriteRef
  <1>4. remTodo' \subseteq remembered' /\ remembered' \subseteq remembered \cup {o}
    BY DEF Remember, IInv, NoDangling, WriteRef
  <1>5. {c} \in SUBSET RegObjects /\ o \in RegObjects /\ kind[o] = "table"
    BY DEF WriteRef
  <1> QED
    BY <1>1, <1>2, <1>3, <1>4, <1>5, InvStores DEF WriteRef

LEMMA InvRawSet ==
    ASSUME IInv, NEW o \in Slots, NEW k \in Slots \cup {None}, NEW v \in Slots \cup {None}, RawSet(o, k, v)
    PROVE  IInv'
  <1> DEFINE N == {k, v} \ {None}
  <1>1. TypeOK /\ TypeOK'
    BY TypeRawSet DEF IInv
  <1>2. pairs' = [pairs EXCEPT ![o] = {p \in pairs[o] : p[1] # k} \cup {<<k, v>>}] /\ kids' = kids
    BY DEF RawSet
  <1>3. AddsRefs(o, N)
    <2>1. pairs'[o] = {p \in pairs[o] : p[1] # k} \cup {<<k, v>>}
      BY <1>1, <1>2 DEF TypeOK, ObjTypes
    <2>2. \A p \in pairs'[o] : p \in pairs[o] \/ p = <<k, v>>
      BY <2>1
    <2>3. {<<k, v>>[1], <<k, v>>[2]} \subseteq N \cup {None}
      OBVIOUS
    <2>4. \A s \in Slots \ {o} : kids'[s] = kids[s] /\ pairs'[s] = pairs[s]
      BY <1>1, <1>2 DEF TypeOK, ObjTypes
    <2> HIDE DEF N
    <2> QED
      <3>1. UNCHANGED <<kind, wmode>>
        BY DEF RawSet
      <3>2. kids'[o] \subseteq kids[o] \cup N
        BY <1>2
      <3>3. \A p \in pairs'[o] : p \in pairs[o] \/ {p[1], p[2]} \subseteq N \cup {None}
        BY <2>2, <2>3
      <3> QED
        BY <2>4, <3>1, <3>2, <3>3 DEF AddsRefs
  <1>4. PICK n \in {k, None} : Mark(BarrierMarks(o, n, v)) /\ Remember(o, {n, v} \ {None})
    BY DEF RawSet
  <1>5. BarrierMarks(o, n, v) \in SUBSET N
    BY DEF BarrierMarks
  <1>6. remTodo' \subseteq remembered' /\ remembered' \subseteq remembered \cup {o}
    BY <1>4 DEF Remember, IInv, NoDangling
  <1>7. N \in SUBSET RegObjects /\ o \in RegObjects /\ kind[o] = "table"
    BY DEF RawSet
  <1> HIDE DEF N
  <1> QED
    BY <1>1, <1>3, <1>4, <1>5, <1>6, <1>7, InvStores DEF RawSet

-----------------------------------------------------------------------------
(* Allocation and its rollback.                                            *)

LEMMA InvAllocateFails == ASSUME IInv, AllocateFails PROVE IInv'
  <1>1. TypeOK /\ TypeOK' /\ fresh \in Slots /\ fresh \in Live /\ fresh' = None
    BY TypeAllocateFails DEF IInv, TypeOK, MutTypes, NoDangling, Roots, AllocateFails
  <1>2. /\ occ' = occ \ {fresh} /\ kind' = [kind EXCEPT ![fresh] = "free"]
        /\ kind'[fresh] = "free" /\ kids'[fresh] = {} /\ pairs'[fresh] = {} /\ color'[fresh] = "White"
        /\ want'[fresh] = "strong" /\ wmode'[fresh] = "strong" /\ fin'[fresh] = "Unregistered"
        /\ \A t \in Slots \ {fresh} : /\ kind'[t] = kind[t] /\ want'[t] = want[t]
                                      /\ kids'[t] = kids[t] /\ pairs'[t] = pairs[t]
                                      /\ wmode'[t] = wmode[t] /\ color'[t] = color[t]
                                      /\ fin'[t] = fin[t] /\ age'[t] = age[t]
        /\ work' = work \ {fresh} /\ rootsTodo' = rootsTodo \ {fresh}
        /\ remembered' = remembered \ {fresh} /\ remTodo' = remTodo \ {fresh}
    BY <1>1, ReclaimFacts DEF AllocateFails
  <1>3. \A t \in Slots \ {fresh} : Marked(t)' = Marked(t)
    BY <1>2 DEF Marked
  <1>4. Sealed' = Sealed /\ RegObjects' = RegObjects /\ QueuedObjects' = QueuedObjects
    BY DEF Sealed, RegObjects, QueuedObjects, AllocateFails
  <1>5. Roots' = Roots \ {fresh} /\ fresh \notin RegObjects \cup QueuedObjects /\ Roots \subseteq Slots
    BY <1>1, <1>4, Domains DEF Roots, IInv, FreshUnknown, AllocateFails
  <1>6. occ \subseteq Slots /\ Live \subseteq occ
    BY <1>1, LiveShape DEF IInv
  <1>7. Control'
    BY <1>1, <1>2, <1>3, <1>4, <1>6 DEF IInv, Control, AllocateFails
  <1>8. Live' = Live \ {fresh}
    <2>1. CASE ~Sealed
      BY <1>1, <1>2, <1>4, <1>7, <2>1, LiveShape, LiveShapeNext DEF IInv
    <2>2. CASE Sealed
      BY <1>1, <1>2, <1>3, <1>4, <1>6, <1>7, <2>2, LiveShape, LiveShapeNext DEF IInv
    <2> QED
      BY <2>1, <2>2
  <1>9. ASSUME NEW t \in Live, t # fresh
        PROVE  /\ fresh \notin Children(t) /\ Children(t)' = Children(t)
               /\ StrongChildren(t)' = StrongChildren(t)
               /\ \A p \in pairs[t] : /\ p[1] \in Slots \cup {None} /\ p[2] \in Slots \cup {None}
                                      /\ p[1] # fresh /\ p[2] # fresh
                                      /\ IsObject(p[1])' = IsObject(p[1])
                                      /\ IsObject(p[2])' = IsObject(p[2])
    <2>1. t \in Slots \ {fresh} /\ fresh \notin Children(t)
      BY <1>6, <1>9 DEF IInv, FreshUnknown, AllocateFails
    <2>2. kids'[t] = kids[t] /\ pairs'[t] = pairs[t] /\ wmode'[t] = wmode[t]
      BY <1>2, <2>1
    <2> QED
      BY <1>1, <1>2, <2>1, <2>2, Elsewhere
  <1>10. NoDangling'
    <2>1. Roots' \subseteq Live' /\ (rootsTodo \cup work)' \subseteq Live'
      BY <1>2, <1>5, <1>8 DEF IInv, NoDangling
    <2>2. \A t \in Live' : Children(t)' \subseteq Live'
      BY <1>8, <1>9 DEF IInv, NoDangling
    <2>3. remTodo' \subseteq remembered' /\ remembered' \subseteq occ'
      BY <1>2 DEF IInv, NoDangling
    <2> QED
      BY <2>1, <2>2, <2>3 DEF NoDangling
  <1>11. SlotShape'
    <2> SUFFICES ASSUME NEW t \in Slots
                 PROVE (/\ kind[t] \in Kinds \cup {"free"}
                        /\ want[t] \in WeakModes \cup {"strong"} /\ wmode[t] \in WeakModes \cup {"strong"}
                        /\ kind[t] # "table" => kids[t] = {} /\ pairs[t] = {}
                        /\ kind[t] = "free" => /\ color[t] = "White" /\ wmode[t] = "strong"
                                               /\ fin[t] = "Unregistered")'
      BY DEF SlotShape
    <2>1. CASE t = fresh
      BY <1>2, <2>1
    <2>2. CASE t # fresh
      <3>1. /\ kind'[t] = kind[t] /\ want'[t] = want[t] /\ kids'[t] = kids[t]
            /\ pairs'[t] = pairs[t] /\ wmode'[t] = wmode[t] /\ color'[t] = color[t]
            /\ fin'[t] = fin[t]
        BY <1>2, <2>2
      <3> QED
        BY <3>1 DEF IInv, SlotShape
    <2> QED
      BY <2>1, <2>2
  <1>12. WorkIsGray'
    BY <1>1, <1>2 DEF IInv, WorkIsGray, AllocateFails
  <1>13. RootsCovered'
    BY <1>2, <1>3, <1>5 DEF IInv, RootsCovered, AllocateFails
  <1>14. TriColor'
    <2> SUFFICES ASSUME phase # "Pause", NEW t \in occ', color'[t] = "Black", ~Untraced(t)'
                 PROVE  phase # "RootMark" /\ \A c \in StrongChildren(t)' : Marked(c)'
      BY DEF TriColor, AllocateFails
    <2>1. t \in occ /\ t \in Slots /\ t # fresh /\ color[t] = "Black" /\ ~Untraced(t)
      BY <1>2, <1>6 DEF Untraced, AllocateFails
    <2>2. t \in Live /\ StrongChildren(t) \subseteq Children(t) /\ Children(t) \subseteq Slots
      BY <1>1, <2>1, MarkedLive, StrongSub, Domains DEF Marked
    <2>3. phase # "RootMark" /\ \A c \in StrongChildren(t) : Marked(c)
      BY <2>1 DEF IInv, TriColor
    <2> QED
      BY <1>3, <1>9, <2>1, <2>2, <2>3
  <1>15. WeakValuesCleared'
    <2> SUFFICES ASSUME stage # "BeforeWeakValues", ~Sealed, NEW t \in occ',
                        wmode'[t] \in {"values", "all"}, NEW p \in pairs'[t]
                 PROVE  ~DeadRef(p[2])'
      BY <1>4 DEF WeakValuesCleared, AllocateFails
    <2>1. t \in Live /\ t # fresh /\ t \in Slots /\ t \in occ /\ p \in pairs[t] /\ wmode[t] = wmode'[t]
      BY <1>1, <1>2, <1>6, LiveShape DEF IInv
    <2>2. ~DeadRef(p[2])
      BY <2>1 DEF IInv, WeakValuesCleared
    <2>3. p[2] \in Slots \cup {None} /\ p[2] # fresh /\ IsObject(p[2])' = IsObject(p[2])
      BY <1>9, <2>1
    <2> QED
      BY <1>2, <2>2, <2>3 DEF DeadRef, IsObject, White
  <1>16. EphemeronsScanned'
    <2> SUFFICES ASSUME phase = "Atomic", work' \subseteq {None}, ~Sealed,
                        NEW t \in occ', t <= ephCur, Marked(t)', wmode'[t] = "keys",
                        NEW p \in pairs'[t], (IsObject(p[1]) => Marked(p[1]))', p[2] # None
                 PROVE  Marked(p[2])'
      BY <1>1, <1>4 DEF EphemeronsScanned, AllocateFails
    <2>1. /\ t \in Live /\ t # fresh /\ t \in Slots /\ t \in occ /\ p \in pairs[t] /\ wmode[t] = "keys"
          /\ Marked(t)
      BY <1>1, <1>2, <1>3, <1>6, LiveShape DEF IInv
    <2>2. work \subseteq {fresh}
      BY <1>1, <1>2, SlotsFinite DEF TypeOK, MarkTypes
    <2>3. /\ p[1] \in Slots \cup {None} /\ p[2] \in Slots /\ p[1] # fresh /\ p[2] # fresh
          /\ IsObject(p[1])' = IsObject(p[1])
      BY <1>9, <2>1
    <2>4. IsObject(p[1]) => Marked(p[1])
      BY <1>3, <2>3 DEF IsObject
    <2>5. Marked(p[2])
      BY <2>1, <2>2, <2>4 DEF IInv, EphemeronsScanned
    <2> QED
      BY <1>3, <2>3, <2>5
  <1>17. FreshUnknown'
    BY <1>1 DEF FreshUnknown
  <1>18. SweptIsLive' /\ FinalizersSeparated'
    BY <1>2, <1>3, <1>6 DEF IInv, SweptIsLive, FinalizersSeparated, AllocateFails
  <1>19. QueueIsPending'
    BY <1>1, <1>2, <1>4 DEF IInv, QueueIsPending
  <1> QED
    BY <1>1, <1>7, <1>10, <1>11, <1>12, <1>13, <1>14, <1>15, <1>16, <1>17, <1>18, <1>19 DEF IInv

\* Filling the free slot s.
LEMMA PublishFacts ==
    ASSUME TypeOK, SlotShape, NEW s \in Slots, NEW k \in Kinds, NEW init \in Inits, Publish(s, k, init)
    PROVE  /\ s \notin occ /\ occ' = occ \cup {s} /\ kind' = [kind EXCEPT ![s] = k]
           /\ kind'[s] = k /\ kind'[s] # "free" /\ kids'[s] = init /\ pairs'[s] = {} /\ pairs[s] = {}
           /\ (k # "table" => init = {}) /\ init \subseteq RegObjects /\ Children(s)' = init
           /\ wmode'[s] = "strong" /\ fin'[s] = "Unregistered" /\ color[s] = "White"
           /\ \A t \in Slots \ {s} : kind'[t] = kind[t] /\ kids'[t] = kids[t]
  <1>1. /\ s \notin occ /\ kind[s] = "free" /\ kind' = [kind EXCEPT ![s] = k] /\ k # "free"
        /\ kids' = [kids EXCEPT ![s] = init] /\ UNCHANGED <<pairs, wmode, fin>>
        /\ (k # "table" => init = {}) /\ init \subseteq RegObjects
    BY ConstAssumption DEF occ, AllKinds, finVars, Inits, Publish
  <1>2. kind'[s] = k /\ \A t \in Slots \ {s} : kind'[t] = kind[t]
    BY <1>1 DEF TypeOK, ObjTypes
  <1>3. kids'[s] = init /\ \A t \in Slots \ {s} : kids'[t] = kids[t]
    BY <1>1 DEF TypeOK, ObjTypes
  <1>4. occ' = occ \cup {s}
    BY <1>1, <1>2 DEF occ
  <1>5. pairs[s] = {} /\ wmode[s] = "strong" /\ fin[s] = "Unregistered" /\ color[s] = "White"
    BY <1>1 DEF SlotShape
  <1>6. Children(s)' = init
    BY <1>1, <1>3, <1>5 DEF Children, ChildrenIn, KeysOf, ValuesOf
  <1> QED
    BY <1>1, <1>2, <1>3, <1>4, <1>5, <1>6

\* A new object, held by a root entry or by the temporary root.
LEMMA InvPublishes ==
    ASSUME IInv, TypeOK', NEW s \in Slots, NEW k \in Kinds, NEW init \in Inits, Publish(s, k, init),
           Mark({s}),
           \/ fresh' = fresh /\ RegObjects' \subseteq RegObjects \cup {s}
           \/ /\ fresh = None /\ fresh' = s /\ ~running /\ collecting = "idle"
              /\ RegObjects' = RegObjects
    PROVE  IInv'
  <1>1. /\ s \notin occ /\ occ' = occ \cup {s} /\ kind' = [kind EXCEPT ![s] = k]
        /\ kind'[s] = k /\ kind'[s] # "free" /\ kids'[s] = init /\ pairs'[s] = {} /\ pairs[s] = {}
        /\ (k # "table" => init = {}) /\ init \subseteq RegObjects /\ Children(s)' = init
        /\ wmode'[s] = "strong" /\ fin'[s] = "Unregistered" /\ color[s] = "White"
        /\ \A t \in Slots \ {s} : kind'[t] = kind[t] /\ kids'[t] = kids[t]
    BY PublishFacts DEF IInv
  <1>2. UNCHANGED <<pairs, want, wmode, ageVars, finVars, cycleVars, remembered, collecting>>
    BY DEF Publish
  <1>3. /\ \A t \in Slots : Marked(t)' <=> Marked(t) \/ (phase # "Pause" /\ t = s)
        /\ \A t \in Slots : color'[t] = "Black" <=> color[t] = "Black"
        /\ WorkIsGray'
        /\ phase' = phase \/ (phase = "Sweep" /\ phase' = "Propagate")
        /\ work' \subseteq work \cup {s}
    <2> DEFINE S == {s}
    <2>1. TypeOK /\ WorkIsGray /\ S \in SUBSET Slots /\ Mark(S)
      BY DEF IInv
    <2> HIDE DEF S
    <2>2. /\ \A t \in Slots : Marked(t)' <=> Marked(t) \/ (phase # "Pause" /\ t \in S)
          /\ \A t \in Slots : color'[t] = "Black" <=> color[t] = "Black"
          /\ WorkIsGray'
          /\ phase' = phase \/ (phase = "Sweep" /\ phase' = "Propagate")
          /\ work' \subseteq work \cup S
      BY <2>1, MarkFacts
    <2> QED
      BY <2>2 DEF S
  <1>4. TypeOK /\ Sealed' = Sealed /\ QueuedObjects' = QueuedObjects /\ s # None
    BY <1>2, SlotsFinite DEF IInv, Sealed, QueuedObjects, ageVars, finVars, cycleVars
  <1>5. /\ occ \subseteq Slots /\ Live \subseteq occ /\ Roots \subseteq Live
        /\ Sealed => phase \in {"Propagate", "Atomic", "Sweep"}
    BY LiveShape DEF IInv, NoDangling
  <1>6. Roots' \subseteq Roots \cup {s} /\ s \notin Roots
    BY <1>1, <1>4, <1>5 DEF Roots
  <1>7. Control'
    <2>1. phase' \in {"Pause", "RootMark"} => phase' = phase
      BY <1>3
    <2>2. phase' # "Pause" => phase # "Pause"
      BY <1>3
    <2>3. /\ running' /\ (collecting' # "idle" \/ fresh' # None) => phase' = "Pause"
          /\ collecting' # "idle" => fresh' = None
      BY <1>2, <1>3 DEF IInv, Control, ageVars, finVars, cycleVars
    <2>4. phase' # "Pause" /\ cycle' = "Minor" =>
             mode' = "Generational" /\ \A t \in occ' : age'[t] = "Old" => Marked(t)'
      BY <1>1, <1>2, <1>3, <1>5, <2>2 DEF IInv, Control, ageVars, finVars, cycleVars
    <2>5. /\ phase' \in {"Pause", "RootMark"} => stage' = "BeforeWeakValues" /\ ephCur' = 0
          /\ phase' = "Propagate" => ephCur' = 0 \/ Sealed'
          /\ phase' = "Sweep" => Sealed'
          /\ phase' # "RootMark" => rootsTodo' = {}
          /\ sweepCur' > 0 => Sealed'
      BY <1>2, <1>3, <1>4 DEF IInv, Control, ageVars, finVars, cycleVars
    <2> QED
      BY <1>2, <2>3, <2>4, <2>5 DEF Control
  <1>8. Live' = Live \cup {s}
    <2>1. CASE ~Sealed
      BY <1>1, <1>4, <1>7, <2>1, LiveShape, LiveShapeNext DEF IInv
    <2>2. CASE Sealed
      BY <1>1, <1>3, <1>4, <1>5, <1>7, <2>2, LiveShape, LiveShapeNext DEF IInv
    <2> QED
      BY <2>1, <2>2
  <1>9. ASSUME NEW t \in Live
        PROVE  /\ t \in Slots \ {s} /\ s \notin Children(t) /\ Children(t)' = Children(t)
               /\ StrongChildren(t)' = StrongChildren(t)
               /\ \A p \in pairs[t] : /\ p[1] \in Slots \cup {None} /\ p[2] \in Slots \cup {None}
                                      /\ p[1] # s /\ p[2] # s
                                      /\ IsObject(p[1])' = IsObject(p[1])
                                      /\ IsObject(p[2])' = IsObject(p[2])
    <2>1. t \in Slots \ {s} /\ s \notin Children(t)
      BY <1>1, <1>5, <1>9 DEF IInv, NoDangling
    <2>2. kids'[t] = kids[t] /\ pairs'[t] = pairs[t] /\ wmode'[t] = wmode[t]
      BY <1>1, <1>2, <2>1
    <2> QED
      BY <1>1, <1>4, <2>1, <2>2, Elsewhere
  <1>10. NoDangling'
    <2>1. init \subseteq Live
      BY <1>1, <1>5 DEF Roots
    <2>2. \A t \in Live' : Children(t)' \subseteq Live'
      <3> SUFFICES ASSUME NEW t \in Live' PROVE Children(t)' \subseteq Live'
        OBVIOUS
      <3>1. CASE t = s
        BY <1>1, <1>8, <2>1, <3>1
      <3>2. CASE t \in Live
        BY <1>8, <1>9, <3>2 DEF IInv, NoDangling
      <3> QED
        BY <1>8, <3>1, <3>2
    <2> QED
      BY <1>1, <1>2, <1>3, <1>5, <1>6, <1>8, <2>2
         DEF IInv, NoDangling, ageVars, finVars, cycleVars
  <1>11. SlotShape'
    <2> SUFFICES ASSUME NEW t \in Slots
                 PROVE (/\ kind[t] \in Kinds \cup {"free"}
                        /\ want[t] \in WeakModes \cup {"strong"} /\ wmode[t] \in WeakModes \cup {"strong"}
                        /\ kind[t] # "table" => kids[t] = {} /\ pairs[t] = {}
                        /\ kind[t] = "free" => /\ color[t] = "White" /\ wmode[t] = "strong"
                                               /\ fin[t] = "Unregistered")'
      BY DEF SlotShape
    <2>1. CASE t = s
      BY <1>1, <1>2, <2>1 DEF IInv, SlotShape
    <2>2. CASE t # s
      <3>1. /\ kind'[t] = kind[t] /\ kids'[t] = kids[t] /\ pairs'[t] = pairs[t]
            /\ want'[t] = want[t] /\ wmode'[t] = wmode[t] /\ fin'[t] = fin[t]
        BY <1>1, <1>2, <2>2 DEF ageVars, finVars, cycleVars
      <3>2. color[t] = "White" => color'[t] = "White"
        BY <1>3, <2>2 DEF Marked
      <3> QED
        BY <3>1, <3>2 DEF IInv, SlotShape
    <2> QED
      BY <2>1, <2>2
  <1>12. RootsCovered'
    <2>1. ASSUME phase' # "Pause", NEW t \in Roots'
          PROVE  t \in Slots /\ (Marked(t)' \/ (phase' = "RootMark" /\ t \in rootsTodo'))
      <3>1. phase \in {"RootMark", "Propagate", "Atomic", "Sweep"} /\ t \in Slots
        BY <1>3, <1>4, <1>5, <1>6, <2>1 DEF TypeOK, MarkTypes
      <3>2. CASE t = s
        BY <1>3, <3>1, <3>2
      <3>3. CASE t # s
        BY <1>2, <1>3, <1>6, <3>1, <3>3 DEF IInv, RootsCovered, ageVars, finVars, cycleVars
      <3> QED
        BY <3>1, <3>2, <3>3
    <2> QED
      BY <2>1 DEF RootsCovered
  <1>13. TriColor'
    <2> SUFFICES ASSUME phase' # "Pause", NEW t \in occ', color'[t] = "Black", ~Untraced(t)'
                 PROVE  phase' # "RootMark" /\ \A c \in StrongChildren(t)' : Marked(c)'
      BY DEF TriColor
    <2>1. t \in occ /\ t \in Slots /\ t # s /\ color[t] = "Black" /\ ~Untraced(t) /\ phase # "Pause"
      BY <1>1, <1>2, <1>3, <1>5 DEF Untraced, ageVars, finVars, cycleVars
    <2>2. t \in Live /\ StrongChildren(t) \subseteq Slots
      BY <1>4, <2>1, MarkedLive, ChildTypes DEF Marked
    <2>3. phase # "RootMark" /\ \A c \in StrongChildren(t) : Marked(c)
      BY <2>1 DEF IInv, TriColor
    <2> QED
      BY <1>3, <1>9, <2>2, <2>3
  <1>14. WeakValuesCleared'
    <2> SUFFICES ASSUME stage # "BeforeWeakValues", ~Sealed, NEW t \in occ',
                        wmode'[t] \in {"values", "all"}, NEW p \in pairs'[t]
                 PROVE  ~DeadRef(p[2])'
      BY <1>2, <1>4 DEF WeakValuesCleared, ageVars, finVars, cycleVars
    <2>1. t \in Live /\ t \in occ /\ p \in pairs[t] /\ wmode[t] \in {"values", "all"}
      BY <1>1, <1>2, LiveShape DEF IInv
    <2>2. ~DeadRef(p[2])
      BY <2>1 DEF IInv, WeakValuesCleared
    <2>3. p[2] \in Slots \cup {None} /\ p[2] # s /\ IsObject(p[2])' = IsObject(p[2])
      BY <1>9, <2>1
    <2> QED
      BY <1>3, <2>2, <2>3 DEF DeadRef, IsObject, White, Marked
  <1>15. EphemeronsScanned'
    <2> SUFFICES ASSUME phase' = "Atomic", work' \subseteq {fresh'}, ~Sealed,
                        NEW t \in occ', t <= ephCur, Marked(t)', wmode'[t] = "keys",
                        NEW p \in pairs'[t], (IsObject(p[1]) => Marked(p[1]))', p[2] # None
                 PROVE  Marked(p[2])'
      BY <1>2, <1>4 DEF EphemeronsScanned, ageVars, finVars, cycleVars
    <2>1. s \in work'
      <3>1. Marked(s)' /\ color'[s] # "Black" /\ color'[s] \in Colors
        BY <1>1, <1>3 DEF TypeOK, MarkTypes
      <3> QED
        BY <1>3, <3>1 DEF WorkIsGray, Marked, Colors
    <2>2. work \subseteq work' /\ s \notin work
      BY <1>1, <1>5 DEF Mark, IInv, NoDangling
    <2>3. fresh \in occ \cup {None}
      BY <1>4, <1>5 DEF Roots
    <2>4. fresh = None /\ work = {}
      BY <1>1, <1>4, <2>1, <2>2, <2>3
    <2>5. t \in Live /\ t \in occ /\ t \in Slots \ {s} /\ p \in pairs[t] /\ wmode[t] = "keys" /\ Marked(t)
      BY <1>1, <1>2, <1>3, <1>5, LiveShape DEF IInv
    <2>6. /\ p[1] \in Slots \cup {None} /\ p[2] \in Slots /\ p[1] # s /\ p[2] # s
          /\ IsObject(p[1])' = IsObject(p[1])
      BY <1>9, <2>5
    <2>7. IsObject(p[1]) => Marked(p[1])
      BY <1>3, <2>6 DEF IsObject
    <2>8. phase = "Atomic"
      BY <1>3
    <2>9. Marked(p[2])
      BY <2>4, <2>5, <2>7, <2>8 DEF IInv, EphemeronsScanned
    <2> QED
      BY <1>3, <2>6, <2>9
  <1>16. FreshUnknown'
    <2>1. CASE fresh' = fresh /\ fresh # None /\ RegObjects' \subseteq RegObjects \cup {s}
      <3>1. fresh \in occ /\ fresh # s
        BY <1>1, <1>5, <2>1 DEF Roots
      <3>2. fresh \notin RegObjects' \cup QueuedObjects' /\ fin'[fresh] = "Unregistered"
        BY <1>2, <1>4, <2>1, <3>1 DEF IInv, FreshUnknown, ageVars, finVars, cycleVars
      <3>3. \A t \in Live' : fresh \notin Children(t)'
        BY <1>1, <1>8, <1>9, <2>1 DEF IInv, FreshUnknown
      <3> QED
        BY <2>1, <3>2, <3>3 DEF FreshUnknown
    <2>2. CASE fresh' = s /\ RegObjects' = RegObjects
      <3>1. s \notin RegObjects' \cup QueuedObjects' /\ fin'[s] = "Unregistered"
        BY <1>1, <1>4, <1>6, <2>2 DEF Roots
      <3>2. s \notin Children(s)'
        BY <1>1, <1>6 DEF Roots
      <3>3. \A t \in Live : s \notin Children(t)'
        BY <1>9
      <3> QED
        BY <1>8, <2>2, <3>1, <3>2, <3>3 DEF FreshUnknown
    <2> QED
      BY <2>1, <2>2 DEF FreshUnknown
  <1>17. SweptIsLive'
    <2>1. s <= sweepCur => sweepCur > 0
      <3>1. s \in Nat /\ s > 0
        BY SlotNumbers
      <3>2. sweepCur \in Nat
        BY <1>4 DEF TypeOK, CycleTypes
      <3> QED
        BY <3>1, <3>2, Positive
    <2>2. s <= sweepCur => Marked(s)'
      BY <1>3, <1>5, <2>1 DEF IInv, Control
    <2> QED
      BY <1>1, <1>2, <1>3, <1>5, <2>2 DEF IInv, SweptIsLive, ageVars, finVars, cycleVars
  <1>18. FinalizersSeparated'
    BY <1>1, <1>2, <1>3, <1>5 DEF IInv, FinalizersSeparated, ageVars, finVars, cycleVars
  <1>19. QueueIsPending'
    BY <1>2, <1>4 DEF IInv, QueueIsPending, ageVars, finVars, cycleVars
  <1> QED
    BY <1>3, <1>7, <1>10, <1>11, <1>12, <1>13, <1>14, <1>15, <1>16, <1>17, <1>18, <1>19 DEF IInv

\* Allocation in one step, and allocation that pays for a collection step.
LEMMA InvAllocate ==
    ASSUME IInv, NEW s \in Slots, NEW k \in Kinds, NEW init \in Inits, NEW r \in Regs,
           Allocate(s, k, init, r)
    PROVE  IInv'
  <1>1. /\ TypeOK /\ TypeOK' /\ Publish(s, k, init) /\ Mark({s})
        /\ fresh' = fresh /\ regs' = [regs EXCEPT ![r] = s]
    BY TypeAllocate DEF IInv, Allocate, SetRoot
  <1>2. RegObjects' \subseteq RegObjects \cup {s}
    BY <1>1 DEF RegObjects, TypeOK, MutTypes
  <1> QED
    BY <1>1, <1>2, InvPublishes

LEMMA InvAllocateAndStep ==
    ASSUME IInv, NEW s \in Slots, NEW k \in Kinds, NEW init \in Inits, AllocateAndStep(s, k, init)
    PROVE  IInv'
  <1>1. /\ TypeOK' /\ Publish(s, k, init) /\ Mark({s}) /\ collecting = "idle"
        /\ fresh = None /\ fresh' = s /\ ~running /\ regs' = regs
    BY TypeAllocateAndStep DEF IInv, AllocateAndStep
  <1>2. RegObjects' = RegObjects
    BY <1>1 DEF RegObjects
  <1> QED
    BY <1>1, <1>2, InvPublishes

-----------------------------------------------------------------------------
(* The theorems.                                                           *)

\* The empty heap.
LEMMA InvInit == Init => IInv
  <1> SUFFICES ASSUME Init PROVE IInv
    OBVIOUS
  <1>1. TypeOK
    BY TypeInit
  <1>2. occ = {} /\ QueuedObjects = {} /\ RegObjects = {} /\ Roots = {} /\ ~Sealed
    BY DEF occ, QueuedObjects, RegObjects, Roots, Sealed, Init
  <1>3. Live = {}
    BY <1>2 DEF Live
  <1>4. SlotShape /\ WorkIsGray /\ QueueIsPending
    BY DEF SlotShape, WorkIsGray, QueueIsPending, Init
  <1>5. Control /\ RootsCovered /\ TriColor /\ WeakValuesCleared /\ EphemeronsScanned
    BY <1>2, SlotNumbers
       DEF Control, RootsCovered, TriColor, WeakValuesCleared, EphemeronsScanned, Init
  <1>6. FreshUnknown /\ SweptIsLive /\ FinalizersSeparated /\ NoDangling
    BY <1>2, <1>3 DEF FreshUnknown, SweptIsLive, FinalizersSeparated, NoDangling, Init
  <1> QED
    BY <1>1, <1>4, <1>5, <1>6 DEF IInv

LEMMA InvMutator == ASSUME IInv, Mutator PROVE IInv'
  <1>1. CASE \E r \in Regs : (\E o \in Slots : Load(r, o)) \/ DropRoot(r) \/ AllocateReturns(r)
    BY <1>1, InvLoad, InvDropRoot, InvAllocateReturns
  <1>2. CASE \E s \in Slots, k \in Kinds, init \in Inits :
                 (\E r \in Regs : Allocate(s, k, init, r)) \/ AllocateAndStep(s, k, init)
    BY <1>2, InvAllocate, InvAllocateAndStep
  <1>3. CASE \E o, c \in Slots : WriteRef(o, c) \/ ClearRef(o, c)
    BY <1>3, InvWriteRef, InvClearRef
  <1>4. CASE \E o \in Slots, k, v \in Slots \cup {None} : RawSet(o, k, v)
    BY <1>4, InvRawSet
  <1>5. CASE \E o \in RegObjects : \E p \in pairs[o] : RawClear(o, p)
    BY <1>5, InvRawClear, SetTypes DEF IInv
  <1>6. CASE \E o \in Slots : (\E m \in WeakModes : SetWeakMode(o, m)) \/ RegisterFinalizer(o)
    BY <1>6, InvSetWeakMode, InvRegisterFinalizer
  <1>7. CASE AllocateFails \/ SetGcMode \/ CollectCalled \/ CollectReturns
    BY <1>7, InvAllocateFails, InvSetGcMode, InvCollectCalled, InvCollectReturns
  <1> QED
    BY <1>1, <1>2, <1>3, <1>4, <1>5, <1>6, <1>7 DEF Mutator

LEMMA InvFinalizing == ASSUME IInv, Finalizing PROVE IInv'
  BY InvStartFinalizer, InvFinishFinalizer DEF Finalizing

LEMMA InvStutter == ASSUME IInv, UNCHANGED vars PROVE IInv'
  <1>1. TypeOK'
    BY TypeStep DEF IInv
  <1>2. occ' = occ /\ Sealed' = Sealed /\ RegObjects' = RegObjects /\ QueuedObjects' = QueuedObjects
    BY DEF occ, Sealed, RegObjects, QueuedObjects, vars, objVars, ageVars, finVars, markVars,
           cycleVars, capVars, mutVars
  <1>3. Roots' = Roots
    BY <1>2 DEF Roots, vars, objVars, ageVars, finVars, markVars, cycleVars, capVars, mutVars
  <1>4. Shrinks /\ \A s \in Slots : Marked(s)' = Marked(s)
    BY QuietShrinks
       DEF IInv, Marked, vars, objVars, ageVars, finVars, markVars, cycleVars, capVars, mutVars
  <1>5. MarksLive
    BY <1>4, MarkedLive DEF MarksLive
  <1>6. Control'
    BY <1>2, <1>4, LiveShape
       DEF IInv, Control, vars, objVars, ageVars, finVars, markVars, cycleVars, capVars, mutVars
  <1>7. SlotShape' /\ WorkIsGray' /\ QueueIsPending'
    BY <1>2
       DEF IInv, SlotShape, WorkIsGray, QueueIsPending, vars, objVars, ageVars, finVars,
           markVars, cycleVars, capVars, mutVars
  <1>8. RootsCovered'
    BY <1>3, <1>4, Domains
       DEF IInv, RootsCovered, vars, objVars, ageVars, finVars, markVars, cycleVars, capVars,
           mutVars
  <1>9. TriColor' /\ WeakValuesCleared'
    BY <1>2, <1>4, <1>5, KeepTriColor, KeepWeakValues
       DEF vars, objVars, ageVars, finVars, markVars, cycleVars, capVars, mutVars
  <1>10. EphemeronsScanned'
    BY <1>2, <1>4, <1>5, KeepScanned
       DEF vars, objVars, ageVars, finVars, markVars, cycleVars, capVars, mutVars
  <1>11. FreshUnknown'
    BY <1>1, <1>2, <1>4, <1>5, <1>6, KeepFresh
       DEF IInv, FreshUnknown, vars, objVars, ageVars, finVars, markVars, cycleVars, capVars,
           mutVars
  <1>12. SweptIsLive' /\ FinalizersSeparated'
    BY <1>4, <1>5, KeepSwept, KeepSeparated
       DEF vars, objVars, ageVars, finVars, markVars, cycleVars, capVars, mutVars
  <1>13. NoDangling'
    BY <1>1, <1>2, <1>3, <1>4, <1>5, <1>6, KeepNoDangling
       DEF IInv, NoDangling, vars, objVars, ageVars, finVars, markVars, cycleVars, capVars,
           mutVars
  <1> QED
    BY <1>1, <1>6, <1>7, <1>8, <1>9, <1>10, <1>11, <1>12, <1>13 DEF IInv

\* IInv is an invariant, whatever the number of slots, roots and fields, the
\* promotion threshold and the failures: every action of the collector, of the
\* mutator and of finalizers preserves it.
THEOREM Inductive ==
    ASSUME KvStringsKept
    PROVE  Spec => []IInv
  <1>1. IInv /\ [Next]_vars => IInv'
    BY InvGcStep, InvMutator, InvFinalizing, InvStutter DEF Next
  <1> QED
    BY <1>1, InvInit, PTL DEF Spec

\* No slot is freed, reused or rolled back while a root, the finalizer queue, a
\* list of the collector or an object the program can reach refers to it.
THEOREM CollectorIsSafe ==
    ASSUME KvStringsKept
    PROVE  Spec => []NoDangling
  <1>1. IInv => NoDangling
    BY DEF IInv
  <1> QED
    BY <1>1, Inductive, PTL

\* The string keys of a live kv table stay in their slots for as long as their
\* entries are in the table, provided that the host has chosen the generational
\* mode and a threshold of one cycle (set_gc_promotion_survivals): with a larger
\* threshold, or in incremental mode, mark_live_weak_string_keys misses the keys
\* of a table that a finalizer revives.
THEOREM KvKeysAreKept ==
    ASSUME GcModes = {"Generational"}, Promote = 1
    PROVE  Spec => []KvStringKeysKept
  <1>1. IInv => KvStringKeysKept
    <2> SUFFICES ASSUME IInv, NEW s \in Live, NEW k \in KeysOf(pairs[s])
                 PROVE  k \in Live
      BY DEF KvStringKeysKept
    <2>1. k \in Children(s)
      BY DEF Children, ChildrenIn
    <2> QED
      BY <2>1 DEF IInv, NoDangling
  <1>2. KvStringsKept
    BY DEF KvStringsKept
  <1> QED
    BY <1>1, <1>2, Inductive, PTL

\* A step of the collector or of a rollback that frees a slot finds nothing to
\* finalize in it.
LEMMA FreesFinalized ==
    ASSUME IInv, Next, NEW s \in Slots, fin[s] \in {"Registered", "Pending", "Running"}
    PROVE  kind'[s] = kind[s]
  <1>1. TypeOK /\ s \in occ /\ kind[s] # "free"
    BY DEF IInv, SlotShape, occ
  <1>2. CASE GcStep
    <2>1. CASE SweepSlot
      <3>1. PICK o \in occ : IF Sweepable(o) THEN Reclaim(o) ELSE UNCHANGED objVars
        BY <2>1 DEF SweepSlot
      <3>2. Sweepable(o) => o # s
        <4> SUFFICES ASSUME Sweepable(s) PROVE FALSE
          OBVIOUS
        <4>1. Sealed /\ s \notin Live /\ ~Marked(s)
          BY <1>1, <2>1 DEF SweepSlot, IInv, Control, Live, Condemned, Sweepable, White, Marked
        <4>2. fin[s] # "Registered"
          BY <1>1, <4>1 DEF IInv, FinalizersSeparated, Sealed
        <4>3. s \in QueuedObjects
          BY <4>2 DEF IInv, QueueIsPending
        <4> QED
          BY <4>1, <4>3 DEF IInv, NoDangling, Roots
      <3>3. o \in Slots
        BY <1>1, Domains
      <3> QED
        BY <1>1, <3>1, <3>2, <3>3, ReclaimFacts DEF objVars
    <2>2. CASE ~SweepSlot
      <3>1. kind' = kind
        BY <1>2, <2>2
           DEF GcStep, objVars, StepBegins, CollectBegins, BeginCycle, MarkRoot,
               TraceRemembered,
           RootsMarked, Propagate, Propagated, AtomicResume, ScanEphemeron, RetraceOld, ClearWeakValues,
           Separate, ReserveCandidatesFails, RebuildRevives, RebuildFails, EnterSweep, FinishAtomic, EndSweep
      <3> QED
        BY <3>1
    <2> QED
      BY <2>1, <2>2
  <1>3. CASE Mutator
    <2>1. CASE AllocateFails
      <3>1. fresh \in Slots /\ fresh # s /\ Reclaim(fresh)
        BY <1>1, <2>1 DEF AllocateFails, IInv, FreshUnknown, TypeOK, MutTypes
      <3> QED
        BY <1>1, <3>1, ReclaimFacts
    <2>2. CASE \E t \in Slots, k \in Kinds, init \in Inits : Publish(t, k, init)
      BY <1>1, <2>2, PublishFacts DEF IInv
    <2>3. CASE UNCHANGED kind
      BY <2>3
    <2> QED
      BY <1>3, <2>1, <2>2, <2>3 DEF Mutator, objVars, Load, DropRoot, Allocate, AllocateAndStep,
         AllocateReturns, WriteRef, ClearRef, RawSet, RawClear, SetWeakMode, RegisterFinalizer, SetGcMode,
         CollectCalled, CollectReturns
  <1>4. CASE Finalizing
    BY <1>4 DEF Finalizing, StartFinalizer, FinishFinalizer, objVars
  <1> QED
    BY <1>2, <1>3, <1>4 DEF Next

\* An object with a finalizer to run keeps its slot until the finalizer ran.
THEOREM FinalizersRunFirst ==
    ASSUME KvStringsKept
    PROVE  Spec => FinalizedBeforeFreed
  <1>1. IInv /\ [Next]_vars =>
          [\A s \in Slots : fin[s] \in {"Registered", "Pending", "Running"} => kind'[s] = kind[s]]_vars
    BY FreesFinalized
  <1> QED
    BY <1>1, Inductive, PTL DEF Spec, FinalizedBeforeFreed

\* How the number of objects changes with the heap.
LEMMA HeapSize ==
    /\ \A s \in Slots \ occ : occ' = occ \cup {s} => Cardinality(occ') = Cardinality(occ) + 1
    /\ \A s \in occ : occ' = occ \ {s} => Cardinality(occ') = Cardinality(occ) - 1
  <1>1. IsFiniteSet(occ)
    BY ScanEndType
  <1>2. ASSUME NEW s \in Slots \ occ, occ' = occ \cup {s}
        PROVE  Cardinality(occ') = Cardinality(occ) + 1
    <2>1. s \notin occ
      BY <1>2
    <2>2. Cardinality(occ \cup {s}) = Cardinality(occ) + 1
      BY <1>1, <2>1, FS_AddElement
    <2> QED
      BY <1>2, <2>2
  <1>3. ASSUME NEW s \in occ, occ' = occ \ {s}
        PROVE  Cardinality(occ') = Cardinality(occ) - 1
    <2>1. Cardinality(occ \ {s}) = Cardinality(occ) - 1
      BY <1>1, FS_RemoveElement
    <2> QED
      BY <1>3, <2>1
  <1> QED
    BY <1>2, <1>3

\* An allocation makes room for its object before it publishes it.
LEMMA RoomForPublished ==
    ASSUME IInv, MarkNeverOverflows, NEW s \in Slots, NEW k \in Kinds, NEW init \in Inits,
           Publish(s, k, init), Mark({s})
    PROVE  MarkNeverOverflows'
  <1>1. TypeOK /\ SlotShape /\ cap \in Int /\ Cardinality(occ) \in Int
    BY ScanEndType DEF IInv, TypeOK, CapTypes
  <1>2. s \in Slots \ occ /\ occ' = occ \cup {s}
    BY <1>1, PublishFacts
  <1>3. Cardinality(occ') = Cardinality(occ) + 1
    BY <1>2, HeapSize
  <1>4. phase' # "Pause" => phase # "Pause"
    BY DEF Mark
  <1>5. phase # "Pause" => cap' = IF Cardinality(occ) >= cap THEN cap + 1 ELSE cap
    BY DEF Publish, GrowWork
  <1>6. phase # "Pause" => Cardinality(occ) <= cap
    BY DEF MarkNeverOverflows
  <1>7. Cardinality(occ) <= cap =>
            Cardinality(occ') <= IF Cardinality(occ) >= cap THEN cap + 1 ELSE cap
    BY <1>1, <1>3, RoomForMore
  <1>8. phase # "Pause" => Cardinality(occ') <= cap'
    BY <1>5, <1>6, <1>7
  <1> QED
    BY <1>4, <1>8 DEF MarkNeverOverflows

\* A rollback takes back no more room than the object it removes needed.
LEMMA RoomAfterRollback ==
    ASSUME IInv, MarkNeverOverflows, AllocateFails
    PROVE  MarkNeverOverflows'
  <1>1. TypeOK /\ fresh \in occ /\ fresh \in Slots /\ Reclaim(fresh)
    BY Domains DEF AllocateFails, IInv, NoDangling, Roots, Live
  <1>2. occ' = occ \ {fresh}
    BY <1>1, ReclaimFacts
  <1>3. Cardinality(occ') = Cardinality(occ) - 1
    BY <1>1, <1>2, HeapSize
  <1>4. phase' = phase /\ (cap' = cap \/ cap' = cap - 1)
    BY DEF AllocateFails, ReleaseGrowth
  <1>5. cap \in Int /\ Cardinality(occ) \in Int
    BY <1>1, ScanEndType DEF TypeOK, CapTypes
  <1>6. Cardinality(occ) <= cap => Cardinality(occ') <= cap'
    <2>1. Cardinality(occ) <= cap =>
              Cardinality(occ') <= cap /\ Cardinality(occ') <= cap - 1
      BY <1>3, <1>5, RoomForLess
    <2> QED
      BY <1>4, <2>1
  <1> QED
    BY <1>4, <1>6 DEF MarkNeverOverflows

\* The sweep only frees slots.
LEMMA RoomInSweep ==
    ASSUME IInv, MarkNeverOverflows, SweepSlot
    PROVE  MarkNeverOverflows'
  <1>1. TypeOK /\ cap' = cap /\ phase' = phase /\ phase # "Pause"
    BY DEF SweepSlot, IInv, capVars
  <1>2. PICK s \in occ : IF Sweepable(s) THEN Reclaim(s) ELSE UNCHANGED objVars
    BY DEF SweepSlot
  <1>3. s \in Slots
    BY <1>1, Domains
  <1>4. occ' = occ \/ occ' = occ \ {s}
    <2>1. CASE Sweepable(s)
      BY <1>1, <1>2, <1>3, <2>1, ReclaimFacts
    <2>2. CASE ~Sweepable(s)
      BY <1>2, <2>2 DEF objVars, occ
    <2> QED
      BY <2>1, <2>2
  <1>5. Cardinality(occ') = Cardinality(occ) \/ Cardinality(occ') = Cardinality(occ) - 1
    BY <1>4, HeapSize
  <1>6. cap \in Int /\ Cardinality(occ) \in Int
    BY <1>1, ScanEndType DEF TypeOK, CapTypes
  <1>7. Cardinality(occ) <= cap => Cardinality(occ') <= cap
    BY <1>5, <1>6, RoomForLess
  <1> QED
    BY <1>1, <1>7 DEF MarkNeverOverflows

\* Steps that leave the heap and the work list's capacity alone.
LEMMA RoomKept ==
    ASSUME MarkNeverOverflows, kind' = kind, cap' = cap, phase' # "Pause" => phase # "Pause"
    PROVE  MarkNeverOverflows'
  BY DEF MarkNeverOverflows, occ

\* A mark starts no cycle.
LEMMA MarkStays == \A S : Mark(S) => (phase' # "Pause" => phase # "Pause")
  BY DEF Mark

LEMMA RoomInGcStep ==
    ASSUME IInv, MarkNeverOverflows, GcStep
    PROVE  MarkNeverOverflows'
  <1>1. CASE StepBegins \/ CollectBegins
    <2>1. kind' = kind /\ cap' = Cardinality(occ)
      BY <1>1 DEF StepBegins, CollectBegins, BeginCycle
    <2>2. occ' = occ
      BY <2>1 DEF occ
    <2>3. Cardinality(occ) <= Cardinality(occ)
      BY ScanEndType, RoomForLess
    <2> QED
      BY <2>1, <2>2, <2>3 DEF MarkNeverOverflows
  <1>2. CASE SweepSlot
    BY <1>2, RoomInSweep
  <1>3. CASE EndSweep
    BY <1>3 DEF EndSweep, MarkNeverOverflows
  <1>4. CASE ~(StepBegins \/ CollectBegins \/ SweepSlot \/ EndSweep)
    <2>1. phase # "Pause"
      BY <1>4 DEF GcStep, MarkRoot, TraceRemembered, RootsMarked, Propagate, Propagated,
         AtomicResume, ScanEphemeron, RetraceOld, ClearWeakValues, Separate,
         ReserveCandidatesFails, RebuildRevives, RebuildFails, EnterSweep, FinishAtomic,
         Separated, ValuesCleared, Traced, ScanDone
    <2>2. kind' = kind /\ cap' = cap
      BY <1>4 DEF GcStep, MarkRoot, TraceRemembered, RootsMarked, Propagate, Propagated,
         AtomicResume, ScanEphemeron, RetraceOld, ClearWeakValues, Separate,
         ReserveCandidatesFails, RebuildRevives, RebuildFails, EnterSweep, FinishAtomic,
         objVars, capVars
    <2> QED
      BY <2>1, <2>2, RoomKept
  <1> QED
    BY <1>1, <1>2, <1>3, <1>4

LEMMA RoomInMutator ==
    ASSUME IInv, MarkNeverOverflows, Mutator \/ Finalizing
    PROVE  MarkNeverOverflows'
  <1>1. CASE \E s \in Slots, k \in Kinds, init \in Inits : Publish(s, k, init) /\ Mark({s})
    BY <1>1, RoomForPublished
  <1>2. CASE AllocateFails
    BY <1>2, RoomAfterRollback
  <1>3. CASE \E r \in Regs : (\E o \in Slots : Load(r, o)) \/ DropRoot(r) \/ AllocateReturns(r)
    <2>1. kind' = kind /\ cap' = cap
      BY <1>3 DEF Load, DropRoot, AllocateReturns, objVars, capVars
    <2>2. phase' # "Pause" => phase # "Pause"
      BY <1>3 DEF Load, DropRoot, AllocateReturns, SetRoot, Mark, markVars
    <2> QED
      BY <2>1, <2>2, RoomKept
  <1>4. CASE \E s \in Slots, k \in Kinds, init \in Inits :
                 (\E r \in Regs : Allocate(s, k, init, r)) \/ AllocateAndStep(s, k, init)
    BY <1>1, <1>4 DEF Allocate, AllocateAndStep, SetRoot
  <1>5. CASE \E o, c \in Slots : WriteRef(o, c) \/ ClearRef(o, c)
    <2>1. kind' = kind /\ cap' = cap
      BY <1>5 DEF WriteRef, ClearRef, objVars, capVars
    <2>2. phase' # "Pause" => phase # "Pause"
      BY <1>5 DEF WriteRef, ClearRef, Mark, markVars
    <2> QED
      BY <2>1, <2>2, RoomKept
  <1>6. CASE \E o \in Slots, k, v \in Slots \cup {None} : RawSet(o, k, v)
    <2>1. kind' = kind /\ cap' = cap
      BY <1>6, ZenonT(40) DEF RawSet, capVars
    <2>2. phase' # "Pause" => phase # "Pause"
      BY <1>6, MarkStays, ZenonT(40) DEF RawSet
    <2> QED
      BY <2>1, <2>2, RoomKept
  <1>7. CASE \E o \in RegObjects : \E p \in pairs[o] : RawClear(o, p)
    BY <1>7, RoomKept DEF RawClear, markVars, capVars
  <1>8. CASE \E o \in Slots : (\E m \in WeakModes : SetWeakMode(o, m)) \/ RegisterFinalizer(o)
    BY <1>8, RoomKept DEF SetWeakMode, RegisterFinalizer, objVars, markVars, capVars
  <1>9. CASE SetGcMode \/ CollectCalled \/ CollectReturns
    BY <1>9, RoomKept DEF SetGcMode, CollectCalled, CollectReturns, objVars, markVars, capVars
  <1>10. CASE Finalizing
    <2>1. kind' = kind /\ cap' = cap
      BY <1>10 DEF Finalizing, StartFinalizer, FinishFinalizer, objVars, capVars
    <2>2. phase' # "Pause" => phase # "Pause"
      BY <1>10 DEF Finalizing, StartFinalizer, FinishFinalizer, SetRoot, Mark, markVars
    <2> QED
      BY <2>1, <2>2, RoomKept
  <1> QED
    BY <1>2, <1>3, <1>4, <1>5, <1>6, <1>7, <1>8, <1>9, <1>10 DEF Mutator

\* The work list has room for every object throughout a cycle, so that no mark
\* fails for lack of it, however often the cycle's allocations are rolled back.
THEOREM MarksHaveRoom ==
    ASSUME KvStringsKept
    PROVE  Spec => []MarkNeverOverflows
  <1>1. Init => MarkNeverOverflows
    BY DEF Init, MarkNeverOverflows
  <1>2. IInv /\ MarkNeverOverflows /\ [Next]_vars => MarkNeverOverflows'
    <2>1. CASE Next
      BY <2>1, RoomInGcStep, RoomInMutator DEF Next
    <2>2. CASE UNCHANGED vars
      BY <2>2 DEF MarkNeverOverflows, occ, vars, objVars, markVars, capVars
    <2> QED
      BY <2>1, <2>2
  <1> QED
    BY <1>1, <1>2, Inductive, PTL DEF Spec

\* Why an object under construction never gets into the remembered set: it has
\* no pairs, and what it refers to was there before it, has survived at least as
\* many cycles and is old if it is.  An empty slot remembers no age.
FreshIsYoungest ==
    /\ \A s \in Slots : kind[s] = "free" => age[s] = "Young" /\ survivals[s] = 0
    /\ fresh # None =>
          /\ fresh \notin remembered /\ pairs[fresh] = {}
          /\ \A c \in kids[fresh] :
                age[c] = "Old" \/ (age[fresh] # "Old" /\ survivals[fresh] <= survivals[c])

\* Steps without effect on ages, on the empty slots and on the object.
LEMMA YoungestKept ==
    ASSUME FreshIsYoungest, fresh' = fresh, UNCHANGED ageVars,
           \A s \in Slots : kind'[s] = "free" => kind[s] = "free",
           fresh # None => /\ fresh \notin remembered'
                           /\ kids'[fresh] \subseteq kids[fresh]
                           /\ pairs'[fresh] \subseteq pairs[fresh]
    PROVE  FreshIsYoungest'
  <1>1. age' = age /\ survivals' = survivals
    BY DEF ageVars
  <1>2. \A s \in Slots : kind'[s] = "free" => age'[s] = "Young" /\ survivals'[s] = 0
    BY <1>1 DEF FreshIsYoungest
  <1>3. fresh # None => pairs'[fresh] = {}
    BY DEF FreshIsYoungest
  <1>4. fresh # None => \A c \in kids'[fresh] :
            age'[c] = "Old" \/ (age'[fresh] # "Old" /\ survivals'[fresh] <= survivals'[c])
    BY <1>1 DEF FreshIsYoungest
  <1> QED
    BY <1>2, <1>3, <1>4 DEF FreshIsYoungest

\* Steps that leave the remembered set alone and take references away at most.
LEMMA YoungestQuiet ==
    ASSUME TypeOK, FreshIsYoungest, Shrinks, UNCHANGED <<ageVars, remembered, fresh>>
    PROVE  FreshIsYoungest'
  <1>1. fresh # None => fresh \in Slots
    BY DEF TypeOK, MutTypes
  <1>2. kind' = kind /\ \A s \in Slots : kids'[s] \subseteq kids[s] /\ pairs'[s] \subseteq pairs[s]
    BY DEF Shrinks
  <1>3. fresh # None => fresh \notin remembered'
    BY DEF FreshIsYoungest
  <1> QED
    BY <1>1, <1>2, <1>3, YoungestKept

\* rebuild_remembered_set: when the object will be old, so will its children.
LEMMA YoungestEnterSweep == ASSUME IInv, FreshIsYoungest, EnterSweep PROVE FreshIsYoungest'
  <1>1. /\ TypeOK /\ DeadChildren = {} /\ remembered' = YoungOwners /\ pairs' = FinalPairs
        /\ UNCHANGED <<kind, kids, ageVars, fresh>>
    BY DEF IInv, EnterSweep, FinishAtomic, mutVars
  <1>2. ASSUME fresh # None PROVE pairs'[fresh] \subseteq pairs[fresh]
    BY <1>1, <1>2, ClearSub DEF TypeOK, MutTypes
  <1>3. ASSUME fresh # None, fresh \in YoungOwners PROVE FALSE
    <2>1. /\ mode # "Incremental" /\ fresh \in occ /\ FutureOld(fresh)
          /\ \E c \in ChildrenIn(FinalPairs, fresh) : ~FutureOld(c)
      BY <1>3 DEF YoungOwners
    <2>2. FinalPairs[fresh] = {}
      BY <1>1, <1>2, <1>3 DEF FreshIsYoungest
    <2>3. ChildrenIn(FinalPairs, fresh) = kids[fresh]
      BY <2>2 DEF ChildrenIn, KeysOf, ValuesOf
    <2>4. PICK c \in kids[fresh] : ~FutureOld(c)
      BY <2>1, <2>3
    <2>5. fresh \in Slots /\ c \in Slots
      BY <1>1, <2>1, <2>4, Domains DEF TypeOK, ObjTypes
    <2>6. ~FutureDead(c)
      BY <1>1, <2>1, <2>3, <2>5 DEF DeadChildren
    <2>7. age[c] # "Old" /\ (mode = "Generational" => ~(survivals[c] + 1 >= Promote))
      BY <2>4, <2>6 DEF FutureOld
    <2>8. age[fresh] # "Old" /\ survivals[fresh] <= survivals[c]
      BY <1>3, <2>4, <2>7 DEF FreshIsYoungest
    <2>9. mode = "Generational" /\ survivals[fresh] + 1 >= Promote
      BY <2>1, <2>8 DEF FutureOld
    <2>10. survivals[fresh] \in Nat /\ survivals[c] \in Nat /\ Promote \in Nat
      BY <1>1, <2>5, ConstAssumption DEF TypeOK, AgeTypes
    <2> QED
      BY <2>7, <2>8, <2>9, <2>10, SurvivalNumbers
  <1> QED
    BY <1>1, <1>2, <1>3, YoungestKept

\* The sweep frees none of the objects that the new one refers to.
LEMMA YoungestSweepSlot == ASSUME IInv, FreshIsYoungest, SweepSlot PROVE FreshIsYoungest'
  <1>1. TypeOK /\ fresh' = fresh /\ Sealed
    BY DEF IInv, SweepSlot, Control, mutVars
  <1>2. PICK s \in occ : IF Sweepable(s) THEN Reclaim(s)
                         ELSE UNCHANGED <<objVars, ageVars, remembered>>
    BY DEF SweepSlot
  <1>3. s \in Slots
    BY <1>1, Domains
  <1>4. CASE ~Sweepable(s)
    <2>1. UNCHANGED <<kind, kids, pairs, wmode>> /\ UNCHANGED <<ageVars, remembered, fresh>>
      BY <1>1, <1>2, <1>4 DEF objVars
    <2> QED
      BY <1>1, <2>1, QuietShrinks, YoungestQuiet
  <1>5. CASE Sweepable(s)
    <2>1. s \notin Live /\ Reclaim(s)
      BY <1>1, <1>2, <1>5 DEF Live, Condemned
    <2>2. /\ kind' = [kind EXCEPT ![s] = "free"] /\ kids' = [kids EXCEPT ![s] = {}]
          /\ pairs' = [pairs EXCEPT ![s] = {}] /\ age' = [age EXCEPT ![s] = "Young"]
          /\ survivals' = [survivals EXCEPT ![s] = 0] /\ remembered' = remembered \ {s}
      BY <2>1 DEF Reclaim, EmptySlot
    <2>3. /\ age'[s] = "Young" /\ survivals'[s] = 0
          /\ \A t \in Slots \ {s} : /\ kind'[t] = kind[t] /\ kids'[t] = kids[t]
                                    /\ pairs'[t] = pairs[t] /\ age'[t] = age[t]
                                    /\ survivals'[t] = survivals[t]
      BY <1>1, <1>3, <2>2 DEF TypeOK, ObjTypes, AgeTypes
    <2>4. \A t \in Slots : kind'[t] = "free" => age'[t] = "Young" /\ survivals'[t] = 0
      BY <2>3 DEF FreshIsYoungest
    <2>5. ASSUME fresh # None
          PROVE  /\ fresh \notin remembered' /\ pairs'[fresh] = {}
                 /\ \A c \in kids'[fresh] : \/ age'[c] = "Old"
                                            \/ age'[fresh] # "Old" /\ survivals'[fresh] <= survivals'[c]
      <3>1. fresh \in Live /\ Live \subseteq Slots
        BY <1>1, <2>5, LiveShape DEF IInv, NoDangling, Roots
      <3>2. fresh \in Slots \ {s}
        BY <2>1, <3>1
      <3>3. ASSUME NEW c \in kids[fresh] PROVE c \in Slots \ {s}
        BY <2>1, <3>1 DEF IInv, NoDangling, Children, ChildrenIn
      <3> QED
        BY <2>2, <2>3, <2>5, <3>2, <3>3 DEF FreshIsYoungest
    <2> QED
      BY <1>1, <2>4, <2>5 DEF FreshIsYoungest
  <1> QED
    BY <1>4, <1>5

\* promote_gc_survivors: what is promoted has children that are old, or are
\* promoted with it.
LEMMA YoungestEndSweep == ASSUME IInv, FreshIsYoungest, EndSweep PROVE FreshIsYoungest'
  <1>1. /\ TypeOK /\ phase = "Sweep" /\ UNCHANGED <<kind, kids, pairs, remembered, fresh>>
        /\ survivals' = [s \in Slots |-> IF Promoted(s) THEN survivals[s] + 1 ELSE survivals[s]]
        /\ age' = [s \in Slots |-> IF ~Promoted(s) THEN age[s]
                                   ELSE IF survivals[s] + 1 >= Promote THEN "Old" ELSE "Survivor"]
    BY DEF IInv, EndSweep, objVars
  <1>2. ASSUME NEW s \in Slots
        PROVE  /\ survivals'[s] = IF Promoted(s) THEN survivals[s] + 1 ELSE survivals[s]
               /\ age'[s] = IF ~Promoted(s) THEN age[s]
                            ELSE IF survivals[s] + 1 >= Promote THEN "Old" ELSE "Survivor"
    BY <1>1
  <1>3. ASSUME NEW s \in Slots, kind'[s] = "free"
        PROVE  age'[s] = "Young" /\ survivals'[s] = 0
    <2>1. kind[s] = "free"
      BY <1>1, <1>3
    <2>2. ~Promoted(s)
      BY <2>1 DEF IInv, SlotShape, Promoted
    <2> QED
      BY <1>2, <2>1, <2>2 DEF FreshIsYoungest
  <1>4. ASSUME fresh # None, NEW c \in kids[fresh]
        PROVE  age'[c] = "Old" \/ (age'[fresh] # "Old" /\ survivals'[fresh] <= survivals'[c])
    <2>1. fresh \in Slots /\ fresh \in occ /\ c \in Slots
      BY <1>1, <1>4, LiveShape DEF IInv, NoDangling, Roots, TypeOK, ObjTypes, MutTypes
    <2>2. survivals[fresh] \in Nat /\ survivals[c] \in Nat /\ Promote \in Nat
      BY <1>1, <2>1, ConstAssumption DEF TypeOK, AgeTypes
    <2>3. CASE age[c] = "Old"
      BY <1>2, <2>1, <2>3 DEF Promoted
    <2>4. CASE age[c] # "Old"
      <3>1. age[fresh] # "Old" /\ survivals[fresh] <= survivals[c]
        BY <1>4, <2>4 DEF FreshIsYoungest
      <3>2. CASE Promoted(fresh)
        <4>1. color[fresh] = "Black" /\ ~Untraced(fresh) /\ mode = "Generational"
          BY <3>1, <3>2 DEF Promoted, Untraced
        <4>2. Marked(c) /\ c \notin work
          BY <1>1, <1>4, <2>1, <4>1 DEF IInv, TriColor, StrongChildren, WorkIsGray
        <4>3. color[c] = "Black"
          BY <1>1, <2>1, <4>2 DEF IInv, WorkIsGray, Marked, TypeOK, MarkTypes, Colors
        <4>4. Promoted(c)
          BY <2>4, <4>1, <4>3 DEF Promoted
        <4>5. /\ survivals'[fresh] = survivals[fresh] + 1 /\ survivals'[c] = survivals[c] + 1
              /\ age'[fresh] = "Old" => survivals[fresh] + 1 >= Promote
              /\ survivals[c] + 1 >= Promote => age'[c] = "Old"
          BY <1>2, <2>1, <3>2, <4>4
        <4>6. /\ survivals[fresh] + 1 <= survivals[c] + 1
              /\ survivals[fresh] + 1 >= Promote => survivals[c] + 1 >= Promote
          BY <2>2, <3>1, SurvivalNumbers
        <4> QED
          BY <4>5, <4>6
      <3>3. CASE ~Promoted(fresh)
        <4>1. survivals'[fresh] = survivals[fresh] /\ age'[fresh] = age[fresh]
          BY <1>2, <2>1, <3>3
        <4>2. survivals'[c] = survivals[c] + 1 \/ survivals'[c] = survivals[c]
          BY <1>2, <2>1
        <4>3. survivals[fresh] <= survivals[c] + 1
          BY <2>2, <3>1, SurvivalNumbers
        <4> QED
          BY <3>1, <4>1, <4>2, <4>3
      <3> QED
        BY <3>2, <3>3
    <2> QED
      BY <2>3, <2>4
  <1> QED
    BY <1>1, <1>3, <1>4 DEF FreshIsYoungest

LEMMA YoungestGcStep == ASSUME IInv, FreshIsYoungest, GcStep PROVE FreshIsYoungest'
  <1>1. CASE EnterSweep \/ SweepSlot \/ EndSweep
    BY <1>1, YoungestEnterSweep, YoungestSweepSlot, YoungestEndSweep
  <1>2. CASE StepBegins \/ CollectBegins
    <2>1. UNCHANGED <<kind, kids, pairs, ageVars, remembered, fresh>>
      BY <1>2 DEF StepBegins, CollectBegins, BeginCycle
    <2>2. fresh # None => fresh \notin remembered'
      BY <2>1 DEF FreshIsYoungest
    <2> QED
      BY <2>1, <2>2, YoungestKept
  <1>3. CASE MarkRoot \/ TraceRemembered \/ RootsMarked \/ Propagate \/ Propagated
             \/ AtomicResume \/ ScanEphemeron \/ RetraceOld \/ ReserveCandidatesFails
    <2>1. UNCHANGED <<kind, kids, pairs, wmode>> /\ UNCHANGED <<ageVars, remembered, fresh>>
      BY <1>3 DEF MarkRoot, TraceRemembered, RootsMarked, Propagate, Propagated, AtomicResume,
         ScanEphemeron, RetraceOld, ReserveCandidatesFails, objVars, mutVars
    <2> QED
      BY <2>1, QuietShrinks, YoungestQuiet DEF IInv
  <1>4. CASE ClearWeakValues \/ Separate \/ RebuildRevives \/ RebuildFails
    <2>1. UNCHANGED <<kind, kids, wmode>> /\ UNCHANGED <<ageVars, remembered, fresh>>
      BY <1>4 DEF ClearWeakValues, Separate, RebuildRevives, RebuildFails, FinishAtomic, objVars,
         mutVars
    <2>2. pairs' = ClearedValues \/ pairs' = AfterValues \/ pairs' = FinalPairs
      BY <1>4 DEF ClearWeakValues, Separate, RebuildRevives, RebuildFails, FinishAtomic
    <2>3. \A s \in Slots : pairs'[s] \subseteq pairs[s]
      BY <2>2, ClearSub
    <2>4. Shrinks
      BY <2>1, <2>3 DEF Shrinks
    <2> QED
      BY <2>1, <2>4, YoungestQuiet DEF IInv
  <1> QED
    BY <1>1, <1>2, <1>3, <1>4 DEF GcStep

\* An allocation outside an allocation with a step: the object gets its root at
\* once.
LEMMA YoungestAllocate ==
    ASSUME IInv, FreshIsYoungest, NEW s \in Slots, NEW k \in Kinds, NEW init \in Inits,
           Publish(s, k, init), fresh' = fresh
    PROVE  FreshIsYoungest'
  <1>1. /\ TypeOK /\ SlotShape /\ UNCHANGED <<pairs, ageVars, remembered>>
    BY DEF IInv, Publish
  <1>2. s \notin occ /\ kind'[s] # "free" /\ \A t \in Slots \ {s} : kind'[t] = kind[t] /\ kids'[t] = kids[t]
    BY <1>1, PublishFacts
  <1>3. fresh # None => fresh \in occ /\ fresh \in Slots
    BY <1>1, LiveShape DEF IInv, NoDangling, Roots
  <1>4. fresh # None => /\ fresh \notin remembered' /\ kids'[fresh] = kids[fresh]
                        /\ pairs'[fresh] = pairs[fresh]
    BY <1>1, <1>2, <1>3 DEF FreshIsYoungest
  <1>5. \A t \in Slots : kind'[t] = "free" => kind[t] = "free"
    BY <1>2
  <1> QED
    BY <1>1, <1>4, <1>5, YoungestKept

\* An allocation that pays for a collection step: the object has survived
\* nothing yet.
LEMMA YoungestAllocateAndStep ==
    ASSUME IInv, FreshIsYoungest, NEW s \in Slots, NEW k \in Kinds, NEW init \in Inits,
           AllocateAndStep(s, k, init)
    PROVE  FreshIsYoungest'
  <1>1. /\ TypeOK /\ SlotShape /\ Publish(s, k, init) /\ fresh' = s
        /\ UNCHANGED <<pairs, age, survivals, remembered>>
    BY DEF IInv, AllocateAndStep, Publish, ageVars
  <1>2. /\ s \notin occ /\ kind'[s] # "free" /\ kids'[s] = init /\ pairs'[s] = {}
        /\ init \subseteq RegObjects /\ \A t \in Slots \ {s} : kind'[t] = kind[t]
    BY <1>1, PublishFacts
  <1>3. \A t \in Slots : kind'[t] = "free" => age'[t] = "Young" /\ survivals'[t] = 0
    BY <1>1, <1>2 DEF FreshIsYoungest
  <1>4. s \notin remembered'
    BY <1>1, <1>2 DEF IInv, NoDangling
  <1>5. age'[s] # "Old" /\ survivals'[s] = 0
    BY <1>1, <1>2 DEF FreshIsYoungest, occ
  <1>6. ASSUME NEW c \in kids'[s] PROVE survivals'[s] <= survivals'[c]
    <2>1. c \in Slots
      BY <1>1, <1>2, Domains
    <2>2. survivals'[c] \in Nat
      BY <1>1, <2>1 DEF TypeOK, AgeTypes
    <2> QED
      BY <1>5, <2>2, SurvivalNumbers
  <1> QED
    BY <1>1, <1>2, <1>3, <1>4, <1>5, <1>6 DEF FreshIsYoungest

\* Afterwards there is no object under construction.
LEMMA YoungestDone ==
    ASSUME IInv, FreshIsYoungest,
           AllocateFails \/ SetGcMode \/ \E r \in Regs : AllocateReturns(r)
    PROVE  FreshIsYoungest'
  <1>1. TypeOK
    BY DEF IInv
  <1>2. CASE \E r \in Regs : AllocateReturns(r)
    BY <1>2 DEF AllocateReturns, objVars, ageVars, FreshIsYoungest
  <1>3. CASE SetGcMode
    <2>1. /\ fresh' = None /\ age' = [s \in Slots |-> "Young"]
          /\ survivals' = [s \in Slots |-> 0]
      BY <1>3 DEF SetGcMode, mutVars
    <2> QED
      BY <2>1 DEF FreshIsYoungest
  <1>4. CASE AllocateFails
    <2>1. fresh \in Slots /\ Reclaim(fresh) /\ fresh' = None
      BY <1>1, <1>4 DEF AllocateFails, TypeOK, MutTypes
    <2>2. /\ kind' = [kind EXCEPT ![fresh] = "free"] /\ age' = [age EXCEPT ![fresh] = "Young"]
          /\ survivals' = [survivals EXCEPT ![fresh] = 0]
      BY <2>1 DEF Reclaim, EmptySlot
    <2>3. /\ age'[fresh] = "Young" /\ survivals'[fresh] = 0
          /\ \A t \in Slots \ {fresh} : /\ kind'[t] = kind[t] /\ age'[t] = age[t]
                                        /\ survivals'[t] = survivals[t]
      BY <1>1, <2>1, <2>2 DEF TypeOK, ObjTypes, AgeTypes
    <2> QED
      BY <2>1, <2>3 DEF FreshIsYoungest
  <1> QED
    BY <1>2, <1>3, <1>4

\* The program cannot store into an object it has not got yet.
LEMMA YoungestStores ==
    ASSUME IInv, FreshIsYoungest, NEW o \in RegObjects, UNCHANGED <<kind, ageVars, fresh>>,
           \A s \in Slots \ {o} : kids'[s] = kids[s] /\ pairs'[s] = pairs[s],
           remembered' \subseteq remembered \cup {o}
    PROVE  FreshIsYoungest'
  <1>1. fresh # None => fresh \in Slots \ {o}
    BY DEF IInv, FreshUnknown, TypeOK, MutTypes
  <1>2. fresh # None => fresh \notin remembered'
    BY <1>1 DEF FreshIsYoungest
  <1> QED
    BY <1>1, <1>2, YoungestKept

LEMMA YoungestMutator ==
    ASSUME IInv, FreshIsYoungest, Mutator
    PROVE  FreshIsYoungest'
  <1>1. TypeOK
    BY DEF IInv
  <1>2. CASE AllocateFails \/ SetGcMode \/ \E r \in Regs : AllocateReturns(r)
    BY <1>2, YoungestDone
  <1>3. CASE \E s \in Slots, k \in Kinds, init \in Inits : AllocateAndStep(s, k, init)
    BY <1>3, YoungestAllocateAndStep
  <1>4. CASE \E s \in Slots, k \in Kinds, init \in Inits, r \in Regs : Allocate(s, k, init, r)
    BY <1>4, YoungestAllocate DEF Allocate
  <1>5. CASE \/ \E r \in Regs : (\E o \in Slots : Load(r, o)) \/ DropRoot(r)
             \/ CollectCalled \/ CollectReturns
             \/ \E o \in Slots : RegisterFinalizer(o)
    <2>1. UNCHANGED <<kind, kids, pairs, wmode>> /\ UNCHANGED <<ageVars, remembered, fresh>>
      BY <1>5 DEF Load, DropRoot, CollectCalled, CollectReturns, RegisterFinalizer, objVars,
         mutVars
    <2> QED
      BY <1>1, <2>1, QuietShrinks, YoungestQuiet
  <1>6. CASE \E o \in Slots, m \in WeakModes : SetWeakMode(o, m)
    <2>1. UNCHANGED <<kind, kids, pairs, wmode>> /\ UNCHANGED <<ageVars, remembered, fresh>>
      BY <1>6 DEF SetWeakMode, mutVars
    <2> QED
      BY <1>1, <2>1, QuietShrinks, YoungestQuiet
  <1>7. CASE \E o, c \in Slots : WriteRef(o, c)
    <2>1. PICK o, c \in Slots : WriteRef(o, c)
      BY <1>7
    <2>2. /\ o \in RegObjects /\ UNCHANGED <<kind, pairs, ageVars, fresh>>
          /\ kids' = [kids EXCEPT ![o] = @ \cup {c}]
      BY <2>1 DEF WriteRef, mutVars
    <2>3. \A s \in Slots \ {o} : kids'[s] = kids[s]
      BY <1>1, <2>2 DEF TypeOK, ObjTypes
    <2>4. remembered' \subseteq remembered \cup {o}
      BY <2>1 DEF WriteRef, Remember
    <2> QED
      BY <2>2, <2>3, <2>4, YoungestStores
  <1>8. CASE \E o, c \in Slots : ClearRef(o, c)
    <2>1. PICK o, c \in Slots : ClearRef(o, c)
      BY <1>8
    <2>2. /\ o \in RegObjects /\ UNCHANGED <<kind, pairs, ageVars, remembered, fresh>>
          /\ kids' = [kids EXCEPT ![o] = @ \ {c}]
      BY <2>1 DEF ClearRef, mutVars
    <2>3. \A s \in Slots \ {o} : kids'[s] = kids[s]
      BY <1>1, <2>2 DEF TypeOK, ObjTypes
    <2> QED
      BY <2>2, <2>3, YoungestStores
  <1>9. CASE \E o \in Slots, k, v \in Slots \cup {None} : RawSet(o, k, v)
    <2>1. PICK o \in Slots, k, v \in Slots \cup {None} : RawSet(o, k, v)
      BY <1>9
    <2>2. o \in RegObjects /\ UNCHANGED <<kind, kids, ageVars, fresh>>
      BY <2>1 DEF RawSet, mutVars
    <2>3. \E P : pairs' = [pairs EXCEPT ![o] = P]
      BY <2>1 DEF RawSet
    <2>4. \A s \in Slots \ {o} : pairs'[s] = pairs[s]
      BY <1>1, <2>3 DEF TypeOK, ObjTypes
    <2>5. \E S : Remember(o, S)
      BY <2>1 DEF RawSet
    <2>6. remembered' \subseteq remembered \cup {o}
      BY <2>5 DEF Remember
    <2> QED
      BY <2>2, <2>4, <2>6, YoungestStores
  <1>10. CASE \E o \in RegObjects : \E p \in pairs[o] : RawClear(o, p)
    <2>1. PICK o \in RegObjects : \E p \in pairs[o] : RawClear(o, p)
      BY <1>10
    <2>2. /\ UNCHANGED <<kind, kids, ageVars, remembered, fresh>>
          /\ \E p \in pairs[o] : pairs' = [pairs EXCEPT ![o] = @ \ {p}]
      BY <2>1 DEF RawClear, mutVars
    <2>3. \A s \in Slots \ {o} : pairs'[s] = pairs[s]
      BY <1>1, <2>2 DEF TypeOK, ObjTypes
    <2> QED
      BY <2>2, <2>3, YoungestStores
  <1> QED
    BY <1>2, <1>3, <1>4, <1>5, <1>6, <1>7, <1>8, <1>9, <1>10 DEF Mutator

LEMMA YoungestFinalizing ==
    ASSUME IInv, FreshIsYoungest, Finalizing
    PROVE  FreshIsYoungest'
  <1>1. UNCHANGED <<kind, kids, pairs, wmode>> /\ UNCHANGED <<ageVars, remembered, fresh>>
    BY DEF Finalizing, StartFinalizer, FinishFinalizer, objVars, mutVars
  <1> QED
    BY <1>1, QuietShrinks, YoungestQuiet DEF IInv

\* Whatever the collector and the finalizers do during an allocation.
LEMMA FreshStaysYoungest ==
    ASSUME KvStringsKept
    PROVE  Spec => []FreshIsYoungest
  <1>1. Init => FreshIsYoungest
    BY DEF Init, FreshIsYoungest
  <1>2. IInv /\ FreshIsYoungest /\ [Next]_vars => FreshIsYoungest'
    <2>1. CASE Next
      BY <2>1, YoungestGcStep, YoungestMutator, YoungestFinalizing DEF Next
    <2>2. CASE UNCHANGED vars
      BY <2>2 DEF FreshIsYoungest, vars, objVars, ageVars, mutVars
    <2> QED
      BY <2>1, <2>2
  <1> QED
    BY <1>1, <1>2, Inductive, PTL DEF Spec

\* A failed allocation can always be rolled back, however many cycles the step
\* it paid for has run: the object is never in the remembered set.
THEOREM RollbackAlwaysPossible ==
    ASSUME KvStringsKept
    PROVE  Spec => []RollbackNeverFails
  <1>1. IInv /\ FreshIsYoungest => RollbackNeverFails
    BY SlotsFinite DEF FreshIsYoungest, RollbackNeverFails, IInv, TypeOK, CycleTypes
  <1> QED
    BY <1>1, Inductive, FreshStaysYoungest, PTL

-----------------------------------------------------------------------------
(* The finalizer queue.                                                    *)

\* A registration that waits for the death of its object.
Awaits(s) == fin[s] = "Registered" \/ remarked[s]

\* FinalizerQueue made inductive: the orders of registrations that wait differ
\* from each other and from those in the queue, only a finalizer that runs
\* registers its object a second time, and the entry that runs is the last one.
QueueExact == \A s \in Slots : fin[s] \in {"Pending", "Running"} <=> s \in QueuedObjects
EntriesDistinct == \A d, e \in queue : d.obj = e.obj \/ d.ord = e.ord => d = e
OrdersTaken ==
    /\ \A e \in queue : e.ord < nextOrder
    /\ \A s \in Slots : Awaits(s) => order[s] < nextOrder /\ \A e \in queue : e.ord # order[s]
    /\ \A s, t \in Slots : Awaits(s) /\ Awaits(t) /\ order[s] = order[t] => s = t
RunningIsLast ==
    /\ \A s \in Slots : remarked[s] => fin[s] = "Running"
    /\ \A e \in queue : fin[e.obj] = "Running" => running /\ IsLast(e)
    /\ running => \E e \in queue : fin[e.obj] = "Running"

QueueInv == QueueExact /\ EntriesDistinct /\ OrdersTaken /\ RunningIsLast

\* Only one entry is the last one.
LEMMA LastIsUnique ==
    ASSUME TypeOK, EntriesDistinct, NEW d \in queue, NEW e \in queue, IsLast(d), IsLast(e)
    PROVE  d = e
  <1>1. d.ord \in Nat /\ e.ord \in Nat /\ d.ord <= e.ord /\ e.ord <= d.ord
    BY EntryTypes DEF IsLast
  <1>2. d.ord = e.ord
    BY <1>1, SameOrder
  <1> QED
    BY <1>2 DEF EntriesDistinct

LEMMA QueueInvSuffices == TypeOK /\ QueueInv => FinalizerQueue
  <1> SUFFICES ASSUME TypeOK, QueueInv PROVE FinalizerQueue
    OBVIOUS
  <1>1. QueueExact /\ EntriesDistinct /\ OrdersTaken /\ RunningIsLast
    BY DEF QueueInv
  <1>2. \A s \in Slots : fin[s] = "Registered" =>
            order[s] < nextOrder /\ \A e \in queue : e.ord # order[s]
    BY <1>1 DEF OrdersTaken, Awaits
  <1>3. running <=> \E e \in queue : IsLast(e) /\ fin[e.obj] = "Running"
    BY <1>1, EntryTypes DEF RunningIsLast
  <1>4. \A d, e \in queue : fin[d.obj] = "Running" /\ fin[e.obj] = "Running" => d = e
    BY <1>1, LastIsUnique DEF RunningIsLast
  <1> QED
    BY <1>1, <1>2, <1>3, <1>4 DEF FinalizerQueue, QueueExact, EntriesDistinct, OrdersTaken

\* Steps that leave finalizers alone.
LEMMA QueueKept == ASSUME QueueInv, UNCHANGED finVars PROVE QueueInv'
  <1>1. /\ fin' = fin /\ order' = order /\ remarked' = remarked /\ queue' = queue
        /\ running' = running /\ nextOrder' = nextOrder
    BY DEF finVars
  <1>2. QueueExact' /\ EntriesDistinct'
    BY <1>1 DEF QueueInv, QueueExact, EntriesDistinct, QueuedObjects
  <1>3. OrdersTaken'
    BY <1>1 DEF QueueInv, OrdersTaken, Awaits
  <1>4. RunningIsLast'
    BY <1>1 DEF QueueInv, RunningIsLast, IsLast
  <1> QED
    BY <1>2, <1>3, <1>4 DEF QueueInv

\* A slot that is freed has nothing to finalize.
LEMMA QueueReclaim ==
    ASSUME IInv, QueueInv, NEW s \in occ, Reclaim(s), UNCHANGED <<queue, running, nextOrder>>,
           fin[s] \notin {"Registered", "Pending", "Running"}
    PROVE  QueueInv'
  <1>1. TypeOK /\ s \in Slots
    BY Domains DEF IInv
  <1>2. /\ fin' = [fin EXCEPT ![s] = "Unregistered"] /\ order' = [order EXCEPT ![s] = 0]
        /\ remarked' = [remarked EXCEPT ![s] = FALSE]
    BY DEF Reclaim, EmptySlot
  <1>3. /\ fin'[s] = "Unregistered" /\ ~remarked'[s]
        /\ \A t \in Slots \ {s} : fin'[t] = fin[t] /\ order'[t] = order[t] /\ remarked'[t] = remarked[t]
    BY <1>1, <1>2 DEF TypeOK, FinTypes
  <1>4. \A e \in queue : e.obj \in Slots \ {s}
    BY <1>1, EntryTypes DEF QueueInv, QueueExact, QueuedObjects
  <1>5. QueueExact'
    BY <1>3 DEF QueueInv, QueueExact, QueuedObjects
  <1>6. EntriesDistinct'
    BY DEF QueueInv, EntriesDistinct
  <1>7. \A t \in Slots : Awaits(t)' => t \in Slots \ {s} /\ Awaits(t)
    BY <1>3 DEF Awaits
  <1>8. OrdersTaken'
    BY <1>3, <1>7 DEF QueueInv, OrdersTaken
  <1>9. RunningIsLast'
    BY <1>3, <1>4 DEF QueueInv, RunningIsLast, IsLast
  <1> QED
    BY <1>5, <1>6, <1>8, <1>9 DEF QueueInv

\* separate_dead_finalizers: the entries added carry orders no other entry has,
\* and none of the old ones is running.
LEMMA QueueSeparate == ASSUME IInv, QueueInv, ~running, Separate PROVE QueueInv'
  <1> DEFINE New == {[obj |-> s, ord |-> order[s]] : s \in DeadFinalizable}
  <1>1. /\ fin' = [s \in Slots |-> IF s \in DeadFinalizable THEN "Pending" ELSE fin[s]]
        /\ queue' = queue \cup New
        /\ order' = order /\ remarked' = remarked /\ running' = running /\ nextOrder' = nextOrder
    BY DEF Separate
  <1>2. TypeOK /\ \A s \in DeadFinalizable : s \in Slots /\ fin[s] = "Registered"
    BY Domains DEF IInv, DeadFinalizable, Whites
  <1>3. \A e \in New : \E s \in DeadFinalizable : e.obj = s /\ e.ord = order[s] /\ e = [obj |-> s, ord |-> order[s]]
    BY EntryParts
  <1>4. \A s \in Slots : fin'[s] = IF s \in DeadFinalizable THEN "Pending" ELSE fin[s]
    BY <1>1
  <1>5. QueuedObjects' = QueuedObjects \cup DeadFinalizable
    <2>1. ASSUME NEW s \in DeadFinalizable PROVE s \in QueuedObjects'
      <3>1. [obj |-> s, ord |-> order[s]] \in queue' /\ [obj |-> s, ord |-> order[s]].obj = s
        BY <1>1, EntryParts
      <3> QED
        BY <3>1 DEF QueuedObjects
    <2>2. ASSUME NEW e \in queue' PROVE e.obj \in QueuedObjects \cup DeadFinalizable
      BY <1>1, <1>3 DEF QueuedObjects
    <2>3. QueuedObjects \subseteq QueuedObjects'
      BY <1>1 DEF QueuedObjects
    <2>4. QueuedObjects' \subseteq QueuedObjects \cup DeadFinalizable
      <3> HIDE DEF New
      <3> QED
        BY <2>2 DEF QueuedObjects
    <2> QED
      BY <2>1, <2>3, <2>4
  <1>6. \A s \in DeadFinalizable : Awaits(s) /\ s \notin QueuedObjects
    BY <1>2 DEF Awaits, QueueInv, QueueExact
  <1>7. QueueExact'
    BY <1>4, <1>5, <1>2 DEF QueueInv, QueueExact
  <1>8. EntriesDistinct'
    <2>1. ASSUME NEW d \in queue, NEW e \in New PROVE d.obj # e.obj /\ d.ord # e.ord
      <3>1. PICK s \in DeadFinalizable : e.obj = s /\ e.ord = order[s]
        BY <1>3
      <3>2. s \in Slots /\ Awaits(s) /\ s \notin QueuedObjects /\ d.obj \in QueuedObjects
        BY <1>2, <1>6 DEF QueuedObjects
      <3>3. d.ord # order[s]
        BY <3>2 DEF QueueInv, OrdersTaken
      <3> QED
        BY <3>1, <3>2, <3>3
    <2>2. ASSUME NEW d \in New, NEW e \in New, d.obj = e.obj \/ d.ord = e.ord PROVE d = e
      <3>1. PICK s \in DeadFinalizable : d.obj = s /\ d.ord = order[s] /\ d = [obj |-> s, ord |-> order[s]]
        BY <1>3
      <3>2. PICK t \in DeadFinalizable : e.obj = t /\ e.ord = order[t] /\ e = [obj |-> t, ord |-> order[t]]
        BY <1>3
      <3>3. s = t
        BY <1>2, <1>6, <2>2, <3>1, <3>2 DEF QueueInv, OrdersTaken
      <3> QED
        BY <3>1, <3>2, <3>3
    <2>3. \A d, e \in queue : d.obj = e.obj \/ d.ord = e.ord => d = e
      BY DEF QueueInv, EntriesDistinct
    <2> HIDE DEF New
    <2> QED
      BY <1>1, <2>1, <2>2, <2>3 DEF EntriesDistinct
  <1>9. \A e \in queue : fin[e.obj] # "Running"
    BY DEF QueueInv, RunningIsLast
  <1>10. \A s \in Slots : fin[s] # "Running" /\ ~remarked[s]
    BY <1>9 DEF QueueInv, QueueExact, RunningIsLast, QueuedObjects
  <1>11. RunningIsLast'
    <2>1. \A s \in Slots : fin'[s] # "Running" /\ ~remarked'[s]
      BY <1>1, <1>4, <1>10
    <2>2. \A e \in queue' : e.obj \in Slots
      BY <1>1, <1>2, <1>3, EntryTypes
    <2> QED
      BY <1>1, <2>1, <2>2 DEF RunningIsLast
  <1>12. OrdersTaken'
    <2>1. \A s \in Slots : Awaits(s)' => Awaits(s) /\ s \notin DeadFinalizable
      BY <1>1, <1>4, <1>10 DEF Awaits
    <2>2. \A e \in queue' : e.ord < nextOrder
      BY <1>1, <1>2, <1>3, <1>6 DEF QueueInv, OrdersTaken
    <2>3. ASSUME NEW s \in Slots, Awaits(s)', NEW e \in queue' PROVE e.ord # order[s]
      <3>1. CASE e \in queue
        BY <2>1, <2>3, <3>1 DEF QueueInv, OrdersTaken
      <3>2. CASE e \in New
        <4>1. PICK t \in DeadFinalizable : e.ord = order[t]
          BY <1>3, <3>2
        <4>2. t \in Slots /\ Awaits(t) /\ Awaits(s) /\ s # t
          BY <1>2, <1>6, <2>1, <2>3
        <4> QED
          BY <4>1, <4>2 DEF QueueInv, OrdersTaken
      <3> QED
        BY <1>1, <3>1, <3>2
    <2>4. \A s \in Slots : Awaits(s)' => order[s] < nextOrder
      BY <2>1 DEF QueueInv, OrdersTaken
    <2>5. \A s, t \in Slots : Awaits(s)' /\ Awaits(t)' /\ order[s] = order[t] => s = t
      BY <2>1 DEF QueueInv, OrdersTaken
    <2> QED
      BY <1>1, <2>2, <2>3, <2>4, <2>5 DEF OrdersTaken
  <1> QED
    BY <1>7, <1>8, <1>11, <1>12 DEF QueueInv

\* register_finalizer takes an order of its own.
LEMMA QueueRegister ==
    ASSUME IInv, QueueInv, NEW o \in Slots, RegisterFinalizer(o)
    PROVE  QueueInv'
  <1>1. /\ TypeOK /\ UNCHANGED <<queue, running>> /\ nextOrder' = nextOrder + 1
        /\ order' = [order EXCEPT ![o] = nextOrder]
    BY DEF IInv, RegisterFinalizer
  <1>2. order'[o] = nextOrder /\ \A s \in Slots \ {o} : order'[s] = order[s]
    BY <1>1 DEF TypeOK, FinTypes
  <1>3. \A s \in Slots \ {o} : fin'[s] = fin[s] /\ remarked'[s] = remarked[s]
    BY <1>1 DEF RegisterFinalizer, TypeOK, FinTypes
  <1>4. \/ fin[o] \in {"Unregistered", "Finalized"} /\ fin'[o] = "Registered" /\ remarked'[o] = remarked[o]
        \/ fin[o] = "Running" /\ fin'[o] = "Running" /\ remarked'[o]
    BY <1>1 DEF RegisterFinalizer, TypeOK, FinTypes
  <1>5. QueueExact' /\ EntriesDistinct'
    BY <1>1, <1>3, <1>4 DEF QueueInv, QueueExact, EntriesDistinct, QueuedObjects
  <1>6. RunningIsLast'
    <2>1. \A s \in Slots : remarked'[s] => fin'[s] = "Running"
      BY <1>3, <1>4 DEF QueueInv, RunningIsLast
    <2>2. \A e \in queue : e.obj \in Slots /\ (fin'[e.obj] = "Running" <=> fin[e.obj] = "Running")
      BY <1>1, <1>3, <1>4, EntryTypes
    <2>3. \A e \in queue : IsLast(e)' <=> IsLast(e)
      BY <1>1 DEF IsLast
    <2> QED
      BY <1>1, <2>1, <2>2, <2>3 DEF QueueInv, RunningIsLast
  <1>7. OrdersTaken'
    <2>1. \A s \in Slots \ {o} : Awaits(s)' => Awaits(s)
      BY <1>3 DEF Awaits
    <2>2. \A e \in queue : e.ord \in Nat /\ e.ord < nextOrder
      BY <1>1, EntryTypes DEF QueueInv, OrdersTaken
    <2>3. nextOrder \in Nat /\ \A s \in Slots : order[s] \in Nat
      BY <1>1, EntryTypes
    <2>4. \A e \in queue : e.ord < nextOrder + 1 /\ e.ord # nextOrder
      BY <2>2, <2>3, NextOrder
    <2>5. \A s \in Slots \ {o} : Awaits(s)' =>
              order[s] < nextOrder + 1 /\ order[s] # nextOrder /\ \A e \in queue : e.ord # order[s]
      BY <2>1, <2>3, NextOrder DEF QueueInv, OrdersTaken
    <2>6. nextOrder < nextOrder + 1
      BY <2>3, NextOrder
    <2>7. \A s \in Slots : Awaits(s)' => order'[s] < nextOrder' /\ \A e \in queue' : e.ord # order'[s]
      BY <1>1, <1>2, <2>4, <2>5, <2>6
    <2>8. \A s, t \in Slots : Awaits(s)' /\ Awaits(t)' /\ order'[s] = order'[t] => s = t
      BY <1>2, <2>1, <2>5 DEF QueueInv, OrdersTaken
    <2> QED
      BY <1>1, <2>4, <2>7, <2>8 DEF OrdersTaken
  <1> QED
    BY <1>5, <1>6, <1>7 DEF QueueInv

\* start_finalizer.
LEMMA QueueStart ==
    ASSUME IInv, QueueInv, NEW e \in queue, NEW r \in Regs, StartFinalizer(e, r)
    PROVE  QueueInv'
  <1>1. /\ TypeOK /\ ~running /\ running' /\ IsLast(e) /\ fin[e.obj] = "Pending"
        /\ fin' = [fin EXCEPT ![e.obj] = "Running"]
        /\ UNCHANGED <<order, remarked, queue, nextOrder>>
    BY DEF IInv, StartFinalizer
  <1>2. e.obj \in Slots
    BY <1>1, EntryTypes
  <1>3. fin'[e.obj] = "Running" /\ \A s \in Slots \ {e.obj} : fin'[s] = fin[s]
    BY <1>1, <1>2 DEF TypeOK, FinTypes
  <1>4. QueueExact' /\ EntriesDistinct'
    BY <1>1, <1>2, <1>3 DEF QueueInv, QueueExact, EntriesDistinct, QueuedObjects
  <1>5. \A s \in Slots : Awaits(s)' <=> Awaits(s)
    BY <1>1, <1>2, <1>3 DEF Awaits
  <1>6. OrdersTaken'
    BY <1>1, <1>5 DEF QueueInv, OrdersTaken
  <1>7. \A d \in queue : fin'[d.obj] = "Running" => d = e
    BY <1>1, <1>3, EntryTypes DEF QueueInv, RunningIsLast, EntriesDistinct
  <1>8. IsLast(e)' /\ \A s \in Slots : remarked'[s] => fin'[s] = "Running"
    BY <1>1, <1>3 DEF IsLast, QueueInv, RunningIsLast
  <1>9. RunningIsLast'
    BY <1>1, <1>3, <1>7, <1>8 DEF RunningIsLast
  <1> QED
    BY <1>4, <1>6, <1>9 DEF QueueInv

\* finish_finalizer ends the finalizer that runs, and no other.
LEMMA QueueFinish ==
    ASSUME IInv, QueueInv, NEW e \in queue, FinishFinalizer(e)
    PROVE  QueueInv'
  <1>1. /\ TypeOK /\ running /\ ~running' /\ IsLast(e) /\ queue' = queue \ {e}
        /\ fin' = [fin EXCEPT ![e.obj] = IF remarked[e.obj] THEN "Registered" ELSE "Finalized"]
        /\ remarked' = [remarked EXCEPT ![e.obj] = FALSE]
        /\ UNCHANGED <<order, nextOrder>>
    BY DEF IInv, FinishFinalizer
  <1>2. e.obj \in Slots
    BY <1>1, EntryTypes
  <1>3. /\ fin'[e.obj] = IF remarked[e.obj] THEN "Registered" ELSE "Finalized"
        /\ ~remarked'[e.obj]
        /\ \A s \in Slots \ {e.obj} : fin'[s] = fin[s] /\ remarked'[s] = remarked[s]
    BY <1>1, <1>2 DEF TypeOK, FinTypes
  <1>4. \A d \in queue : fin[d.obj] = "Running" => d = e
    BY <1>1, LastIsUnique DEF QueueInv, RunningIsLast
  <1>5. \A d \in queue : d # e => d.obj # e.obj
    BY DEF QueueInv, EntriesDistinct
  <1>6. QueuedObjects' = QueuedObjects \ {e.obj}
    BY <1>1, <1>5 DEF QueuedObjects
  <1>7. QueueExact'
    BY <1>2, <1>3, <1>6 DEF QueueInv, QueueExact
  <1>8. EntriesDistinct'
    BY <1>1 DEF QueueInv, EntriesDistinct
  <1>9. \A s \in Slots : Awaits(s)' => Awaits(s)
    BY <1>2, <1>3 DEF Awaits
  <1>10. OrdersTaken'
    BY <1>1, <1>9 DEF QueueInv, OrdersTaken
  <1>11. \A d \in queue' : fin'[d.obj] # "Running"
    BY <1>1, <1>3, <1>4, <1>5, EntryTypes
  <1>12. \A s \in Slots : ~remarked'[s]
    <2>1. \A s \in Slots : remarked[s] => s = e.obj
      BY <1>4 DEF QueueInv, RunningIsLast, QueueExact, QueuedObjects
    <2> QED
      BY <1>3, <2>1
  <1>13. RunningIsLast'
    BY <1>1, <1>11, <1>12 DEF RunningIsLast
  <1> QED
    BY <1>7, <1>8, <1>10, <1>13 DEF QueueInv

\* Every step keeps the queue in order.
LEMMA QueueStep == ASSUME IInv, QueueInv, Next PROVE QueueInv'
  <1>1. TypeOK
    BY DEF IInv
  <1>2. CASE Finalizing
    BY <1>2, QueueStart, QueueFinish DEF Finalizing
  <1>3. CASE \E o \in Slots : RegisterFinalizer(o)
    BY <1>3, QueueRegister
  <1>4. CASE GcStep /\ Separate
    BY <1>4, QueueSeparate DEF GcStep
  <1>5. ASSUME NEW s \in occ, Reclaim(s)
        PROVE  fin[s] \notin {"Registered", "Pending", "Running"}
    <2>1. s \in Slots /\ kind[s] # "free"
      BY DEF occ
    <2>2. kind'[s] = "free"
      BY <1>1, <1>5, <2>1, ReclaimFacts
    <2> QED
      BY <2>1, <2>2, FreesFinalized
  <1>6. CASE SweepSlot
    <2>1. PICK s \in occ : IF Sweepable(s) THEN Reclaim(s) ELSE UNCHANGED <<fin, order, remarked>>
      BY <1>6 DEF SweepSlot
    <2>2. UNCHANGED <<queue, running, nextOrder>>
      BY <1>6 DEF SweepSlot
    <2>3. CASE Sweepable(s)
      BY <1>5, <2>1, <2>2, <2>3, QueueReclaim
    <2>4. CASE ~Sweepable(s)
      BY <2>1, <2>2, <2>4, QueueKept DEF finVars
    <2> QED
      BY <2>3, <2>4
  <1>7. CASE AllocateFails
    <2>1. fresh \in occ /\ Reclaim(fresh) /\ UNCHANGED <<queue, running, nextOrder>>
      BY <1>7 DEF AllocateFails, IInv, NoDangling, Roots, Live
    <2> QED
      BY <1>5, <2>1, QueueReclaim
  <1>8. CASE GcStep /\ ~Separate /\ ~SweepSlot
    <2>1. UNCHANGED finVars
      BY <1>8 DEF GcStep, StepBegins, CollectBegins, BeginCycle, MarkRoot, TraceRemembered,
         RootsMarked, Propagate, Propagated, AtomicResume, ScanEphemeron, RetraceOld,
         ClearWeakValues, ReserveCandidatesFails, RebuildRevives, RebuildFails, EnterSweep,
         FinishAtomic, EndSweep
    <2> QED
      BY <2>1, QueueKept
  <1>9. CASE Mutator /\ ~AllocateFails /\ ~(\E o \in Slots : RegisterFinalizer(o))
    <2>1. UNCHANGED finVars
      BY <1>9 DEF Mutator, Load, DropRoot, Allocate, AllocateAndStep, Publish, AllocateReturns,
         WriteRef, ClearRef, RawSet, RawClear, SetWeakMode, SetGcMode, CollectCalled, CollectReturns
    <2> QED
      BY <2>1, QueueKept
  <1> QED
    BY <1>2, <1>3, <1>4, <1>6, <1>7, <1>8, <1>9 DEF Next

\* The queue holds exactly the objects whose finalizer is due, each once, and
\* serves the one registered last, for every number of objects and registrations.
THEOREM QueueIsOrdered ==
    ASSUME KvStringsKept
    PROVE  Spec => []FinalizerQueue
  <1>1. Init => QueueInv
    BY DEF Init, QueueInv, QueueExact, EntriesDistinct, OrdersTaken, RunningIsLast, Awaits,
           QueuedObjects
  <1>2. IInv /\ QueueInv /\ [Next]_vars => QueueInv'
    BY QueueStep, QueueKept DEF vars
  <1>3. IInv /\ QueueInv => FinalizerQueue
    BY QueueInvSuffices DEF IInv
  <1> QED
    BY <1>1, <1>2, <1>3, Inductive, PTL DEF Spec

=============================================================================
