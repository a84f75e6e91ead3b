-------------------------- MODULE ObjectRefsProofs --------------------------
(***************************************************************************)
(* Reference counting is safe for any number of owners.  Counted says what *)
(* the two counts mean and holds whatever the callbacks of                 *)
(* obs_enum_sources do; Phases follows the source through its destruction  *)
(* and holds until such a callback has brought a dead source back.         *)
(***************************************************************************)
EXTENDS ObjectRefs, FiniteSetTheorems, TLAPS

Typed ==
  /\ refs \in Int /\ weak_refs \in Int
  /\ strong \subseteq Owners /\ weak \subseteq Owners
  /\ listed \in BOOLEAN /\ mutex \in Owners \cup {None}
  /\ source \in {"live", "freed"} /\ control \in {"live", "freed"}
  /\ pc \in [Owners -> Labels]
  /\ owners \in [Owners -> Int]
  /\ revived \in BOOLEAN

\* The strong count is the number of strong references less one, and whoever
\* is about to raise it has seen it above -1 or is a callback that retains.
Counted ==
  /\ Typed
  /\ refs = Cardinality(strong) - 1
  /\ \A o \in Owners :
       /\ pc[o] \in {"found", "swap", "retain"} => o \notin strong
       /\ pc[o] = "swap" => owners[o] > -1
       /\ pc[o] = "retain" => o \in Retainers

-----------------------------------------------------------------------------
(* The counts.                                                             *)

\* Adding a reference to a finite set of owners adds one, and removing one
\* takes one away.
LEMMA OwnerCount ==
  ASSUME NEW S, S \subseteq Owners, NEW o
  PROVE  /\ Cardinality(S) \in Nat
         /\ Cardinality(S) = 0 <=> S = {}
         /\ Cardinality(S) <= Cardinality(Owners)
         /\ o \notin S => Cardinality(S \cup {o}) = Cardinality(S) + 1
         /\ o \in S => Cardinality(S \ {o}) = Cardinality(S) - 1
<1>1. IsFiniteSet(S) /\ Cardinality(S) <= Cardinality(Owners)
  BY RefsAssumption, FS_Subset
<1>2. Cardinality(S) \in Nat
  BY <1>1, FS_CardinalityType
<1>3. Cardinality(S) = 0 <=> S = {}
  BY <1>1, FS_EmptySet
<1>4. o \notin S => Cardinality(S \cup {o}) = Cardinality(S) + 1
  BY <1>1, FS_AddElement
<1>5. o \in S => Cardinality(S \ {o}) = Cardinality(S) - 1
  BY <1>1, FS_RemoveElement
<1> QED
  BY <1>1, <1>2, <1>3, <1>4, <1>5

\* The first reference is counted.
LEMMA InitCounted == Init => Counted
<1>1. SUFFICES ASSUME Init PROVE Counted
  OBVIOUS
<1>2. PICK o \in Owners : strong = {o}
  BY <1>1 DEF Init
<1>3. Cardinality(strong) = 1
  BY <1>2, FS_Singleton
<1>4. listed \in BOOLEAN /\ revived \in BOOLEAN
  BY <1>1, Zenon DEF Init
<1>5. Typed
  BY <1>1, <1>2, <1>4 DEF Init, Typed, Labels
<1> QED
  BY <1>1, <1>3, <1>5 DEF Init, Counted

\* Every step keeps the strong count right.
LEMMA NextCounted == Counted /\ [Next]_vars => Counted'
<1>1. SUFFICES ASSUME Counted, [Next]_vars PROVE Counted'
  OBVIOUS
<1> USE DEF counts, memory
<1>2. CASE UNCHANGED vars
  BY <1>1, <1>2 DEF vars, Counted, Typed
<1>3. CASE Gone
  BY <1>1, <1>3 DEF Gone, vars, Counted, Typed
<1>4. ASSUME NEW o \in Owners, Own(o) PROVE Counted'
  <2> /\ Typed /\ refs = Cardinality(strong) - 1
      /\ Cardinality(strong) \in Nat
    BY <1>1, OwnerCount DEF Counted, Typed
  <2>1. CASE AddRef(o)
    <3>1. Cardinality(strong') = Cardinality(strong) + 1
      BY <2>1, OwnerCount DEF AddRef, Typed
    <3>2. Typed'
      BY <2>1 DEF AddRef, Typed
    <3> QED
      BY <1>1, <2>1, <3>1, <3>2 DEF AddRef, Counted
  <2>2. CASE Release(o)
    <3>1. Cardinality(strong') = Cardinality(strong) - 1
      BY <2>2, OwnerCount DEF Release, Typed
    <3>2. Typed'
      BY <2>2 DEF Release, Goto, Typed, Labels
    <3> QED
      BY <1>1, <2>2, <3>1, <3>2 DEF Release, Goto, Counted, Typed
  <2>3. CASE GetWeak(o) \/ ReleaseWeak(o)
    <3>1. Typed'
      BY <2>3 DEF GetWeak, ReleaseWeak, Typed
    <3> QED
      BY <1>1, <2>3, <3>1 DEF GetWeak, ReleaseWeak, Counted
  <2>4. CASE Upgrade(o)
    <3>1. Typed'
      BY <2>4 DEF Upgrade, Read, Goto, Typed, Labels
    <3> QED
      BY <1>1, <2>4, <3>1 DEF Upgrade, Read, Goto, Alive, Counted, Typed
  <2>5. CASE Lookup(o) \/ EnumFinds(o)
    <3>1. Typed'
      BY <2>5 DEF Lookup, EnumFinds, Goto, Typed, Labels
    <3> QED
      BY <1>1, <2>5, <3>1 DEF Lookup, EnumFinds, Goto, Counted, Typed
  <2> QED
    BY <1>4, <2>1, <2>2, <2>3, <2>4, <2>5 DEF Own
<1>5. ASSUME NEW o \in Owners, Get(o) PROVE Counted'
  <2> /\ Typed /\ refs = Cardinality(strong) - 1
      /\ Cardinality(strong) \in Nat
    BY <1>1, OwnerCount DEF Counted, Typed
  <2>1. CASE ReadFound(o) \/ SwapFails(o)
    <3>1. Typed'
      BY <2>1 DEF ReadFound, SwapFails, Read, Goto, Typed, Labels
    <3> QED
      BY <1>1, <2>1, <3>1
         DEF ReadFound, SwapFails, Read, Goto, Alive, Counted, Typed
  <2>2. CASE Swap(o)
    <3>1. Cardinality(strong') = Cardinality(strong) + 1
      BY <1>1, <2>2, OwnerCount DEF Swap, Counted, Typed
    <3>2. Typed'
      BY <2>2 DEF Swap, Goto, Typed, Labels
    <3> QED
      BY <1>1, <2>2, <3>1, <3>2 DEF Swap, Unchanged, Goto, Counted, Typed
  <2>3. CASE EnumRetains(o)
    <3>1. Cardinality(strong') = Cardinality(strong) + 1
      BY <1>1, <2>3, OwnerCount DEF EnumRetains, Counted, Typed
    <3>2. Typed'
      BY <2>3 DEF EnumRetains, Goto, Typed, Labels
    <3> QED
      BY <1>1, <2>3, <3>1, <3>2 DEF EnumRetains, Goto, Counted, Typed
  <2> QED
    BY <1>5, <2>1, <2>2, <2>3 DEF Get
<1>6. ASSUME NEW o \in Owners, Destroy(o) PROVE Counted'
  <2>1. CASE RemoveContext(o)
    BY <1>1, <2>1 DEF RemoveContext, Goto, Counted, Typed, Labels
  <2>2. CASE FreeSource(o)
    BY <1>1, <2>2 DEF FreeSource, Goto, Counted, Typed, Labels
  <2>3. CASE DropControl(o)
    <3>1. weak_refs' \in Int /\ control' \in {"live", "freed"}
      BY <1>1, <2>3 DEF DropControl, OwnReferenceDropped, Counted, Typed
    <3> QED
      BY <1>1, <2>3, <3>1 DEF DropControl, Goto, Counted, Typed, Labels
  <2> QED
    BY <1>6, <2>1, <2>2, <2>3 DEF Destroy
<1> QED
  BY <1>1, <1>2, <1>3, <1>4, <1>5, <1>6 DEF Next

-----------------------------------------------------------------------------
(* The theorems that need the counts alone.                                *)

\* The strong count is right in every reachable state, whatever callbacks do.
THEOREM CountsRight == Spec => []Counted
<1> QED
  BY InitCounted, NextCounted, PTL DEF Spec

\* A source whose last reference is gone stays gone, unless a callback of
\* obs_enum_sources is about to retain it.
THEOREM GoneForGoodHolds == Spec => GoneForGood
<1>1. Counted /\ [Next]_vars =>
        [strong = {} /\ strong' # {} => \E o \in Retainers : pc[o] = "retain"]_vars
  <2>1. SUFFICES ASSUME Counted, Next, strong = {}, strong' # {}
                 PROVE  \E o \in Retainers : pc[o] = "retain"
    BY DEF vars, counts
  <2>2. refs = -1
    BY <2>1, FS_EmptySet DEF Counted
  <2>3. PICK o \in Owners : Swap(o) \/ EnumRetains(o)
    BY <2>1 DEF Next, Gone, Own, Get, Destroy, AddRef, Release, GetWeak,
                ReleaseWeak, Upgrade, Lookup, EnumFinds, ReadFound, SwapFails,
                RemoveContext, FreeSource, DropControl, vars, counts
  <2>4. ~Swap(o)
    BY <2>1, <2>2 DEF Swap, Unchanged, Counted, Typed
  <2> QED
    BY <2>1, <2>3, <2>4 DEF EnumRetains, Counted
<1> QED
  BY <1>1, CountsRight, PTL DEF Spec, GoneForGood

-----------------------------------------------------------------------------
(* Through the destruction, while no callback of obs_enum_sources has       *)
(* retained a source without references.                                    *)

\* The source counts one weak reference until it is destroyed altogether.
OwnWeak == IF source = "freed" /\ Destroying = {} THEN 0 ELSE 1

Phases ==
  /\ weak_refs = Cardinality(weak) + OwnWeak - 1
  /\ control = "freed" <=> weak_refs = -1
  /\ strong # {} => listed /\ Destroying = {}
  /\ listed => source = "live"
  /\ \A o, p \in Destroying : o = p
  /\ \A o \in Owners :
       /\ pc[o] = "destroy" => listed
       /\ pc[o] = "free" => ~listed /\ source = "live"
       /\ pc[o] = "drop" => ~listed /\ source = "freed"
       /\ pc[o] = "found" => mutex = o
       /\ pc[o] = "swap" => mutex = o \/ o \in weak
       /\ pc[o] = "retain" => mutex = o
       /\ mutex = o => listed /\ pc[o] \in {"found", "swap", "retain"}

Orderly == Counted /\ Phases

IInv == Counted /\ (revived \/ Phases)

\* Owners that go from a label outside the destruction to another one leave the
\* set of those who destroy alone.
LEMMA SameDestroying ==
  ASSUME Typed, NEW o \in Owners, NEW l,
         pc' = [pc EXCEPT ![o] = l],
         pc[o] \notin {"destroy", "free", "drop"},
         l \notin {"destroy", "free", "drop"}
  PROVE  Destroying' = Destroying
BY DEF Typed, Destroying

\* The created source is alive and listed.
LEMMA InitPhases == Init => Phases
<1>1. SUFFICES ASSUME Init PROVE Phases
  OBVIOUS
<1>2. Destroying = {}
  BY <1>1 DEF Init, Destroying
<1>3. Cardinality(weak) = 0 /\ OwnWeak = 1
  BY <1>1, FS_EmptySet DEF Init, OwnWeak
<1> QED
  BY <1>1, <1>2, <1>3, RefsAssumption DEF Init, Phases

\* Strong references come and go; the last one starts the destruction.
LEMMA StrongPhases ==
  ASSUME Orderly, NEW o \in Owners, AddRef(o) \/ Release(o) \/ Swap(o)
  PROVE  Phases'
<1> USE DEF memory
<1> Typed /\ refs = Cardinality(strong) - 1
  BY DEF Orderly, Counted
<1> Cardinality(strong) \in Nat /\ (Cardinality(strong) = 0 <=> strong = {})
  BY OwnerCount DEF Typed
<1>1. CASE AddRef(o)
  <2>1. Destroying' = Destroying /\ OwnWeak' = OwnWeak
    BY <1>1 DEF AddRef, Destroying, OwnWeak
  <2> QED
    BY <1>1, <2>1 DEF AddRef, Orderly, Phases
<1>2. CASE Release(o) /\ refs - 1 # -1
  <2>1. Destroying' = Destroying /\ OwnWeak' = OwnWeak
    BY <1>2 DEF Release, Last, Destroying, OwnWeak
  <2> QED
    BY <1>2, <2>1 DEF Release, Last, Orderly, Phases
<1>3. CASE Release(o) /\ refs - 1 = -1
  <2>1. Cardinality(strong') = 0 /\ strong' \subseteq Owners
    BY <1>3, OwnerCount DEF Release, Typed
  <2>2. strong' = {}
    BY <2>1, OwnerCount
  <2>3. Destroying = {} /\ listed /\ source = "live"
    BY <1>3 DEF Release, Orderly, Phases
  <2>4. Destroying' = {o}
    BY <1>3, <2>3 DEF Release, Last, Goto, Typed, Destroying
  <2>5. OwnWeak' = OwnWeak
    BY <1>3, <2>3 DEF Release, OwnWeak
  <2> QED
    BY <1>3, <2>2, <2>3, <2>4, <2>5
       DEF Release, Last, Goto, Orderly, Phases, Typed
<1>4. CASE Swap(o)
  <2>1. Destroying' = Destroying
    BY <1>4, SameDestroying DEF Swap, Goto
  <2>2. OwnWeak' = OwnWeak
    BY <1>4, <2>1 DEF Swap, OwnWeak
  <2>3. strong # {}
    BY <1>4 DEF Swap, Unchanged, Orderly, Counted
  <2> QED
    BY <1>4, <2>1, <2>2, <2>3, RefsAssumption
       DEF Swap, Goto, Orderly, Phases, Typed
<1> QED
  BY <1>1, <1>2, <1>3, <1>4

\* Weak references come and go; the last one frees the control block.
LEMMA WeakPhases ==
  ASSUME Orderly, NEW o \in Owners, GetWeak(o) \/ ReleaseWeak(o)
  PROVE  Phases'
<1> USE DEF memory
<1> Typed
  BY DEF Orderly, Counted
<1>1. Destroying' = Destroying /\ OwnWeak' = OwnWeak /\ OwnWeak \in {0, 1}
  BY DEF GetWeak, ReleaseWeak, Destroying, OwnWeak
<1>2. Cardinality(weak) \in Nat /\ (Cardinality(weak) = 0 <=> weak = {})
  BY OwnerCount DEF Typed
<1>3. CASE GetWeak(o)
  <2>1. weak_refs # -1
    <3>1. CASE strong # {}
      BY <1>1, <1>2, <3>1 DEF Orderly, Phases, OwnWeak
    <3>2. CASE weak # {}
      BY <1>1, <1>2, <3>2 DEF Orderly, Phases
    <3> QED
      BY <1>3, <3>1, <3>2 DEF GetWeak
  <2>2. Cardinality(weak') = Cardinality(weak) + 1
    BY <1>3, OwnerCount DEF GetWeak, Typed
  <2> QED
    BY <1>1, <1>2, <1>3, <2>1, <2>2 DEF GetWeak, Orderly, Phases
<1>4. CASE ReleaseWeak(o)
  <2>1. Cardinality(weak') = Cardinality(weak) - 1
    BY <1>4, OwnerCount DEF ReleaseWeak, Typed
  <2>2. weak_refs # -1
    BY <1>1, <1>2, <1>4 DEF ReleaseWeak, Orderly, Phases
  <2> QED
    BY <1>1, <1>2, <1>4, <2>1, <2>2 DEF ReleaseWeak, Last, Orderly, Phases
<1> QED
  BY <1>3, <1>4

\* Reading the count changes nothing that is shared but the mutex.
LEMMA ReadPhases ==
  ASSUME Orderly, NEW o \in Owners, Upgrade(o) \/ ReadFound(o) \/ SwapFails(o)
  PROVE  Phases'
<1> USE DEF counts, memory
<1> Typed
  BY DEF Orderly, Counted
<1>1. Destroying' = Destroying
  BY SameDestroying DEF Upgrade, ReadFound, SwapFails, Read, Goto
<1>2. OwnWeak' = OwnWeak
  BY <1>1 DEF Upgrade, ReadFound, SwapFails, OwnWeak
<1>4. CASE Upgrade(o)
  BY <1>1, <1>2, <1>4, RefsAssumption
     DEF Upgrade, Read, Goto, Orderly, Phases, Typed
<1>5. CASE ReadFound(o)
  BY <1>1, <1>2, <1>5, RefsAssumption
     DEF ReadFound, Read, Goto, Orderly, Phases, Typed
<1>6. CASE SwapFails(o)
  BY <1>1, <1>2, <1>6, RefsAssumption
     DEF SwapFails, Read, Goto, Orderly, Phases, Typed
<1> QED
  BY <1>4, <1>5, <1>6

\* A lookup or an enumeration takes the mutex while the source is listed.
LEMMA LookupPhases ==
  ASSUME Orderly, NEW o \in Owners, Lookup(o) \/ EnumFinds(o)
  PROVE  Phases'
<1> USE DEF memory, counts
<1> Typed
  BY DEF Orderly, Counted
<1>1. Destroying' = Destroying
  BY SameDestroying DEF Lookup, EnumFinds, Goto
<1>2. OwnWeak' = OwnWeak
  BY <1>1 DEF Lookup, EnumFinds, OwnWeak
<1> QED
  BY <1>1, <1>2, RefsAssumption
     DEF Lookup, EnumFinds, Goto, Orderly, Phases, Typed

\* A callback that retains a source with references is like any other owner.
LEMMA RetainPhases ==
  ASSUME Orderly, NEW o \in Owners, EnumRetains(o), strong # {}
  PROVE  Phases'
<1> USE DEF memory
<1> Typed
  BY DEF Orderly, Counted
<1>1. Destroying' = Destroying
  BY SameDestroying DEF EnumRetains, Goto
<1>2. OwnWeak' = OwnWeak
  BY <1>1 DEF EnumRetains, OwnWeak
<1> QED
  BY <1>1, <1>2, RefsAssumption DEF EnumRetains, Goto, Orderly, Phases, Typed

\* The source is removed from the list, freed, and gives up its control block.
LEMMA DestroyPhases ==
  ASSUME Orderly, NEW o \in Owners, Destroy(o)
  PROVE  Phases'
<1> USE DEF memory, counts
<1> Typed
  BY DEF Orderly, Counted
<1>1. o \in Destroying /\ Destroying = {o} /\ strong = {}
  BY DEF Destroy, RemoveContext, FreeSource, DropControl, Destroying, Orderly, Phases
<1>2. Cardinality(weak) \in Nat /\ OwnWeak = 1
  BY <1>1, OwnerCount DEF OwnWeak, Typed
<1>3. \A p \in Owners \ {o} : pc[p] \notin {"destroy", "free", "drop"}
  BY <1>1 DEF Destroying
<1>4. CASE RemoveContext(o)
  <2>1. Destroying' = {o}
    BY <1>1, <1>4 DEF RemoveContext, Goto, Destroying, Typed
  <2>2. OwnWeak' = 1
    BY <2>1 DEF OwnWeak
  <2> QED
    BY <1>1, <1>2, <1>3, <1>4, <2>1, <2>2, RefsAssumption
       DEF RemoveContext, ListFree, Goto, Orderly, Phases, Typed
<1>5. CASE FreeSource(o)
  <2>1. Destroying' = {o}
    BY <1>1, <1>5 DEF FreeSource, Goto, Destroying, Typed
  <2>2. OwnWeak' = 1
    BY <2>1 DEF OwnWeak
  <2> QED
    BY <1>1, <1>2, <1>3, <1>5, <2>1, <2>2
       DEF FreeSource, Goto, Orderly, Phases, Typed
<1>6. CASE DropControl(o)
  <2>1. Destroying' = {}
    BY <1>1, <1>6 DEF DropControl, Goto, Destroying, Typed
  <2>2. source' = "freed" /\ OwnWeak' = 0
    BY <1>6, <2>1 DEF DropControl, OwnWeak, Orderly, Phases
  <2> QED
    BY <1>1, <1>2, <1>6, <2>1, <2>2
       DEF DropControl, OwnReferenceDropped, Last, Goto, Orderly, Phases, Typed
<1> QED
  BY <1>4, <1>5, <1>6 DEF Destroy

\* Every step keeps the phases in order, unless it is the one that revives.
LEMMA NextIInv == IInv /\ [Next]_vars => IInv'
<1>1. SUFFICES ASSUME IInv, [Next]_vars PROVE IInv'
  OBVIOUS
<1>2. Counted'
  BY <1>1, NextCounted DEF IInv
<1>3. CASE UNCHANGED vars \/ Gone
  BY <1>1, <1>2, <1>3
     DEF Gone, vars, counts, memory, IInv, Phases, Destroying, OwnWeak
<1>4. ASSUME Next, revived PROVE revived'
  BY <1>4 DEF Next, Gone, Own, Get, Destroy, AddRef, Release, GetWeak,
              ReleaseWeak, Upgrade, Lookup, EnumFinds, ReadFound, Swap,
              SwapFails, EnumRetains, RemoveContext, FreeSource, DropControl,
              vars
<1>5. ASSUME ~revived, NEW o \in Owners, Own(o) PROVE Phases'
  BY <1>1, <1>5, StrongPhases, WeakPhases, ReadPhases, LookupPhases
     DEF Own, IInv, Orderly
<1>6. ASSUME ~revived, NEW o \in Owners, Get(o) PROVE revived' \/ Phases'
  <2>1. EnumRetains(o) => revived' \/ strong # {}
    BY DEF EnumRetains
  <2> QED
    BY <1>1, <1>6, <2>1, StrongPhases, ReadPhases, RetainPhases
       DEF Get, IInv, Orderly
<1>7. ASSUME ~revived, NEW o \in Owners, Destroy(o) PROVE Phases'
  BY <1>1, <1>7, DestroyPhases DEF IInv, Orderly
<1> QED
  BY <1>1, <1>2, <1>3, <1>4, <1>5, <1>6, <1>7 DEF Next, IInv

\* Counts, list, memory and destruction agree in every reachable state.
LEMMA Consistent == Spec => []IInv
<1>1. Init => IInv
  BY InitCounted, InitPhases DEF IInv
<1>2. IInv /\ [Next]_vars => IInv'
  BY NextIInv
<1> QED
  BY <1>1, <1>2, PTL DEF Spec

\* Every variable keeps its type: no count drops below -1 before that.
THEOREM TypeCorrect == Spec => []TypeOK
<1>1. IInv => TypeOK
  <2>1. SUFFICES ASSUME IInv PROVE TypeOK
    OBVIOUS
  <2>2. /\ Cardinality(strong) \in Nat /\ Cardinality(weak) \in Nat
        /\ Cardinality(strong) <= Cardinality(Owners)
        /\ Cardinality(weak) <= Cardinality(Owners)
    BY <2>1, OwnerCount DEF IInv, Counted, Typed
  <2>3. Cardinality(Owners) \in Nat
    BY RefsAssumption, FS_CardinalityType
  <2>4. OwnWeak \in {0, 1}
    BY DEF OwnWeak
  <2> QED
    BY <2>1, <2>2, <2>3, <2>4 DEF TypeOK, IInv, Counted, Typed, Phases
<1> QED
  BY <1>1, Consistent, PTL

\* A strong reference names a source that is alive and not being destroyed, as
\* long as no callback of obs_enum_sources retained a source without references.
THEOREM StrongKeepsAliveHolds == Spec => []StrongKeepsAlive
<1>1. IInv => StrongKeepsAlive
  BY DEF IInv, Phases, StrongKeepsAlive, RetainedIsAlive
<1> QED
  BY <1>1, Consistent, PTL

\* Nobody works on freed memory, under the same condition.
THEOREM NoUseAfterFreeHolds == Spec => []NoUseAfterFree
<1>1. IInv => NoUseAfterFree
  <2>1. SUFFICES ASSUME IInv, ~revived PROVE NoUseAfterFree
    BY DEF NoUseAfterFree
  <2>2. Typed /\ Phases
    BY <2>1 DEF IInv, Counted
  <2>3. Cardinality(weak) \in Nat /\ (Cardinality(weak) = 0 <=> weak = {})
    BY <2>2, OwnerCount DEF Typed
  <2>4. weak # {} => control = "live"
    BY <2>2, <2>3 DEF Phases, OwnWeak, Typed
  <2>5. listed => control = "live" /\ source = "live"
    BY <2>2, <2>3 DEF Phases, OwnWeak, Typed
  <2>6. mutex # None => listed
    BY <2>2 DEF Phases, Typed
  <2>7. ASSUME NEW o \in Owners, pc[o] = "swap" PROVE control = "live"
    <3>1. CASE mutex = o
      BY <2>2, <2>5, <3>1 DEF Phases
    <3>2. CASE o \in weak
      BY <2>4, <3>2
    <3> QED
      BY <2>2, <2>7, <3>1, <3>2 DEF Phases
  <2> QED
    BY <2>4, <2>5, <2>6, <2>7 DEF NoUseAfterFree
<1> QED
  BY <1>1, Consistent, PTL

\* The source is destroyed by one owner, and its control block goes last, under
\* the same condition.
THEOREM DestroyedOnceHolds == Spec => []DestroyedOnce
<1>1. IInv => DestroyedOnce
  <2>1. SUFFICES ASSUME IInv, ~revived PROVE DestroyedOnce
    BY DEF DestroyedOnce
  <2>2. Typed /\ Phases
    BY <2>1 DEF IInv, Counted
  <2>3. Cardinality(weak) \in Nat
    BY <2>2, OwnerCount DEF Typed
  <2>4. control = "freed" => source = "freed" /\ Destroying = {}
    BY <2>2, <2>3 DEF Phases, OwnWeak
  <2>5. \A o \in Owners : pc[o] = "drop" => o \in Destroying
    BY DEF Destroying
  <2> QED
    BY <2>2, <2>4, <2>5 DEF Phases, Typed, DestroyedOnce
<1> QED
  BY <1>1, Consistent, PTL

\* What has a reference of some kind is there, and it goes once: obs_source_release,
\* obs_weak_source_get_source and the lookups, under the same condition.
THEOREM SafeHolds == Spec => []Safe
<1>1. StrongKeepsAlive /\ NoUseAfterFree /\ DestroyedOnce => Safe
  BY DEF Safe
<1> QED
  BY <1>1, StrongKeepsAliveHolds, NoUseAfterFreeHolds, DestroyedOnceHolds, PTL

=============================================================================
