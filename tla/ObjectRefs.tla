----------------------------- MODULE ObjectRefs -----------------------------
(***************************************************************************)
(* libobs reference counting: obs_weak_ref of obs-internal.h as sources    *)
(* use it (obs-source.c), with the global list in which any thread may     *)
(* find a source (obs.c).  Outputs, encoders and services share the code.  *)
(*                                                                         *)
(* An owner is one variable of the program that can hold a strong and a    *)
(* weak reference, and the thread that works on it.  Only steps on shared  *)
(* memory are actions: a count, the list under sources_mutex, a free.      *)
(***************************************************************************)
EXTENDS Integers, FiniteSets

CONSTANTS
  Owners,
  Retainers, (* owners that retain a source inside obs_enum_sources with   *)
             (* obs_source_addref, as OBSAdvAudioCtrl does                 *)
  None

ASSUME RefsAssumption ==
  /\ IsFiniteSet(Owners)
  /\ Retainers \subseteq Owners
  /\ None \notin Owners

VARIABLES
  refs, weak_refs,  (* obs_weak_ref, both one less than the references     *)
  strong, weak,     (* owners that hold a reference                        *)
  listed,           (* the source is in obs->data.first_source             *)
  mutex,            (* owner that holds sources_mutex, or None             *)
  source, control,  (* the two blocks of memory: "live" or "freed"         *)
  pc, owners,       (* each owner: where it is, and the local variable of  *)
                    (* obs_weak_ref_get_ref                                *)
  revived           (* history: a callback of obs_enum_sources retained    *)
                    (* the source after its last reference was gone        *)

counts == <<refs, weak_refs, strong, weak>>
memory == <<listed, source, control>>
vars == <<counts, memory, mutex, pc, owners, revived>>

\* obs_source_create returns the first reference.
Init ==
  /\ refs = 0 /\ weak_refs = 0
  /\ \E o \in Owners : strong = {o}
  /\ weak = {}
  /\ listed = TRUE /\ mutex = None
  /\ source = "live" /\ control = "live"
  /\ pc = [o \in Owners |-> "idle"]
  /\ owners = [o \in Owners |-> 0]
  /\ revived = FALSE

Goto(o, label) == pc' = [pc EXCEPT ![o] = label]

-----------------------------------------------------------------------------
(* Strong references.                                                      *)

\* obs_source_addref by or for someone who holds the source.
AddRef(o) ==
  /\ pc[o] = "idle"
  /\ strong # {} /\ o \notin strong
  /\ refs' = refs + 1
  /\ strong' = strong \cup {o}
  /\ UNCHANGED <<weak_refs, weak, memory, mutex, pc, owners, revived>>

Last(count) == count = -1

\* obs_source_release: the last one goes on to obs_source_destroy.
Release(o) ==
  /\ pc[o] = "idle"
  /\ o \in strong
  /\ refs' = refs - 1
  /\ strong' = strong \ {o}
  /\ IF Last(refs - 1) THEN Goto(o, "destroy") ELSE UNCHANGED pc
  /\ UNCHANGED <<weak_refs, weak, memory, mutex, owners, revived>>

\* Mutant: the list is changed without the mutex.
ListUnlocked == TRUE

ListFree == mutex = None

\* obs_context_data_remove.
RemoveContext(o) ==
  /\ pc[o] = "destroy"
  /\ ListFree
  /\ listed' = FALSE
  /\ Goto(o, "free")
  /\ UNCHANGED <<counts, mutex, source, control, owners, revived>>

\* The rest of obs_source_destroy.
FreeSource(o) ==
  /\ pc[o] = "free"
  /\ source' = "freed"
  /\ Goto(o, "drop")
  /\ UNCHANGED <<counts, listed, control, mutex, owners, revived>>

\* Mutant: the reference of the source to its control block is kept.
OwnReferenceKept == weak_refs

OwnReferenceDropped == weak_refs - 1

\* obs_weak_source_release of the reference the source itself had.
DropControl(o) ==
  /\ pc[o] = "drop"
  /\ weak_refs' = OwnReferenceDropped
  /\ control' = IF Last(weak_refs') THEN "freed" ELSE control
  /\ Goto(o, "idle")
  /\ UNCHANGED <<refs, strong, weak, listed, source, mutex, owners, revived>>

-----------------------------------------------------------------------------
(* Weak references.                                                        *)

\* obs_source_get_weak_source with the source in hand, or
\* obs_weak_source_addref with another weak reference.
GetWeak(o) ==
  /\ pc[o] = "idle"
  /\ strong \cup weak # {} /\ o \notin weak
  /\ weak_refs' = weak_refs + 1
  /\ weak' = weak \cup {o}
  /\ UNCHANGED <<refs, strong, memory, mutex, pc, owners, revived>>

\* obs_weak_source_release.
ReleaseWeak(o) ==
  /\ pc[o] = "idle"
  /\ o \in weak
  /\ weak_refs' = weak_refs - 1
  /\ weak' = weak \ {o}
  /\ control' = IF Last(weak_refs - 1) THEN "freed" ELSE control
  /\ UNCHANGED <<refs, strong, listed, source, mutex, pc, owners, revived>>

Alive(count) == count > -1

\* Where the loop of obs_weak_ref_get_ref goes after reading the count; a
\* lookup that fails gives sources_mutex back.
Read(o) ==
  /\ owners' = [owners EXCEPT ![o] = refs]
  /\ Goto(o, IF Alive(refs) THEN "swap" ELSE "idle")
  /\ mutex' = IF mutex = o /\ ~Alive(refs) THEN None ELSE mutex

\* obs_weak_source_get_source: owners = ref->refs.
Upgrade(o) ==
  /\ pc[o] = "idle"
  /\ o \in weak /\ o \notin strong
  /\ Read(o)
  /\ UNCHANGED <<counts, memory, revived>>

\* obs_get_source_by_name finds the source and calls obs_source_get_ref.
Lookup(o) ==
  /\ pc[o] = "idle"
  /\ mutex = None
  /\ listed /\ o \notin strong
  /\ mutex' = o
  /\ Goto(o, "found")
  /\ UNCHANGED <<counts, memory, owners, revived>>

ReadFound(o) ==
  /\ pc[o] = "found"
  /\ Read(o)
  /\ UNCHANGED <<counts, memory, revived>>

\* Mutant: the count is stored without comparing.
Overwritten(o) == TRUE

Unchanged(o) == refs = owners[o]

\* os_atomic_compare_swap_long succeeds; a lookup gives sources_mutex back.
Swap(o) ==
  /\ pc[o] = "swap"
  /\ Unchanged(o)
  /\ refs' = owners[o] + 1
  /\ strong' = strong \cup {o}
  /\ Goto(o, "idle")
  /\ mutex' = IF mutex = o THEN None ELSE mutex
  /\ UNCHANGED <<weak_refs, weak, memory, owners, revived>>

\* It fails: the count is read again.
SwapFails(o) ==
  /\ pc[o] = "swap"
  /\ ~Unchanged(o)
  /\ Read(o)
  /\ UNCHANGED <<counts, memory, revived>>

-----------------------------------------------------------------------------
(* obs_enum_sources with a callback that keeps the source.                 *)

\* The callback finds the source active, so the view it is in holds it.
EnumFinds(o) ==
  /\ o \in Retainers
  /\ pc[o] = "idle"
  /\ mutex = None
  /\ listed /\ strong # {} /\ o \notin strong
  /\ mutex' = o
  /\ Goto(o, "retain")
  /\ UNCHANGED <<counts, memory, owners, revived>>

\* OBSSource calls obs_source_addref; then the enumeration is over.
EnumRetains(o) ==
  /\ pc[o] = "retain"
  /\ refs' = refs + 1
  /\ strong' = strong \cup {o}
  /\ mutex' = None
  /\ revived' = (revived \/ strong = {})
  /\ Goto(o, "idle")
  /\ UNCHANGED <<weak_refs, weak, memory, owners>>

-----------------------------------------------------------------------------

Destroy(o) == RemoveContext(o) \/ FreeSource(o) \/ DropControl(o)

Get(o) == ReadFound(o) \/ Swap(o) \/ SwapFails(o) \/ EnumRetains(o)

Own(o) == AddRef(o) \/ Release(o) \/ GetWeak(o) \/ ReleaseWeak(o)
          \/ Upgrade(o) \/ Lookup(o) \/ EnumFinds(o)

\* Nobody has a reference any more.
Gone == control = "freed" /\ UNCHANGED vars

Next == Gone \/ \E o \in Owners : Own(o) \/ Get(o) \/ Destroy(o)

Spec == Init /\ [][Next]_vars

(* A thread inside one of the functions is run to its end.  Nobody has to  *)
(* release what he holds or to look anything up.                           *)
Fairness == \A o \in Owners : WF_vars(Get(o)) /\ WF_vars(Destroy(o))

FairSpec == Spec /\ Fairness

-----------------------------------------------------------------------------
(* Properties.                                                             *)

Labels == {"idle", "destroy", "free", "drop", "found", "swap", "retain"}

\* The owner that released the last reference and has not finished.
Destroying == {o \in Owners : pc[o] \in {"destroy", "free", "drop"}}

\* Every variable stays within its type; unless a source was brought back, to be
\* destroyed once more, a count is -1 or more.
TypeOK ==
  /\ refs \in -1 .. Cardinality(Owners) - 1
  /\ weak_refs \in Int
  /\ revived \/ weak_refs \in -1 .. Cardinality(Owners)
  /\ revived \in BOOLEAN
  /\ strong \subseteq Owners /\ weak \subseteq Owners
  /\ listed \in BOOLEAN /\ mutex \in Owners \cup {None}
  /\ source \in {"live", "freed"} /\ control \in {"live", "freed"}
  /\ pc \in [Owners -> Labels]
  /\ owners \in [Owners -> Int]

\* obs.h tells callbacks of obs_enum_sources to retain what they want to keep so
\* that this holds: a strong reference, however it was obtained, names a source
\* that is neither freed nor being destroyed.
RetainedIsAlive ==
  strong # {} => source = "live" /\ listed /\ Destroying = {}

\* It does hold until such a callback retains a source without its last
\* reference: nothing else, in any order, breaks it.
StrongKeepsAlive == revived \/ RetainedIsAlive

\* Nobody reads or writes freed memory: a weak reference has its control block,
\* and what a lookup found under the mutex is still there while it works on it.
NoUseAfterFree ==
  \/ revived
  \/ /\ weak # {} => control = "live"
     /\ mutex # None => listed /\ source = "live" /\ control = "live"
     /\ \A o \in Owners : pc[o] = "swap" => control = "live"

\* The source is destroyed by one owner, and its control block goes last.
DestroyedOnce ==
  \/ revived
  \/ /\ \A o, p \in Destroying : o = p
     /\ \A o \in Owners : /\ pc[o] \in {"destroy", "free"} => source = "live"
                          /\ pc[o] = "drop" => control = "live"
     /\ control = "freed" => source = "freed" /\ Destroying = {}

\* Once the last strong reference is gone, no weak reference, lookup or race of
\* them brings the source back; only a callback of obs_enum_sources can.
GoneForGood ==
  [][strong = {} /\ strong' # {} => \E o \in Retainers : pc[o] = "retain"]_vars

\* What nobody references is freed, the control block with the last weak
\* reference; a mutex promises no turn, so this holds if lookups do not go on
\* for ever.
Freed ==
  <>[](mutex = None) =>
    /\ strong = {} ~> source = "freed"
    /\ strong \cup weak = {} ~> (control = "freed" \/ weak # {})

\* The protocol of strong and weak references is memory safe, whatever owners do at
\* the same time, up to the moment in which an enumeration revives a source.
Safe == StrongKeepsAlive /\ NoUseAfterFree /\ DestroyedOnce
=============================================================================
