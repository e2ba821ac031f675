------------------------------ MODULE Ownership ------------------------------
(***************************************************************************)
(* The classes that own something and give it back when they are           *)
(* destroyed: XFS::detail::UniquePtrImpl (lfs/allocator.hpp) a buffer,     *)
(* which it frees with WFMFreeBuffer; LFS::Handle (sys/handle.hpp), the    *)
(* base of Library, a handle, which it closes; MethodScope                 *)
(* (util/methodscope.hpp) a function, which it calls.  None can be copied, *)
(* all can be moved and move-assigned, though UniquePtr and Library hide   *)
(* the assignment of their base.  A Handle is taken to have been given its *)
(* close function, as Library gives it dlclose.                            *)
(***************************************************************************)
EXTENDS Naturals, FiniteSets

CONSTANTS Objects,      \* C++ objects, of one of the classes
          Things,       \* buffers, handles or functions
          Nothing       \* the null pointer, the null handle, the empty function

ASSUME NothingAssumption == Nothing \notin Things

Classes == {"UniquePtrImpl", "Handle", "MethodScope"}

VARIABLES class,        \* the class of the objects
          exists,       \* the objects between constructor and destructor
          ptr,          \* object -> what it owns
          acquired,     \* the things that were handed to a constructor
          given         \* thing -> times it was freed, closed or called

ownershipVars == <<class, exists, ptr, acquired, given>>

OwnershipInit ==
    /\ class \in Classes
    /\ exists = {}
    /\ ptr = [o \in Objects |-> Nothing]
    /\ acquired = {}
    /\ given = [x \in Things |-> 0]

\* An object is made from a thing nobody owns yet, or by default from nothing.
\* (setHandle refuses the null handle of a failed dlopen: it throws, and there is
\* no object.)
Construct(o, x) ==
    /\ o \notin exists
    /\ x \notin acquired
    /\ exists' = exists \cup {o}
    /\ ptr' = [ptr EXCEPT ![o] = x]
    /\ acquired' = acquired \cup ({x} \cap Things)
    /\ UNCHANGED <<class, given>>

\* A mutant: the source keeps its pointer.
MoveConstruct_SourceKeeps(o, s) ==
    /\ o \notin exists /\ s \in exists
    /\ exists' = exists \cup {o}
    /\ ptr' = [ptr EXCEPT ![o] = ptr[s]]
    /\ UNCHANGED <<class, acquired, given>>

\* A mutant: the source is cleared before it is read.
MoveConstruct_ClearsFirst(o, s) ==
    /\ o \notin exists /\ s \in exists
    /\ exists' = exists \cup {o}
    /\ ptr' = [ptr EXCEPT ![o] = Nothing, ![s] = Nothing]
    /\ UNCHANGED <<class, acquired, given>>

MoveConstruct(o, s) ==
    /\ o \notin exists /\ s \in exists
    /\ exists' = exists \cup {o}
    /\ ptr' = [ptr EXCEPT ![o] = ptr[s], ![s] = Nothing]
    /\ UNCHANGED <<class, acquired, given>>

\* What the target owned is overwritten, neither freed nor closed nor called.
\* An object assigned to itself ends up with nothing.
Overwritten(o, s) == [[ptr EXCEPT ![o] = ptr[s]] EXCEPT ![s] = Nothing]

\* std::function keeps what it has when it is moved to itself.
Moved(o, s) == IF o = s THEN ptr ELSE Overwritten(o, s)

MoveAssign(o, s) ==
    /\ o \in exists /\ s \in exists
    /\ ptr' = IF class = "MethodScope" THEN Moved(o, s) ELSE Overwritten(o, s)
    /\ UNCHANGED <<class, exists, acquired, given>>

\* A null pointer is not given back.
GiveBack(o) == given' = [x \in Things |-> IF ptr[o] = x THEN given[x] + 1 ELSE given[x]]

Destroy(o) ==
    /\ o \in exists
    /\ exists' = exists \ {o}
    /\ GiveBack(o)
    /\ ptr' = [ptr EXCEPT ![o] = Nothing]
    /\ UNCHANGED <<class, acquired>>

OwnershipNext ==
    \/ \E o \in Objects, x \in Things \cup {Nothing} : Construct(o, x)
    \/ \E o, s \in Objects : MoveConstruct(o, s) \/ MoveAssign(o, s)
    \/ \E o \in Objects : Destroy(o)

OwnershipSpec == OwnershipInit /\ [][OwnershipNext]_ownershipVars

-----------------------------------------------------------------------------
(* Properties.                                                             *)

Owners(x) == {o \in exists : ptr[o] = x}

\* Whatever moves there are, a thing has at most one owner, it is freed, closed
\* or called at most once, and then nobody owns it any more.
OwnedOnce ==
    \A x \in Things :
        /\ \A o, s \in Owners(x) : o = s
        /\ given[x] <= 1
        /\ given[x] = 1 => Owners(x) = {}

\* A thing loses its owner only by being given back, or because an object that
\* owned it is assigned to: no constructor and no source of a move loses one.
LostOnlyByAssignment ==
    [][\A x \in Things : Owners(x) # {} /\ Owners(x)' = {} =>
         given'[x] = given[x] + 1 \/ \E o \in Owners(x), s \in Objects : MoveAssign(o, s)]_ownershipVars
=============================================================================
