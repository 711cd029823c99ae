-------------------------- MODULE CallbackRegistry --------------------------
(***************************************************************************)
(* The process-wide registry of callbacks that Lean may call               *)
(* (lean-rs/src/callback.rs): an id is allocated under the registry's      *)
(* mutex, travels to Lean as a bare number, and is looked up at each call. *)
(***************************************************************************)
EXTENDS Naturals, FiniteSets

CONSTANTS
  Owners,   \* whose callbacks they are
  IdSpace   \* size of the id space, 2^64 in the code; 0 is not an id

ASSUME RegistryAssumption == IdSpace \in Nat /\ IdSpace > 1

VARIABLES
  registry, \* REGISTRY: the live ids and the owner of each
  nextId    \* NEXT_ID

registryVars == <<registry, nextId>>

Ids == 1..(IdSpace - 1)

RegistryTypeOK ==
  /\ registry \in [DOMAIN registry -> Owners] /\ DOMAIN registry \subseteq Ids
  /\ nextId \in 0..(IdSpace - 1)

RegistryInit == registry = <<>> /\ nextId = 1

\* How far NEXT_ID is from an id.
Distance(id) == (id + IdSpace - nextId) % IdSpace

\* Mutant: an id is not looked up before it is taken.
FreeAny == Ids
\* The ids allocate_id may return.
Free == Ids \ DOMAIN registry

\* allocate_id: the first free nonzero id from NEXT_ID on, around the end.
\* (1024 attempts find it as long as fewer than 1023 ids in a row are live.)
Allocated == CHOOSE id \in Free : \A other \in Free : Distance(id) <= Distance(other)

\* register_entry: a new id, or an error when none is free.
CanRegister == Free # {}
\* Mutant: the counter runs past the end.
RegisterUnwrapped(owner) ==
  /\ registry' = [id \in DOMAIN registry \cup {Allocated} |->
                    IF id = Allocated THEN owner ELSE registry[id]]
  /\ nextId' = Allocated + 1
Register(owner) ==
  /\ registry' = [id \in DOMAIN registry \cup {Allocated} |->
                    IF id = Allocated THEN owner ELSE registry[id]]
  /\ nextId' = (Allocated + 1) % IdSpace

\* Drop of the handle.
Unregister(id) ==
  /\ registry' = [other \in DOMAIN registry \ {id} |-> registry[other]]
  /\ UNCHANGED nextId

\* progress_trampoline, string_trampoline: who answers a call of an id.
Reaches(id, owner) == id \in DOMAIN registry /\ registry[id] = owner
Stale(id) == id \notin DOMAIN registry
=============================================================================
