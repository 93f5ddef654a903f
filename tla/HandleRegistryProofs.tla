------------------------ MODULE HandleRegistryProofs ------------------------
(***************************************************************************)
(* Proofs about HandleRegistry: memory safety and the absence of leaks,    *)
(* for any threads, any addresses and any number of handles.               *)
(*                                                                         *)
(* The inductive invariant says who holds a reference to a handle and why: *)
(* the registry while it lists it, a thread while it is inside a call, and *)
(* the pointer given to C until the one thread that took the handle out of *)
(* the registry reclaims it.  Memory is released exactly when nobody is    *)
(* left, or one thread is dropping what the handle stood for.              *)
(***************************************************************************)
EXTENDS HandleRegistry, TLAPS

Holding == {"lock", "locked", "stopping", "return", "removed"}
Freeing == {"removed", "fromRaw"}
Ending  == {"stopping", "dropping"}
Pcs     == Holding \cup {"idle", "fromRaw", "dropping"}

Types ==
  /\ made \in 0..MaxHandles
  /\ kind \in [Handles -> Kinds] /\ addr \in [Handles -> Addresses \cup {0}]
  /\ allocated \in [Handles -> BOOLEAN]
  /\ refs \in [Handles -> SUBSET (Threads \cup {"registry", "pointer"})]
  /\ inner \in [Handles -> BOOLEAN]
  /\ work \in [Handles -> {"none", "running", "stopping", "ended"}]
  /\ registry \in [Kinds -> [Addresses -> 0..MaxHandles]]
  /\ pc \in [Threads -> Pcs]
  /\ obj \in [Threads -> 0..MaxHandles]

(* A thread works on a handle that was made, exactly while it is in a call.*)
Calls == \A t \in Threads : obj[t] \in 0..made /\ (obj[t] = 0 <=> pc[t] = "idle")

(* The registry lists a handle under its own kind and address, and holds a *)
(* reference to every handle it lists.                                     *)
Listed ==
  \A k \in Kinds, a \in Addresses, o \in Handles :
    registry[k][a] = o =>
      o =< made /\ kind[o] = k /\ addr[o] = a /\ "registry" \in refs[o]

(* Who holds a reference.                                                  *)
Held ==
  \A o \in Handles :
    /\ o > made => refs[o] = {}
    /\ o \in 1..made => addr[o] \in Addresses
    /\ "registry" \in refs[o] => registry[kind[o]][addr[o]] = o
    /\ \A t \in Threads : t \in refs[o] <=> obj[t] = o /\ pc[t] \in Holding
    /\ "pointer" \in refs[o] =>
         \/ "registry" \in refs[o]
         \/ \E t \in Threads : obj[t] = o /\ pc[t] \in Freeing
    /\ "registry" \in refs[o] => "pointer" \in refs[o]

(* Only one thread frees a handle: the one that took it off the registry.  *)
OneFrees ==
  \A t \in Threads :
    pc[t] \in Freeing =>
      /\ "registry" \notin refs[obj[t]] /\ "pointer" \in refs[obj[t]]
      /\ \A u \in Threads : pc[u] \in Freeing /\ obj[u] = obj[t] => u = t

(* One thread ends what a handle stands for.                               *)
OneEnds ==
  \A t \in Threads :
    /\ pc[t] \in Ending =>
         /\ inner[obj[t]] = FALSE
         /\ \A u \in Threads : pc[u] \in Ending /\ obj[u] = obj[t] => u = t
    /\ pc[t] = "dropping" => refs[obj[t]] = {} /\ allocated[obj[t]]

(* What is referenced is allocated; what is allocated is referenced or     *)
(* being dropped.                                                          *)
Memory ==
  \A o \in Handles :
    /\ refs[o] # {} => allocated[o]
    /\ allocated[o] =>
         refs[o] # {} \/ \E t \in Threads : obj[t] = o /\ pc[t] = "dropping"

(* What a handle stands for runs until some thread takes it, and somebody  *)
(* is there to take it.                                                    *)
Works ==
  \A o \in Handles :
    /\ o \in 1..made => work[o] # "none"
    /\ o > made => work[o] = "none"
    /\ work[o] = "running" <=> inner[o]
    /\ inner[o] => refs[o] # {}
    /\ work[o] = "stopping" =>
         \E t \in Threads : obj[t] = o /\ pc[t] \in Ending

IInv == Types /\ Calls /\ Listed /\ Held /\ OneFrees /\ OneEnds /\ Memory /\ Works

(* The invariant holds initially.                                          *)
LEMMA InitIInv == RegistryAssumption /\ Init => IInv
  BY DEF Init, IInv, RegistryAssumption, Handles, Kinds, Holding, Freeing, Ending,
         Pcs, Types, Calls, Listed, Held, OneFrees, OneEnds, Memory, Works

(* A new handle gets an address nobody uses.                               *)
LEMMA StartKeeps ==
  ASSUME RegistryAssumption, IInv, NEW t \in Threads,
         NEW k \in Kinds, Start(t, k)
  PROVE  IInv'
<1> USE DEF RegistryAssumption, Handles, Kinds, Holding, Freeing, Ending, Pcs
<1>1. Types'
  BY DEF IInv, Types, Calls, Start, InUse, calls
<1>2. Calls'
  BY DEF IInv, Types, Calls, Listed, Start, InUse, calls
<1>3. Listed'
  <2> SUFFICES ASSUME NEW kk \in Kinds, NEW b \in Addresses, NEW o \in Handles,
                      registry'[kk][b] = o
               PROVE  o =< made' /\ kind'[o] = kk /\ addr'[o] = b /\ "registry" \in refs'[o]
    BY DEF Listed
  <2>1. PICK a \in Addresses : /\ registry' = [registry EXCEPT ![k][a] = made + 1]
                               /\ addr' = [addr EXCEPT ![made + 1] = a]
    BY DEF Start
  <2>2. CASE kk = k /\ b = a
    BY <2>1, <2>2 DEF Start, IInv, Types
  <2>3. CASE kk # k \/ b # a
    <3>1. registry[kk][b] = o
      BY <2>1, <2>3 DEF IInv, Types
    <3>2. o =< made /\ kind[o] = kk /\ addr[o] = b /\ "registry" \in refs[o]
      BY <3>1 DEF IInv, Listed
    <3> QED
      BY <2>1, <3>2 DEF Start, IInv, Types
  <2> QED
    BY <2>2, <2>3
<1>4. Held'
  BY DEF IInv, Types, Calls, Listed, Held, OneFrees, OneEnds, Memory, Works, Start, InUse, calls
<1>5. OneFrees'
  BY DEF IInv, Types, Calls, Listed, Held, OneFrees, OneEnds, Memory, Works, Start, InUse, calls
<1>6. OneEnds'
  BY DEF IInv, Types, Calls, Listed, Held, OneFrees, OneEnds, Memory, Works, Start, InUse, calls
<1>7. Memory'
  <2> SUFFICES ASSUME NEW o \in Handles
               PROVE  /\ refs'[o] # {} => allocated'[o]
                      /\ allocated'[o] => refs'[o] # {} \/ \E u \in Threads : obj'[u] = o /\ pc'[u] = "dropping"
    BY DEF Memory
  <2>1. CASE o = made + 1
    BY <2>1 DEF IInv, Types, Start
  <2>2. CASE o # made + 1
    <3>1. refs'[o] = refs[o] /\ allocated'[o] = allocated[o]
      BY <2>2 DEF IInv, Types, Start
    <3>2. obj' = obj /\ pc' = pc
      BY DEF Start, calls
    <3> QED
      BY <3>1, <3>2 DEF IInv, Memory
  <2> QED
    BY <2>1, <2>2
<1>8. Works'
  BY DEF IInv, Types, Calls, Listed, Held, OneFrees, OneEnds, Memory, Works, Start, InUse, calls
<1> QED
  BY <1>1, <1>2, <1>3, <1>4, <1>5, <1>6, <1>7, <1>8 DEF IInv

(* A call takes a reference of its own.                                    *)
LEMMA CheckKeeps ==
  ASSUME RegistryAssumption, IInv, NEW t \in Threads,
         NEW what, NEW k \in Kinds, Check(t, what, k)
  PROVE  IInv'
<1> USE DEF RegistryAssumption, Handles, Kinds, Holding, Freeing, Ending, Pcs
<1>1. Types'
  BY DEF IInv, Types, Calls, Check, body, table
<1>2. Calls'
  BY DEF IInv, Types, Calls, Listed, Check, body, table
<1>3. Listed'
  <2> SUFFICES ASSUME NEW kk \in Kinds, NEW b \in Addresses, NEW o \in Handles,
                      registry'[kk][b] = o
               PROVE  o =< made' /\ kind'[o] = kk /\ addr'[o] = b /\ "registry" \in refs'[o]
    BY DEF Listed
  <2>1. \A h \in Handles : "registry" \in refs[h] => "registry" \in refs'[h]
    BY DEF IInv, Types, Check
  <2>2. UNCHANGED <<made, kind, addr, registry>>
    BY DEF Check, table
  <2>3. registry[kk][b] = o
    BY <2>2
  <2>4. o =< made /\ kind[o] = kk /\ addr[o] = b /\ "registry" \in refs[o]
    BY <2>3 DEF IInv, Listed
  <2> QED
    BY <2>1, <2>2, <2>4
<1>4. Held'
  BY DEF IInv, Types, Calls, Listed, Held, OneFrees, OneEnds, Memory, Works, Check, body, table
<1>5. OneFrees'
  BY DEF IInv, Types, Calls, Listed, Held, OneFrees, OneEnds, Memory, Works, Check, body, table
<1>6. OneEnds'
  BY DEF IInv, Types, Calls, Listed, Held, OneFrees, OneEnds, Memory, Works, Check, body, table
<1>7. Memory'
  <2> SUFFICES ASSUME NEW o \in Handles
               PROVE  /\ refs'[o] # {} => allocated'[o]
                      /\ allocated'[o] => refs'[o] # {} \/ \E u \in Threads : obj'[u] = o /\ pc'[u] = "dropping"
    BY DEF Memory
  <2>a. PICK a \in Addresses :
          /\ registry[k][a] # 0
          /\ obj' = [obj EXCEPT ![t] = registry[k][a]]
          /\ refs' = [refs EXCEPT ![registry[k][a]] = @ \cup {t}]
    BY DEF Check
  <2>b. registry[k][a] \in Handles
    BY <2>a DEF IInv, Types
  <2>0. refs'[registry[k][a]] # {} /\ refs[registry[k][a]] # {}
    BY <2>a, <2>b DEF IInv, Types, Listed
  <2>1. CASE o = registry[k][a]
    BY <2>a, <2>b, <2>0, <2>1 DEF IInv, Types, Calls, Held, OneFrees, OneEnds, Memory, Check, body
  <2>2. CASE o # registry[k][a]
    <3>1. refs'[o] = refs[o] /\ (allocated'[o] <=> allocated[o])
      BY <2>a, <2>b, <2>0, <2>2 DEF IInv, Types, Check, body
    <3>2. ASSUME NEW u \in Threads, obj[u] = o, pc[u] = "dropping"
          PROVE  obj'[u] = o /\ pc'[u] = "dropping"
      BY <2>a, <2>b, <2>0, <2>2, <3>2 DEF IInv, Types, Check, body
    <3> QED
      BY <3>1, <3>2 DEF IInv, Memory
  <2> QED
    BY <2>1, <2>2
<1>8. Works'
  BY DEF IInv, Types, Calls, Listed, Held, OneFrees, OneEnds, Memory, Works, Check, body, table
<1> QED
  BY <1>1, <1>2, <1>3, <1>4, <1>5, <1>6, <1>7, <1>8 DEF IInv

(* Freeing takes over the reference of the registry.                       *)
LEMMA RemoveKeeps ==
  ASSUME RegistryAssumption, IInv, NEW t \in Threads,
         NEW k \in Kinds, Remove(t, k)
  PROVE  IInv'
<1> USE DEF RegistryAssumption, Handles, Kinds, Holding, Freeing, Ending, Pcs
<1>1. Types'
  BY DEF IInv, Types, Calls, Remove, body
<1>2. Calls'
  BY DEF IInv, Types, Calls, Listed, Remove, body
<1>3. Listed'
  <2> SUFFICES ASSUME NEW kk \in Kinds, NEW b \in Addresses, NEW o \in Handles,
                      registry'[kk][b] = o
               PROVE  o =< made' /\ kind'[o] = kk /\ addr'[o] = b /\ "registry" \in refs'[o]
    BY DEF Listed
  <2>1. PICK a \in Addresses :
          /\ registry[k][a] # 0
          /\ registry' = [registry EXCEPT ![k][a] = 0]
          /\ refs' = [refs EXCEPT ![registry[k][a]] = (@ \ {"registry"}) \cup {t}]
    BY DEF Remove
  <2>2. registry[kk][b] = o /\ (kk # k \/ b # a)
    BY <2>1 DEF IInv, Types
  <2>3. o =< made /\ kind[o] = kk /\ addr[o] = b /\ "registry" \in refs[o]
    BY <2>2 DEF IInv, Listed
  <2>4. registry[k][a] # o
    BY <2>1, <2>2, <2>3 DEF IInv, Types, Listed
  <2> QED
    BY <2>1, <2>3, <2>4 DEF Remove, IInv, Types
<1>4. Held'
  BY DEF IInv, Types, Calls, Listed, Held, OneFrees, OneEnds, Memory, Works, Remove, body
<1>5. OneFrees'
  BY DEF IInv, Types, Calls, Listed, Held, OneFrees, OneEnds, Memory, Works, Remove, body
<1>6. OneEnds'
  BY DEF IInv, Types, Calls, Listed, Held, OneFrees, OneEnds, Memory, Works, Remove, body
<1>7. Memory'
  <2> SUFFICES ASSUME NEW o \in Handles
               PROVE  /\ refs'[o] # {} => allocated'[o]
                      /\ allocated'[o] => refs'[o] # {} \/ \E u \in Threads : obj'[u] = o /\ pc'[u] = "dropping"
    BY DEF Memory
  <2>a. PICK a \in Addresses :
          /\ registry[k][a] # 0
          /\ obj' = [obj EXCEPT ![t] = registry[k][a]]
          /\ refs' = [refs EXCEPT ![registry[k][a]] = (@ \ {"registry"}) \cup {t}]
    BY DEF Remove
  <2>b. registry[k][a] \in Handles
    BY <2>a DEF IInv, Types
  <2>0. refs'[registry[k][a]] # {} /\ refs[registry[k][a]] # {}
    BY <2>a, <2>b DEF IInv, Types, Listed
  <2>1. CASE o = registry[k][a]
    BY <2>a, <2>b, <2>0, <2>1 DEF IInv, Types, Calls, Held, OneFrees, OneEnds, Memory, Remove, body
  <2>2. CASE o # registry[k][a]
    <3>1. refs'[o] = refs[o] /\ (allocated'[o] <=> allocated[o])
      BY <2>a, <2>b, <2>0, <2>2 DEF IInv, Types, Remove, body
    <3>2. ASSUME NEW u \in Threads, obj[u] = o, pc[u] = "dropping"
          PROVE  obj'[u] = o /\ pc'[u] = "dropping"
      BY <2>a, <2>b, <2>0, <2>2, <3>2 DEF IInv, Types, Remove, body
    <3> QED
      BY <3>1, <3>2 DEF IInv, Memory
  <2> QED
    BY <2>1, <2>2
<1>8. Works'
  BY DEF IInv, Types, Calls, Listed, Held, OneFrees, OneEnds, Memory, Works, Remove, body
<1> QED
  BY <1>1, <1>2, <1>3, <1>4, <1>5, <1>6, <1>7, <1>8 DEF IInv

(* Locking the mutex.                                                      *)
LEMMA LockKeeps ==
  ASSUME RegistryAssumption, IInv, NEW t \in Threads,
         LockInner(t)
  PROVE  IInv'
<1> USE DEF RegistryAssumption, Handles, Kinds, Holding, Freeing, Ending, Pcs
<1>1. Types'
  BY DEF IInv, Types, Calls, LockInner, heap, table
<1>2. Calls'
  BY DEF IInv, Types, Calls, LockInner, heap, table
<1>3. Listed'
  BY DEF IInv, Types, Listed, LockInner, heap, table
<1>4. Held'
  <2>1. pc[t] \in Holding /\ pc'[t] \in Holding /\ pc[t] \notin Freeing /\ pc'[t] \notin Freeing
    BY DEF IInv, Types, LockInner, heap, table
  <2>2. \A u \in Threads : u # t => pc'[u] = pc[u]
    BY DEF IInv, Types, LockInner, heap, table
  <2>3. UNCHANGED <<made, kind, addr, refs, registry, obj>>
    BY DEF LockInner, heap, table
  <2> HIDE DEF Holding, Freeing
  <2>4. \A u \in Threads : pc'[u] \in Holding <=> pc[u] \in Holding
    BY <2>1, <2>2
  <2>5. \A u \in Threads : pc'[u] \in Freeing <=> pc[u] \in Freeing
    BY <2>1, <2>2
  <2> QED
    BY <2>3, <2>4, <2>5 DEF IInv, Held
<1>5. OneFrees'
  BY DEF IInv, Types, OneFrees, LockInner, heap, table
<1>6. OneEnds'
  BY DEF IInv, Types, OneEnds, LockInner, heap, table
<1>7. Memory'
  BY DEF IInv, Types, Memory, LockInner, heap, table
<1>8. Works'
  BY DEF IInv, Types, Works, LockInner, heap, table
<1> QED
  BY <1>1, <1>2, <1>3, <1>4, <1>5, <1>6, <1>7, <1>8 DEF IInv

(* A look at what is inside.                                               *)
LEMMA LookKeeps ==
  ASSUME RegistryAssumption, IInv, NEW t \in Threads,
         LookAndUnlock(t)
  PROVE  IInv'
<1> USE DEF RegistryAssumption, Handles, Kinds, Holding, Freeing, Ending, Pcs
<1>1. Types'
  BY DEF IInv, Types, Calls, LookAndUnlock, heap, table
<1>2. Calls'
  BY DEF IInv, Types, Calls, LookAndUnlock, heap, table
<1>3. Listed'
  BY DEF IInv, Types, Listed, LookAndUnlock, heap, table
<1>4. Held'
  <2>1. pc[t] \in Holding /\ pc'[t] \in Holding /\ pc[t] \notin Freeing /\ pc'[t] \notin Freeing
    BY DEF IInv, Types, LookAndUnlock, heap, table
  <2>2. \A u \in Threads : u # t => pc'[u] = pc[u]
    BY DEF IInv, Types, LookAndUnlock, heap, table
  <2>3. UNCHANGED <<made, kind, addr, refs, registry, obj>>
    BY DEF LookAndUnlock, heap, table
  <2> HIDE DEF Holding, Freeing
  <2>4. \A u \in Threads : pc'[u] \in Holding <=> pc[u] \in Holding
    BY <2>1, <2>2
  <2>5. \A u \in Threads : pc'[u] \in Freeing <=> pc[u] \in Freeing
    BY <2>1, <2>2
  <2> QED
    BY <2>3, <2>4, <2>5 DEF IInv, Held
<1>5. OneFrees'
  BY DEF IInv, Types, OneFrees, LookAndUnlock, heap, table
<1>6. OneEnds'
  BY DEF IInv, Types, OneEnds, LookAndUnlock, heap, table
<1>7. Memory'
  BY DEF IInv, Types, Memory, LookAndUnlock, heap, table
<1>8. Works'
  BY DEF IInv, Types, Works, LookAndUnlock, heap, table
<1> QED
  BY <1>1, <1>2, <1>3, <1>4, <1>5, <1>6, <1>7, <1>8 DEF IInv

(* Taking what is inside.                                                  *)
LEMMA TakeKeeps ==
  ASSUME RegistryAssumption, IInv, NEW t \in Threads,
         TakeInner(t)
  PROVE  IInv'
<1> USE DEF RegistryAssumption, Handles, Kinds, Holding, Freeing, Ending, Pcs
<1>1. Types'
  BY DEF IInv, Types, Calls, TakeInner, heap, table
<1>2. Calls'
  BY DEF IInv, Types, Calls, Listed, TakeInner, heap, table
<1>3. Listed'
  BY DEF IInv, Types, Calls, Listed, Held, TakeInner, heap, table
<1>4. Held'
  <2>1. pc[t] \in Holding /\ pc'[t] \in Holding /\ pc[t] \notin Freeing /\ pc'[t] \notin Freeing
    BY DEF IInv, Types, TakeInner, heap, table
  <2>2. \A u \in Threads : u # t => pc'[u] = pc[u]
    BY DEF IInv, Types, TakeInner, heap, table
  <2>3. UNCHANGED <<made, kind, addr, refs, registry, obj>>
    BY DEF TakeInner, heap, table
  <2> HIDE DEF Holding, Freeing
  <2>4. \A u \in Threads : pc'[u] \in Holding <=> pc[u] \in Holding
    BY <2>1, <2>2
  <2>5. \A u \in Threads : pc'[u] \in Freeing <=> pc[u] \in Freeing
    BY <2>1, <2>2
  <2> QED
    BY <2>3, <2>4, <2>5 DEF IInv, Held
<1>5. OneFrees'
  BY DEF IInv, Types, Calls, Listed, Held, OneFrees, OneEnds, Memory, Works, TakeInner, heap, table
<1>6. OneEnds'
  BY DEF IInv, Types, Calls, Listed, Held, OneFrees, OneEnds, Memory, Works, TakeInner, heap, table
<1>7. Memory'
  BY DEF IInv, Types, Calls, Listed, Held, OneFrees, OneEnds, Memory, Works, TakeInner, heap, table
<1>8. Works'
  BY DEF IInv, Types, Calls, Listed, Held, OneFrees, OneEnds, Memory, Works, TakeInner, heap, table
<1> QED
  BY <1>1, <1>2, <1>3, <1>4, <1>5, <1>6, <1>7, <1>8 DEF IInv

(* The end of a stop.                                                      *)
LEMMA StopEndsKeeps ==
  ASSUME RegistryAssumption, IInv, NEW t \in Threads,
         StopEnds(t)
  PROVE  IInv'
<1> USE DEF RegistryAssumption, Handles, Kinds, Holding, Freeing, Ending, Pcs
<1>1. Types'
  BY DEF IInv, Types, Calls, StopEnds, heap, table
<1>2. Calls'
  BY DEF IInv, Types, Calls, StopEnds, heap, table
<1>3. Listed'
  BY DEF IInv, Types, Listed, StopEnds, heap, table
<1>4. Held'
  <2>1. pc[t] \in Holding /\ pc'[t] \in Holding /\ pc[t] \notin Freeing /\ pc'[t] \notin Freeing
    BY DEF IInv, Types, StopEnds, heap, table
  <2>2. \A u \in Threads : u # t => pc'[u] = pc[u]
    BY DEF IInv, Types, StopEnds, heap, table
  <2>3. UNCHANGED <<made, kind, addr, refs, registry, obj>>
    BY DEF StopEnds, heap, table
  <2> HIDE DEF Holding, Freeing
  <2>4. \A u \in Threads : pc'[u] \in Holding <=> pc[u] \in Holding
    BY <2>1, <2>2
  <2>5. \A u \in Threads : pc'[u] \in Freeing <=> pc[u] \in Freeing
    BY <2>1, <2>2
  <2> QED
    BY <2>3, <2>4, <2>5 DEF IInv, Held
<1>5. OneFrees'
  BY DEF IInv, Types, OneFrees, StopEnds, heap, table
<1>6. OneEnds'
  BY DEF IInv, Types, OneEnds, StopEnds, heap, table
<1>7. Memory'
  BY DEF IInv, Types, Memory, StopEnds, heap, table
<1>8. Works'
  BY DEF IInv, Types, Calls, OneEnds, Works, StopEnds, heap, table
<1> QED
  BY <1>1, <1>2, <1>3, <1>4, <1>5, <1>6, <1>7, <1>8 DEF IInv

(* The end of a drop.                                                      *)
LEMMA DropEndsKeeps ==
  ASSUME RegistryAssumption, IInv, NEW t \in Threads,
         DropEnds(t)
  PROVE  IInv'
<1> USE DEF RegistryAssumption, Handles, Kinds, Holding, Freeing, Ending, Pcs
<1>1. Types'
  BY DEF IInv, Types, Calls, DropEnds, table
<1>2. Calls'
  BY DEF IInv, Types, Calls, Listed, DropEnds, table
<1>3. Listed'
  BY DEF IInv, Types, Calls, Listed, Held, DropEnds, table
<1>4. Held'
  BY DEF IInv, Types, Calls, Listed, Held, OneFrees, OneEnds, Memory, Works, DropEnds, table
<1>5. OneFrees'
  BY DEF IInv, Types, Calls, Listed, Held, OneFrees, OneEnds, Memory, Works, DropEnds, table
<1>6. OneEnds'
  BY DEF IInv, Types, Calls, Listed, Held, OneFrees, OneEnds, Memory, Works, DropEnds, table
<1>7. Memory'
  <2> SUFFICES ASSUME NEW o \in Handles
               PROVE  /\ refs'[o] # {} => allocated'[o]
                      /\ allocated'[o] => refs'[o] # {} \/ \E u \in Threads : obj'[u] = o /\ pc'[u] = "dropping"
    BY DEF Memory
  <2>0. obj[t] \in Handles
    BY DEF IInv, Types, Calls, DropEnds, table
  <2>1. CASE o = obj[t]
    BY <2>0, <2>1 DEF IInv, Types, Calls, Held, OneFrees, OneEnds, Memory, DropEnds, table
  <2>2. CASE o # obj[t]
    <3>1. refs'[o] = refs[o] /\ (allocated'[o] <=> allocated[o])
      BY <2>0, <2>2 DEF IInv, Types, DropEnds, table
    <3>2. ASSUME NEW u \in Threads, obj[u] = o, pc[u] = "dropping"
          PROVE  obj'[u] = o /\ pc'[u] = "dropping"
      BY <2>0, <2>2, <3>2 DEF IInv, Types, DropEnds, table
    <3> QED
      BY <3>1, <3>2 DEF IInv, Memory
  <2> QED
    BY <2>1, <2>2
<1>8. Works'
  BY DEF IInv, Types, Calls, Listed, Held, OneFrees, OneEnds, Memory, Works, DropEnds, table
<1> QED
  BY <1>1, <1>2, <1>3, <1>4, <1>5, <1>6, <1>7, <1>8 DEF IInv

(* A call ends while others hold the handle.                               *)
LEMMA ReturnLeaves ==
  ASSUME RegistryAssumption, IInv, NEW t \in Threads, pc[t] = "return",
         refs' = [refs EXCEPT ![obj[t]] = @ \ {t}],
         refs[obj[t]] \ {t} # {},
         pc' = [pc EXCEPT ![t] = "idle"],
         obj' = [obj EXCEPT ![t] = 0],
         UNCHANGED <<made, kind, addr, allocated, inner, work, table>>
  PROVE  IInv'
<1> USE DEF RegistryAssumption, Handles, Kinds, Holding, Freeing, Ending, Pcs
<1>1. Types'
  BY DEF IInv, Types, Calls, table
<1>2. Calls'
  BY DEF IInv, Types, Calls, Listed, table
<1>3. Listed'
  BY DEF IInv, Types, Calls, Listed, Held, table
<1>4. Held'
  BY DEF IInv, Types, Calls, Listed, Held, OneFrees, OneEnds, Memory, Works, table
<1>5. OneFrees'
  BY DEF IInv, Types, Calls, Listed, Held, OneFrees, OneEnds, Memory, Works, table
<1>6. OneEnds'
  BY DEF IInv, Types, Calls, Listed, Held, OneFrees, OneEnds, Memory, Works, table
<1>7. Memory'
  <2> SUFFICES ASSUME NEW o \in Handles
               PROVE  /\ refs'[o] # {} => allocated'[o]
                      /\ allocated'[o] => refs'[o] # {} \/ \E u \in Threads : obj'[u] = o /\ pc'[u] = "dropping"
    BY DEF Memory
  <2>0. obj[t] \in Handles
    BY DEF IInv, Types, Calls, table
  <2>1. CASE o = obj[t]
    BY <2>0, <2>1 DEF IInv, Types, Calls, Held, OneFrees, OneEnds, Memory, table
  <2>2. CASE o # obj[t]
    <3>1. refs'[o] = refs[o] /\ (allocated'[o] <=> allocated[o])
      BY <2>0, <2>2 DEF IInv, Types, table
    <3>2. ASSUME NEW u \in Threads, obj[u] = o, pc[u] = "dropping"
          PROVE  obj'[u] = o /\ pc'[u] = "dropping"
      BY <2>0, <2>2, <3>2 DEF IInv, Types, table
    <3> QED
      BY <3>1, <3>2 DEF IInv, Memory
  <2> QED
    BY <2>1, <2>2
<1>8. Works'
  <2> SUFFICES ASSUME NEW o \in Handles
               PROVE  /\ o \in 1..made' => work'[o] # "none"
                      /\ o > made' => work'[o] = "none"
                      /\ work'[o] = "running" <=> inner'[o]
                      /\ inner'[o] => refs'[o] # {}
                      /\ work'[o] = "stopping" => \E u \in Threads : obj'[u] = o /\ pc'[u] \in Ending
    BY DEF Works
  <2>0. obj[t] \in Handles
    BY DEF IInv, Types, Calls, table
  <2>1. CASE o = obj[t]
    <3>1. /\ refs'[o] # {} /\ made' = made
          /\ work'[o] = work[o] /\ (inner'[o] <=> inner[o])
      BY <2>0, <2>1 DEF IInv, Types
    <3>2. ASSUME NEW u \in Threads, obj[u] = o, pc[u] \in Ending
          PROVE  obj'[u] = o /\ pc'[u] \in Ending
      <4>1. u # t
        BY <3>2
      <4> QED
        BY <3>2, <4>1 DEF IInv, Types
    <3> QED
      BY <3>1, <3>2 DEF IInv, Works
  <2>2. CASE o # obj[t]
    BY <2>0, <2>2 DEF IInv, Types, Works, table
  <2> QED
    BY <2>1, <2>2
<1> QED
  BY <1>1, <1>2, <1>3, <1>4, <1>5, <1>6, <1>7, <1>8 DEF IInv

(* The last call ends, and nobody stopped the handle.                      *)
LEMMA ReturnStops ==
  ASSUME RegistryAssumption, IInv, NEW t \in Threads, pc[t] = "return",
         refs' = [refs EXCEPT ![obj[t]] = {}],
         refs[obj[t]] = {t}, inner[obj[t]],
         inner' = [inner EXCEPT ![obj[t]] = FALSE],
         work' = [work EXCEPT ![obj[t]] = "stopping"],
         pc' = [pc EXCEPT ![t] = "dropping"],
         UNCHANGED <<made, kind, addr, allocated, obj, table>>
  PROVE  IInv'
<1> USE DEF RegistryAssumption, Handles, Kinds, Holding, Freeing, Ending, Pcs
<1>1. Types'
  BY DEF IInv, Types, Calls, table
<1>2. Calls'
  BY DEF IInv, Types, Calls, Listed, table
<1>3. Listed'
  BY DEF IInv, Types, Calls, Listed, Held, table
<1>4. Held'
  BY DEF IInv, Types, Calls, Listed, Held, OneFrees, OneEnds, Memory, Works, table
<1>5. OneFrees'
  BY DEF IInv, Types, Calls, Listed, Held, OneFrees, OneEnds, Memory, Works, table
<1>6. OneEnds'
  BY DEF IInv, Types, Calls, Listed, Held, OneFrees, OneEnds, Memory, Works, table
<1>7. Memory'
  <2> SUFFICES ASSUME NEW o \in Handles
               PROVE  /\ refs'[o] # {} => allocated'[o]
                      /\ allocated'[o] => refs'[o] # {} \/ \E u \in Threads : obj'[u] = o /\ pc'[u] = "dropping"
    BY DEF Memory
  <2>0. obj[t] \in Handles
    BY DEF IInv, Types, Calls, table
  <2>1. CASE o = obj[t]
    BY <2>0, <2>1 DEF IInv, Types, Calls, Held, OneFrees, OneEnds, Memory, table
  <2>2. CASE o # obj[t]
    <3>1. refs'[o] = refs[o] /\ (allocated'[o] <=> allocated[o])
      BY <2>0, <2>2 DEF IInv, Types, table
    <3>2. ASSUME NEW u \in Threads, obj[u] = o, pc[u] = "dropping"
          PROVE  obj'[u] = o /\ pc'[u] = "dropping"
      BY <2>0, <2>2, <3>2 DEF IInv, Types, table
    <3> QED
      BY <3>1, <3>2 DEF IInv, Memory
  <2> QED
    BY <2>1, <2>2
<1>8. Works'
  <2> SUFFICES ASSUME NEW o \in Handles
               PROVE  /\ o \in 1..made' => work'[o] # "none"
                      /\ o > made' => work'[o] = "none"
                      /\ work'[o] = "running" <=> inner'[o]
                      /\ inner'[o] => refs'[o] # {}
                      /\ work'[o] = "stopping" => \E u \in Threads : obj'[u] = o /\ pc'[u] \in Ending
    BY DEF Works
  <2>0. obj[t] \in Handles
    BY DEF IInv, Types, Calls, table
  <2>1. CASE o = obj[t]
    BY <2>0, <2>1 DEF IInv, Types, Calls, Held, OneFrees, OneEnds, Memory, Works, table
  <2>2. CASE o # obj[t]
    BY <2>0, <2>2 DEF IInv, Types, Works, table
  <2> QED
    BY <2>1, <2>2
<1> QED
  BY <1>1, <1>2, <1>3, <1>4, <1>5, <1>6, <1>7, <1>8 DEF IInv

(* The last call ends after a stop.                                        *)
LEMMA ReturnReleases ==
  ASSUME RegistryAssumption, IInv, NEW t \in Threads, pc[t] = "return",
         refs' = [refs EXCEPT ![obj[t]] = {}],
         refs[obj[t]] = {t}, ~inner[obj[t]],
         allocated' = [allocated EXCEPT ![obj[t]] = FALSE],
         pc' = [pc EXCEPT ![t] = "idle"], obj' = [obj EXCEPT ![t] = 0],
         UNCHANGED <<made, kind, addr, inner, work, table>>
  PROVE  IInv'
<1> USE DEF RegistryAssumption, Handles, Kinds, Holding, Freeing, Ending, Pcs
<1>1. Types'
  BY DEF IInv, Types, Calls, table
<1>2. Calls'
  BY DEF IInv, Types, Calls, Listed, table
<1>3. Listed'
  BY DEF IInv, Types, Calls, Listed, Held, table
<1>4. Held'
  BY DEF IInv, Types, Calls, Listed, Held, OneFrees, OneEnds, Memory, Works, table
<1>5. OneFrees'
  BY DEF IInv, Types, Calls, Listed, Held, OneFrees, OneEnds, Memory, Works, table
<1>6. OneEnds'
  BY DEF IInv, Types, Calls, Listed, Held, OneFrees, OneEnds, Memory, Works, table
<1>7. Memory'
  <2> SUFFICES ASSUME NEW o \in Handles
               PROVE  /\ refs'[o] # {} => allocated'[o]
                      /\ allocated'[o] => refs'[o] # {} \/ \E u \in Threads : obj'[u] = o /\ pc'[u] = "dropping"
    BY DEF Memory
  <2>0. obj[t] \in Handles
    BY DEF IInv, Types, Calls, table
  <2>1. CASE o = obj[t]
    BY <2>0, <2>1 DEF IInv, Types, Calls, Held, OneFrees, OneEnds, Memory, table
  <2>2. CASE o # obj[t]
    <3>1. refs'[o] = refs[o] /\ (allocated'[o] <=> allocated[o])
      BY <2>0, <2>2 DEF IInv, Types, table
    <3>2. ASSUME NEW u \in Threads, obj[u] = o, pc[u] = "dropping"
          PROVE  obj'[u] = o /\ pc'[u] = "dropping"
      BY <2>0, <2>2, <3>2 DEF IInv, Types, table
    <3> QED
      BY <3>1, <3>2 DEF IInv, Memory
  <2> QED
    BY <2>1, <2>2
<1>8. Works'
  <2> SUFFICES ASSUME NEW o \in Handles
               PROVE  /\ o \in 1..made' => work'[o] # "none"
                      /\ o > made' => work'[o] = "none"
                      /\ work'[o] = "running" <=> inner'[o]
                      /\ inner'[o] => refs'[o] # {}
                      /\ work'[o] = "stopping" => \E u \in Threads : obj'[u] = o /\ pc'[u] \in Ending
    BY DEF Works
  <2>0. obj[t] \in Handles
    BY DEF IInv, Types, Calls, table
  <2>1. CASE o = obj[t]
    BY <2>0, <2>1 DEF IInv, Types, Calls, Held, OneFrees, OneEnds, Memory, Works, table
  <2>2. CASE o # obj[t]
    BY <2>0, <2>2 DEF IInv, Types, Works, table
  <2> QED
    BY <2>1, <2>2
<1> QED
  BY <1>1, <1>2, <1>3, <1>4, <1>5, <1>6, <1>7, <1>8 DEF IInv

(* The reference taken over from the registry is dropped.                  *)
LEMMA RegistryLeaves ==
  ASSUME RegistryAssumption, IInv, NEW t \in Threads, pc[t] = "removed",
         refs' = [refs EXCEPT ![obj[t]] = @ \ {t}],
         refs[obj[t]] \ {t} # {},
         pc' = [pc EXCEPT ![t] = "fromRaw"],
         UNCHANGED <<made, kind, addr, allocated, inner, work, table, obj>>
  PROVE  IInv'
<1> USE DEF RegistryAssumption, Handles, Kinds, Holding, Freeing, Ending, Pcs
<1>1. Types'
  BY DEF IInv, Types, Calls, table
<1>2. Calls'
  BY DEF IInv, Types, Calls, Listed, table
<1>3. Listed'
  BY DEF IInv, Types, Calls, Listed, Held, table
<1>4. Held'
  BY DEF IInv, Types, Calls, Listed, Held, OneFrees, OneEnds, Memory, Works, table
<1>5. OneFrees'
  BY DEF IInv, Types, Calls, Listed, Held, OneFrees, OneEnds, Memory, Works, table
<1>6. OneEnds'
  BY DEF IInv, Types, Calls, Listed, Held, OneFrees, OneEnds, Memory, Works, table
<1>7. Memory'
  <2> SUFFICES ASSUME NEW o \in Handles
               PROVE  /\ refs'[o] # {} => allocated'[o]
                      /\ allocated'[o] => refs'[o] # {} \/ \E u \in Threads : obj'[u] = o /\ pc'[u] = "dropping"
    BY DEF Memory
  <2>0. obj[t] \in Handles
    BY DEF IInv, Types, Calls, table
  <2>1. CASE o = obj[t]
    BY <2>0, <2>1 DEF IInv, Types, Calls, Held, OneFrees, OneEnds, Memory, table
  <2>2. CASE o # obj[t]
    <3>1. refs'[o] = refs[o] /\ (allocated'[o] <=> allocated[o])
      BY <2>0, <2>2 DEF IInv, Types, table
    <3>2. ASSUME NEW u \in Threads, obj[u] = o, pc[u] = "dropping"
          PROVE  obj'[u] = o /\ pc'[u] = "dropping"
      BY <2>0, <2>2, <3>2 DEF IInv, Types, table
    <3> QED
      BY <3>1, <3>2 DEF IInv, Memory
  <2> QED
    BY <2>1, <2>2
<1>8. Works'
  <2> SUFFICES ASSUME NEW o \in Handles
               PROVE  /\ o \in 1..made' => work'[o] # "none"
                      /\ o > made' => work'[o] = "none"
                      /\ work'[o] = "running" <=> inner'[o]
                      /\ inner'[o] => refs'[o] # {}
                      /\ work'[o] = "stopping" => \E u \in Threads : obj'[u] = o /\ pc'[u] \in Ending
    BY DEF Works
  <2>0. obj[t] \in Handles
    BY DEF IInv, Types, Calls, table
  <2>1. CASE o = obj[t]
    <3>1. /\ refs'[o] # {} /\ made' = made
          /\ work'[o] = work[o] /\ (inner'[o] <=> inner[o])
      BY <2>0, <2>1 DEF IInv, Types
    <3>2. ASSUME NEW u \in Threads, obj[u] = o, pc[u] \in Ending
          PROVE  obj'[u] = o /\ pc'[u] \in Ending
      <4>1. u # t
        BY <3>2
      <4> QED
        BY <3>2, <4>1 DEF IInv, Types
    <3> QED
      BY <3>1, <3>2 DEF IInv, Works
  <2>2. CASE o # obj[t]
    BY <2>0, <2>2 DEF IInv, Types, Works, table
  <2> QED
    BY <2>1, <2>2
<1> QED
  BY <1>1, <1>2, <1>3, <1>4, <1>5, <1>6, <1>7, <1>8 DEF IInv

(* The pointer is reclaimed while calls hold the handle.                   *)
LEMMA PointerLeaves ==
  ASSUME RegistryAssumption, IInv, NEW t \in Threads, pc[t] = "fromRaw",
         refs' = [refs EXCEPT ![obj[t]] = @ \ {"pointer"}],
         refs[obj[t]] \ {"pointer"} # {},
         pc' = [pc EXCEPT ![t] = "idle"],
         obj' = [obj EXCEPT ![t] = 0],
         UNCHANGED <<made, kind, addr, allocated, inner, work, table>>
  PROVE  IInv'
<1> USE DEF RegistryAssumption, Handles, Kinds, Holding, Freeing, Ending, Pcs
<1>1. Types'
  BY DEF IInv, Types, Calls, table
<1>2. Calls'
  BY DEF IInv, Types, Calls, Listed, table
<1>3. Listed'
  BY DEF IInv, Types, Calls, Listed, Held, table
<1>4. Held'
  BY DEF IInv, Types, Calls, Listed, Held, OneFrees, OneEnds, Memory, Works, table
<1>5. OneFrees'
  BY DEF IInv, Types, Calls, Listed, Held, OneFrees, OneEnds, Memory, Works, table
<1>6. OneEnds'
  BY DEF IInv, Types, Calls, Listed, Held, OneFrees, OneEnds, Memory, Works, table
<1>7. Memory'
  <2> SUFFICES ASSUME NEW o \in Handles
               PROVE  /\ refs'[o] # {} => allocated'[o]
                      /\ allocated'[o] => refs'[o] # {} \/ \E u \in Threads : obj'[u] = o /\ pc'[u] = "dropping"
    BY DEF Memory
  <2>0. obj[t] \in Handles
    BY DEF IInv, Types, Calls, table
  <2>1. CASE o = obj[t]
    BY <2>0, <2>1 DEF IInv, Types, Calls, Held, OneFrees, OneEnds, Memory, table
  <2>2. CASE o # obj[t]
    <3>1. refs'[o] = refs[o] /\ (allocated'[o] <=> allocated[o])
      BY <2>0, <2>2 DEF IInv, Types, table
    <3>2. ASSUME NEW u \in Threads, obj[u] = o, pc[u] = "dropping"
          PROVE  obj'[u] = o /\ pc'[u] = "dropping"
      BY <2>0, <2>2, <3>2 DEF IInv, Types, table
    <3> QED
      BY <3>1, <3>2 DEF IInv, Memory
  <2> QED
    BY <2>1, <2>2
<1>8. Works'
  <2> SUFFICES ASSUME NEW o \in Handles
               PROVE  /\ o \in 1..made' => work'[o] # "none"
                      /\ o > made' => work'[o] = "none"
                      /\ work'[o] = "running" <=> inner'[o]
                      /\ inner'[o] => refs'[o] # {}
                      /\ work'[o] = "stopping" => \E u \in Threads : obj'[u] = o /\ pc'[u] \in Ending
    BY DEF Works
  <2>0. obj[t] \in Handles
    BY DEF IInv, Types, Calls, table
  <2>1. CASE o = obj[t]
    <3>1. /\ refs'[o] # {} /\ made' = made
          /\ work'[o] = work[o] /\ (inner'[o] <=> inner[o])
      BY <2>0, <2>1 DEF IInv, Types
    <3>2. ASSUME NEW u \in Threads, obj[u] = o, pc[u] \in Ending
          PROVE  obj'[u] = o /\ pc'[u] \in Ending
      <4>1. u # t
        BY <3>2
      <4> QED
        BY <3>2, <4>1 DEF IInv, Types
    <3> QED
      BY <3>1, <3>2 DEF IInv, Works
  <2>2. CASE o # obj[t]
    BY <2>0, <2>2 DEF IInv, Types, Works, table
  <2> QED
    BY <2>1, <2>2
<1> QED
  BY <1>1, <1>2, <1>3, <1>4, <1>5, <1>6, <1>7, <1>8 DEF IInv

(* The pointer is reclaimed last, and nobody stopped the handle.           *)
LEMMA PointerStops ==
  ASSUME RegistryAssumption, IInv, NEW t \in Threads, pc[t] = "fromRaw",
         refs' = [refs EXCEPT ![obj[t]] = {}],
         refs[obj[t]] = {"pointer"}, inner[obj[t]],
         inner' = [inner EXCEPT ![obj[t]] = FALSE],
         work' = [work EXCEPT ![obj[t]] = "stopping"],
         pc' = [pc EXCEPT ![t] = "dropping"],
         UNCHANGED <<made, kind, addr, allocated, obj, table>>
  PROVE  IInv'
<1> USE DEF RegistryAssumption, Handles, Kinds, Holding, Freeing, Ending, Pcs
<1>1. Types'
  BY DEF IInv, Types, Calls, table
<1>2. Calls'
  BY DEF IInv, Types, Calls, Listed, table
<1>3. Listed'
  BY DEF IInv, Types, Calls, Listed, Held, table
<1>4. Held'
  BY DEF IInv, Types, Calls, Listed, Held, OneFrees, OneEnds, Memory, Works, table
<1>5. OneFrees'
  BY DEF IInv, Types, Calls, Listed, Held, OneFrees, OneEnds, Memory, Works, table
<1>6. OneEnds'
  BY DEF IInv, Types, Calls, Listed, Held, OneFrees, OneEnds, Memory, Works, table
<1>7. Memory'
  <2> SUFFICES ASSUME NEW o \in Handles
               PROVE  /\ refs'[o] # {} => allocated'[o]
                      /\ allocated'[o] => refs'[o] # {} \/ \E u \in Threads : obj'[u] = o /\ pc'[u] = "dropping"
    BY DEF Memory
  <2>0. obj[t] \in Handles
    BY DEF IInv, Types, Calls, table
  <2>1. CASE o = obj[t]
    BY <2>0, <2>1 DEF IInv, Types, Calls, Held, OneFrees, OneEnds, Memory, table
  <2>2. CASE o # obj[t]
    <3>1. refs'[o] = refs[o] /\ (allocated'[o] <=> allocated[o])
      BY <2>0, <2>2 DEF IInv, Types, table
    <3>2. ASSUME NEW u \in Threads, obj[u] = o, pc[u] = "dropping"
          PROVE  obj'[u] = o /\ pc'[u] = "dropping"
      BY <2>0, <2>2, <3>2 DEF IInv, Types, table
    <3> QED
      BY <3>1, <3>2 DEF IInv, Memory
  <2> QED
    BY <2>1, <2>2
<1>8. Works'
  <2> SUFFICES ASSUME NEW o \in Handles
               PROVE  /\ o \in 1..made' => work'[o] # "none"
                      /\ o > made' => work'[o] = "none"
                      /\ work'[o] = "running" <=> inner'[o]
                      /\ inner'[o] => refs'[o] # {}
                      /\ work'[o] = "stopping" => \E u \in Threads : obj'[u] = o /\ pc'[u] \in Ending
    BY DEF Works
  <2>0. obj[t] \in Handles
    BY DEF IInv, Types, Calls, table
  <2>1. CASE o = obj[t]
    BY <2>0, <2>1 DEF IInv, Types, Calls, Held, OneFrees, OneEnds, Memory, Works, table
  <2>2. CASE o # obj[t]
    BY <2>0, <2>2 DEF IInv, Types, Works, table
  <2> QED
    BY <2>1, <2>2
<1> QED
  BY <1>1, <1>2, <1>3, <1>4, <1>5, <1>6, <1>7, <1>8 DEF IInv

(* The pointer is reclaimed last, after a stop.                            *)
LEMMA PointerReleases ==
  ASSUME RegistryAssumption, IInv, NEW t \in Threads, pc[t] = "fromRaw",
         refs' = [refs EXCEPT ![obj[t]] = {}],
         refs[obj[t]] = {"pointer"}, ~inner[obj[t]],
         allocated' = [allocated EXCEPT ![obj[t]] = FALSE],
         pc' = [pc EXCEPT ![t] = "idle"], obj' = [obj EXCEPT ![t] = 0],
         UNCHANGED <<made, kind, addr, inner, work, table>>
  PROVE  IInv'
<1> USE DEF RegistryAssumption, Handles, Kinds, Holding, Freeing, Ending, Pcs
<1>1. Types'
  BY DEF IInv, Types, Calls, table
<1>2. Calls'
  BY DEF IInv, Types, Calls, Listed, table
<1>3. Listed'
  BY DEF IInv, Types, Calls, Listed, Held, table
<1>4. Held'
  BY DEF IInv, Types, Calls, Listed, Held, OneFrees, OneEnds, Memory, Works, table
<1>5. OneFrees'
  BY DEF IInv, Types, Calls, Listed, Held, OneFrees, OneEnds, Memory, Works, table
<1>6. OneEnds'
  BY DEF IInv, Types, Calls, Listed, Held, OneFrees, OneEnds, Memory, Works, table
<1>7. Memory'
  <2> SUFFICES ASSUME NEW o \in Handles
               PROVE  /\ refs'[o] # {} => allocated'[o]
                      /\ allocated'[o] => refs'[o] # {} \/ \E u \in Threads : obj'[u] = o /\ pc'[u] = "dropping"
    BY DEF Memory
  <2>0. obj[t] \in Handles
    BY DEF IInv, Types, Calls, table
  <2>1. CASE o = obj[t]
    BY <2>0, <2>1 DEF IInv, Types, Calls, Held, OneFrees, OneEnds, Memory, table
  <2>2. CASE o # obj[t]
    <3>1. refs'[o] = refs[o] /\ (allocated'[o] <=> allocated[o])
      BY <2>0, <2>2 DEF IInv, Types, table
    <3>2. ASSUME NEW u \in Threads, obj[u] = o, pc[u] = "dropping"
          PROVE  obj'[u] = o /\ pc'[u] = "dropping"
      BY <2>0, <2>2, <3>2 DEF IInv, Types, table
    <3> QED
      BY <3>1, <3>2 DEF IInv, Memory
  <2> QED
    BY <2>1, <2>2
<1>8. Works'
  <2> SUFFICES ASSUME NEW o \in Handles
               PROVE  /\ o \in 1..made' => work'[o] # "none"
                      /\ o > made' => work'[o] = "none"
                      /\ work'[o] = "running" <=> inner'[o]
                      /\ inner'[o] => refs'[o] # {}
                      /\ work'[o] = "stopping" => \E u \in Threads : obj'[u] = o /\ pc'[u] \in Ending
    BY DEF Works
  <2>0. obj[t] \in Handles
    BY DEF IInv, Types, Calls, table
  <2>1. CASE o = obj[t]
    BY <2>0, <2>1 DEF IInv, Types, Calls, Held, OneFrees, OneEnds, Memory, Works, table
  <2>2. CASE o # obj[t]
    BY <2>0, <2>2 DEF IInv, Types, Works, table
  <2> QED
    BY <2>1, <2>2
<1> QED
  BY <1>1, <1>2, <1>3, <1>4, <1>5, <1>6, <1>7, <1>8 DEF IInv

(* Every step a thread takes by letting go of a reference.                 *)
LEMMA ReturnKeeps ==
  ASSUME RegistryAssumption, IInv, NEW t \in Threads, Return(t)
  PROVE  IInv'
<1>0. obj[t] \in Handles /\ pc[t] = "return" /\ t \in refs[obj[t]]
  BY DEF IInv, Types, Calls, Held, Handles, Holding, Return
<1>1. CASE refs[obj[t]] # {t}
  <2>1. refs[obj[t]] \ {t} # {}
    BY <1>0, <1>1
  <2> QED
    BY <1>0, <1>1, <2>1, ReturnLeaves DEF Return, DropReference, table
<1>2. CASE refs[obj[t]] = {t}
  <2>1. refs' = [refs EXCEPT ![obj[t]] = {}]
    BY <1>0, <1>2 DEF IInv, Types, Return, DropReference
  <2>2. CASE inner[obj[t]]
    BY <1>0, <1>2, <2>1, <2>2, ReturnStops DEF Return, DropReference, table
  <2>3. CASE ~inner[obj[t]]
    BY <1>0, <1>2, <2>1, <2>3, ReturnReleases DEF Return, DropReference, table
  <2> QED
    BY <2>2, <2>3
<1> QED
  BY <1>1, <1>2

(* The pointer's reference is still there when the registry's goes.        *)
LEMMA DropRegistryReferenceKeeps ==
  ASSUME RegistryAssumption, IInv, NEW t \in Threads, DropRegistryReference(t)
  PROVE  IInv'
<1>1. obj[t] \in Handles /\ pc[t] = "removed" /\ "pointer" \in refs[obj[t]]
  BY DEF IInv, Types, Calls, OneFrees, Handles, Freeing, DropRegistryReference
<1>2. refs[obj[t]] # {t} /\ refs[obj[t]] \ {t} # {}
  BY <1>1 DEF RegistryAssumption
<1>3. obj' = obj
  BY <1>1, <1>2 DEF IInv, Types, DropRegistryReference, DropReference
<1> QED
  BY <1>1, <1>2, <1>3, RegistryLeaves DEF DropRegistryReference, DropReference, table

(* The pointer given to C is reclaimed.                                    *)
LEMMA DropPointerKeeps ==
  ASSUME RegistryAssumption, IInv, NEW t \in Threads, DropPointer(t)
  PROVE  IInv'
<1>0. obj[t] \in Handles /\ pc[t] = "fromRaw" /\ "pointer" \in refs[obj[t]]
  BY DEF IInv, Types, Calls, OneFrees, Handles, Freeing, DropPointer
<1>1. CASE refs[obj[t]] # {"pointer"}
  <2>1. refs[obj[t]] \ {"pointer"} # {}
    BY <1>0, <1>1
  <2> QED
    BY <1>0, <1>1, <2>1, PointerLeaves DEF DropPointer, DropReference, table
<1>2. CASE refs[obj[t]] = {"pointer"}
  <2>1. refs' = [refs EXCEPT ![obj[t]] = {}]
    BY <1>0, <1>2 DEF IInv, Types, DropPointer, DropReference
  <2>2. CASE inner[obj[t]]
    BY <1>0, <1>2, <2>1, <2>2, PointerStops DEF DropPointer, DropReference, table
  <2>3. CASE ~inner[obj[t]]
    BY <1>0, <1>2, <2>1, <2>3, PointerReleases DEF DropPointer, DropReference, table
  <2> QED
    BY <2>2, <2>3
<1> QED
  BY <1>1, <1>2

(* The invariant depends on these variables only.                          *)
LEMMA StutterKeeps ==
  ASSUME RegistryAssumption, IInv, UNCHANGED vars
  PROVE  IInv'
  BY DEF IInv, Types, Calls, Listed, Held, OneFrees, OneEnds, Memory, Works,
         vars, heap, body, table, calls

(* The invariant is inductive.                                             *)
LEMMA NextKeeps == RegistryAssumption /\ IInv /\ [Next]_vars => IInv'
<1> SUFFICES ASSUME RegistryAssumption, IInv, Next
             PROVE  IInv'
  BY StutterKeeps
<1>1. PICK t \in Threads : Enter(t) \/ Proceed(t) \/ Finish(t)
  BY DEF Next
<1>2. CASE Enter(t)
  <2>1. "recording" \in Kinds /\ "clicks" \in Kinds
    BY DEF Kinds
  <2>2. CASE record_start(t) \/ clicks_start(t)
    BY <2>1, <2>2, StartKeeps DEF record_start, clicks_start
  <2>3. CASE record_query(t) \/ record_stop(t) \/ clicks_stop(t)
    BY <2>1, <2>3, CheckKeeps DEF record_query, record_stop, clicks_stop
  <2>4. CASE record_free_handle(t) \/ clicks_free_handle(t)
    BY <2>1, <2>4, RemoveKeeps DEF record_free_handle, clicks_free_handle
  <2> QED
    BY <1>2, <2>2, <2>3, <2>4 DEF Enter
<1>3. CASE Proceed(t)
  <2>1. CASE LockInner(t) \/ LookAndUnlock(t)
    BY <2>1, LockKeeps, LookKeeps
  <2>2. CASE TakeRecording(t) \/ TakeClicks(t)
    BY <2>2, TakeKeeps DEF TakeRecording, TakeClicks
  <2>3. CASE Return(t)
    BY <2>3, ReturnKeeps
  <2>4. CASE DropRegistryReference(t)
    BY <2>4, DropRegistryReferenceKeeps
  <2>5. CASE DropPointer(t)
    BY <2>5, DropPointerKeeps
  <2> QED
    BY <1>3, <2>1, <2>2, <2>3, <2>4, <2>5 DEF Proceed
<1>4. CASE Finish(t)
  BY <1>4, StopEndsKeeps, DropEndsKeeps DEF Finish
<1> QED
  BY <1>1, <1>2, <1>3, <1>4

(* What a call works on, and what the registry hands out, is allocated     *)
(* memory of the right kind at the right address: snapforge-ffi never      *)
(* touches a freed handle, whatever pointers its callers pass and however  *)
(* addresses are reused.                                                   *)
THEOREM NoUseAfterFree == Spec => []MemorySafe
<1>1. RegistryAssumption /\ IInv => MemorySafe
  <2> SUFFICES ASSUME RegistryAssumption, IInv
               PROVE  MemorySafe
    OBVIOUS
  <2>1. ASSUME NEW t \in Threads, obj[t] # 0
        PROVE  allocated[obj[t]]
    <3>1. obj[t] \in Handles /\ pc[t] \in Pcs /\ pc[t] # "idle"
      BY <2>1 DEF IInv, Types, Calls, Handles
    <3>2. refs[obj[t]] # {} \/ pc[t] = "dropping"
      BY <3>1 DEF IInv, Held, OneFrees, Pcs, Holding, Freeing
    <3> QED
      BY <3>1, <3>2 DEF IInv, Memory, OneEnds
  <2>2. ASSUME NEW k \in Kinds, NEW a \in Addresses, registry[k][a] # 0
        PROVE  /\ allocated[registry[k][a]] /\ addr[registry[k][a]] = a
               /\ kind[registry[k][a]] = k
    <3>1. registry[k][a] \in Handles
      BY <2>2 DEF IInv, Types, Handles, RegistryAssumption
    <3>2. /\ kind[registry[k][a]] = k /\ addr[registry[k][a]] = a
          /\ "registry" \in refs[registry[k][a]]
      BY <3>1 DEF IInv, Listed
    <3>3. allocated[registry[k][a]]
      BY <3>1, <3>2 DEF IInv, Memory
    <3> QED
      BY <3>2, <3>3
  <2> QED
    BY <2>1, <2>2 DEF MemorySafe
<1> QED
  BY <1>1, InitIInv, NextKeeps, RegistryAssumption, PTL DEF Spec

(* A handle that was freed and that no call uses has been stopped and its  *)
(* memory is released: no recording goes on unseen and nothing leaks.      *)
THEOREM NothingLeaks == Spec => []NothingLost
<1>1. RegistryAssumption /\ IInv => NothingLost
  <2> SUFFICES ASSUME RegistryAssumption, IInv, NEW o \in 1..made,
                      registry[kind[o]][addr[o]] # o,
                      \A t \in Threads : obj[t] # o
               PROVE  work[o] = "ended" /\ ~allocated[o]
    BY DEF NothingLost
  <2>1. o \in Handles
    BY DEF IInv, Types, Handles, RegistryAssumption
  <2>2. refs[o] = {}
    BY <2>1 DEF IInv, Types, Held
  <2>3. ~allocated[o] /\ ~inner[o] /\ work[o] # "running" /\ work[o] # "stopping"
    BY <2>1, <2>2 DEF IInv, Memory, Works
  <2>4. work[o] # "none"
    BY <2>1 DEF IInv, Works
  <2> QED
    BY <2>1, <2>3, <2>4 DEF IInv, Types
<1> QED
  BY <1>1, InitIInv, NextKeeps, RegistryAssumption, PTL DEF Spec

(* Of all the threads that ask for a recording or a tap to be stopped, by  *)
(* stopping or by freeing it, one does; and it runs until one does.        *)
THEOREM StoppedOnce == Spec => []OneStops
<1>1. RegistryAssumption /\ IInv => OneStops
  BY DEF IInv, OneEnds, Works, OneStops, Ending
<1> QED
  BY <1>1, InitIInv, NextKeeps, RegistryAssumption, PTL DEF Spec
=============================================================================
