--------------------------- MODULE HandleRegistry ---------------------------
(***************************************************************************)
(* The opaque handles of recordings and click trackers that the C          *)
(* interface hands out (crates/snapforge-ffi/src/lib.rs): reference counts *)
(* shared between a registry keyed by address, the pointer given to C and  *)
(* the threads inside a call, the mutex around what a handle stands for,   *)
(* and an allocator that may give the address of a freed handle to the     *)
(* next one.                                                               *)
(*                                                                         *)
(* Callers are not trusted to be tidy: any thread may make any call with   *)
(* any pointer that was ever handed out, freed or not.  A call the         *)
(* registry rejects changes nothing and is not a step here.                *)
(***************************************************************************)
EXTENDS Integers

CONSTANTS
  Threads,      \* the threads that call the interface
  Addresses,    \* where the allocator may place a handle; 0 is null
  MaxHandles    \* bound: handles made during a run

ASSUME RegistryAssumption ==
  /\ {"registry", "pointer"} \cap Threads = {}
  /\ Addresses \subseteq Nat \ {0}
  /\ MaxHandles \in Nat

Handles == 1..MaxHandles
Kinds   == {"recording", "clicks"}

VARIABLES
  made,       \* handles made so far
  kind, addr, \* of each handle
  allocated,  \* its memory has not been released
  refs,       \* Arc: who holds a strong reference to it
  inner,      \* the Option inside the mutex is Some
  guard,      \* the threads that hold the mutex
  work,       \* the recording or the event tap itself
  registry,   \* per kind: address -> handle, 0 if there is no entry
  issued,     \* pointers C has seen, with their kinds
  pc, op,     \* where a thread is, and in which call
  obj         \* the handle a thread's call works on, 0 if none

heap  == <<made, kind, addr, allocated, refs>>
body  == <<inner, guard, work>>
table == <<registry, issued>>
calls == <<pc, op, obj>>
vars  == <<heap, body, table, calls>>

Init ==
  /\ made = 0
  /\ kind = [o \in Handles |-> "recording"] /\ addr = [o \in Handles |-> 0]
  /\ allocated = [o \in Handles |-> FALSE] /\ refs = [o \in Handles |-> {}]
  /\ inner = [o \in Handles |-> FALSE] /\ guard = [o \in Handles |-> {}]
  /\ work = [o \in Handles |-> "none"]
  /\ registry = [k \in Kinds |-> [a \in Addresses |-> 0]] /\ issued = {}
  /\ pc = [t \in Threads |-> "idle"] /\ op = [t \in Threads |-> "none"]
  /\ obj = [t \in Threads |-> 0]

InUse == {addr[o] : o \in {h \in Handles : allocated[h]}}

-----------------------------------------------------------------------------
(* Making a handle: under the registry's lock it is allocated with two     *)
(* references, one for the registry and one for the pointer given to C.    *)
Start(t, k) ==
  /\ pc[t] = "idle" /\ made < MaxHandles
  /\ made' = made + 1
  /\ \E a \in Addresses \ InUse :
       /\ addr' = [addr EXCEPT ![made + 1] = a]
       /\ registry' = [registry EXCEPT ![k][a] = made + 1]
       /\ issued' = issued \cup {<<k, a>>}
  /\ kind' = [kind EXCEPT ![made + 1] = k]
  /\ allocated' = [allocated EXCEPT ![made + 1] = TRUE]
  /\ refs' = [refs EXCEPT ![made + 1] = {"registry", "pointer"}]
  /\ inner' = [inner EXCEPT ![made + 1] = TRUE]
  /\ work' = [work EXCEPT ![made + 1] = "running"]
  /\ UNCHANGED <<guard, calls>>

record_start(t) == Start(t, "recording")
clicks_start(t) == Start(t, "clicks")

-----------------------------------------------------------------------------
(* Mutant of Check: the handle is used without a reference of its own.     *)
CheckBorrowed(t, what, k) ==
  /\ pc[t] = "idle"
  /\ \E a \in Addresses :
       /\ <<k, a>> \in issued /\ registry[k][a] # 0
       /\ obj' = [obj EXCEPT ![t] = registry[k][a]]
  /\ pc' = [pc EXCEPT ![t] = "lock"]
  /\ op' = [op EXCEPT ![t] = what]
  /\ UNCHANGED <<heap, body, table>>

(* A call on a handle: the reference is cloned under the registry's lock.  *)
Check(t, what, k) ==
  /\ pc[t] = "idle"
  /\ \E a \in Addresses :
       /\ <<k, a>> \in issued /\ registry[k][a] # 0
       /\ obj' = [obj EXCEPT ![t] = registry[k][a]]
       /\ refs' = [refs EXCEPT ![registry[k][a]] = @ \cup {t}]
  /\ pc' = [pc EXCEPT ![t] = "lock"]
  /\ op' = [op EXCEPT ![t] = what]
  /\ UNCHANGED <<made, kind, addr, allocated, body, table>>

(* is_alive, output_path, pause and resume look at the recording, or act   *)
(* on it, while they hold the mutex.                                       *)
record_query(t) == Check(t, "query", "recording")
record_stop(t)  == Check(t, "stop", "recording")
clicks_stop(t)  == Check(t, "stop", "clicks")

LockInner(t) ==
  /\ pc[t] = "lock" /\ guard[obj[t]] = {}
  /\ guard' = [guard EXCEPT ![obj[t]] = {t}]
  /\ pc' = [pc EXCEPT ![t] = "locked"]
  /\ UNCHANGED <<heap, inner, work, table, op, obj>>

Unlock(t) == guard' = [guard EXCEPT ![obj[t]] = @ \ {t}]

(* A query, or a stop of what was stopped before.                          *)
LookAndUnlock(t) ==
  /\ pc[t] = "locked"
  /\ op[t] = "query" \/ ~inner[obj[t]]
  /\ Unlock(t)
  /\ pc' = [pc EXCEPT ![t] = "return"]
  /\ UNCHANGED <<heap, inner, work, table, op, obj>>

TakeInner(t) ==
  /\ pc[t] = "locked" /\ op[t] = "stop" /\ inner[obj[t]]
  /\ inner' = [inner EXCEPT ![obj[t]] = FALSE]
  /\ work' = [work EXCEPT ![obj[t]] = "stopping"]
  /\ pc' = [pc EXCEPT ![t] = "stopping"]
  /\ UNCHANGED <<heap, table, op, obj>>

(* Mutant of TakeRecording: the guard lives to the end of the call.        *)
TakeRecordingLocked(t) ==
  TakeInner(t) /\ kind[obj[t]] = "recording" /\ UNCHANGED guard

(* record_stop lets go of the mutex before it stops the recording.         *)
TakeRecording(t) ==
  /\ TakeInner(t) /\ kind[obj[t]] = "recording"
  /\ Unlock(t)

(* clicks_stop drops the tap and joins the forwarder inside the guard.     *)
TakeClicks(t) ==
  /\ TakeInner(t) /\ kind[obj[t]] = "clicks"
  /\ UNCHANGED guard

(* The recording or the tap has come to its end, however long it took.     *)
StopEnds(t) ==
  /\ pc[t] = "stopping"
  /\ work' = [work EXCEPT ![obj[t]] = "ended"]
  /\ Unlock(t)
  /\ pc' = [pc EXCEPT ![t] = "return"]
  /\ UNCHANGED <<heap, inner, table, op, obj>>

-----------------------------------------------------------------------------
(* Dropping a reference on the way to `next`.  The last one also drops     *)
(* what the handle stands for, which stops it if nobody did, and then      *)
(* releases the memory.                                                    *)
DropReference(t, reference, next) ==
  LET o == obj[t] IN
  /\ refs' = [refs EXCEPT ![o] = @ \ {reference}]
  /\ IF refs[o] # {reference}
     THEN /\ pc' = [pc EXCEPT ![t] = next]
          /\ obj' = [obj EXCEPT ![t] = IF next = "idle" THEN 0 ELSE o]
          /\ UNCHANGED <<allocated, inner, work>>
     ELSE IF inner[o]
     THEN /\ inner' = [inner EXCEPT ![o] = FALSE]
          /\ work' = [work EXCEPT ![o] = "stopping"]
          /\ pc' = [pc EXCEPT ![t] = "dropping"]
          /\ UNCHANGED <<allocated, obj>>
     ELSE /\ allocated' = [allocated EXCEPT ![o] = FALSE]
          /\ pc' = [pc EXCEPT ![t] = "idle"]
          /\ obj' = [obj EXCEPT ![t] = 0]
          /\ UNCHANGED <<inner, work>>
  /\ UNCHANGED <<made, kind, addr, guard, table, op>>

Return(t) == pc[t] = "return" /\ DropReference(t, t, "idle")

DropEnds(t) ==
  /\ pc[t] = "dropping"
  /\ work' = [work EXCEPT ![obj[t]] = "ended"]
  /\ allocated' = [allocated EXCEPT ![obj[t]] = FALSE]
  /\ pc' = [pc EXCEPT ![t] = "idle"]
  /\ obj' = [obj EXCEPT ![t] = 0]
  /\ UNCHANGED <<made, kind, addr, refs, inner, guard, table, op>>

(* Freeing: only the call that removes the entry from the registry goes    *)
(* on, to drop the registry's reference and then the pointer's.            *)
Remove(t, k) ==
  /\ pc[t] = "idle"
  /\ \E a \in Addresses :
       /\ <<k, a>> \in issued /\ registry[k][a] # 0
       /\ obj' = [obj EXCEPT ![t] = registry[k][a]]
       /\ registry' = [registry EXCEPT ![k][a] = 0]
       /\ refs' = [refs EXCEPT ![registry[k][a]] = (@ \ {"registry"}) \cup {t}]
  /\ pc' = [pc EXCEPT ![t] = "removed"]
  /\ op' = [op EXCEPT ![t] = "free"]
  /\ UNCHANGED <<made, kind, addr, allocated, body, issued>>

record_free_handle(t) == Remove(t, "recording")
clicks_free_handle(t) == Remove(t, "clicks")

(* Mutant of DropPointer: the reference given to C is never reclaimed.     *)
KeepPointer(t) ==
  /\ pc[t] = "fromRaw"
  /\ pc' = [pc EXCEPT ![t] = "idle"] /\ obj' = [obj EXCEPT ![t] = 0]
  /\ UNCHANGED <<heap, body, table, op>>

DropRegistryReference(t) == pc[t] = "removed" /\ DropReference(t, t, "fromRaw")
DropPointer(t) == pc[t] = "fromRaw" /\ DropReference(t, "pointer", "idle")

-----------------------------------------------------------------------------
Enter(t) == record_start(t) \/ clicks_start(t) \/ record_query(t)
            \/ record_stop(t) \/ clicks_stop(t) \/ record_free_handle(t)
            \/ clicks_free_handle(t)

(* The steps a thread inside a call takes by itself.  How long a stop      *)
(* takes is not its own affair.                                            *)
Proceed(t) == LockInner(t) \/ LookAndUnlock(t) \/ TakeRecording(t)
              \/ TakeClicks(t) \/ Return(t) \/ DropRegistryReference(t)
              \/ DropPointer(t)
Finish(t)  == StopEnds(t) \/ DropEnds(t)

Next == \E t \in Threads : Enter(t) \/ Proceed(t) \/ Finish(t)

Spec == Init /\ [][Next]_vars

(* Threads are scheduled and mutexes are granted in the long run; no       *)
(* recording and no tap is assumed to end.                                 *)
FairSpec == Spec /\ \A t \in Threads : SF_vars(Proceed(t))

-----------------------------------------------------------------------------
(* Types of the variables.                                                 *)
TypeOK ==
  /\ made \in 0..MaxHandles
  /\ kind \in [Handles -> Kinds] /\ addr \in [Handles -> Addresses \cup {0}]
  /\ allocated \in [Handles -> BOOLEAN]
  /\ refs \in [Handles -> SUBSET (Threads \cup {"registry", "pointer"})]
  /\ inner \in [Handles -> BOOLEAN] /\ guard \in [Handles -> SUBSET Threads]
  /\ work \in [Handles -> {"none", "running", "stopping", "ended"}]
  /\ registry \in [Kinds -> [Addresses -> 0..MaxHandles]]
  /\ issued \subseteq Kinds \X Addresses
  /\ pc \in [Threads -> {"idle", "lock", "locked", "stopping", "return",
                         "dropping", "removed", "fromRaw"}]
  /\ op \in [Threads -> {"none", "query", "stop", "free"}]
  /\ obj \in [Threads -> 0..MaxHandles]

(* No use after free: what a thread works on is allocated, and so is what  *)
(* the registry would give to the next caller, at the address it is found  *)
(* under - whatever stale pointers the callers use and however the         *)
(* allocator reuses addresses (lib.rs:879-885).                            *)
MemorySafe ==
  /\ \A t \in Threads : obj[t] # 0 => allocated[obj[t]]
  /\ \A k \in Kinds, a \in Addresses :
       LET o == registry[k][a] IN
       o # 0 => allocated[o] /\ addr[o] = a /\ kind[o] = k

(* Nothing is leaked and nothing records for ever: a handle that was freed *)
(* and that no call is using any more has ended and its memory is released,*)
(* whichever thread let go of it last (lib.rs:1151-1182).                  *)
NothingLost ==
  \A o \in 1..made :
    registry[kind[o]][addr[o]] # o /\ (\A t \in Threads : obj[t] # o)
      => work[o] = "ended" /\ ~allocated[o]

(* A recording or a tap is stopped by one thread only, however many ask.   *)
OneStops ==
  \A o \in Handles :
    /\ \A t, u \in Threads :
         /\ obj[t] = o /\ pc[t] \in {"stopping", "dropping"}
         /\ obj[u] = o /\ pc[u] \in {"stopping", "dropping"}
         => t = u
    /\ work[o] = "running" <=> inner[o]

(* A query comes back while another thread is inside a stop that may never *)
(* end.  The exception: its handle was freed, unstopped, during the call,  *)
(* and the query's reference is the last, so that it has to do the stop    *)
(* itself (lib.rs:1011-1012).                                              *)
QueriesReturn ==
  \A t \in Threads :
    pc[t] # "idle" /\ op[t] = "query" ~> pc[t] \in {"idle", "dropping"}
=============================================================================
