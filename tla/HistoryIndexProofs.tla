------------------------- MODULE HistoryIndexProofs -------------------------
(***************************************************************************)
(* HistoryIndex implements History and keeps the thumbnails in step, for   *)
(* any number of threads, paths and crashes.  The invariant is the         *)
(* discipline of HISTORY_LOCK: only its holder is between load and unlock, *)
(* so what the holder loaded is still what the file holds when it saves.   *)
(* For the thumbnails it adds what may be out of step meanwhile: one that  *)
(* is outdated has a job of its path still to come.                        *)
(***************************************************************************)
EXTENDS HistoryIndex, WellFoundedInduction, TLAPS

Places == {"idle", "called", "locked", "loaded", "saved", "unlocked"}
Inside == {"locked", "loaded", "saved"}

Calls == [kind : {"add", "remove"}, path : Paths] \cup [kind : {"clear"}]

Shape ==
  /\ DOMAIN pc = Clients /\ DOMAIN op = Clients /\ DOMAIN snap = Clients
  /\ lock \in Clients \cup {Nobody}
  /\ \A c \in Clients : pc[c] \in Places /\ (pc[c] # "idle" => op[c] \in Calls)

(* Only the holder of the lock is inside its critical section.             *)
Exclusive == \A c \in Clients : pc[c] \in Inside => lock = c

(* The loaded copy is not stale.                                           *)
Current == \A c \in Clients :
             pc[c] = "loaded" /\ op[c].kind # "clear" => snap[c] = index

IInv == Shape /\ Exclusive /\ Current

LEMMA Initially == IndexAssumption /\ Init => IInv
  BY DEF IndexAssumption, Init, IInv, Shape, Exclusive, Current, Places, Inside

(* Steps that leave the calls, the lock and the index alone.               *)
LEMMA Elsewhere ==
  ASSUME IInv, UNCHANGED <<calls, lock, index>>
  PROVE  IInv'
  BY DEF IInv, Shape, Exclusive, Current, calls

LEMMA Inductive ==
  ASSUME IndexAssumption, IInv, [Next]_vars
  PROVE  IInv'
<1> USE DEF IInv, Shape, Exclusive, Current, Places, Inside, Calls, At, Goto
<1>1. CASE \E c \in Clients : ClientStep(c)
  <2>1. PICK c \in Clients : ClientStep(c)
    BY <1>1
  <2>2. ASSUME NEW p \in Paths, Capture(c, p)
        PROVE  IInv'
    BY <2>2 DEF Capture
  <2>3. ASSUME NEW o \in Calls, Call(c, o)
        PROVE  IInv'
    BY <2>3, IndexAssumption DEF Call, IndexAssumption
  <2>4. ASSUME NEW p \in Paths, RemoveEntry(c, p)
        PROVE  IInv'
    BY <2>3, <2>4 DEF RemoveEntry
  <2>5. CASE ClearAll(c)
    BY <2>3, <2>5 DEF ClearAll
  <2>6. CASE Acquire(c)
    BY <2>6, IndexAssumption DEF Acquire, IndexAssumption
  <2>7. CASE Load(c)
    BY <2>7 DEF Load
  <2>8. CASE SkipLoad(c)
    BY <2>8 DEF SkipLoad
  <2>9. CASE Save(c)
    BY <2>9 DEF Save
  <2>10. CASE GiveUp(c)
    BY <2>10, IndexAssumption DEF GiveUp, Return, IndexAssumption
  <2>11. CASE Tidy(c)
    <3>1. /\ pc[c] = "saved" /\ lock' = Nobody /\ UNCHANGED index
          /\ \/ pc' = [pc EXCEPT ![c] = "unlocked"] /\ UNCHANGED <<op, snap>>
             \/ Return(c)
      BY <2>11 DEF Tidy
    <3> QED BY <3>1, IndexAssumption DEF Return, IndexAssumption
  <2>12. CASE EnqueueThumbnail(c)
    BY <2>12 DEF EnqueueThumbnail, Return
  <2> QED
    BY <2>1, <2>2, <2>4, <2>5, <2>6, <2>7, <2>8, <2>9, <2>10, <2>11, <2>12
    DEF ClientStep
<1>2. CASE ListEntries \/ TakeJob \/ PreCheck \/ Decode \/ JobFails \/ Install
  BY <1>2, Elsewhere DEF ListEntries, TakeJob, PreCheck, Decode, JobFails, Install
<1>3. CASE \E p \in Paths : UserDeletesFile(p)
  BY <1>3, Elsewhere DEF UserDeletesFile
<1>4. CASE Crash
  BY <1>4 DEF Crash
<1>5. CASE UNCHANGED vars
  BY <1>5, Elsewhere DEF vars, calls
<1> QED BY <1>1, <1>2, <1>3, <1>4, <1>5 DEF Next

(* A save by the holder of the lock is one operation on the whole index.   *)
LEMMA SaveIsOneOperation ==
  ASSUME IInv, NEW c \in Clients, Save(c)
  PROVE  Log!Next
<1>1. pc[c] = "loaded" /\ op[c] \in Calls /\ index' = Result(op[c], snap[c])
  BY DEF Save, IInv, Shape, At
<1>2. CASE op[c].kind = "clear"
  <2>1. index' = <<>>
    BY <1>1, <1>2 DEF Result
  <2> QED BY <2>1 DEF Log!Next, Log!Clear
<1>3. CASE op[c].kind = "add"
  <2>1. op[c].path \in Paths
    BY <1>1, <1>3 DEF Calls
  <2>2. index' = Log!Added(index, op[c].path)
    BY <1>1, <1>3 DEF Result, IInv, Current
  <2> QED BY <2>1, <2>2 DEF Log!Next, Log!Add
<1>4. CASE op[c].kind = "remove"
  <2>1. op[c].path \in Paths
    BY <1>1, <1>4 DEF Calls
  <2>2. index' = Log!Without(index, op[c].path)
    BY <1>1, <1>4 DEF Result, IInv, Current
  <2> QED BY <2>1, <2>2 DEF Log!Next, Log!Remove
<1> QED BY <1>1, <1>2, <1>3, <1>4 DEF Calls

LEMMA StepIsOneOperation ==
  ASSUME IInv, [Next]_vars
  PROVE  [Log!Next]_index
<1>1. CASE \E c \in Clients : Save(c)
  BY <1>1, SaveIsOneOperation
<1>2. CASE \E c \in Clients : ClientStep(c) /\ ~Save(c)
  BY <1>2 DEF ClientStep, Capture, RemoveEntry, ClearAll, Call, Acquire, Load,
     SkipLoad, GiveUp, Tidy, EnqueueThumbnail
<1>3. CASE ListEntries \/ TakeJob \/ PreCheck \/ Decode \/ JobFails \/ Install \/ Crash
  BY <1>3 DEF ListEntries, TakeJob, PreCheck, Decode, JobFails, Install, Crash
<1>4. CASE \E p \in Paths : UserDeletesFile(p)
  BY <1>4 DEF UserDeletesFile
<1>5. CASE UNCHANGED vars
  BY <1>5 DEF vars
<1> QED BY <1>1, <1>2, <1>3, <1>4, <1>5 DEF Next

(* The index loses no concurrent update: it implements History.            *)
THEOREM IndexImplementsHistory == Spec => NoLostUpdate
<1>1. Init => IInv /\ Log!Init
  BY Initially, IndexAssumption DEF Init, Log!Init
<1>2. IInv /\ [Next]_vars => IInv' /\ [Log!Next]_index
  BY Inductive, StepIsOneOperation, IndexAssumption
<1> QED BY <1>1, <1>2, PTL DEF Spec, NoLostUpdate, Log!Spec

-----------------------------------------------------------------------------
(* What an operation makes of the index.                                   *)

(* A set of numbers has a least one.                                       *)
LEMMA LeastNumber ==
  ASSUME NEW T, T \subseteq Nat, T # {}
  PROVE  \E n \in T : \A m \in T : n <= m
<1>1. PICK n \in T : \A m \in T : ~(<<m, n>> \in OpToRel(<, Nat))
  BY WFMin, NatLessThanWellFounded
<1>2. \A m \in T : ~(m < n)
  BY <1>1 DEF OpToRel
<1>3. n \in Nat /\ \A m \in T : m \in Nat
  OBVIOUS
<1> QED
  BY <1>2, <1>3

(* The table of what is left of the first n entries of es without p.       *)
Kept(es, p, N, f) ==
  f = [n \in 0 .. N |-> IF n = 0 THEN <<>>
                        ELSE IF es[n] = p THEN f[n - 1] ELSE Append(f[n - 1], es[n])]

LEMMA KeptExists ==
  ASSUME NEW es, NEW p, NEW N \in Nat
  PROVE  \E f : Kept(es, p, N, f)
<1> DEFINE Bad == {n \in Nat : ~\E f : Kept(es, p, n, f)}
<1>1. SUFFICES ASSUME Bad # {} PROVE FALSE
  OBVIOUS
<1>2. PICK n \in Nat : n \in Bad /\ \A m \in Bad : n <= m
  BY <1>1, LeastNumber
<1>3. CASE n = 0
  <2>1. Kept(es, p, 0, [m \in 0 .. 0 |-> <<>>])
    BY DEF Kept
  <2>2. QED
    BY <1>2, <1>3, <2>1
<1>4. CASE n # 0
  <2>1. n - 1 \in Nat /\ ~(n <= n - 1)
    BY <1>4
  <2>2. PICK g : Kept(es, p, n - 1, g)
    BY <1>2, <2>1
  <2> DEFINE f == [m \in 0 .. n |-> IF m \in 0 .. (n - 1) THEN g[m]
                                    ELSE IF es[n] = p THEN g[n - 1] ELSE Append(g[n - 1], es[n])]
  <2>3. \A m \in 0 .. (n - 1) : g[m] = IF m = 0 THEN <<>>
                        ELSE IF es[m] = p THEN g[m - 1] ELSE Append(g[m - 1], es[m])
    BY <2>2 DEF Kept
  <2>4. \A m \in 0 .. n : f[m] = IF m = 0 THEN <<>>
                        ELSE IF es[m] = p THEN f[m - 1] ELSE Append(f[m - 1], es[m])
    <3> SUFFICES ASSUME NEW m \in 0 .. n
                 PROVE  f[m] = IF m = 0 THEN <<>>
                        ELSE IF es[m] = p THEN f[m - 1] ELSE Append(f[m - 1], es[m])
      OBVIOUS
    <3>1. CASE m = 0
      BY <1>4, <2>3, <3>1
    <3>2. CASE m # 0 /\ m # n
      <4>1. m \in 0 .. (n - 1) /\ m - 1 \in 0 .. (n - 1) /\ m - 1 \in 0 .. n
        BY <3>2
      <4>2. f[m] = g[m] /\ f[m - 1] = g[m - 1]
        BY <4>1
      <4> HIDE DEF f
      <4>3. QED
        BY <2>3, <3>2, <4>1, <4>2
    <3>3. CASE m = n
      <4>1. n \notin 0 .. (n - 1) /\ n - 1 \in 0 .. (n - 1) /\ n - 1 \in 0 .. n /\ n \in 0 .. n
        BY <1>4
      <4>2. /\ f[n] = IF es[n] = p THEN g[n - 1] ELSE Append(g[n - 1], es[n])
            /\ f[n - 1] = g[n - 1]
        BY <4>1
      <4> HIDE DEF f
      <4>3. QED
        BY <1>4, <3>3, <4>2
    <3>4. QED
      BY <3>1, <3>2, <3>3
  <2>5. f = [m \in 0 .. n |-> f[m]]
    OBVIOUS
  <2> HIDE DEF f
  <2>6. Kept(es, p, n, f)
    BY <2>4, <2>5 DEF Kept
  <2>7. QED
    BY <1>2, <2>6
<1> QED
  BY <1>3, <1>4

LEMMA WithoutIsKept ==
  ASSUME NEW es, NEW p, Len(es) \in Nat
  PROVE  \E f : Kept(es, p, Len(es), f) /\ Log!Without(es, p) = f[Len(es)]
<1> DEFINE f == CHOOSE f : Kept(es, p, Len(es), f)
<1>1. Kept(es, p, Len(es), f)
  BY KeptExists
<1>2. Log!Without(es, p) = f[Len(es)]
  BY DEF Log!Without, Kept
<1> QED
  BY <1>1, <1>2

Elements(s) == {s[i] : i \in DOMAIN s}

(* retain drops the path and nothing else.                                 *)
THEOREM WithoutFacts ==
  ASSUME NEW S, NEW es \in Seq(S), NEW p
  PROVE  /\ Log!Without(es, p) \in Seq(S)
         /\ Elements(Log!Without(es, p)) = Elements(es) \ {p}
<1>1. Len(es) \in Nat /\ DOMAIN es = 1 .. Len(es) /\ \A i \in 1 .. Len(es) : es[i] \in S
  OBVIOUS
<1>2. PICK f : Kept(es, p, Len(es), f) /\ Log!Without(es, p) = f[Len(es)]
  BY <1>1, WithoutIsKept
<1> DEFINE Good(n) == f[n] \in Seq(S) /\ Elements(f[n]) = {es[i] : i \in 1 .. n} \ {p}
<1> DEFINE Bad == {n \in Nat : n <= Len(es) /\ ~Good(n)}
<1>3. Bad = {}
  <2>1. SUFFICES ASSUME Bad # {} PROVE FALSE
    OBVIOUS
  <2>2. PICK n \in Nat : n \in Bad /\ \A m \in Bad : n <= m
    BY <2>1, LeastNumber
  <2>3. n <= Len(es) /\ ~Good(n) /\ n \in 0 .. Len(es)
    BY <1>1, <2>2
  <2>4. f[n] = IF n = 0 THEN <<>>
               ELSE IF es[n] = p THEN f[n - 1] ELSE Append(f[n - 1], es[n])
    BY <1>2, <2>3 DEF Kept
  <2>5. CASE n = 0
    BY <2>3, <2>4, <2>5 DEF Elements
  <2>6. CASE n # 0
    <3>1. n - 1 \in Nat /\ ~(n <= n - 1) /\ n - 1 <= Len(es) /\ n \in 1 .. Len(es)
      BY <2>3, <2>6
    <3>2. Good(n - 1)
      BY <2>2, <3>1
    <3>3. \A i \in 1 .. n : i = n \/ i \in 1 .. (n - 1)
      BY <3>1
    <3>4. {es[i] : i \in 1 .. n} = {es[i] : i \in 1 .. (n - 1)} \cup {es[n]}
      BY <3>1, <3>3
    <3>5. PICK t \in Seq(S) : t = f[n - 1] /\ Elements(t) = {es[i] : i \in 1 .. (n - 1)} \ {p}
      BY <3>2
    <3>6. CASE es[n] = p
      BY <2>3, <2>4, <2>6, <3>4, <3>5, <3>6
    <3>7. CASE es[n] # p
      <4>1. f[n] = Append(t, es[n]) /\ es[n] \in S
        BY <1>1, <2>4, <2>6, <3>1, <3>5, <3>7
      <4>2. Elements(Append(t, es[n])) = Elements(t) \cup {es[n]}
        <5>1. es[n] \in S
          BY <4>1
        <5>2. \A e \in S : Elements(Append(t, e)) = Elements(t) \cup {e}
          <6> SUFFICES ASSUME NEW e \in S PROVE Elements(Append(t, e)) = Elements(t) \cup {e}
            OBVIOUS
          <6>1. /\ DOMAIN Append(t, e) = DOMAIN t \cup {Len(t) + 1} /\ Len(t) + 1 \notin DOMAIN t
                /\ \A i \in DOMAIN t : Append(t, e)[i] = t[i]
                /\ Append(t, e)[Len(t) + 1] = e
            OBVIOUS
          <6>2. QED
            BY <6>1 DEF Elements
        <5>3. QED
          BY <5>1, <5>2
      <4>3. f[n] \in Seq(S)
        BY <4>1
      <4>4. Elements(f[n]) = {es[i] : i \in 1 .. n} \ {p}
        BY <3>4, <3>5, <3>7, <4>1, <4>2
      <4>5. QED
        BY <2>3, <4>3, <4>4
    <3>8. QED
      BY <3>6, <3>7
  <2>7. QED
    BY <2>5, <2>6
<1>4. Good(Len(es))
  <2> HIDE DEF Good
  <2>1. QED
    BY <1>1, <1>3
<1> QED
  BY <1>1, <1>2, <1>4 DEF Elements

(* An added path is the only new one.                                      *)
LEMMA AddedFacts ==
  ASSUME NEW S, NEW es \in Seq(S), NEW p \in S, MaxEntries \in Nat
  PROVE  /\ Log!Added(es, p) \in Seq(S)
         /\ Elements(Log!Added(es, p)) \subseteq Elements(es) \cup {p}
<1>1. PICK w \in Seq(S) : w = Log!Without(es, p) /\ Elements(w) = Elements(es) \ {p}
  BY WithoutFacts
<1>2. PICK a \in Seq(S) : a = Append(w, p) /\ Elements(a) = Elements(w) \cup {p}
  <2>1. /\ DOMAIN Append(w, p) = DOMAIN w \cup {Len(w) + 1} /\ Len(w) + 1 \notin DOMAIN w
        /\ \A i \in DOMAIN w : Append(w, p)[i] = w[i]
        /\ Append(w, p)[Len(w) + 1] = p /\ Append(w, p) \in Seq(S)
    OBVIOUS
  <2>2. Elements(Append(w, p)) = Elements(w) \cup {p}
    BY <2>1 DEF Elements
  <2>3. QED
    BY <2>1, <2>2
<1>3. Log!Capped(a) \in Seq(S) /\ Elements(Log!Capped(a)) \subseteq Elements(a)
  <2>1. CASE ~(Len(a) > MaxEntries)
    BY <2>1 DEF Log!Capped
  <2>2. CASE Len(a) > MaxEntries
    <3> DEFINE k == Len(a) - MaxEntries
    <3>1. k \in Nat \ {0} /\ k <= Len(a) /\ Len(a) \in Nat /\ DOMAIN a = 1 .. Len(a)
      BY <2>2
    <3>2. Log!Capped(a) = SubSeq(a, k + 1, Len(a))
      BY <2>2 DEF Log!Capped
    <3> HIDE DEF k
    <3>3. SubSeq(a, k + 1, Len(a)) = [i \in 1 .. (Len(a) - k) |-> a[i + k]]
      BY <3>1
    <3>4. \A i \in 1 .. (Len(a) - k) : i + k \in DOMAIN a
      BY <3>1
    <3>5. Len(a) - k \in Nat /\ \A i \in 1 .. (Len(a) - k) : a[i + k] \in S
      BY <3>1, <3>4
    <3>6. [i \in 1 .. (Len(a) - k) |-> a[i + k]] \in Seq(S)
      BY <3>5
    <3>7. Elements([i \in 1 .. (Len(a) - k) |-> a[i + k]]) \subseteq Elements(a)
      BY <3>4 DEF Elements
    <3>8. QED
      BY <3>2, <3>3, <3>6, <3>7
  <2>3. QED
    BY <2>1, <2>2
<1>4. Log!Added(es, p) = Log!Capped(a)
  BY <1>1, <1>2 DEF Log!Added
<1> QED
  BY <1>1, <1>2, <1>3, <1>4

LEMMA ResultFacts ==
  ASSUME IndexAssumption, NEW o \in Calls, NEW es \in Seq(Paths)
  PROVE  /\ Result(o, es) \in Seq(Paths)
         /\ o.kind = "add" => Elements(Result(o, es)) \subseteq Elements(es) \cup {o.path}
         /\ o.kind # "add" => Elements(Result(o, es)) \subseteq Elements(es)
         /\ o.kind = "remove" => Elements(Result(o, es)) = Elements(es) \ {o.path}
<1>1. CASE o.kind = "add"
  <2>1. o.path \in Paths /\ Result(o, es) = Log!Added(es, o.path) /\ MaxEntries \in Nat
    BY <1>1 DEF Calls, Result, IndexAssumption
  <2>2. QED
    BY <1>1, <2>1, AddedFacts
<1>2. CASE o.kind = "remove"
  <2>1. o.path \in Paths /\ Result(o, es) = Log!Without(es, o.path)
    BY <1>2 DEF Calls, Result
  <2>2. QED
    BY <1>2, <2>1, WithoutFacts
<1>3. CASE o.kind = "clear"
  <2>1. Result(o, es) = <<>>
    BY <1>3 DEF Result
  <2>2. QED
    BY <1>3, <2>1 DEF Elements
<1> QED
  BY <1>1, <1>2, <1>3 DEF Calls

-----------------------------------------------------------------------------
(* The thumbnails.  A path is asked for from its capture until its job is  *)
(* taken, and pending until the thumbnail of its last image is in place.   *)

Asked(p) ==
  \/ \E i \in DOMAIN queue : queue[i] = p
  \/ \E c \in Clients : pc[c] # "idle" /\ op[c].kind = "add" /\ op[c].path = p
Pending(p) ==
  \/ Asked(p)
  \/ job = p /\ wpc \in {"check", "decode"}
  \/ job = p /\ wpc = "install" /\ pixels = latest[p]

Stored ==
  /\ index \in Seq(Paths) /\ queue \in Seq(Paths) /\ snap \in [Clients -> Seq(Paths)]
  /\ thumb \in [Paths -> Nat] /\ image \in [Paths -> Nat] /\ latest \in [Paths -> Nat]
  /\ wpc \in {"idle", "check", "decode", "install"} /\ (wpc # "idle" => job \in Paths)
  /\ wpc = "install" => pixels \in Nat \ {0}

(* Only an addition waits for the lock, or has a job left to queue.        *)
Queuing == \A c \in Clients : pc[c] \in {"called", "unlocked"} => op[c].kind = "add"

(* Too many thumbnails there are only between a save and the unlocking.    *)
Swept ==
  /\ (\A c \in Clients : pc[c] # "saved") => Thumbs \subseteq Indexed \cup strays
  /\ \A c \in Clients : pc[c] = "saved" =>
       /\ snap[c] = index
       /\ op[c].kind = "remove" => /\ op[c].path \notin Indexed
                                   /\ Thumbs \ {op[c].path} \subseteq Indexed \cup strays

(* An outdated thumbnail, or an outdated image about to be installed, has  *)
(* a job of its path behind it.                                            *)
Fresh ==
  /\ \A p \in Indexed \ excused : thumb[p] = latest[p] \/ Pending(p)
  /\ \A p \in Paths : image[p] # 0 => image[p] = latest[p]
  /\ wpc = "install" /\ pixels # latest[job] => job \in excused \/ Asked(job)

ThumbInv == IInv /\ Stored /\ Queuing /\ Swept /\ Fresh

LEMMA ThumbsInitially == IndexAssumption /\ Init => ThumbInv
<1> SUFFICES ASSUME IndexAssumption, Init PROVE ThumbInv
  OBVIOUS
<1>1. IInv
  BY Initially
<1>2. Stored
  BY DEF Init, Stored
<1>3. Swept
  BY DEF Init, Swept, Thumbs, Indexed
<1>4. Fresh
  BY DEF Init, Fresh, Indexed
<1>5. Queuing
  BY DEF Init, Queuing
<1> QED
  BY <1>1, <1>2, <1>3, <1>4, <1>5 DEF ThumbInv

(* What only the save changes, and what nobody else may touch meanwhile.   *)
LEMMA SaveFacts ==
  ASSUME IndexAssumption, ThumbInv, NEW c \in Clients, Save(c)
  PROVE  /\ index' \in Seq(Paths) /\ op[c] \in Calls /\ op' = op /\ snap'[c] = index' /\ snap' \in [Clients -> Seq(Paths)]
         /\ pc' = [pc EXCEPT ![c] = "saved"] /\ pc[c] = "loaded"
         /\ op[c].kind = "add" => Indexed' \subseteq Indexed \cup {op[c].path}
         /\ op[c].kind # "add" => Indexed' \subseteq Indexed
         /\ op[c].kind = "remove" => Indexed' = Indexed \ {op[c].path}
         /\ \A d \in Clients : pc[d] # "saved" /\ (d # c => pc'[d] # "saved")
<1>1. /\ pc[c] = "loaded" /\ op[c] \in Calls /\ index' = Result(op[c], snap[c])
      /\ op' = op /\ snap' = [snap EXCEPT ![c] = index'] /\ pc' = [pc EXCEPT ![c] = "saved"]
  BY DEF Save, ThumbInv, IInv, Shape, At, Goto
<1>2. snap[c] \in Seq(Paths) /\ snap \in [Clients -> Seq(Paths)] /\ index \in Seq(Paths)
  BY DEF ThumbInv, Stored
<1>3. index' \in Seq(Paths)
  BY <1>1, <1>2, ResultFacts
<1>4. snap'[c] = index' /\ snap' \in [Clients -> Seq(Paths)]
  BY <1>1, <1>2, <1>3
<1>5. op[c].kind # "clear" => snap[c] = index
  BY <1>1 DEF ThumbInv, IInv, Current
<1>6. Indexed = Elements(index) /\ Indexed' = Elements(index')
  BY DEF Indexed, Elements
<1>7. op[c].kind = "add" => Indexed' \subseteq Indexed \cup {op[c].path}
  BY <1>1, <1>2, <1>5, <1>6, ResultFacts
<1>8. op[c].kind = "remove" => Indexed' = Indexed \ {op[c].path}
  BY <1>1, <1>2, <1>5, <1>6, ResultFacts
<1>9. op[c].kind # "add" => Indexed' \subseteq Indexed
  <2>1. CASE op[c].kind = "clear"
    <3>1. index' = <<>>
      BY <1>1, <2>1 DEF Result
    <3>2. QED
      BY <2>1, <3>1 DEF Indexed
  <2>2. QED
    BY <1>1, <1>8, <2>1 DEF Calls
<1>10. \A d \in Clients : pc[d] # "saved" /\ (d # c => pc'[d] # "saved")
  <2>1. lock = c
    BY <1>1 DEF ThumbInv, IInv, Exclusive, Inside
  <2>2. \A d \in Clients : pc[d] = "saved" => d = c
    BY <2>1 DEF ThumbInv, IInv, Exclusive, Inside
  <2>3. QED
    BY <1>1, <2>2 DEF ThumbInv, IInv, Shape
<1> QED
  BY <1>1, <1>3, <1>4, <1>7, <1>8, <1>9, <1>10

LEMMA QueuingStays ==
  ASSUME IndexAssumption, ThumbInv, [Next]_vars
  PROVE  Queuing'
<1>0. Queuing /\ Shape
  BY DEF ThumbInv, IInv
<1> USE DEF Queuing, Shape, At, Goto
<1>1. ASSUME NEW c \in Clients, ClientStep(c) PROVE Queuing'
  <2>1. ASSUME NEW p \in Paths, Capture(c, p) PROVE Queuing'
    BY <1>0, <2>1 DEF Capture
  <2>2. ASSUME NEW o, Call(c, o) PROVE Queuing'
    BY <1>0, <2>2 DEF Call
  <2>3. CASE Acquire(c) \/ Load(c) \/ SkipLoad(c) \/ Save(c)
    BY <1>0, <2>3 DEF Acquire, Load, SkipLoad, Save
  <2>4. CASE GiveUp(c) \/ EnqueueThumbnail(c)
    BY <1>0, <2>4 DEF GiveUp, EnqueueThumbnail, Return
  <2>5. CASE Tidy(c)
    BY <1>0, <2>5 DEF Tidy, Return
  <2>6. QED
    BY <1>1, <2>1, <2>2, <2>3, <2>4, <2>5 DEF ClientStep, RemoveEntry, ClearAll
<1>2. CASE Crash
  BY <1>2 DEF Crash
<1>3. CASE UNCHANGED calls
  BY <1>0, <1>3 DEF calls
<1>4. CASE ListEntries \/ TakeJob \/ PreCheck \/ Decode \/ JobFails \/ Install \/ UNCHANGED vars
           \/ \E p \in Paths : UserDeletesFile(p)
  BY <1>3, <1>4 DEF ListEntries, TakeJob, PreCheck, Decode, JobFails, Install, UserDeletesFile, vars
<1> QED
  BY <1>1, <1>2, <1>4 DEF Next

LEMMA StoredStays ==
  ASSUME IndexAssumption, ThumbInv, [Next]_vars
  PROVE  Stored'
<1>0. Stored /\ Shape /\ Nobody \notin Clients
  BY DEF ThumbInv, IInv, IndexAssumption
<1> USE DEF Stored
<1>1. ASSUME NEW c \in Clients, NEW p \in Paths, Capture(c, p) PROVE Stored'
  BY <1>0, <1>1 DEF Capture, worker
<1>2. ASSUME NEW c \in Clients, Save(c) PROVE Stored'
  <2>1. index' \in Seq(Paths) /\ snap' \in [Clients -> Seq(Paths)]
    BY <1>2, SaveFacts
  <2>2. UNCHANGED <<thumb, image, latest, queue, wpc, job, pixels>>
    BY <1>2 DEF Save, files, worker
  <2>3. QED
    BY <1>0, <2>1, <2>2
<1>3. ASSUME NEW c \in Clients, Load(c) PROVE Stored'
  BY <1>0, <1>3 DEF Load, files, worker
<1>4. ASSUME NEW c \in Clients, GiveUp(c) PROVE Stored'
  <2>1. snap' = [snap EXCEPT ![c] = <<>>] /\ UNCHANGED <<index, thumb, image, latest, queue, wpc, job, pixels>>
    BY <1>4 DEF GiveUp, Return, files, worker
  <2>2. QED
    BY <1>0, <2>1
<1>5. ASSUME NEW c \in Clients, Tidy(c) PROVE Stored'
  <2>1. /\ UNCHANGED <<index, image, latest, queue, wpc, job, pixels>>
        /\ \E doomed : thumb' = [p \in Paths |-> IF p \in doomed THEN 0 ELSE thumb[p]]
    BY <1>5 DEF Tidy, files, worker
  <2>3. snap' = snap \/ snap' = [snap EXCEPT ![c] = <<>>]
    BY <1>5 DEF Tidy, Return
  <2>2. thumb' \in [Paths -> Nat]
    <3>1. PICK doomed : thumb' = [p \in Paths |-> IF p \in doomed THEN 0 ELSE thumb[p]]
      BY <2>1
    <3>2. QED
      BY <1>0, <3>1
  <2>4. snap' \in [Clients -> Seq(Paths)]
    <3>1. snap \in [Clients -> Seq(Paths)] /\ <<>> \in Seq(Paths)
      BY <1>0
    <3>2. CASE snap' = snap
      BY ONLY <3>1, <3>2
    <3>3. CASE snap' = [snap EXCEPT ![c] = <<>>]
      BY ONLY <3>1, <3>3
    <3>4. QED
      BY ONLY <2>3, <3>2, <3>3
  <2>5. QED
    BY <1>0, <2>1, <2>2, <2>4
<1>6. ASSUME NEW c \in Clients, EnqueueThumbnail(c) PROVE Stored'
  <2>1. /\ UNCHANGED <<index, thumb, image, latest, wpc, job, pixels>>
        /\ snap' = [snap EXCEPT ![c] = <<>>] /\ queue' = Append(queue, op[c].path) /\ pc[c] = "unlocked"
    BY <1>6 DEF EnqueueThumbnail, Return, files, worker, At
  <2>2. op[c].path \in Paths
    BY <2>1 DEF ThumbInv, Queuing, IInv, Shape, Calls
  <2>3. QED
    BY <1>0, <2>1, <2>2
<1>7. CASE TakeJob
  BY <1>0, <1>7 DEF TakeJob, files, calls
<1>8. CASE PreCheck \/ JobFails
  BY <1>0, <1>8 DEF PreCheck, JobFails, JobOver, files, calls
<1>9. CASE Decode
  BY <1>0, <1>9 DEF Decode, files, calls
<1>10. CASE Install
  BY <1>0, <1>10 DEF Install, JobOver, files, calls
<1>11. ASSUME NEW p \in Paths, UserDeletesFile(p) PROVE Stored'
  BY <1>0, <1>11 DEF UserDeletesFile, calls, worker
<1>12. CASE Crash
  BY <1>0, <1>12 DEF Crash, JobOver, files
<1>13. CASE UNCHANGED <<index, thumb, files, snap, queue, worker>>
  BY <1>0, <1>13 DEF files, worker
<1>14. ASSUME NEW c \in Clients,
              \/ \E p \in Paths : RemoveEntry(c, p)
              \/ ClearAll(c) \/ Acquire(c) \/ SkipLoad(c)
       PROVE  Stored'
  BY <1>13, <1>14 DEF RemoveEntry, ClearAll, Call, Acquire, SkipLoad
<1>15. CASE ListEntries \/ UNCHANGED vars
  BY <1>13, <1>15 DEF ListEntries, vars, calls
<1> QED
  BY <1>1, <1>2, <1>3, <1>4, <1>5, <1>6, <1>7, <1>8, <1>9, <1>10, <1>11, <1>12, <1>14, <1>15
  DEF Next, ClientStep

(* Steps that leave the index, the thumbnails and the calls under way.     *)
LEMMA SweptSame ==
  ASSUME ThumbInv, UNCHANGED <<index, thumb, strays>>,
         \A c \in Clients : /\ pc'[c] = "saved" <=> pc[c] = "saved"
                            /\ pc[c] = "saved" => op'[c] = op[c] /\ snap'[c] = snap[c]
  PROVE  Swept'
  BY DEF ThumbInv, Swept, Thumbs, Indexed

LEMMA SweptStays ==
  ASSUME IndexAssumption, ThumbInv, [Next]_vars
  PROVE  Swept'
<1>0. Swept /\ Stored /\ Shape /\ Exclusive /\ Nobody \notin Clients
  BY DEF ThumbInv, IInv, IndexAssumption
<1>1. ASSUME NEW c \in Clients, Save(c) PROVE Swept'
  <2>1. /\ op' = op /\ snap'[c] = index' /\ pc' = [pc EXCEPT ![c] = "saved"]
        /\ op[c].kind = "remove" => Indexed' = Indexed \ {op[c].path}
        /\ \A d \in Clients : pc[d] # "saved" /\ (d # c => pc'[d] # "saved")
    BY <1>1, SaveFacts
  <2>2. Thumbs \subseteq Indexed \cup strays /\ Thumbs' = Thumbs /\ strays' = strays
    BY <1>0, <1>1, <2>1 DEF Swept, Save, Thumbs, past
  <2>3. pc'[c] = "saved"
    BY <1>0, <2>1 DEF Shape
  <2>4. QED
    BY <2>1, <2>2, <2>3 DEF Swept
<1>2. ASSUME NEW c \in Clients, Tidy(c) PROVE Swept'
  <2>1. /\ pc[c] = "saved" /\ snap[c] = index /\ index' = index /\ op[c] \in Calls
        /\ \A d \in Clients : pc'[d] # "saved"
    <3>1. pc[c] = "saved" /\ index' = index /\ pc' \in {[pc EXCEPT ![c] = "unlocked"], [pc EXCEPT ![c] = "idle"]}
      BY <1>2 DEF Tidy, Return, Goto, At
    <3>2. \A d \in Clients : pc[d] = "saved" => d = c
      BY <1>0, <3>1 DEF Exclusive, Inside
    <3>3. QED
      BY <1>0, <3>1, <3>2 DEF Shape, Swept
  <2>2. CASE op[c].kind = "remove"
    <3>1. /\ Thumbs \ {op[c].path} \subseteq Indexed \cup strays
          /\ thumb' = [p \in Paths |-> IF p \in {op[c].path} THEN 0 ELSE thumb[p]]
          /\ strays' = strays \ {op[c].path}
      BY <1>0, <1>2, <2>1, <2>2 DEF Tidy, Swept
    <3>2. Thumbs' = Thumbs \ {op[c].path} /\ Indexed' = Indexed
      BY <2>1, <3>1 DEF Thumbs, Indexed
    <3>3. QED
      BY <2>1, <3>1, <3>2 DEF Swept
  <2>3. CASE op[c].kind # "remove"
    <3>1. thumb' = [p \in Paths |-> IF p \in Paths \ Indexed THEN 0 ELSE thumb[p]]
      BY <1>2, <2>1, <2>3 DEF Tidy, Indexed
    <3>2. Thumbs' \subseteq Indexed /\ Indexed' = Indexed
      BY <2>1, <3>1 DEF Thumbs, Indexed
    <3>3. QED
      BY <2>1, <3>2 DEF Swept
  <2>4. QED
    BY <2>2, <2>3
<1>3. CASE Install
  <2>1. \A c \in Clients : pc[c] # "saved"
    BY <1>0, <1>3 DEF Install, Exclusive, Inside
  <2>2. /\ UNCHANGED <<index, pc, strays>>
        /\ thumb' = thumb \/ (job \in Indexed /\ thumb' = [thumb EXCEPT ![job] = pixels])
    BY <1>3 DEF Install, calls
  <2>3. Thumbs' \subseteq Thumbs \cup Indexed /\ Indexed' = Indexed
    BY <1>0, <2>2 DEF Thumbs, Indexed, Stored
  <2>4. QED
    BY <1>0, <2>1, <2>2, <2>3 DEF Swept
<1>4. CASE Crash
  BY <1>0, <1>4 DEF Crash, Swept, Thumbs, Indexed
<1>5. ASSUME NEW c \in Clients,
             \/ \E p \in Paths : Capture(c, p) \/ RemoveEntry(c, p)
             \/ ClearAll(c) \/ Acquire(c) \/ SkipLoad(c)
      PROVE  Swept'
  <2>1. /\ UNCHANGED <<index, thumb, strays, snap>> /\ pc[c] # "saved"
        /\ \E l \in Places \ {"saved"} : pc' = [pc EXCEPT ![c] = l]
        /\ op' = op \/ \E o : op' = [op EXCEPT ![c] = o]
    BY <1>5 DEF Capture, RemoveEntry, ClearAll, Call, Acquire, SkipLoad, At, Goto, Places, past
  <2>2. QED
    BY <1>0, <2>1, SweptSame DEF Shape
<1>6. ASSUME NEW c \in Clients, Load(c) \/ GiveUp(c) \/ EnqueueThumbnail(c) PROVE Swept'
  <2>1. /\ UNCHANGED <<index, thumb, strays>> /\ pc[c] # "saved"
        /\ \E l \in Places \ {"saved"} : pc' = [pc EXCEPT ![c] = l]
        /\ op' = op \/ op' = [op EXCEPT ![c] = NoOp]
        /\ \E s : snap' = [snap EXCEPT ![c] = s]
    BY <1>6 DEF Load, GiveUp, EnqueueThumbnail, Return, At, Goto, Places, past
  <2>2. QED
    BY <1>0, <2>1, SweptSame DEF Shape, Stored
<1>7. CASE UNCHANGED <<index, thumb, calls, strays>>
  BY <1>7, SweptSame DEF calls
<1>8. CASE ListEntries \/ TakeJob \/ PreCheck \/ Decode \/ JobFails \/ UNCHANGED vars
           \/ \E p \in Paths : UserDeletesFile(p)
  BY <1>7, <1>8 DEF ListEntries, TakeJob, PreCheck, Decode, JobFails, UserDeletesFile, vars, past
<1> QED
  BY <1>1, <1>2, <1>3, <1>4, <1>5, <1>6, <1>8 DEF Next, ClientStep

(* Steps after which whatever is asked for still is.                       *)
LEMMA AskedStays ==
  ASSUME NEW p, UNCHANGED queue \/ \E q : queue' = Append(queue, q), queue \in Seq(Paths), queue' \in Seq(Paths), 
         \A c \in Clients : /\ pc[c] # "idle" /\ op[c].kind = "add" /\ op[c].path = p
                            => \/ pc'[c] # "idle" /\ op'[c].kind = "add" /\ op'[c].path = p
                               \/ \E i \in DOMAIN queue' : queue'[i] = p,
         Asked(p)
  PROVE  Asked(p)'
<1>1. CASE \E i \in DOMAIN queue : queue[i] = p
  <2>1. PICK i \in DOMAIN queue : queue[i] = p
    BY <1>1
  <2>2. i \in DOMAIN queue' /\ queue'[i] = queue[i]
    BY <2>1
  <2>3. QED
    BY <2>1, <2>2 DEF Asked
<1>2. CASE \E c \in Clients : pc[c] # "idle" /\ op[c].kind = "add" /\ op[c].path = p
  BY <1>2 DEF Asked
<1> QED
  BY <1>1, <1>2 DEF Asked

(* Steps of a client that leave the worker, and its promises, alone.       *)
LEMMA FreshSame ==
  ASSUME ThumbInv, UNCHANGED <<latest, worker>>,
         \A p \in Paths : image'[p] # 0 => image'[p] = image[p],
         excused \subseteq excused',
         \A p \in Paths : Asked(p) /\ p \notin excused' => Asked(p)',
         \A p \in Indexed' \ excused' : Asked(p)' \/ (p \in Indexed /\ thumb'[p] = thumb[p])
  PROVE  Fresh'
<1>0. Fresh /\ Stored
  BY DEF ThumbInv
<1>1. Indexed \subseteq Paths
  BY <1>0 DEF Stored, Indexed
<1>2. ASSUME NEW p \in Indexed' \ excused' PROVE thumb'[p] = latest'[p] \/ Pending(p)'
  <2>1. CASE Asked(p)'
    BY <2>1 DEF Pending
  <2>2. CASE ~Asked(p)'
    <3>1. p \in Indexed /\ thumb'[p] = thumb[p] /\ p \in Paths /\ p \notin excused
      BY <1>1, <1>2, <2>2
    <3>2. thumb[p] = latest[p] \/ Pending(p)
      BY <1>0, <3>1 DEF Fresh
    <3>3. ~Asked(p)
      BY <1>2, <2>2, <3>1
    <3>4. QED
      BY <3>1, <3>2, <3>3 DEF Pending, worker
  <2>3. QED
    BY <2>1, <2>2
<1>3. \A p \in Paths : image'[p] # 0 => image'[p] = latest'[p]
  BY <1>0 DEF Fresh
<1>4. wpc' = "install" /\ pixels' # latest'[job'] => job' \in excused' \/ Asked(job)'
  <2>1. UNCHANGED <<wpc, job, pixels>>
    BY DEF worker
  <2>2. CASE wpc # "install" \/ pixels = latest[job]
    BY <2>1, <2>2
  <2>3. CASE wpc = "install" /\ pixels # latest[job]
    <3>1. PICK p \in Paths : p = job
      BY <1>0, <2>3 DEF Stored
    <3>2. p \in excused \/ Asked(p)
      BY <1>0, <2>3, <3>1 DEF Fresh
    <3>3. p \in excused' \/ Asked(p)'
      BY <3>2
    <3>4. Asked(p)' => Asked(job)'
      BY <2>1, <3>1 DEF Asked
    <3>5. QED
      BY <2>1, <3>1, <3>3, <3>4
  <2>4. QED
    BY <2>2, <2>3
<1> QED
  BY <1>2, <1>3, <1>4 DEF Fresh

LEMMA FreshStays ==
  ASSUME IndexAssumption, ThumbInv, Stored', [Next]_vars
  PROVE  Fresh'
<1>0. Fresh /\ Stored /\ Shape /\ Exclusive /\ Queuing /\ Swept /\ Nobody \notin Clients
  BY DEF ThumbInv, IInv, IndexAssumption
<1>a. Indexed \subseteq Paths
  BY <1>0 DEF Stored, Indexed
(* A capture: its path is asked for.                                       *)
<1>1. ASSUME NEW c \in Clients, NEW p \in Paths, Capture(c, p) PROVE Fresh'
  <2>1. /\ pc[c] = "idle" /\ image[p] = 0
        /\ latest' = [latest EXCEPT ![p] = @ + 1] /\ image' = [image EXCEPT ![p] = latest'[p]]
        /\ pc' = [pc EXCEPT ![c] = "called"]
        /\ op' = [op EXCEPT ![c] = [kind |-> "add", path |-> p]]
        /\ UNCHANGED <<index, thumb, queue, wpc, job, pixels, excused>>
    BY <1>1 DEF Capture, At, Goto, worker, past
  <2>2. /\ \A q \in Paths : q # p => latest'[q] = latest[q] /\ image'[q] = image[q]
        /\ image'[p] = latest'[p]
    BY <1>0, <2>1 DEF Stored
  <2>3. pc'[c] = "called" /\ op'[c].kind = "add" /\ op'[c].path = p
    BY <1>0, <2>1 DEF Shape
  <2>4. Asked(p)'
    BY <2>3 DEF Asked
  <2>5. ASSUME NEW q \in Paths, Asked(q) PROVE Asked(q)'
    <3>1. \A d \in Clients : pc[d] # "idle" => pc'[d] = pc[d] /\ op'[d] = op[d]
      BY <1>0, <2>1 DEF Shape
    <3>2. QED
      BY <2>1, <2>5, <3>1 DEF Asked
  <2>6. ASSUME NEW q \in Indexed' \ excused' PROVE thumb'[q] = latest'[q] \/ Pending(q)'
    <3>1. q \in Indexed \ excused /\ q \in Paths
      BY <1>a, <2>1, <2>6 DEF Indexed
    <3>2. CASE q = p
      BY <2>4, <3>2 DEF Pending
    <3>3. CASE q # p
      <4>1. thumb[q] = latest[q] \/ Pending(q)
        BY <1>0, <3>1 DEF Fresh
      <4>2. Pending(q) => Pending(q)'
        BY <2>1, <2>2, <2>5, <3>1, <3>3 DEF Pending
      <4>3. QED
        BY <2>1, <2>2, <3>1, <3>3, <4>1, <4>2
    <3>4. QED
      BY <3>2, <3>3
  <2>7. \A q \in Paths : image'[q] # 0 => image'[q] = latest'[q]
    BY <1>0, <2>2 DEF Fresh
  <2>8. ASSUME wpc' = "install", pixels' # latest'[job'] PROVE job' \in excused' \/ Asked(job)'
    <3>1. PICK q \in Paths : q = job
      BY <1>0, <2>1, <2>8 DEF Stored
    <3>2. q \in excused' \/ Asked(q)'
      <4>1. CASE q = p
        BY <2>4, <4>1
      <4>2. CASE q # p
        <5>1. q \in excused \/ Asked(q)
          BY <1>0, <2>1, <2>2, <2>8, <3>1, <4>2 DEF Fresh
        <5>2. QED
          BY <2>1, <2>5, <5>1
      <4>3. QED
        BY <4>1, <4>2
    <3>3. Asked(q)' => Asked(job)'
      BY <2>1, <3>1 DEF Asked
    <3>4. QED
      BY <2>1, <3>1, <3>2, <3>3
  <2>9. QED
    BY <2>6, <2>7, <2>8 DEF Fresh
(* The other steps of a client.                                            *)
<1>2. ASSUME NEW c \in Clients, Save(c) PROVE Fresh'
  <2>1. /\ op' = op /\ pc' = [pc EXCEPT ![c] = "saved"] /\ pc[c] = "loaded" /\ op[c] \in Calls
        /\ op[c].kind = "add" => Indexed' \subseteq Indexed \cup {op[c].path}
        /\ op[c].kind # "add" => Indexed' \subseteq Indexed
    BY <1>2, SaveFacts
  <2>2. UNCHANGED <<thumb, image, latest, queue, worker, excused>>
    BY <1>2 DEF Save, files, past
  <2>3. \A d \in Clients : pc[d] # "idle" => pc'[d] # "idle"
    BY <1>0, <2>1 DEF Shape
  <2>4. \A p \in Paths : Asked(p) => Asked(p)'
    BY <2>1, <2>2, <2>3 DEF Asked
  <2>5. op[c].kind = "add" => Asked(op[c].path)'
    BY <2>1, <2>3 DEF Asked
  <2>6. \A p \in Indexed' \ excused' : Asked(p)' \/ (p \in Indexed /\ thumb'[p] = thumb[p])
    <3>1. CASE op[c].kind = "add"
      <4>1. PICK q : q = op[c].path
        OBVIOUS
      <4>2. Asked(q)'
        BY <2>1, <2>3, <3>1, <4>1 DEF Asked
      <4>3. Indexed' \subseteq Indexed \cup {q}
        BY <2>1, <3>1, <4>1
      <4>4. QED
        BY <2>2, <4>2, <4>3
    <3>2. CASE op[c].kind # "add"
      BY <2>1, <2>2, <3>2
    <3>3. QED
      BY <3>1, <3>2
  <2>7. QED
    BY <2>2, <2>4, <2>6, FreshSame
<1>3. ASSUME NEW c \in Clients, GiveUp(c) PROVE Fresh'
  <2>1. /\ pc[c] \in {"locked", "loaded"}
        /\ pc' = [pc EXCEPT ![c] = "idle"] /\ op' = [op EXCEPT ![c] = NoOp]
        /\ excused' = IF op[c].kind = "add" THEN excused \cup {op[c].path} ELSE excused
        /\ UNCHANGED <<index, thumb, image, latest, queue, worker>>
    BY <1>3 DEF GiveUp, Return, Goto, files
  <2>2. \A d \in Clients : d # c => pc'[d] = pc[d] /\ op'[d] = op[d]
    BY <1>0, <2>1 DEF Shape
  <2>3. ASSUME NEW p \in Paths, Asked(p), p \notin excused' PROVE Asked(p)'
    <3>1. ~(op[c].kind = "add" /\ op[c].path = p)
      BY <2>1, <2>3
    <3>2. QED
      BY <2>1, <2>2, <2>3, <3>1 DEF Asked
  <2>4. excused \subseteq excused' /\ Indexed' = Indexed
    BY <2>1 DEF Indexed
  <2>5. QED
    BY <2>1, <2>3, <2>4, FreshSame
<1>4. ASSUME NEW c \in Clients, Tidy(c) PROVE Fresh'
  <2>1. /\ pc[c] = "saved" /\ UNCHANGED <<index, image, latest, queue, worker, excused>>
        /\ op[c] \in Calls /\ snap[c] = index
        /\ thumb' = [p \in Paths |-> IF p \in (IF op[c].kind = "remove" THEN {op[c].path} ELSE Paths \ Indexed)
                                     THEN 0 ELSE thumb[p]]
    <3>1. pc[c] = "saved" /\ snap[c] = index
      BY <1>0, <1>4 DEF Tidy, At, Swept
    <3>2. QED
      BY <1>0, <1>4, <3>1 DEF Tidy, files, Indexed, Shape
  <2>2. /\ op[c].kind = "add" => pc' = [pc EXCEPT ![c] = "unlocked"] /\ op' = op
        /\ op[c].kind # "add" => pc' = [pc EXCEPT ![c] = "idle"] /\ op' = [op EXCEPT ![c] = NoOp]
    BY <1>4 DEF Tidy, Return, Goto
  <2>3. \A d \in Clients : d # c => pc'[d] = pc[d] /\ op'[d] = op[d]
    BY <1>0, <2>2 DEF Shape
  <2>4. op[c].kind = "add" => pc'[c] # "idle" /\ op'[c] = op[c]
    BY <1>0, <2>2 DEF Shape
  <2>5. \A p \in Paths : Asked(p) => Asked(p)'
    BY <2>1, <2>3, <2>4 DEF Asked
  <2>6. \A p \in Indexed : thumb'[p] = thumb[p]
    <3>1. op[c].kind = "remove" => op[c].path \notin Indexed
      BY <1>0, <2>1 DEF Swept
    <3>2. QED
      BY <1>a, <2>1, <3>1
  <2>7. Indexed' = Indexed
    BY <2>1 DEF Indexed
  <2>8. QED
    BY <2>1, <2>5, <2>6, <2>7, FreshSame
<1>5. ASSUME NEW c \in Clients, EnqueueThumbnail(c) PROVE Fresh'
  <2>1. /\ queue' = Append(queue, op[c].path) /\ pc[c] = "unlocked"
        /\ pc' = [pc EXCEPT ![c] = "idle"] /\ op' = [op EXCEPT ![c] = NoOp]
        /\ UNCHANGED <<index, thumb, image, latest, worker, excused>>
    BY <1>5 DEF EnqueueThumbnail, Return, At, Goto, files, past
  <2>2. op[c].path \in Paths /\ op[c].kind = "add"
    BY <1>0, <2>1 DEF Queuing, Shape, Calls
  <2>3. \A d \in Clients : d # c => pc'[d] = pc[d] /\ op'[d] = op[d]
    BY <1>0, <2>1 DEF Shape
  <2>4. /\ \A i \in DOMAIN queue : i \in DOMAIN queue' /\ queue'[i] = queue[i]
        /\ \E i \in DOMAIN queue' : queue'[i] = op[c].path
    <3>1. PICK q \in Paths : q = op[c].path
      BY <2>2
    <3>2. queue' = Append(queue, q) /\ queue \in Seq(Paths)
      BY <1>0, <2>1, <3>1 DEF Stored
    <3>3. /\ Len(queue) + 1 \in DOMAIN queue' /\ queue'[Len(queue) + 1] = q
          /\ \A i \in DOMAIN queue : i \in DOMAIN queue' /\ queue'[i] = queue[i]
      BY <3>2
    <3>4. QED
      BY <3>1, <3>3
  <2>5. \A p \in Paths : Asked(p) => Asked(p)'
    BY <2>1, <2>3, <2>4 DEF Asked
  <2>6. Indexed' = Indexed
    BY <2>1 DEF Indexed
  <2>7. QED
    BY <2>1, <2>5, <2>6, FreshSame
<1>6. ASSUME NEW c \in Clients,
             \/ \E p \in Paths : RemoveEntry(c, p)
             \/ ClearAll(c) \/ Acquire(c) \/ Load(c) \/ SkipLoad(c)
      PROVE  Fresh'
  <2>1. /\ UNCHANGED <<index, thumb, image, latest, queue, worker, excused>>
        /\ \E l \in Places \ {"idle"} : pc' = [pc EXCEPT ![c] = l]
    BY <1>6 DEF RemoveEntry, ClearAll, Call, Acquire, Load, SkipLoad, Goto, Places, files, past
  <2>2. op' = op \/ (pc[c] = "idle" /\ \E o : op' = [op EXCEPT ![c] = o])
    BY <1>6 DEF RemoveEntry, ClearAll, Call, Acquire, Load, SkipLoad, At
  <2>3. \A d \in Clients : pc[d] # "idle" => pc'[d] # "idle" /\ op'[d] = op[d]
    BY <1>0, <2>1, <2>2 DEF Shape
  <2>4. \A p \in Paths : Asked(p) => Asked(p)'
    BY <2>1, <2>3 DEF Asked
  <2>5. Indexed' = Indexed
    BY <2>1 DEF Indexed
  <2>6. QED
    BY <2>1, <2>4, <2>5, FreshSame
(* The user.                                                               *)
<1>7. ASSUME NEW p \in Paths, UserDeletesFile(p) PROVE Fresh'
  <2>1. /\ image' = [image EXCEPT ![p] = 0]
        /\ UNCHANGED <<index, thumb, latest, queue, worker, excused, pc, op>>
    BY <1>7 DEF UserDeletesFile, calls, past
  <2>2. \A q \in Paths : Asked(q) => Asked(q)'
    BY <2>1 DEF Asked
  <2>3. \A q \in Paths : image'[q] # 0 => image'[q] = image[q]
    BY <1>0, <2>1 DEF Stored
  <2>4. Indexed' = Indexed
    BY <2>1 DEF Indexed
  <2>5. QED
    BY <2>1, <2>2, <2>3, <2>4, FreshSame
<1>8. CASE ListEntries \/ UNCHANGED vars
  <2>1. UNCHANGED <<index, thumb, image, latest, queue, worker, excused, pc, op>>
    BY <1>8 DEF ListEntries, calls, past, files, vars
  <2>2. \A q \in Paths : Asked(q) => Asked(q)'
    BY <2>1 DEF Asked
  <2>3. Indexed' = Indexed
    BY <2>1 DEF Indexed
  <2>4. QED
    BY <2>1, <2>2, <2>3, FreshSame
(* The worker.                                                             *)
<1>b. \A q \in Paths : image[q] # 0 => image[q] = latest[q]
  BY <1>0 DEF Fresh
<1>c. \A q \in Indexed \ excused : thumb[q] = latest[q] \/ Pending(q)
  BY <1>0 DEF Fresh
<1>9. CASE TakeJob
  <2>1. /\ wpc = "idle" /\ queue # <<>> /\ job' = Head(queue) /\ queue' = Tail(queue) /\ wpc' = "check"
        /\ UNCHANGED <<index, thumb, image, latest, pc, op, excused>>
    BY <1>9 DEF TakeJob, files, calls, past
  <2>2. ASSUME NEW q \in Paths, Asked(q) PROVE Pending(q)'
    <3>1. CASE \E i \in DOMAIN queue : queue[i] = q
      <4>1. PICK i \in DOMAIN queue : queue[i] = q
        BY <3>1
      <4>2. Len(queue) \in Nat \ {0} /\ DOMAIN queue = 1 .. Len(queue) /\ queue \in Seq(Paths)
        BY <1>0, <2>1 DEF Stored
      <4>3. CASE i = 1
        <5>1. job' = q
          BY <2>1, <4>1, <4>2, <4>3
        <5>2. QED
          BY <2>1, <5>1 DEF Pending
      <4>4. CASE i # 1
        <5>1. i - 1 \in DOMAIN queue' /\ queue'[i - 1] = queue[i]
          BY <2>1, <4>1, <4>2, <4>4
        <5>2. QED
          BY <4>1, <5>1 DEF Pending, Asked
      <4>5. QED
        BY <4>3, <4>4
    <3>2. CASE \E c \in Clients : pc[c] # "idle" /\ op[c].kind = "add" /\ op[c].path = q
      BY <2>1, <3>2 DEF Pending, Asked
    <3>3. QED
      BY <2>2, <3>1, <3>2 DEF Asked
  <2>3. ASSUME NEW q \in Indexed' \ excused' PROVE thumb'[q] = latest'[q] \/ Pending(q)'
    <3>1. q \in Indexed \ excused /\ q \in Paths
      BY <1>a, <2>1, <2>3 DEF Indexed
    <3>2. thumb[q] = latest[q] \/ Asked(q)
      BY <1>c, <2>1, <3>1 DEF Pending
    <3>3. QED
      BY <2>1, <2>2, <3>1, <3>2
  <2>4. QED
    BY <1>b, <2>1, <2>3 DEF Fresh
<1>10. CASE PreCheck
  <2>1. /\ wpc = "check" /\ wpc' \in {"decode", "idle"}
        /\ job \in Indexed => wpc' = "decode" /\ job' = job
        /\ UNCHANGED <<index, thumb, image, latest, queue, pc, op, excused>>
    BY <1>10 DEF PreCheck, JobOver, files, calls, past
  <2>2. ASSUME NEW q \in Indexed' \ excused' PROVE thumb'[q] = latest'[q] \/ Pending(q)'
    <3>1. q \in Indexed \ excused
      BY <2>1, <2>2 DEF Indexed
    <3>2. Pending(q) => Pending(q)'
      BY <2>1, <3>1 DEF Pending, Asked
    <3>3. QED
      BY <1>c, <2>1, <3>1, <3>2
  <2>3. QED
    BY <1>b, <2>1, <2>2 DEF Fresh
<1>11. CASE Decode
  <2>1. /\ wpc = "decode" /\ image[job] # 0 /\ pixels' = image[job] /\ wpc' = "install" /\ job' = job
        /\ UNCHANGED <<index, thumb, image, latest, queue, pc, op, excused>>
    BY <1>11 DEF Decode, files, calls, past
  <2>2. job \in Paths
    BY <1>0, <2>1 DEF Stored
  <2>3. pixels' = latest'[job']
    BY <1>b, <2>1, <2>2
  <2>4. ASSUME NEW q \in Indexed' \ excused' PROVE thumb'[q] = latest'[q] \/ Pending(q)'
    <3>1. q \in Indexed \ excused
      BY <2>1, <2>4 DEF Indexed
    <3>2. Pending(q) => Pending(q)'
      BY <2>1, <2>3 DEF Pending, Asked
    <3>3. QED
      BY <1>c, <2>1, <3>1, <3>2
  <2>5. QED
    BY <1>b, <2>1, <2>3, <2>4 DEF Fresh
<1>12. CASE JobFails
  <2>1. /\ wpc' = "idle" /\ excused' = excused \cup {job}
        /\ UNCHANGED <<index, thumb, image, latest, queue, pc, op>>
    BY <1>12 DEF JobFails, JobOver, files, calls
  <2>2. ASSUME NEW q \in Indexed' \ excused' PROVE thumb'[q] = latest'[q] \/ Pending(q)'
    <3>1. q \in Indexed \ excused /\ q # job
      BY <2>1, <2>2 DEF Indexed
    <3>2. Pending(q) => Pending(q)'
      BY <2>1, <3>1 DEF Pending, Asked
    <3>3. QED
      BY <1>c, <2>1, <3>1, <3>2
  <2>3. QED
    BY <1>b, <2>1, <2>2 DEF Fresh
<1>13. CASE Install
  <2>1. /\ wpc = "install" /\ wpc' = "idle"
        /\ UNCHANGED <<index, image, latest, queue, pc, op>>
        /\ \/ /\ job \in Indexed /\ thumb' = [thumb EXCEPT ![job] = pixels]
              /\ excused' = IF pixels = latest[job] THEN excused \ {job} ELSE excused
           \/ job \notin Indexed /\ UNCHANGED <<thumb, excused>>
    BY <1>13 DEF Install, JobOver, files, calls
  <2>2. job \in Paths /\ (pixels # latest[job] => job \in excused \/ Asked(job))
    BY <1>0, <2>1 DEF Stored, Fresh
  <2>3. ASSUME NEW q \in Indexed' \ excused' PROVE thumb'[q] = latest'[q] \/ Pending(q)'
    <3>0. q \in Indexed /\ q \in Paths
      BY <1>a, <2>1, <2>3 DEF Indexed
    <3>1. Asked(q) => Pending(q)'
      BY <2>1 DEF Pending, Asked
    <3>2. CASE q # job
      <4>1. q \notin excused /\ thumb'[q] = thumb[q]
        BY <1>0, <2>1, <2>3, <3>0, <3>2 DEF Stored
      <4>2. thumb[q] = latest[q] \/ Asked(q)
        BY <1>c, <3>0, <3>2, <4>1 DEF Pending
      <4>3. QED
        BY <2>1, <3>1, <4>1, <4>2
    <3>3. CASE q = job
      <4>1. thumb'[q] = pixels
        BY <1>0, <2>1, <3>0, <3>3 DEF Stored
      <4>2. CASE pixels = latest[q]
        BY <2>1, <4>1, <4>2
      <4>3. CASE pixels # latest[q]
        <5>1. excused' = excused /\ Asked(q)
          BY <2>1, <2>2, <2>3, <3>0, <3>3, <4>3
        <5>2. QED
          BY <3>1, <5>1
      <4>4. QED
        BY <4>2, <4>3
    <3>4. QED
      BY <3>2, <3>3
  <2>4. QED
    BY <1>b, <2>1, <2>3 DEF Fresh
(* A crash: what it leaves outdated is excused.                            *)
<1>14. CASE Crash
  <2>1. /\ wpc' = "idle" /\ excused' = excused \cup {p \in Paths : thumb[p] # latest[p]}
        /\ UNCHANGED <<index, thumb, image, latest>>
    BY <1>14 DEF Crash, JobOver, files
  <2>2. \A q \in Indexed' \ excused' : thumb'[q] = latest'[q]
    BY <1>a, <2>1 DEF Indexed
  <2>3. QED
    BY <1>b, <2>1, <2>2 DEF Fresh
<1> QED
  BY <1>1, <1>2, <1>3, <1>4, <1>5, <1>6, <1>7, <1>8, <1>9, <1>10, <1>11, <1>12, <1>13, <1>14
  DEF Next, ClientStep

LEMMA ThumbsInductive ==
  ASSUME IndexAssumption, ThumbInv, [Next]_vars
  PROVE  ThumbInv'
<1>1. IInv'
  BY Inductive DEF ThumbInv
<1>2. Stored'
  BY StoredStays
<1>3. Queuing'
  BY QueuingStays
<1>4. Swept'
  BY SweptStays
<1>5. Fresh'
  BY <1>2, FreshStays
<1> QED
  BY <1>1, <1>2, <1>3, <1>4, <1>5 DEF ThumbInv

LEMMA ThumbsInvariance == Spec => []ThumbInv
<1>1. Init => ThumbInv
  BY ThumbsInitially, IndexAssumption
<1>2. ThumbInv /\ [Next]_vars => ThumbInv'
  BY ThumbsInductive, IndexAssumption
<1> QED
  BY <1>1, <1>2, PTL DEF Spec

(* Whenever the lock is free no thumbnail is without its entry but strays, *)
(* and at rest none is out of date, for any threads, paths and crashes.    *)
THEOREM ThumbsAlwaysFollow == Spec => []ThumbsFollow
<1>1. ThumbInv => ThumbsFollow
  <2> SUFFICES ASSUME ThumbInv PROVE ThumbsFollow
    OBVIOUS
  <2>1. ASSUME lock = Nobody PROVE Thumbs \subseteq Indexed \cup strays
    <3>1. \A c \in Clients : pc[c] # "saved"
      BY <2>1, IndexAssumption DEF ThumbInv, IInv, Exclusive, Inside, IndexAssumption
    <3>2. QED
      BY <3>1 DEF ThumbInv, Swept
  <2>2. ASSUME AtRest, NEW p \in Indexed \ excused PROVE thumb[p] = latest[p]
    <3>1. ~Pending(p)
      BY <2>2 DEF AtRest, Pending, Asked
    <3>2. QED
      BY <2>2, <3>1 DEF ThumbInv, Fresh
  <2>3. QED
    BY <2>1, <2>2 DEF ThumbsFollow, ThumbsTidy, ThumbsFresh
<1> QED
  BY <1>1, ThumbsInvariance, PTL

(* A thumbnail goes only when its entry has left the index on disk, through *)
(* any failure of a load, a save or a job.                                 *)
THEOREM ThumbsOutliveEntries == Spec => ThumbOutlivesEntry
<1>1. ThumbInv /\ [Next]_vars => [\A p \in Thumbs : thumb'[p] = 0 => p \notin Indexed']_vars
  <2> SUFFICES ASSUME ThumbInv, Next, NEW p \in Thumbs, thumb'[p] = 0 PROVE p \notin Indexed'
    OBVIOUS
  <2>0. p \in Paths /\ thumb[p] # 0 /\ Stored /\ Swept
    BY DEF Thumbs, ThumbInv
  <2>1. CASE Install
    <3>1. thumb' = thumb \/ thumb' = [thumb EXCEPT ![job] = pixels]
      BY <2>1 DEF Install
    <3>2. pixels # 0
      BY <2>0, <2>1 DEF Stored, Install
    <3>3. QED
      BY <2>0, <3>1, <3>2 DEF Stored
  <2>2. ASSUME NEW c \in Clients, Tidy(c) PROVE p \notin Indexed'
    <3>1. pc[c] = "saved" /\ snap[c] = index /\ index' = index
      BY <2>0, <2>2 DEF Tidy, Swept, At
    <3>2. thumb' = [q \in Paths |-> IF q \in (IF op[c].kind = "remove" THEN {op[c].path} ELSE Paths \ Indexed)
                                    THEN 0 ELSE thumb[q]]
      BY <2>2, <3>1 DEF Tidy, Indexed
    <3>3. p \in (IF op[c].kind = "remove" THEN {op[c].path} ELSE Paths \ Indexed)
      BY <2>0, <3>2
    <3>4. p \notin Indexed
      BY <2>0, <3>1, <3>3 DEF Swept
    <3>5. QED
      BY <3>1, <3>4 DEF Indexed
  <2>3. CASE UNCHANGED thumb
    BY <2>0, <2>3
  <2>4. CASE \/ ListEntries \/ TakeJob \/ PreCheck \/ Decode \/ JobFails \/ Crash
             \/ \E q \in Paths : UserDeletesFile(q)
    BY <2>3, <2>4 DEF ListEntries, TakeJob, PreCheck, Decode, JobFails, Crash, UserDeletesFile
  <2>5. ASSUME NEW c \in Clients, ClientStep(c), ~Tidy(c) PROVE UNCHANGED thumb
    BY <2>5 DEF ClientStep, Capture, RemoveEntry, ClearAll, Call, Acquire, Load, SkipLoad, Save,
                GiveUp, EnqueueThumbnail
  <2>6. QED
    BY <2>1, <2>2, <2>3, <2>4, <2>5 DEF Next
<1> QED
  BY <1>1, ThumbsInvariance, PTL DEF Spec, ThumbOutlivesEntry
=============================================================================
