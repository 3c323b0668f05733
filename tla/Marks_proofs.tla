---------------------------- MODULE Marks_proofs ----------------------------
(***************************************************************************)
(* Proofs about PendingMarks: the pending flag is exact. Then about        *)
(* BufferData, whose steps take those of PendingMarks: calls read, and the *)
(* program finds, what a blocking program would, and the specification     *)
(* implements BlockingCalls. Last about CallStack: a thread waits for a    *)
(* call that is active on it only for an object this call still writes.    *)
(* For any number of calls, objects and threads.                           *)
(***************************************************************************)
EXTENDS BufferData, CallStack, WellFoundedInduction, TLAPS

(* Marks and the flag *)

(* What the flag f of object o should be when its marks are m. *)
Exact(o, m, f) == f <=> writer_find(m) \/ (mark_find(m) /\ o \notin ReadOnly)

(* The inductive invariant. *)
Inv == TypeOK /\ FlagExact

-----------------------------------------------------------------------------
(* The three changes to one object's marks keep an exact flag exact. *)
LEMMA AddedExact ==
  ASSUME NEW o \in Obj, NEW m \in [Owner -> MarkKind], NEW f \in BOOLEAN,
         NEW c \in Owner, m[c] = "none", NEW k \in {"read", "write"}, Exact(o, m, f)
  PROVE  /\ FlagAdded(o, m, f, k) \in BOOLEAN
         /\ Exact(o, [m EXCEPT ![c] = k], FlagAdded(o, m, f, k))
<1> DEFINE n == [m EXCEPT ![c] = k]
<1>1. n[c] = k /\ \A d \in Owner : d # c => n[d] = m[d]
  OBVIOUS
<1>2. mark_find(n) /\ (writer_find(n) <=> k = "write" \/ writer_find(m))
  BY <1>1 DEF mark_find, writer_find
<1>3. writer_find(m) => mark_find(m)
  BY DEF mark_find, writer_find
<1> HIDE DEF n
<1>4. FlagAdded(o, m, f, k) \in BOOLEAN
  BY DEF FlagAdded, PENDING_SET, PENDING_READERS
<1>5. Exact(o, n, FlagAdded(o, m, f, k))
  BY <1>2, <1>3 DEF FlagAdded, Exact, PENDING_SET, PENDING_READERS
<1> QED
  BY <1>4, <1>5 DEF n

LEMMA MadeWriteExact ==
  ASSUME NEW o \in Obj, NEW m \in [Owner -> MarkKind], NEW f \in BOOLEAN,
         NEW c \in Owner, m[c] = "read", Exact(o, m, f)
  PROVE  /\ FlagMadeWrite(o, m, f) \in BOOLEAN
         /\ Exact(o, [m EXCEPT ![c] = "write"], FlagMadeWrite(o, m, f))
<1> DEFINE n == [m EXCEPT ![c] = "write"]
<1>1. writer_find(n)
  BY DEF writer_find
<1> HIDE DEF n
<1>2. FlagMadeWrite(o, m, f) \in BOOLEAN /\ Exact(o, n, FlagMadeWrite(o, m, f))
  BY <1>1 DEF FlagMadeWrite, Exact, PENDING_SET
<1> QED
  BY <1>2 DEF n

LEMMA RemovedExact ==
  ASSUME NEW o \in Obj, NEW m \in [Owner -> MarkKind], NEW f \in BOOLEAN,
         NEW c \in Owner, Exact(o, m, f)
  PROVE  /\ FlagRemoved(o, m, f, c) \in BOOLEAN
         /\ Exact(o, [m EXCEPT ![c] = "none"], FlagRemoved(o, m, f, c))
<1> DEFINE n == [m EXCEPT ![c] = "none"]
<1>1. n[c] = "none" /\ \A d \in Owner : d # c => n[d] = m[d]
  OBVIOUS
<1>2. /\ mark_find(m) <=> mark_find(n) \/ m[c] # "none"
      /\ writer_find(m) <=> writer_find(n) \/ m[c] = "write"
  BY <1>1 DEF mark_find, writer_find
<1>3. writer_find(n) => mark_find(n)
  BY DEF mark_find, writer_find
<1>4. FlagRemoved(o, m, f, c) = (IF m[c] = "none" THEN f
         ELSE IF ~mark_find(n) THEN FALSE
         ELSE IF m[c] = "write" /\ ~writer_find(n) THEN o \notin ReadOnly
         ELSE f)
  BY DEF FlagRemoved, PENDING_CLEAR, PENDING_READERS
<1>5. m[c] \in MarkKind
  OBVIOUS
<1> HIDE DEF n
<1>6. FlagRemoved(o, m, f, c) \in BOOLEAN /\ Exact(o, n, FlagRemoved(o, m, f, c))
  BY <1>2, <1>3, <1>4, <1>5 DEF Exact, MarkKind
<1> QED
  BY <1>6 DEF n

LEMMA OwnedExact ==
  ASSUME NEW o \in Obj, NEW m \in [Owner -> MarkKind], NEW f \in BOOLEAN,
         NEW c \in Owner, Exact(o, m, f)
  PROVE  /\ FlagOwned(o, m, f, c) \in BOOLEAN
         /\ Exact(o, [m EXCEPT ![c] = "write"], FlagOwned(o, m, f, c))
<1>1. CASE m[c] = "none"
  BY <1>1, AddedExact DEF FlagOwned
<1>2. CASE m[c] = "read"
  BY <1>2, MadeWriteExact DEF FlagOwned
<1>3. CASE m[c] = "write"
  <2>1. [m EXCEPT ![c] = "write"] = m
    BY <1>3
  <2> QED
    BY <2>1, <1>3 DEF FlagOwned
<1> QED
  BY <1>1, <1>2, <1>3 DEF MarkKind

-----------------------------------------------------------------------------
(* A step that changes the marks and the flag of one object. *)
LEMMA OneObject ==
  ASSUME Inv, NEW o \in Obj, NEW m \in [Owner -> MarkKind], NEW f \in BOOLEAN,
         Exact(o, m, f), mark' = [mark EXCEPT ![o] = m], flag' = [flag EXCEPT ![o] = f]
  PROVE  /\ mark' \in [Obj -> [Owner -> MarkKind]] /\ flag' \in [Obj -> BOOLEAN]
         /\ FlagExact'
<1>1. mark' \in [Obj -> [Owner -> MarkKind]] /\ flag' \in [Obj -> BOOLEAN]
  BY DEF Inv, TypeOK
<1>2. \A p \in Obj : Exact(p, mark[p], flag[p])
  BY DEF Inv, FlagExact, Exact
<1>3. \A p \in Obj : Exact(p, mark'[p], flag'[p])
  <2> TAKE p \in Obj
  <2>1. CASE p = o
    BY <2>1 DEF Inv, TypeOK
  <2>2. CASE p # o
    BY <2>2, <1>2 DEF Inv, TypeOK
  <2> QED
    BY <2>1, <2>2
<1> QED
  BY <1>1, <1>3 DEF FlagExact, Exact, mark_find, writer_find

(* The marks and the flag of one object, seen alone. *)
LEMMA ObjectTypes ==
  ASSUME Inv, NEW o \in Obj
  PROVE  mark[o] \in [Owner -> MarkKind] /\ flag[o] \in BOOLEAN /\ Exact(o, mark[o], flag[o])
BY DEF Inv, TypeOK, FlagExact, Exact

LEMMA MarkPendingKeeps ==
  ASSUME Inv, NEW c \in Call, NEW o \in Obj, NEW act, mark_pending(c, o, act)
  PROVE  /\ mark' \in [Obj -> [Owner -> MarkKind]] /\ flag' \in [Obj -> BOOLEAN]
         /\ FlagExact'
<1> DEFINE m == [mark[o] EXCEPT ![NoCall] = "none"]
           f == FlagRemoved(o, mark[o], flag[o], NoCall)
           n == [m EXCEPT ![c] = "write"]
           g == FlagOwned(o, m, f, c)
<1>1. c \in Owner /\ NoCall \in Owner
  BY DEF Owner
<1>2. m \in [Owner -> MarkKind] /\ f \in BOOLEAN /\ Exact(o, m, f)
  BY <1>1, ObjectTypes, RemovedExact DEF MarkKind
<1>3. mark' = [mark EXCEPT ![o] = n] /\ flag' = [flag EXCEPT ![o] = g]
  BY DEF mark_pending
<1> HIDE DEF m, f
<1>4. n \in [Owner -> MarkKind] /\ g \in BOOLEAN /\ Exact(o, n, g)
  BY <1>1, <1>2, OwnedExact DEF MarkKind
<1> HIDE DEF n, g
<1> QED
  BY <1>3, <1>4, OneObject

LEMMA MarkInputKeeps ==
  ASSUME Inv, NEW c \in Call, NEW o \in Obj, mark_input(c, o)
  PROVE  /\ mark' \in [Obj -> [Owner -> MarkKind]] /\ flag' \in [Obj -> BOOLEAN]
         /\ FlagExact'
<1>1. c \in Owner /\ mark[o] \in [Owner -> MarkKind] /\ flag[o] \in BOOLEAN
      /\ Exact(o, mark[o], flag[o])
  BY ObjectTypes DEF Owner
<1> DEFINE n == [mark[o] EXCEPT ![c] = IF @ = "none" THEN "read" ELSE @]
           g == IF mark[o][c] = "none" THEN FlagAdded(o, mark[o], flag[o], "read") ELSE flag[o]
<1>2. mark' = [mark EXCEPT ![o] = n] /\ flag' = [flag EXCEPT ![o] = g]
  BY <1>1 DEF mark_input, Inv, TypeOK
<1>3. n \in [Owner -> MarkKind] /\ g \in BOOLEAN /\ Exact(o, n, g)
  <2>1. CASE mark[o][c] = "none"
    BY <2>1, <1>1, AddedExact DEF MarkKind
  <2>2. CASE mark[o][c] # "none"
    <3>1. n = mark[o] /\ g = flag[o]
      BY <2>2, <1>1
    <3> QED
      BY <3>1, <1>1
  <2> QED
    BY <2>1, <2>2
<1> HIDE DEF n, g
<1> QED
  BY <1>2, <1>3, OneObject

(* The mark of one owner on one object goes away. *)
RemovesOne(c, o) ==
    /\ mark' = [mark EXCEPT ![o][c] = "none"]
    /\ flag' = [flag EXCEPT ![o] = FlagRemoved(o, mark[o], @, c)]

LEMMA RemoveOneKeeps ==
  ASSUME Inv, NEW c \in Owner, NEW o \in Obj, RemovesOne(c, o)
  PROVE  /\ mark' \in [Obj -> [Owner -> MarkKind]] /\ flag' \in [Obj -> BOOLEAN]
         /\ FlagExact'
<1> DEFINE n == [mark[o] EXCEPT ![c] = "none"]
           g == FlagRemoved(o, mark[o], flag[o], c)
<1>1. mark' = [mark EXCEPT ![o] = n] /\ flag' = [flag EXCEPT ![o] = g]
  BY DEF RemovesOne, Inv, TypeOK
<1>2. n \in [Owner -> MarkKind] /\ g \in BOOLEAN /\ Exact(o, n, g)
  BY ObjectTypes, RemovedExact DEF MarkKind
<1> HIDE DEF n, g
<1> QED
  BY <1>1, <1>2, OneObject

LEMMA MarkSharedKeeps ==
  ASSUME Inv, NEW c \in Call, NEW o \in Obj, SharedMark(c, o)
  PROVE  /\ mark' \in [Obj -> [Owner -> MarkKind]] /\ flag' \in [Obj -> BOOLEAN]
         /\ FlagExact'
<1> DEFINE n == [mark[o] EXCEPT ![c] = "write"]
           g == FlagOwned(o, mark[o], flag[o], c)
<1>1. mark' = [mark EXCEPT ![o] = n] /\ flag' = [flag EXCEPT ![o] = g]
  BY DEF SharedMark, Inv, TypeOK
<1>2. n \in [Owner -> MarkKind] /\ g \in BOOLEAN /\ Exact(o, n, g)
  BY ObjectTypes, OwnedExact DEF MarkKind, Owner
<1> HIDE DEF n, g
<1> QED
  BY <1>1, <1>2, OneObject

LEMMA MarkOwnerlessKeeps ==
  ASSUME Inv, NEW o \in Obj, MarkOwnerless(o)
  PROVE  /\ mark' \in [Obj -> [Owner -> MarkKind]] /\ flag' \in [Obj -> BOOLEAN]
         /\ FlagExact'
<1> DEFINE m == [mark[o] EXCEPT ![NoCall] = "none"]
           f == FlagRemoved(o, mark[o], flag[o], NoCall)
           n == [m EXCEPT ![NoCall] = "write"]
           g == FlagAdded(o, m, f, "write")
<1>1. NoCall \in Owner
  BY DEF Owner
<1>2. m \in [Owner -> MarkKind] /\ f \in BOOLEAN /\ Exact(o, m, f) /\ m[NoCall] = "none"
  BY <1>1, ObjectTypes, RemovedExact DEF MarkKind
<1>3. mark' = [mark EXCEPT ![o] = n] /\ flag' = [flag EXCEPT ![o] = g]
  <2>1. [mark[o] EXCEPT ![NoCall] = "write"] = n
    BY <1>1, ObjectTypes
  <2> QED
    BY <2>1 DEF MarkOwnerless, Inv, TypeOK
<1> HIDE DEF m, f
<1>4. n \in [Owner -> MarkKind] /\ g \in BOOLEAN /\ Exact(o, n, g)
  BY <1>1, <1>2, AddedExact DEF MarkKind
<1> HIDE DEF n, g
<1> QED
  BY <1>3, <1>4, OneObject

LEMMA CompleteKeeps ==
  ASSUME Inv, NEW c \in Call, Complete(c)
  PROVE  /\ mark' \in [Obj -> [Owner -> MarkKind]] /\ flag' \in [Obj -> BOOLEAN]
         /\ FlagExact'
<1>1. ASSUME NEW o \in Obj
      PROVE  mark'[o] \in [Owner -> MarkKind] /\ flag'[o] \in BOOLEAN
             /\ Exact(o, mark'[o], flag'[o])
  <2> DEFINE n == [mark[o] EXCEPT ![c] = "none"]
             g == FlagRemoved(o, mark[o], flag[o], c)
  <2>1. mark'[o] = n /\ flag'[o] = g
    BY DEF Complete
  <2>2. n \in [Owner -> MarkKind] /\ g \in BOOLEAN /\ Exact(o, n, g)
    BY ObjectTypes, RemovedExact DEF MarkKind, Owner
  <2> HIDE DEF n, g
  <2> QED
    BY <2>1, <2>2
<1>2. mark' = [o \in Obj |-> mark'[o]] /\ flag' = [o \in Obj |-> flag'[o]]
  BY DEF Complete
<1> QED
  BY <1>1, <1>2 DEF FlagExact, Exact, mark_find, writer_find

-----------------------------------------------------------------------------
(* The stub's current argument is an object. *)
LEMMA ArgTypes ==
  ASSUME TypeOK, NEW c \in Call
  PROVE  /\ at[c] =< Len(shape[c].out) => shape[c].out[at[c]] \in Obj
         /\ at[c] =< Len(Args(c)) => Args(c)[at[c]] \in Obj
         /\ at[c] + 1 \in Nat \ {0}
<1>1. at[c] \in Nat /\ at[c] >= 1 /\ shape[c] \in Shapes
  BY DEF TypeOK
<1>2. shape[c].out \in Seq(Obj) /\ shape[c].in \in Seq(Obj)
  BY <1>1, ShapesType
<1>3. Args(c) \in Seq(Obj)
  BY <1>2 DEF Args
<1> DEFINE a == shape[c].out
           b == Args(c)
<1>4. a \in Seq(Obj) /\ b \in Seq(Obj)
  BY <1>2, <1>3
<1> HIDE DEF a, b
<1>5. (at[c] =< Len(a) => a[at[c]] \in Obj) /\ (at[c] =< Len(b) => b[at[c]] \in Obj)
  BY <1>1, <1>4
<1> QED
  BY <1>1, <1>5 DEF a, b

(* Every step keeps the types and the exactness of the flag. *)
LEMMA StepKeeps == Inv /\ [Next]_markVars => Inv'
<1> SUFFICES ASSUME Inv, [Next]_markVars PROVE Inv'
  OBVIOUS
<1> USE DEF Inv
<1>1. ASSUME NEW c \in Call, Begin(c) \/ Submit(c) PROVE Inv'
  <2>1. UNCHANGED <<shape, at, mark, flag>>
    BY <1>1 DEF Begin, Submit
  <2>2. stage' \in [Call -> {"new", "stub", "submitted", "done"}]
    BY <1>1 DEF Begin, Submit, TypeOK
  <2>3. TypeOK'
    BY <2>1, <2>2 DEF TypeOK
  <2>4. FlagExact'
    BY <2>1 DEF FlagExact, mark_find, writer_find
  <2> QED
    BY <2>3, <2>4
<1>2. ASSUME NEW c \in Call, NEW act, MarkPending(c, act) PROVE Inv'
  <2>1. shape[c].out[at[c]] \in Obj /\ at[c] + 1 \in Nat \ {0}
    BY <1>2, ArgTypes DEF MarkPending
  <2>2. mark' \in [Obj -> [Owner -> MarkKind]] /\ flag' \in [Obj -> BOOLEAN] /\ FlagExact'
    BY <2>1, <1>2, MarkPendingKeeps DEF MarkPending
  <2> QED
    BY <2>1, <2>2, <1>2 DEF MarkPending, TypeOK
<1>3. ASSUME NEW c \in Call, MarkInput(c) PROVE Inv'
  <2>1. Args(c)[at[c]] \in Obj /\ at[c] + 1 \in Nat \ {0}
    BY <1>3, ArgTypes DEF MarkInput
  <2>2. mark' \in [Obj -> [Owner -> MarkKind]] /\ flag' \in [Obj -> BOOLEAN] /\ FlagExact'
    BY <2>1, <1>3, MarkInputKeeps DEF MarkInput
  <2> QED
    BY <2>1, <2>2, <1>3 DEF MarkInput, TypeOK
<1>4. ASSUME NEW c \in Call, Complete(c) PROVE Inv'
  BY <1>4, CompleteKeeps DEF Complete, TypeOK
<1>5. ASSUME NEW c \in Call, NEW o \in Obj, MarkShared(c, o) PROVE Inv'
  BY <1>5, MarkSharedKeeps DEF MarkShared, SharedMark, TypeOK
<1>6. ASSUME NEW c \in Call, NEW o \in Obj, ResolveBuffer(c, o) PROVE Inv'
  <2>1. c \in Owner
    BY DEF Owner
  <2>2. mark' \in [Obj -> [Owner -> MarkKind]] /\ flag' \in [Obj -> BOOLEAN] /\ FlagExact'
    BY <2>1, <1>6, RemoveOneKeeps DEF ResolveBuffer, RemovesOne
  <2> QED
    BY <2>2, <1>6 DEF ResolveBuffer, TypeOK
<1>7. ASSUME NEW o \in Obj, MarkOwnerless(o) PROVE Inv'
  BY <1>7, MarkOwnerlessKeeps DEF MarkOwnerless, TypeOK
<1>8. ASSUME NEW o \in Obj, MarkResolved(o) \/ DropOwnerless(o) PROVE Inv'
  <2>1. CASE MarkResolved(o)
    BY <2>1, RemoveOneKeeps DEF MarkResolved, RemovesOne, TypeOK
  <2>2. CASE DropOwnerless(o)
    <3>1. NoCall \in Owner
      BY DEF Owner
    <3> QED
      BY <3>1, <2>2, RemoveOneKeeps DEF DropOwnerless, RemovesOne, TypeOK
  <2> QED
    BY <1>8, <2>1, <2>2
<1>9. CASE UNCHANGED markVars
  BY <1>9 DEF markVars, TypeOK, FlagExact, mark_find, writer_find
<1> QED
  BY <1>1, <1>2, <1>3, <1>4, <1>5, <1>6, <1>7, <1>8, <1>9 DEF Next

LEMMA InitInv == Init => Inv
BY DEF Init, Inv, TypeOK, FlagExact, mark_find, writer_find, MarkKind

(* The types of the marks and the flag. *)
THEOREM MarkTypes == Spec => []TypeOK
<1>1. Inv => TypeOK
  BY DEF Inv
<1> QED
  BY InitInv, StepKeeps, <1>1, PTL DEF Spec

(* The flag compiled code tests without a lock is exact, whatever calls,   *)
(* runtimes and the program do with the marks.                             *)
THEOREM FlagIsExact == Spec => []FlagExact
<1>1. Inv => FlagExact
  BY DEF Inv
<1> QED
  BY InitInv, StepKeeps, <1>1, PTL DEF Spec

-----------------------------------------------------------------------------
(* The data *)

(* What the stages of a call allow: only a call in its stub or at its      *)
(* runtime owns objects, and only at its runtime has it begun to read; in  *)
(* the stub the objects passed are those it owns, outputs first.           *)
Stages ==
    \A c \in Call, o \in Obj :
        /\ mark[o][c] # "none" => stage[c] \in {"stub", "submitted"} /\ input[c][o] # NoData
        /\ stage[c] # "submitted" => seen[c][o] = NoData /\ ready[c] = {}
        /\ stage[c] # "submitted" /\ input[c][o] # NoData => mark[o][c] # "none"
        /\ stage[c] = "stub" /\ at[c] =< Len(shape[c].out) => mark[o][c] # "read"

(* A reader still expects what the program believes the object holds. *)
Expected == \A c \in Call, o \in Obj : mark[o][c] = "read" => input[c][o] = Mem(o)

(* An object being produced holds what it held before, or the output. *)
Produced ==
    \A c \in Call, o \in Obj :
        mark[o][c] = "write" => \/ content[o] = input[c][o]
                                \/ content[o] = c /\ ~shape[c].fails

(* The inductive invariant. *)
DInv ==
    /\ DataTypeOK
    /\ FlagExact
    /\ Stages
    /\ WriterAlone
    /\ Expected
    /\ Produced
    /\ ReadsAsIfBlocking

-----------------------------------------------------------------------------
(* Mem(o) as a function of o's marks m, of the calls' shapes and of o's    *)
(* content x, so that it can be spoken of before and after a step.         *)
MemOf(m, sh, x) ==
    IF \E c \in Call : m[c] = "write" /\ ~sh[c].fails
    THEN CHOOSE c \in Call : m[c] = "write" /\ ~sh[c].fails
    ELSE x

AtMostOneWriter(m) == \A c, d \in Call : m[c] = "write" /\ m[d] = "write" => c = d

LEMMA MemIs ==
  ASSUME NEW o \in Obj
  PROVE  Mem(o) = MemOf(mark[o], shape, content[o])
BY DEF Mem, MemOf

LEMMA MemIsAfter ==
  ASSUME NEW o \in Obj
  PROVE  Mem(o)' = MemOf(mark'[o], shape', content'[o])
BY DEF Mem, MemOf

LEMMA MemOfNone ==
  ASSUME NEW m, NEW sh, NEW x, \A c \in Call : m[c] # "write"
  PROVE  MemOf(m, sh, x) = x
BY DEF MemOf

LEMMA MemOfWriter ==
  ASSUME NEW m, NEW sh, NEW x, NEW c \in Call, m[c] = "write", AtMostOneWriter(m)
  PROVE  MemOf(m, sh, x) = IF sh[c].fails THEN x ELSE c
<1>1. CASE sh[c].fails
  <2>1. ~\E d \in Call : m[d] = "write" /\ ~sh[d].fails
    BY <1>1 DEF AtMostOneWriter
  <2> QED
    BY <1>1, <2>1 DEF MemOf
<1>2. CASE ~sh[c].fails
  <2>1. \A d \in Call : m[d] = "write" /\ ~sh[d].fails <=> d = c
    BY <1>2 DEF AtMostOneWriter
  <2>2. (CHOOSE d \in Call : m[d] = "write" /\ ~sh[d].fails) = c
    BY <2>1, <1>2, Zenon
  <2> QED
    BY <1>2, <2>2 DEF MemOf
<1> QED
  BY <1>1, <1>2

LEMMA MemOfSame ==
  ASSUME NEW m, NEW n, NEW sh, NEW x, AtMostOneWriter(m),
         \A c \in Call : m[c] = "write" <=> n[c] = "write"
  PROVE  MemOf(m, sh, x) = MemOf(n, sh, x)
<1>1. CASE \A c \in Call : m[c] # "write"
  BY <1>1, MemOfNone
<1>2. CASE \E c \in Call : m[c] = "write"
  <2>1. PICK c \in Call : m[c] = "write"
    BY <1>2
  <2>2. AtMostOneWriter(n) /\ n[c] = "write"
    BY <2>1 DEF AtMostOneWriter
  <2> QED
    BY <2>1, <2>2, MemOfWriter
<1> QED
  BY <1>1, <1>2

LEMMA OneWriter ==
  ASSUME WriterAlone, NEW o \in Obj
  PROVE  AtMostOneWriter(mark[o])
BY DEF WriterAlone, AtMostOneWriter

(* What the program believes of an object depends on nothing but who       *)
(* produces it and what it holds.                                          *)
LEMMA MemUnchanged ==
  ASSUME WriterAlone, NEW o \in Obj, shape' = shape, content'[o] = content[o],
         \A c \in Call : mark[o][c] = "write" <=> mark'[o][c] = "write"
  PROVE  Mem(o)' = Mem(o)
BY OneWriter, MemIs, MemIsAfter, MemOfSame

-----------------------------------------------------------------------------
(* The part of the invariant that is not about marks alone. *)
DataTypes ==
    /\ content \in [Obj -> Data]
    /\ input \in [Call -> [Obj -> Data \cup {NoData}]]
    /\ seen \in [Call -> [Obj -> Data \cup {NoData}]]
    /\ ready \in [Call -> SUBSET Obj]

DataInv == DataTypes /\ Stages /\ WriterAlone /\ Expected /\ Produced /\ ReadsAsIfBlocking

LEMMA DInvIs == DInv <=> Inv /\ DataInv
BY DEF DInv, Inv, DataInv, DataTypes, DataTypeOK

(* A step of BufferData is a step, or a stutter, of BlockingCalls. *)
Refines == Blocking!Next \/ UNCHANGED Blocking!blockingVars

(* Whatever the program believes is data. *)
LEMMA MemType ==
  ASSUME DInv, NEW o \in Obj
  PROVE  Mem(o) \in Data
<1>1. content[o] \in Data
  BY DEF DInv, DataTypeOK
<1>2. CASE \A c \in Call : mark[o][c] # "write"
  BY <1>1, <1>2, MemIs, MemOfNone
<1>3. CASE \E c \in Call : mark[o][c] = "write"
  <2>1. PICK c \in Call : mark[o][c] = "write"
    BY <1>3
  <2>2. Mem(o) = IF shape[c].fails THEN content[o] ELSE c
    BY <2>1, MemIs, MemOfWriter, OneWriter DEF DInv
  <2> QED
    BY <2>2, <1>1 DEF Data
<1> QED
  BY <1>2, <1>3

(* Steps that touch neither marks, arguments nor data, as the entry of a   *)
(* stub and the submission of a call.                                      *)
LEMMA StubBeginKeeps ==
  ASSUME DInv, NEW c \in Call, StubBegin(c) \/ StubSubmits(c)
  PROVE  DataInv' /\ Refines
<1>1. UNCHANGED <<shape, at, mark, content, input, seen, ready>>
  BY DEF StubBegin, StubSubmits, Begin, Submit, dataVars
<1>2. \A o \in Obj : Mem(o)' = Mem(o)
  BY <1>1, MemUnchanged DEF DInv
<1>3. \/ stage[c] = "new" /\ stage' = [stage EXCEPT ![c] = "stub"]
      \/ stage[c] = "stub" /\ stage' = [stage EXCEPT ![c] = "submitted"]
         /\ at[c] > Len(Args(c))
  BY DEF StubBegin, StubSubmits, Begin, Submit
<1>4. Stages'
  <2> SUFFICES ASSUME NEW d \in Call, NEW o \in Obj
               PROVE  /\ mark[o][d] # "none" =>
                            stage'[d] \in {"stub", "submitted"} /\ input[d][o] # NoData
                      /\ stage'[d] # "submitted" => seen[d][o] = NoData /\ ready[d] = {}
                      /\ stage'[d] # "submitted" /\ input[d][o] # NoData => mark[o][d] # "none"
                      /\ stage'[d] = "stub" /\ at[d] =< Len(shape[d].out) => mark[o][d] # "read"
    BY <1>1 DEF Stages
  <2>1. CASE d # c
    <3>1. stage'[d] = stage[d]
      BY <2>1, <1>3 DEF DInv, DataTypeOK, TypeOK
    <3> QED
      BY <3>1 DEF DInv, Stages
  <2>2. CASE d = c
    <3>1. CASE stage[c] = "new"
      <4>1. mark[o][c] = "none" /\ stage'[c] = "stub"
        BY <3>1, <1>3 DEF DInv, Stages, DataTypeOK, TypeOK
      <4> QED
        BY <4>1, <3>1, <2>2 DEF DInv, Stages
    <3>2. CASE stage[c] = "stub"
      <4>1. stage'[c] = "submitted"
        BY <3>2, <1>3 DEF DInv, DataTypeOK, TypeOK
      <4> QED
        BY <4>1, <2>2 DEF DInv, Stages
    <3> QED
      BY <3>1, <3>2, <1>3
  <2> QED
    BY <2>1, <2>2
<1>5. WriterAlone' /\ Produced' /\ ReadsAsIfBlocking' /\ DataTypes'
  BY <1>1 DEF DInv, WriterAlone, Produced, ReadsAsIfBlocking, DataTypes, DataTypeOK
<1>6. Expected'
  BY <1>1, <1>2 DEF DInv, Expected
<1>7. Refines
  BY <1>1, <1>2 DEF Refines, Blocking!blockingVars
<1> QED
  BY <1>4, <1>5, <1>6, <1>7 DEF DataInv

(* An output mark: nobody else owns the object, so it holds what the       *)
(* program believes, and becomes the call's.                               *)
LEMMA StubMarksOutputKeeps ==
  ASSUME DInv, NEW c \in Call, StubMarksOutput(c)
  PROVE  DataInv' /\ Refines
<1>0. PICK o \in Obj : o = shape[c].out[at[c]]
  BY ArgTypes DEF StubMarksOutput, MarkPending, DInv, DataTypeOK
<1>1. /\ stage[c] = "stub" /\ at[c] =< Len(shape[c].out) /\ at[c] \in Nat
      /\ UNCHANGED <<shape, stage, content, seen, ready>>
      /\ mark_pending(c, o, {})
      /\ at' = [at EXCEPT ![c] = @ + 1]
      /\ input' = [input EXCEPT ![c][o] = IF @ = NoData THEN Mem(o) ELSE @]
  BY <1>0 DEF StubMarksOutput, MarkPending, Passes, DInv, DataTypeOK, TypeOK
<1>2. mark[o][c] \in {"none", "write"}
  BY <1>1 DEF DInv, Stages, DataTypeOK, TypeOK, Owner, MarkKind
<1>3. \A d \in Call : d # c => mark[o][d] = "none"
  <2> SUFFICES ASSUME NEW d \in Call, d # c PROVE mark[o][d] = "none"
    OBVIOUS
  <2>1. mark[o][d] # "write" /\ mark[o][d] # "read"
    BY <1>1 DEF mark_pending, mark_find_other
  <2>2. mark[o][d] \in MarkKind
    BY <1>1 DEF DInv, DataTypeOK, TypeOK, Owner
  <2> QED
    BY <2>1, <2>2 DEF MarkKind
<1>4. \A p \in Obj : p # o => mark'[p] = mark[p]
  BY <1>1 DEF mark_pending, DInv, DataTypeOK, TypeOK
<1>5. mark'[o][c] = "write" /\ \A d \in Call : d # c => mark'[o][d] = "none"
  BY <1>1, <1>3, NoCallIsNot DEF mark_pending, DInv, DataTypeOK, TypeOK, Owner
<1>6. \A d \in Call, p \in Obj : d # c \/ p # o =>
         input'[d][p] = input[d][p] /\ mark'[p][d] = mark[p][d]
  BY <1>1, <1>3, <1>4, <1>5 DEF DInv, DataTypeOK
<1>7. input'[c][o] = IF input[c][o] = NoData THEN Mem(o) ELSE input[c][o]
  BY <1>1 DEF DInv, DataTypeOK
<1>8. Mem(o) \in Data /\ Mem(o) # NoData /\ content[o] \in Data
  BY <1>1, MemType, NoDataIsNot DEF Data, DInv, DataTypeOK
<1>9. \A p \in Obj : p # o => Mem(p)' = Mem(p)
  BY <1>1, <1>4, MemUnchanged DEF DInv
<1>10. (input[c][o] = NoData) <=> (mark[o][c] = "none")
  BY <1>1 DEF DInv, Stages
<1>11. /\ mark[o][c] = "none" => Mem(o) = content[o]
       /\ mark[o][c] = "write" => Mem(o)' = Mem(o)
       /\ Mem(o)' = IF shape[c].fails THEN content[o] ELSE c
  <2>1. AtMostOneWriter(mark'[o]) /\ AtMostOneWriter(mark[o])
    BY <1>3, <1>5 DEF AtMostOneWriter
  <2>2. Mem(o)' = IF shape[c].fails THEN content[o] ELSE c
    <3>1. Mem(o)' = MemOf(mark'[o], shape, content[o])
      BY <1>1, MemIsAfter
    <3>2. MemOf(mark'[o], shape, content[o]) = IF shape[c].fails THEN content[o] ELSE c
      BY <2>1, <1>5, MemOfWriter, Zenon
    <3> QED
      BY <3>1, <3>2
  <2>3. mark[o][c] = "write" => Mem(o) = IF shape[c].fails THEN content[o] ELSE c
    BY <2>1, MemIs, MemOfWriter
  <2>4. mark[o][c] = "none" => Mem(o) = content[o]
    BY <1>3, MemIs, MemOfNone
  <2> QED
    BY <2>2, <2>3, <2>4
<1>12. Refines
  <2>1. CASE mark[o][c] = "none"
    <3>1. input' = [input EXCEPT ![c][o] = Mem(o)] /\ input[c][o] = NoData
      BY <2>1, <1>1, <1>10 DEF DInv, DataTypeOK
    <3>2. [p \in Obj |-> Mem(p)]' = [[p \in Obj |-> Mem(p)] EXCEPT ![o] = Mem(o)']
      BY <1>9
    <3>3. Mem(o)' \in {Mem(o), c} /\ Mem(o)' \in Data
      BY <2>1, <1>8, <1>11 DEF Data
    <3>4. Blocking!CallArg(c, o, Mem(o)')
      BY <3>1, <3>2, <3>3, <1>1 DEF Blocking!CallArg
    <3> QED
      BY <3>3, <3>4 DEF Refines, Blocking!Next, Blocking!Data, Data
  <2>2. CASE mark[o][c] = "write"
    <3>1. input' = input
      BY <2>2, <1>1, <1>10 DEF DInv, DataTypeOK
    <3>2. \A p \in Obj : Mem(p)' = Mem(p)
      BY <2>2, <1>9, <1>11
    <3> QED
      BY <3>1, <3>2, <1>1 DEF Refines, Blocking!blockingVars
  <2> QED
    BY <2>1, <2>2, <1>2
<1>13. DataTypes'
  BY <1>1, <1>8 DEF DInv, DataTypeOK, DataTypes
<1>14. Stages'
  <2> SUFFICES ASSUME NEW d \in Call, NEW p \in Obj
               PROVE  /\ mark'[p][d] # "none" =>
                            stage[d] \in {"stub", "submitted"} /\ input'[d][p] # NoData
                      /\ stage[d] # "submitted" => seen[d][p] = NoData /\ ready[d] = {}
                      /\ stage[d] # "submitted" /\ input'[d][p] # NoData => mark'[p][d] # "none"
                      /\ stage[d] = "stub" /\ at'[d] =< Len(shape[d].out) => mark'[p][d] # "read"
    BY <1>1 DEF Stages
  <2>1. CASE d = c /\ p = o
    BY <2>1, <1>1, <1>5, <1>7, <1>8 DEF DInv, Stages
  <2>2. CASE d # c
    <3>1. at'[d] = at[d] /\ input'[d][p] = input[d][p] /\ mark'[p][d] = mark[p][d]
      BY <2>2, <1>1, <1>6 DEF DInv, DataTypeOK, TypeOK
    <3> QED
      BY <3>1 DEF DInv, Stages
  <2>3. CASE d = c /\ p # o
    <3>1. at'[c] = at[c] + 1 /\ mark[p][c] # "read"
      BY <1>1 DEF DInv, Stages, DataTypeOK, TypeOK
    <3> QED
      BY <2>3, <3>1, <1>1, <1>6 DEF DInv, Stages
  <2> QED
    BY <2>1, <2>2, <2>3
<1>15. WriterAlone'
  BY <1>1, <1>5, <1>6 DEF DInv, WriterAlone
<1>16. Expected'
  <2> SUFFICES ASSUME NEW d \in Call, NEW p \in Obj, mark'[p][d] = "read"
               PROVE  input'[d][p] = Mem(p)'
    BY DEF Expected
  <2>1. p # o
    BY <1>5
  <2> QED
    BY <2>1, <1>6, <1>9 DEF DInv, Expected
<1>17. Produced'
  <2> SUFFICES ASSUME NEW d \in Call, NEW p \in Obj, mark'[p][d] = "write"
               PROVE  content[p] = input'[d][p] \/ (content[p] = d /\ ~shape[d].fails)
    BY <1>1 DEF Produced
  <2>1. CASE d = c /\ p = o
    BY <2>1, <1>2, <1>7, <1>10, <1>11 DEF DInv, Produced
  <2>2. CASE d # c \/ p # o
    BY <2>2, <1>6 DEF DInv, Produced
  <2> QED
    BY <2>1, <2>2
<1>18. ReadsAsIfBlocking'
  BY <1>1, <1>6 DEF DInv, ReadsAsIfBlocking, Stages
<1> QED
  BY <1>12, <1>13, <1>14, <1>15, <1>16, <1>17, <1>18 DEF DataInv

(* An input mark: the call joins the object's owners as a reader, and what *)
(* the program believes does not change.                                   *)
LEMMA StubMarksInputKeeps ==
  ASSUME DInv, NEW c \in Call, StubMarksInput(c)
  PROVE  DataInv' /\ Refines
<1>0. PICK o \in Obj : o = Args(c)[at[c]]
  BY ArgTypes DEF StubMarksInput, MarkInput, DInv, DataTypeOK
<1>1. /\ stage[c] = "stub" /\ at[c] > Len(shape[c].out) /\ at[c] \in Nat
      /\ UNCHANGED <<shape, stage, content, seen, ready>>
      /\ mark_input(c, o)
      /\ at' = [at EXCEPT ![c] = @ + 1]
      /\ input' = [input EXCEPT ![c][o] = IF @ = NoData THEN Mem(o) ELSE @]
  BY <1>0 DEF StubMarksInput, MarkInput, Passes, DInv, DataTypeOK, TypeOK
<1>2. mark[o][c] \in MarkKind
  BY DEF DInv, DataTypeOK, TypeOK, Owner
<1>3. mark'[o][c] = IF mark[o][c] = "none" THEN "read" ELSE mark[o][c]
  BY <1>1 DEF mark_input, DInv, DataTypeOK, TypeOK, Owner
<1>4. \A d \in Call, p \in Obj : d # c \/ p # o =>
         input'[d][p] = input[d][p] /\ mark'[p][d] = mark[p][d]
  BY <1>1 DEF mark_input, DInv, DataTypeOK, TypeOK, Owner
<1>5. input'[c][o] = IF input[c][o] = NoData THEN Mem(o) ELSE input[c][o]
  BY <1>1 DEF DInv, DataTypeOK
<1>6. Mem(o) \in Data /\ Mem(o) # NoData
  BY MemType, NoDataIsNot DEF Data
<1>7. \A p \in Obj, d \in Call : mark[p][d] = "write" <=> mark'[p][d] = "write"
  BY <1>3, <1>4
<1>8. \A p \in Obj : Mem(p)' = Mem(p)
  BY <1>1, <1>7, MemUnchanged DEF DInv
<1>9. (input[c][o] = NoData) <=> (mark[o][c] = "none")
  BY <1>1 DEF DInv, Stages
<1>10. seen[c][o] = NoData /\ ready[c] = {}
  BY <1>1 DEF DInv, Stages
<1>11. Refines
  <2>1. CASE mark[o][c] = "none"
    <3>1. input' = [input EXCEPT ![c][o] = Mem(o)] /\ input[c][o] = NoData
      BY <2>1, <1>1, <1>9 DEF DInv, DataTypeOK
    <3>2. [p \in Obj |-> Mem(p)]' = [[p \in Obj |-> Mem(p)] EXCEPT ![o] = Mem(o)]
      BY <1>8
    <3>3. Blocking!CallArg(c, o, Mem(o))
      BY <3>1, <3>2, <1>1 DEF Blocking!CallArg
    <3> QED
      BY <1>6, <3>3 DEF Refines, Blocking!Next, Blocking!Data, Data
  <2>2. CASE mark[o][c] # "none"
    <3>1. input' = input
      BY <2>2, <1>1, <1>9 DEF DInv, DataTypeOK
    <3> QED
      BY <3>1, <1>8, <1>1 DEF Refines, Blocking!blockingVars
  <2> QED
    BY <2>1, <2>2
<1>12. DataTypes'
  BY <1>1, <1>6 DEF DInv, DataTypeOK, DataTypes
<1>13. Stages'
  <2> SUFFICES ASSUME NEW d \in Call, NEW p \in Obj
               PROVE  /\ mark'[p][d] # "none" =>
                            stage[d] \in {"stub", "submitted"} /\ input'[d][p] # NoData
                      /\ stage[d] # "submitted" => seen[d][p] = NoData /\ ready[d] = {}
                      /\ stage[d] # "submitted" /\ input'[d][p] # NoData => mark'[p][d] # "none"
                      /\ stage[d] = "stub" /\ at'[d] =< Len(shape[d].out) => mark'[p][d] # "read"
    BY <1>1 DEF Stages
  <2>1. CASE d # c
    <3>1. at'[d] = at[d] /\ input'[d][p] = input[d][p] /\ mark'[p][d] = mark[p][d]
      BY <2>1, <1>1, <1>4 DEF DInv, DataTypeOK, TypeOK
    <3> QED
      BY <3>1 DEF DInv, Stages
  <2>2. CASE d = c
    <3>1. ~(at'[c] =< Len(shape[c].out))
      <4>1. at'[c] = at[c] + 1
        BY <1>1 DEF DInv, DataTypeOK, TypeOK
      <4>2. Len(shape[c].out) \in Nat
        BY ShapesType DEF DInv, DataTypeOK, TypeOK
      <4> QED
        BY <4>1, <4>2, <1>1
    <3>2. CASE p = o
      BY <2>2, <3>1, <3>2, <1>1, <1>3, <1>5, <1>6, <1>10 DEF DInv, Stages
    <3>3. CASE p # o
      BY <2>2, <3>1, <3>3, <1>1, <1>4 DEF DInv, Stages
    <3> QED
      BY <3>2, <3>3
  <2> QED
    BY <2>1, <2>2
<1>14. WriterAlone'
  <2> SUFFICES ASSUME NEW d \in Call, NEW e \in Call, NEW p \in Obj,
                      mark'[p][d] = "write", mark'[p][e] # "none", d # e
               PROVE  mark'[p][e] = "read" /\ seen[e][p] = NoData /\ p \notin ready[e]
    BY <1>1 DEF WriterAlone
  <2>1. mark[p][d] = "write"
    BY <1>7
  <2>2. CASE e = c /\ p = o /\ mark[o][c] = "none"
    BY <2>2, <1>3, <1>10
  <2>3. CASE mark'[p][e] = mark[p][e]
    BY <2>1, <2>3 DEF DInv, WriterAlone
  <2> QED
    BY <2>2, <2>3, <1>3, <1>4
<1>15. Expected'
  <2> SUFFICES ASSUME NEW d \in Call, NEW p \in Obj, mark'[p][d] = "read"
               PROVE  input'[d][p] = Mem(p)
    BY <1>8 DEF Expected
  <2>1. CASE d = c /\ p = o
    BY <2>1, <1>3, <1>5, <1>9 DEF DInv, Expected
  <2>2. CASE d # c \/ p # o
    BY <2>2, <1>4 DEF DInv, Expected
  <2> QED
    BY <2>1, <2>2
<1>16. Produced'
  <2> SUFFICES ASSUME NEW d \in Call, NEW p \in Obj, mark'[p][d] = "write"
               PROVE  content[p] = input'[d][p] \/ (content[p] = d /\ ~shape[d].fails)
    BY <1>1 DEF Produced
  <2>1. mark[p][d] = "write"
    BY <1>7
  <2>2. input'[d][p] = input[d][p]
    BY <2>1, <1>4, <1>5, <1>9
  <2> QED
    BY <2>1, <2>2 DEF DInv, Produced
<1>17. ReadsAsIfBlocking'
  BY <1>1, <1>4, <1>10 DEF DInv, ReadsAsIfBlocking
<1> QED
  BY <1>11, <1>12, <1>13, <1>14, <1>15, <1>16, <1>17 DEF DataInv

(* A wait that is over: only what the runtime may read next grows, and no  *)
(* other call is producing it.                                             *)
LEMMA RuntimeWaitsKeeps ==
  ASSUME DInv, NEW c \in Call, NEW o \in Obj, RuntimeWaits(c, o)
  PROVE  DataInv' /\ Refines
<1>1. /\ UNCHANGED <<shape, stage, at, mark, content, input, seen>>
      /\ stage[c] = "submitted"
      /\ wait_buffer_for(o, c, c) = {}
  BY DEF RuntimeWaits, markVars
<1>2. ready'[c] = ready[c] \cup {o} /\ \A d \in Call : d # c => ready'[d] = ready[d]
  BY DEF RuntimeWaits, DInv, DataTypeOK
<1>3. \A p \in Obj : Mem(p)' = Mem(p)
  BY <1>1, MemUnchanged DEF DInv
<1>4. DataTypes'
  BY <1>1 DEF RuntimeWaits, DInv, DataTypeOK, DataTypes
<1>5. Stages'
  BY <1>1, <1>2 DEF DInv, Stages
<1>6. WriterAlone'
  <2> SUFFICES ASSUME NEW d \in Call, NEW e \in Call, NEW p \in Obj,
                      mark[p][d] = "write", mark[p][e] # "none", d # e
               PROVE  mark[p][e] = "read" /\ seen[e][p] = NoData /\ p \notin ready'[e]
    BY <1>1 DEF WriterAlone
  <2>1. ~(e = c /\ p = o)
    BY <1>1 DEF wait_buffer_for
  <2> QED
    BY <2>1, <1>2 DEF DInv, WriterAlone
<1>7. Expected' /\ Produced' /\ ReadsAsIfBlocking'
  BY <1>1, <1>3 DEF DInv, Expected, Produced, ReadsAsIfBlocking
<1>8. Refines
  BY <1>1, <1>3 DEF Refines, Blocking!blockingVars
<1> QED
  BY <1>4, <1>5, <1>6, <1>7, <1>8 DEF DataInv

(* A read of the runtime finds what the call was given: the object is not  *)
(* being produced by another call, and the call's own output is not there. *)
LEMMA RuntimeReadsKeeps ==
  ASSUME DInv, NEW c \in Call, NEW o \in Obj, RuntimeReads(c, o)
  PROVE  DataInv' /\ Refines
<1>1. /\ UNCHANGED <<shape, stage, at, mark, content, input, ready>>
      /\ stage[c] = "submitted" /\ mark[o][c] # "none"
      /\ o \in ready[c] /\ content[o] # c
      /\ seen' = [seen EXCEPT ![c][o] = content[o]]
  BY DEF RuntimeReads, markVars
<1>2. \A d \in Call : mark[o][d] = "write" => d = c
  BY <1>1 DEF DInv, WriterAlone
<1>3. content[o] = input[c][o]
  <2>1. CASE mark[o][c] = "write"
    BY <2>1, <1>1 DEF DInv, Produced
  <2>2. CASE mark[o][c] = "read"
    <3>1. Mem(o) = content[o]
      BY <2>2, <1>2, MemIs, MemOfNone
    <3> QED
      BY <2>2, <3>1 DEF DInv, Expected
  <2>3. mark[o][c] \in MarkKind
    BY DEF DInv, DataTypeOK, TypeOK, Owner
  <2> QED
    BY <2>1, <2>2, <2>3, <1>1 DEF MarkKind
<1>4. input[c][o] # NoData
  BY <1>1 DEF DInv, Stages
<1>5. \A d \in Call, p \in Obj :
         seen'[d][p] = IF d = c /\ p = o THEN content[o] ELSE seen[d][p]
  BY <1>1 DEF DInv, DataTypeOK
<1>6. \A p \in Obj : Mem(p)' = Mem(p)
  BY <1>1, MemUnchanged DEF DInv
<1>7. DataTypes'
  <2>1. content[o] \in Data
    BY DEF DInv, DataTypeOK
  <2> QED
    BY <2>1, <1>1 DEF DInv, DataTypeOK, DataTypes
<1>8. Stages'
  BY <1>1, <1>5 DEF DInv, Stages
<1>9. WriterAlone'
  <2> SUFFICES ASSUME NEW d \in Call, NEW e \in Call, NEW p \in Obj,
                      mark[p][d] = "write", mark[p][e] # "none", d # e
               PROVE  mark[p][e] = "read" /\ seen'[e][p] = NoData /\ p \notin ready[e]
    BY <1>1 DEF WriterAlone
  <2>1. ~(e = c /\ p = o)
    BY <1>2
  <2> QED
    BY <2>1, <1>5 DEF DInv, WriterAlone
<1>10. Expected' /\ Produced'
  BY <1>1, <1>6 DEF DInv, Expected, Produced
<1>11. ReadsAsIfBlocking'
  BY <1>1, <1>3, <1>5 DEF DInv, ReadsAsIfBlocking
<1>12. Refines
  <2>1. Blocking!CallReads(c, o)
    BY <1>1, <1>3, <1>4, <1>6 DEF Blocking!CallReads
  <2> QED
    BY <2>1 DEF Refines, Blocking!Next
<1> QED
  BY <1>7, <1>8, <1>9, <1>10, <1>11, <1>12 DEF DataInv

(* A write of the runtime puts there what the program believes is there.   *)
LEMMA RuntimeWritesKeeps ==
  ASSUME DInv, NEW c \in Call, NEW o \in Obj, RuntimeWrites(c, o)
  PROVE  DataInv' /\ Refines
<1>1. /\ UNCHANGED <<shape, stage, at, mark, input, seen, ready>>
      /\ mark[o][c] = "write" /\ ~shape[c].fails
      /\ content' = [content EXCEPT ![o] = c]
  BY DEF RuntimeWrites, markVars
<1>2. content'[o] = c /\ \A p \in Obj : p # o => content'[p] = content[p]
  BY <1>1 DEF DInv, DataTypeOK
<1>3. AtMostOneWriter(mark[o])
  BY OneWriter DEF DInv
<1>4. Mem(o) = c
  BY <1>1, <1>3, MemIs, MemOfWriter
<1>5. Mem(o)' = c
  <2>1. Mem(o)' = MemOf(mark[o], shape, c)
    BY <1>1, <1>2, MemIsAfter
  <2> QED
    BY <2>1, <1>1, <1>3, MemOfWriter
<1>6. \A p \in Obj : Mem(p)' = Mem(p)
  BY <1>1, <1>2, <1>4, <1>5, MemUnchanged DEF DInv
<1>7. DataTypes'
  BY <1>1 DEF DInv, DataTypeOK, DataTypes, Data
<1>8. Stages' /\ WriterAlone' /\ ReadsAsIfBlocking'
  BY <1>1 DEF DInv, Stages, WriterAlone, ReadsAsIfBlocking
<1>9. Expected'
  BY <1>1, <1>6 DEF DInv, Expected
<1>10. Produced'
  <2> SUFFICES ASSUME NEW d \in Call, NEW p \in Obj, mark[p][d] = "write"
               PROVE  content'[p] = input[d][p] \/ (content'[p] = d /\ ~shape[d].fails)
    BY <1>1 DEF Produced
  <2>1. CASE p = o
    BY <2>1, <1>1, <1>2, <1>3 DEF AtMostOneWriter
  <2>2. CASE p # o
    BY <2>2, <1>2 DEF DInv, Produced
  <2> QED
    BY <2>1, <2>2
<1>11. Refines
  BY <1>1, <1>6 DEF Refines, Blocking!blockingVars
<1> QED
  BY <1>7, <1>8, <1>9, <1>10, <1>11 DEF DataInv

(* Once a call is through with an object, the program's belief does not    *)
(* depend on the call's mark.                                              *)
LEMMA ThroughMem ==
  ASSUME DInv, NEW c \in Call, NEW o \in Obj, shape' = shape, content' = content,
         mark[o][c] = "write" => shape[c].fails \/ content[o] = c,
         mark'[o][c] = "none",
         \A d \in Call : d # c => mark'[o][d] = mark[o][d]
  PROVE  Mem(o)' = Mem(o)
<1>1. CASE mark[o][c] = "write"
  <2>1. \A d \in Call : mark[o][d] = "write" => d = c
    BY <1>1 DEF DInv, WriterAlone
  <2>2. Mem(o) = content[o]
    <3>1. AtMostOneWriter(mark[o])
      BY OneWriter DEF DInv
    <3>2. Mem(o) = IF shape[c].fails THEN content[o] ELSE c
      BY <1>1, <3>1, MemIs, MemOfWriter
    <3> QED
      BY <1>1, <3>2
  <2>3. \A d \in Call : mark'[o][d] # "write"
    BY <2>1
  <2>4. Mem(o)' = MemOf(mark'[o], shape, content[o])
    BY MemIsAfter
  <2>5. MemOf(mark'[o], shape, content[o]) = content[o]
    BY <2>3 DEF MemOf
  <2> QED
    BY <2>2, <2>4, <2>5
<1>2. CASE mark[o][c] # "write"
  BY <1>2, MemUnchanged DEF DInv
<1> QED
  BY <1>1, <1>2

LEMMA RuntimeResolvesKeeps ==
  ASSUME DInv, NEW c \in Call, NEW o \in Obj, RuntimeResolves(c, o)
  PROVE  DataInv' /\ Refines
<1>1. /\ UNCHANGED <<shape, stage, at, content, input, seen, ready>>
      /\ stage[c] = "submitted"
      /\ mark' = [mark EXCEPT ![o][c] = "none"]
      /\ mark[o][c] = "write" => shape[c].fails \/ content[o] = c
  BY DEF RuntimeResolves, ResolveBuffer, Through, dataVars
<1>2. \A d \in Call, p \in Obj :
         mark'[p][d] = IF d = c /\ p = o THEN "none" ELSE mark[p][d]
  BY <1>1 DEF DInv, DataTypeOK, TypeOK, Owner
<1>3. \A p \in Obj : Mem(p)' = Mem(p)
  <2> TAKE p \in Obj
  <2>1. CASE p = o
    <3>1. mark'[o][c] = "none" /\ \A d \in Call : d # c => mark'[o][d] = mark[o][d]
      BY <1>2
    <3> QED
      BY <2>1, <3>1, <1>1, ThroughMem
  <2>2. CASE p # o
    BY <2>2, <1>1, <1>2, MemUnchanged DEF DInv
  <2> QED
    BY <2>1, <2>2
<1>4. DataTypes' /\ ReadsAsIfBlocking'
  BY <1>1 DEF DInv, DataTypeOK, DataTypes, ReadsAsIfBlocking
<1>5. Stages' /\ WriterAlone' /\ Produced'
  BY <1>1, <1>2 DEF DInv, Stages, WriterAlone, Produced
<1>6. Expected'
  BY <1>1, <1>2, <1>3 DEF DInv, Expected
<1>7. Refines
  BY <1>1, <1>3 DEF Refines, Blocking!blockingVars
<1> QED
  BY <1>4, <1>5, <1>6, <1>7 DEF DataInv

LEMMA RuntimeCompletesKeeps ==
  ASSUME DInv, NEW c \in Call, RuntimeCompletes(c)
  PROVE  DataInv' /\ Refines
<1>1. /\ UNCHANGED <<shape, at, content>>
      /\ stage[c] = "submitted" /\ stage' = [stage EXCEPT ![c] = "done"]
      /\ \A o \in Obj : mark[o][c] = "write" => shape[c].fails \/ content[o] = c
      /\ input' = [input EXCEPT ![c] = [o \in Obj |-> NoData]]
      /\ seen' = [seen EXCEPT ![c] = [o \in Obj |-> NoData]]
      /\ ready' = [ready EXCEPT ![c] = {}]
  BY DEF RuntimeCompletes, Complete, Through
<1>2. \A d \in Call, p \in Obj :
         /\ d = c => mark'[p][d] = "none" /\ input'[d][p] = NoData /\ seen'[d][p] = NoData
                     /\ ready'[d] = {} /\ stage'[d] = "done"
         /\ d # c => mark'[p][d] = mark[p][d] /\ input'[d][p] = input[d][p]
                     /\ seen'[d][p] = seen[d][p] /\ ready'[d] = ready[d]
                     /\ stage'[d] = stage[d]
  BY <1>1 DEF RuntimeCompletes, Complete, DInv, DataTypeOK, TypeOK, Owner
<1>3. \A p \in Obj : Mem(p)' = Mem(p)
  BY <1>1, <1>2, ThroughMem
<1>4. DataTypes'
  BY <1>1 DEF DInv, DataTypeOK, DataTypes
<1>5. Stages'
  BY <1>1, <1>2 DEF DInv, Stages
<1>6. WriterAlone' /\ ReadsAsIfBlocking'
  BY <1>1, <1>2 DEF DInv, WriterAlone, ReadsAsIfBlocking
<1>7. Expected' /\ Produced'
  BY <1>1, <1>2, <1>3 DEF DInv, Expected, Produced
<1>8. Refines
  <2>1. Blocking!CallReturns(c)
    BY <1>1, <1>3 DEF Blocking!CallReturns
  <2> QED
    BY <2>1 DEF Refines, Blocking!Next
<1> QED
  BY <1>4, <1>5, <1>6, <1>7, <1>8 DEF DataInv

(* The access hook: an object whose access goes ahead is not being         *)
(* produced, and not read either if the program may store into it.         *)
LEMMA AccessFree ==
  ASSUME DInv, NEW o \in Obj, AccessProceeds(o)
  PROVE  /\ \A d \in Call : mark[o][d] # "write"
         /\ o \notin ReadOnly => \A d \in Call : mark[o][d] = "none"
<1>1. CASE ~flag[o]
  BY <1>1 DEF DInv, FlagExact, DataTypeOK, TypeOK, mark_find, writer_find, Owner
<1>2. CASE flag[o]
  <2> SUFFICES ASSUME NEW d \in Call PROVE mark[o][d] = "none"
    OBVIOUS
  <2>1. mark[o][d] \in MarkKind
    BY DEF DInv, DataTypeOK, TypeOK, Owner
  <2>2. d \notin wait_access_for(o, {}, FALSE)
    BY <1>2 DEF AccessProceeds, own_access
  <2>3. mark[o][d] # "write" /\ mark[o][d] # "read"
    BY <2>2 DEF wait_access_for
  <2> QED
    BY <2>1, <2>3 DEF MarkKind
<1> QED
  BY <1>1, <1>2

LEMMA ProgramStoresKeeps ==
  ASSUME DInv, NEW o \in Obj, NEW v \in Value, ProgramStores(o, v)
  PROVE  DataInv' /\ Refines
<1>1. /\ UNCHANGED <<shape, stage, at, mark, input, seen, ready>>
      /\ content' = [content EXCEPT ![o] = v]
  BY DEF ProgramStores, markVars
<1>2. \A d \in Call : mark[o][d] = "none"
  BY AccessFree DEF ProgramStores
<1>3. content'[o] = v /\ \A p \in Obj : p # o => content'[p] = content[p]
  BY <1>1 DEF DInv, DataTypeOK
<1>4. Mem(o)' = v
  <2>1. Mem(o)' = MemOf(mark[o], shape, v)
    BY <1>1, <1>3, MemIsAfter
  <2>2. MemOf(mark[o], shape, v) = v
    BY <1>2, MemOfNone
  <2> QED
    BY <2>1, <2>2
<1>5. \A p \in Obj : p # o => Mem(p)' = Mem(p)
  BY <1>1, <1>3, MemUnchanged DEF DInv
<1>6. DataTypes'
  BY <1>1 DEF DInv, DataTypeOK, DataTypes, Data
<1>7. Stages' /\ WriterAlone' /\ ReadsAsIfBlocking'
  BY <1>1 DEF DInv, Stages, WriterAlone, ReadsAsIfBlocking
<1>8. Expected' /\ Produced'
  BY <1>1, <1>2, <1>3, <1>5 DEF DInv, Expected, Produced
<1>9. Refines
  <2>1. [p \in Obj |-> Mem(p)]' = [[p \in Obj |-> Mem(p)] EXCEPT ![o] = v]
    BY <1>4, <1>5
  <2>2. Blocking!Store(o, v)
    BY <2>1, <1>1 DEF Blocking!Store
  <2> QED
    BY <2>2 DEF Refines, Blocking!Next
<1> QED
  BY <1>6, <1>7, <1>8, <1>9 DEF DataInv

(* Marks without an owner are nobody's business but the flag's. *)
LEMMA ProgramMarksKeeps ==
  ASSUME DInv, NEW o \in Obj, ProgramMarks(o) \/ ProgramResolves(o)
  PROVE  DataInv' /\ Refines
<1>1. UNCHANGED <<shape, stage, at, content, input, seen, ready>>
  BY DEF ProgramMarks, ProgramResolves, MarkOwnerless, DropOwnerless, MarkResolved, dataVars
<1>2. \A d \in Call, p \in Obj : mark'[p][d] = mark[p][d]
  <2>1. CASE ProgramMarks(o)
    <3>1. PICK k \in MarkKind : mark' = [mark EXCEPT ![o][NoCall] = k]
      BY <2>1 DEF ProgramMarks, MarkOwnerless, DropOwnerless, MarkKind
    <3> QED
      BY <3>1, NoCallIsNot DEF DInv, DataTypeOK, TypeOK, Owner
  <2>2. CASE ProgramResolves(o)
    <3>1. mark' = [mark EXCEPT ![o][NoCall] = "none"]
      BY <2>2 DEF ProgramResolves, MarkResolved, Owner
    <3> QED
      BY <3>1, NoCallIsNot DEF DInv, DataTypeOK, TypeOK, Owner
  <2> QED
    BY <2>1, <2>2
<1>3. \A p \in Obj : Mem(p)' = Mem(p)
  BY <1>1, <1>2, MemUnchanged DEF DInv
<1>4. DataTypes' /\ ReadsAsIfBlocking' /\ Stages' /\ WriterAlone'
  <2>1. DataTypes' /\ ReadsAsIfBlocking'
    BY <1>1 DEF DInv, DataTypeOK, DataTypes, ReadsAsIfBlocking
  <2>2. Stages'
    BY <1>1, <1>2 DEF DInv, Stages
  <2>3. WriterAlone'
    BY <1>1, <1>2 DEF DInv, WriterAlone
  <2> QED
    BY <2>1, <2>2, <2>3
<1>5. Expected' /\ Produced'
  BY <1>1, <1>2, <1>3 DEF DInv, Expected, Produced
<1>6. Refines
  BY <1>1, <1>3 DEF Refines, Blocking!blockingVars
<1> QED
  BY <1>4, <1>5, <1>6 DEF DataInv

-----------------------------------------------------------------------------
(* As far as the marks go, BufferData does what PendingMarks does. *)
LEMMA DataStepMarks == [DataNext]_vars => [Next]_markVars
<1> SUFFICES ASSUME [DataNext]_vars PROVE Next \/ UNCHANGED markVars
  OBVIOUS
<1>1. ASSUME NEW c \in Call,
             StubBegin(c) \/ StubMarksOutput(c) \/ StubMarksInput(c) \/ StubSubmits(c)
                 \/ RuntimeCompletes(c)
      PROVE  Next
  BY <1>1 DEF StubBegin, StubMarksOutput, StubMarksInput, StubSubmits, RuntimeCompletes, Next
<1>2. ASSUME NEW c \in Call, NEW o \in Obj,
             RuntimeWaits(c, o) \/ RuntimeReads(c, o) \/ RuntimeWrites(c, o)
      PROVE  UNCHANGED markVars
  BY <1>2 DEF RuntimeWaits, RuntimeReads, RuntimeWrites
<1>3. ASSUME NEW c \in Call, NEW o \in Obj, RuntimeResolves(c, o) PROVE Next
  BY <1>3 DEF RuntimeResolves, Next
<1>4. ASSUME NEW o \in Obj, ProgramMarks(o) \/ ProgramResolves(o) PROVE Next
  BY <1>4 DEF ProgramMarks, ProgramResolves, Next
<1>5. ASSUME NEW o \in Obj, NEW v \in Value, ProgramStores(o, v) PROVE UNCHANGED markVars
  BY <1>5 DEF ProgramStores
<1>6. CASE UNCHANGED vars
  BY <1>6 DEF vars
<1> QED
  BY <1>1, <1>2, <1>3, <1>4, <1>5, <1>6 DEF DataNext

LEMMA DataStepKeeps == DInv /\ [DataNext]_vars => DInv' /\ Refines
<1> SUFFICES ASSUME DInv, [DataNext]_vars PROVE DInv' /\ Refines
  OBVIOUS
<1>1. Inv'
  BY DataStepMarks, StepKeeps, DInvIs
<1>2. ASSUME NEW c \in Call,
             StubBegin(c) \/ StubMarksOutput(c) \/ StubMarksInput(c) \/ StubSubmits(c)
                 \/ RuntimeCompletes(c)
      PROVE  DataInv' /\ Refines
  BY <1>2, StubBeginKeeps, StubMarksOutputKeeps, StubMarksInputKeeps, RuntimeCompletesKeeps
<1>3. ASSUME NEW c \in Call, NEW o \in Obj,
             RuntimeWaits(c, o) \/ RuntimeReads(c, o) \/ RuntimeWrites(c, o)
                 \/ RuntimeResolves(c, o)
      PROVE  DataInv' /\ Refines
  BY <1>3, RuntimeWaitsKeeps, RuntimeReadsKeeps, RuntimeWritesKeeps, RuntimeResolvesKeeps
<1>4. ASSUME NEW o \in Obj, ProgramMarks(o) \/ ProgramResolves(o) PROVE DataInv' /\ Refines
  BY <1>4, ProgramMarksKeeps
<1>5. ASSUME NEW o \in Obj, NEW v \in Value, ProgramStores(o, v) PROVE DataInv' /\ Refines
  BY <1>5, ProgramStoresKeeps
<1>6. ASSUME UNCHANGED vars PROVE DataInv' /\ Refines
  <2>1. UNCHANGED <<shape, stage, at, mark, content, input, seen, ready>>
    BY <1>6 DEF vars, markVars, dataVars
  <2>2. \A p \in Obj : Mem(p)' = Mem(p)
    BY <2>1, MemUnchanged DEF DInv
  <2>3. DataTypes' /\ Stages' /\ WriterAlone' /\ ReadsAsIfBlocking' /\ Produced'
    BY <2>1 DEF DInv, DataTypeOK, DataTypes, Stages, WriterAlone, ReadsAsIfBlocking, Produced
  <2>4. Expected'
    BY <2>1, <2>2 DEF DInv, Expected
  <2>5. Refines
    BY <2>1, <2>2 DEF Refines, Blocking!blockingVars
  <2> QED
    BY <2>3, <2>4, <2>5 DEF DataInv
<1>7. DataInv' /\ Refines
  BY <1>2, <1>3, <1>4, <1>5, <1>6 DEF DataNext
<1>8. DInv' <=> Inv' /\ DataInv'
  BY DEF DInv, Inv, DataInv, DataTypes, DataTypeOK
<1> QED
  BY <1>1, <1>7, <1>8

LEMMA DataInitInv == DataInit => DInv /\ Blocking!Init
<1> SUFFICES ASSUME DataInit PROVE DInv /\ Blocking!Init
  OBVIOUS
<1>1. Inv
  BY InitInv DEF DataInit
<1>2. \A o \in Obj, c \in Call : mark[o][c] = "none"
  BY DEF DataInit, Init, Owner
<1>3. \A o \in Obj : Mem(o) = content[o]
  BY <1>2, MemIs, MemOfNone
<1>4. DataInv
  BY <1>2 DEF DataInit, Init, DataInv, DataTypes, Stages, WriterAlone, Expected,
     Produced, ReadsAsIfBlocking, Data
<1>5. Blocking!Init
  BY <1>3 DEF DataInit, Blocking!Init
<1> QED
  BY <1>1, <1>4, <1>5, DInvIs

(* The inductive invariant holds. *)
THEOREM DataInvariant == DataSpec => []DInv
BY DataInitInv, DataStepKeeps, PTL DEF DataSpec

(* Every variable of BufferData stays in its type. *)
THEOREM DataStaysTyped == DataSpec => []DataTypeOK
<1>1. DInv => DataTypeOK
  BY DEF DInv
<1> QED
  BY DataInvariant, <1>1, PTL

(* The runtime reads of each argument what a blocking call would have      *)
(* read, for any number of calls, objects and values.                      *)
THEOREM CallsReadAsIfBlocking == DataSpec => []ReadsAsIfBlocking
<1>1. DInv => ReadsAsIfBlocking
  BY DEF DInv
<1> QED
  BY DataInvariant, <1>1, PTL

(* An access of the program that the hook lets through finds what a        *)
(* blocking program would find.                                            *)
THEOREM ProgramLoadsAsIfBlocking == DataSpec => []LoadsAsIfBlocking
<1>1. DInv => LoadsAsIfBlocking
  <2> SUFFICES ASSUME DInv, NEW o \in Obj, AccessProceeds(o) PROVE content[o] = Mem(o)
    BY DEF LoadsAsIfBlocking
  <2> QED
    BY AccessFree, MemIs, MemOfNone
<1> QED
  BY DataInvariant, <1>1, PTL

(* Nobody reads or writes an object while a call may be writing it. *)
THEOREM WritersAreAlone == DataSpec => []WriterAlone
<1>1. DInv => WriterAlone
  BY DEF DInv
<1> QED
  BY DataInvariant, <1>1, PTL

(* The stubs, the runtime and the access hook together implement blocking  *)
(* calls.                                                                  *)
THEOREM ImplementsBlocking == DataSpec => BlockingSpec
<1>1. DInv /\ [DataNext]_vars => [Blocking!Next]_(Blocking!blockingVars)
  BY DataStepKeeps DEF Refines
<1> QED
  BY DataInitInv, DataInvariant, <1>1, PTL DEF DataSpec, BlockingSpec, Blocking!Spec

-----------------------------------------------------------------------------
(* Who waits for whom: CallStack                                           *)

\* A stub, submit or body: what runs for a call, once.
Runs(f) == f.op \in {"stub", "submit", "body"}
Activates(f) == f.op \in {"submit", "body"}

(* Frames and calls agree: stages sg, calls rn that have run. *)
FrameFits(f, sg, rn) ==
    /\ Runs(f) \/ f.op \in {"buffer", "wait"} => f.call \in Call
    /\ f.op = "stub" => sg[f.call] = "stub"
    /\ f.op = "submit" => sg[f.call] \in {"submitted", "done"}
    /\ f.op = "body" => f.call \in rn
    /\ f.op = "buffer" => f.obj \in Obj

FramesFit(st, sg, rn) ==
    /\ st \in [Thread -> Seq(Frame)]
    /\ rn \in SUBSET Call
    /\ \A c \in rn : sg[c] \in {"submitted", "done"}
    /\ \A t \in Thread : \A i \in 1 .. Len(st[t]) : FrameFits(st[t][i], sg, rn)

(* How the frames of stacks st lie: each of a call's frames is on one      *)
(* stack, in one place.                                                    *)
OnlyOnce(st) ==
    \A t, u \in Thread : \A i \in 1 .. Len(st[t]), j \in 1 .. Len(st[u]) :
        /\ Runs(st[t][i])
        /\ st[t][i].op = st[u][j].op
        /\ st[t][i].call = st[u][j].call
        => t = u /\ i = j

(* Below place j of a stack s, d is not the innermost body. *)
BodyAbove(s, j, d) ==
    \A k \in 1 .. j - 1 : s[k].op = "body" /\ s[k].call = d =>
        \E l \in k + 1 .. j - 1 : s[l].op = "body"

(* What asked for the wait at place j of a stack s, for the call d that is *)
(* active below it: a stub or a submit that comes upon what d writes. The  *)
(* stubs are at argument a of shapes sh, the marks are mk.                 *)
Explained(s, j, d, sh, a, mk) ==
    /\ j > 1
    /\ \/ /\ s[j - 1].op = "stub"
          /\ a[s[j - 1].call] =< Len(sh[s[j - 1].call].out)
          /\ mk[sh[s[j - 1].call].out[a[s[j - 1].call]]][d] = "write"
       \/ /\ s[j - 1].op = "buffer"
          /\ mk[s[j - 1].obj][d] = "write"
          /\ BodyAbove(s, j, d)

\* The wait at place j of s is for the call of an activation below it.
ForActive(s, i, j) ==
    i < j /\ Activates(s[i]) /\ s[j].op = "wait" /\ s[i].call = s[j].call

(* Every wait, however deep in a stack, for a call active below it. *)
WaitsExplained(st, sh, a, mk) ==
    \A t \in Thread : \A i, j \in 1 .. Len(st[t]) :
        ForActive(st[t], i, j) => Explained(st[t], j, st[t][j].call, sh, a, mk)

(* The inductive invariant. *)
StackInv ==
    /\ Inv
    /\ FramesFit(stack, stage, ran)
    /\ OnlyOnce(stack)
    /\ WaitsExplained(stack, shape, at, mark)
    /\ kept \in BOOLEAN

(* The stacks st with one frame more for t, and with one less. *)
Pushed(st, new, t, f) ==
    /\ new \in [Thread -> Seq(Frame)]
    /\ Len(new[t]) = Len(st[t]) + 1
    /\ \A i \in 1 .. Len(st[t]) : new[t][i] = st[t][i]
    /\ new[t][Len(st[t]) + 1] = f
    /\ \A u \in Thread \ {t} : new[u] = st[u]

Popped(st, new, t) ==
    /\ new \in [Thread -> Seq(Frame)]
    /\ Len(new[t]) = Len(st[t]) - 1
    /\ \A i \in 1 .. Len(st[t]) - 1 : new[t][i] = st[t][i]
    /\ \A u \in Thread \ {t} : new[u] = st[u]

LEMMA PushIs ==
  ASSUME stack \in [Thread -> Seq(Frame)], NEW t \in Thread, NEW f \in Frame, Push(t, f)
  PROVE  Pushed(stack, stack', t, f)
<1>1. stack[t] \in Seq(Frame)
  OBVIOUS
<1> DEFINE s == stack[t]
           r == Append(s, f)
<1>2. stack'[t] = r /\ \A u \in Thread \ {t} : stack'[u] = stack[u]
  BY DEF Push
<1>3. r \in Seq(Frame) /\ Len(r) = Len(s) + 1 /\ r[Len(s) + 1] = f /\ \A i \in 1 .. Len(s) : r[i] = s[i]
  BY <1>1
<1>4. stack' \in [Thread -> Seq(Frame)]
  BY <1>3 DEF Push
<1> QED
  BY <1>2, <1>3, <1>4 DEF Pushed

LEMMA AllButLast ==
  ASSUME NEW S, NEW s \in Seq(S), Len(s) > 0
  PROVE  /\ SubSeq(s, 1, Len(s) - 1) \in Seq(S)
         /\ Len(SubSeq(s, 1, Len(s) - 1)) = Len(s) - 1
         /\ \A i \in 1 .. Len(s) - 1 : SubSeq(s, 1, Len(s) - 1)[i] = s[i]
<1> DEFINE n == Len(s) - 1
<1>1. n \in Nat /\ \A i \in 1 .. n : i \in 1 .. Len(s)
  OBVIOUS
<1> HIDE DEF n
<1>2. SubSeq(s, 1, n) = [i \in 1 .. n |-> s[i]]
  BY <1>1
<1>3. SubSeq(s, 1, n) \in Seq(S) /\ Len(SubSeq(s, 1, n)) = n
  BY <1>1, <1>2
<1> QED
  BY <1>2, <1>3 DEF n

LEMMA PopIs ==
  ASSUME stack \in [Thread -> Seq(Frame)], NEW t \in Thread, stack[t] # <<>>, Pop(t)
  PROVE  Popped(stack, stack', t)
<1>1. stack[t] \in Seq(Frame)
  OBVIOUS
<1> DEFINE s == stack[t]
           r == SubSeq(s, 1, Len(s) - 1)
<1>2. stack'[t] = r /\ \A u \in Thread \ {t} : stack'[u] = stack[u]
  BY DEF Pop
<1>3. s \in Seq(Frame) /\ s # <<>> /\ Len(s) \in Nat /\ Len(s) > 0
  BY <1>1
<1>4. r \in Seq(Frame) /\ Len(r) = Len(s) - 1 /\ \A i \in 1 .. Len(s) - 1 : r[i] = s[i]
  BY <1>3, AllButLast
<1>5. stack' \in [Thread -> Seq(Frame)]
  BY <1>4 DEF Pop
<1> QED
  BY <1>2, <1>4, <1>5 DEF Popped

(* Every frame after a push is the new one or was there. *)
LEMMA PushedFrames ==
  ASSUME NEW st \in [Thread -> Seq(Frame)], NEW new, NEW t \in Thread, NEW f, Pushed(st, new, t, f),
         NEW u \in Thread, NEW i \in 1 .. Len(new[u])
  PROVE  new[u][i] = f \/ (i \in 1 .. Len(st[u]) /\ new[u][i] = st[u][i])
<1>1. Len(st[t]) \in Nat
  OBVIOUS
<1>2. CASE u = t
  BY <1>1, <1>2 DEF Pushed
<1>3. CASE u # t
  BY <1>3 DEF Pushed
<1> QED
  BY <1>2, <1>3

LEMMA PoppedFrames ==
  ASSUME NEW st \in [Thread -> Seq(Frame)], NEW new, NEW t \in Thread, Popped(st, new, t),
         NEW u \in Thread, NEW i \in 1 .. Len(new[u])
  PROVE  i \in 1 .. Len(st[u]) /\ new[u][i] = st[u][i]
<1>1. Len(st[t]) \in Nat
  OBVIOUS
<1>2. CASE u = t
  BY <1>1, <1>2 DEF Popped
<1>3. CASE u # t
  BY <1>3 DEF Popped
<1> QED
  BY <1>2, <1>3

(* A stack with the same frames up to a wait explains it as well. *)
LEMMA SamePrefix ==
  ASSUME NEW s, NEW r, NEW j \in Nat, \A k \in 1 .. j : r[k] = s[k],
         NEW d, NEW sh, NEW a, NEW mk, Explained(s, j, d, sh, a, mk)
  PROVE  Explained(r, j, d, sh, a, mk)
<1>1. j > 1 /\ j - 1 \in 1 .. j
  BY DEF Explained
<1>2. r[j - 1] = s[j - 1]
  BY <1>1
<1>3. \A k \in 1 .. j - 1 : r[k] = s[k]
  OBVIOUS
<1>4. BodyAbove(s, j, d) => BodyAbove(r, j, d)
  <2> SUFFICES ASSUME BodyAbove(s, j, d), NEW k \in 1 .. j - 1, r[k].op = "body", r[k].call = d
               PROVE  \E l \in k + 1 .. j - 1 : r[l].op = "body"
    BY DEF BodyAbove
  <2>1. PICK l \in k + 1 .. j - 1 : s[l].op = "body"
    BY <1>3 DEF BodyAbove
  <2> QED
    BY <2>1, <1>3
<1> QED
  BY <1>1, <1>2, <1>4 DEF Explained

(* Waits stay explained when every wait of the new stacks was there, or is *)
(* explained anew.                                                         *)
LEMMA StillExplained ==
  ASSUME NEW st, NEW new \in [Thread -> Seq(Frame)], NEW sh, NEW a, NEW mk, WaitsExplained(st, sh, a, mk),
         \A u \in Thread : \A i, j \in 1 .. Len(new[u]) : ForActive(new[u], i, j) =>
            \/ j \in 1 .. Len(st[u]) /\ \A k \in 1 .. j : new[u][k] = st[u][k]
            \/ Explained(new[u], j, new[u][j].call, sh, a, mk)
  PROVE  WaitsExplained(new, sh, a, mk)
<1> SUFFICES ASSUME NEW u \in Thread, NEW i \in 1 .. Len(new[u]), NEW j \in 1 .. Len(new[u]),
                    ForActive(new[u], i, j),
                    j \in 1 .. Len(st[u]), \A k \in 1 .. j : new[u][k] = st[u][k]
             PROVE  Explained(new[u], j, new[u][j].call, sh, a, mk)
  BY DEF WaitsExplained
<1>1. j \in Nat /\ i \in Nat /\ i < j /\ i \in 1 .. j /\ j \in 1 .. j /\ i \in 1 .. Len(st[u])
  <2>1. Len(new[u]) \in Nat
    OBVIOUS
  <2>2. i \in Nat /\ j \in Nat /\ i >= 1 /\ i < j
    BY <2>1 DEF ForActive
  <2> QED
    BY <2>2
<1>2. ForActive(st[u], i, j)
  BY <1>1 DEF ForActive
<1>3. Explained(st[u], j, st[u][j].call, sh, a, mk)
  BY <1>1, <1>2 DEF WaitsExplained
<1>4. \A k \in 1 .. j : st[u][k] = new[u][k] /\ new[u][k] = st[u][k]
  OBVIOUS
<1>5. Explained(new[u], j, st[u][j].call, sh, a, mk)
  BY <1>1, <1>3, <1>4, SamePrefix
<1> QED
  BY <1>1, <1>4, <1>5

(* A frame that may be pushed: no other like it; a wait is for a call not  *)
(* active below it, or explained by the frame it is pushed on.             *)
FrameAlone(st, f) ==
    Runs(f) => \A u \in Thread : \A j \in 1 .. Len(st[u]) :
                 ~(st[u][j].op = f.op /\ st[u][j].call = f.call)

WaitFits(s, f) ==
    f.op = "wait" =>
        \/ \A i \in 1 .. Len(s) : Activates(s[i]) => s[i].call # f.call
        \/ Explained(Append(s, f), Len(s) + 1, f.call, shape, at, mark)

(* A frame is pushed. *)
LEMMA PushKeeps ==
  ASSUME StackInv, NEW t \in Thread, NEW f \in Frame, Push(t, f), Inv',
         shape' = shape, at' = at, mark' = mark, kept' \in BOOLEAN,
         ran' \in SUBSET Call, \A c \in ran' : stage'[c] \in {"submitted", "done"},
         \A u \in Thread : \A i \in 1 .. Len(stack[u]) : FrameFits(stack[u][i], stage', ran'),
         FrameFits(f, stage', ran'), FrameAlone(stack, f), WaitFits(stack[t], f)
  PROVE  StackInv'
<1> DEFINE n == Len(stack[t])
<1>1. stack \in [Thread -> Seq(Frame)] /\ stack[t] \in Seq(Frame) /\ n \in Nat
  BY DEF StackInv, FramesFit
<1>2. Pushed(stack, stack', t, f) /\ stack'[t] = Append(stack[t], f)
  BY <1>1, PushIs DEF Push
<1>3. /\ stack' \in [Thread -> Seq(Frame)] /\ Len(stack'[t]) = n + 1 /\ stack'[t][n + 1] = f
      /\ \A i \in 1 .. n : stack'[t][i] = stack[t][i]
      /\ \A u \in Thread : u # t => stack'[u] = stack[u]
  BY <1>2 DEF Pushed
<1>4. FramesFit(stack', stage', ran')
  <2>1. ASSUME NEW u \in Thread, NEW i \in 1 .. Len(stack'[u]) PROVE FrameFits(stack'[u][i], stage', ran')
    <3>1. stack'[u][i] = f \/ (i \in 1 .. Len(stack[u]) /\ stack'[u][i] = stack[u][i])
      BY <1>1, <1>2, PushedFrames
    <3> QED
      BY <3>1
  <2> QED
    BY <1>3, <2>1 DEF FramesFit
<1>5. ASSUME NEW u \in Thread, NEW i \in 1 .. Len(stack'[u])
      PROVE  \/ i \in 1 .. Len(stack[u]) /\ stack'[u][i] = stack[u][i]
             \/ u = t /\ i = n + 1 /\ stack'[u][i] = f
  <2>1. CASE u # t
    <3>1. stack'[u] = stack[u]
      BY <2>1, <1>3
    <3> QED
      BY <3>1
  <2>2. CASE u = t
    <3>1. i \in 1 .. n \/ i = n + 1
      BY <2>2, <1>1, <1>3
    <3> QED
      BY <2>2, <3>1, <1>3
  <2> QED
    BY <2>1, <2>2
<1>6. OnlyOnce(stack')
  <2> SUFFICES ASSUME NEW u \in Thread, NEW v \in Thread, NEW i \in 1 .. Len(stack'[u]), NEW j \in 1 .. Len(stack'[v]),
                      Runs(stack'[u][i]), stack'[u][i].op = stack'[v][j].op, stack'[u][i].call = stack'[v][j].call
               PROVE  u = v /\ i = j
    BY DEF OnlyOnce
  <2>1. (i \in 1 .. Len(stack[u]) /\ stack'[u][i] = stack[u][i]) \/ (u = t /\ i = n + 1 /\ stack'[u][i] = f)
    BY <1>5
  <2>2. (j \in 1 .. Len(stack[v]) /\ stack'[v][j] = stack[v][j]) \/ (v = t /\ j = n + 1 /\ stack'[v][j] = f)
    BY <1>5
  <2>3. CASE i \in 1 .. Len(stack[u]) /\ stack'[u][i] = stack[u][i] /\ j \in 1 .. Len(stack[v]) /\ stack'[v][j] = stack[v][j]
    BY <2>3 DEF StackInv, OnlyOnce
  <2> QED
    BY <2>1, <2>2, <2>3 DEF FrameAlone, Runs
<1>7. WaitsExplained(stack', shape, at, mark)
  <2>1. ASSUME NEW u \in Thread, NEW i \in 1 .. Len(stack'[u]), NEW j \in 1 .. Len(stack'[u]), ForActive(stack'[u], i, j)
        PROVE  \/ j \in 1 .. Len(stack[u]) /\ \A k \in 1 .. j : stack'[u][k] = stack[u][k]
               \/ Explained(stack'[u], j, stack'[u][j].call, shape, at, mark)
    <3>1. CASE u # t
      <4>1. stack'[u] = stack[u]
        BY <3>1, <1>3
      <4> QED
        BY <4>1
    <3>2. CASE u = t /\ j \in 1 .. n
      BY <3>2, <1>1, <1>3
    <3>3. CASE u = t /\ j = n + 1
      <4>0. i \in 1 .. n + 1 /\ i < n + 1
        BY <3>3, <2>1, <1>3 DEF ForActive
      <4>1. i \in 1 .. n /\ stack'[t][i] = stack[t][i] /\ stack'[t][j] = f
        BY <4>0, <3>3, <1>1, <1>3
      <4>2. f.op = "wait" /\ Activates(stack[t][i]) /\ stack[t][i].call = f.call
        BY <3>3, <4>1, <2>1 DEF ForActive
      <4> QED
        BY <3>3, <4>1, <4>2, <1>2 DEF WaitFits
    <3> QED
      BY <3>1, <3>2, <3>3, <1>1, <1>3
  <2>2. WaitsExplained(stack, shape, at, mark)
    BY DEF StackInv
  <2> QED
    BY <2>1, <2>2, <1>3, StillExplained
<1> QED
  BY <1>4, <1>6, <1>7 DEF StackInv

(* A frame is popped. *)
LEMMA PopKeeps ==
  ASSUME StackInv, NEW t \in Thread, stack[t] # <<>>, Pop(t), UNCHANGED <<markVars, ran, kept>>
  PROVE  StackInv'
<1>1. stack \in [Thread -> Seq(Frame)] /\ \A u \in Thread : Len(stack[u]) \in Nat
  BY DEF StackInv, FramesFit
<1>2. Popped(stack, stack', t)
  BY <1>1, PopIs
<1>3. stack' \in [Thread -> Seq(Frame)]
  BY <1>2 DEF Popped
<1>4. shape' = shape /\ at' = at /\ stage' = stage /\ mark' = mark /\ ran' = ran /\ kept' = kept /\ UNCHANGED markVars
  BY DEF markVars
<1>5. Inv'
  BY <1>4, StepKeeps DEF StackInv
<1>6. ASSUME NEW u \in Thread, NEW i \in 1 .. Len(stack'[u])
      PROVE  i \in 1 .. Len(stack[u]) /\ stack'[u][i] = stack[u][i]
  BY <1>1, <1>2, PoppedFrames
<1>7. FramesFit(stack', stage', ran')
  <2>1. ASSUME NEW u \in Thread, NEW i \in 1 .. Len(stack'[u]) PROVE FrameFits(stack'[u][i], stage', ran')
    <3>1. FrameFits(stack[u][i], stage, ran)
      BY <1>6 DEF StackInv, FramesFit
    <3> QED
      BY <3>1, <1>4, <1>6
  <2> QED
    BY <1>3, <1>4, <2>1 DEF StackInv, FramesFit
<1>8. OnlyOnce(stack')
  <2> SUFFICES ASSUME NEW u \in Thread, NEW v \in Thread, NEW i \in 1 .. Len(stack'[u]), NEW j \in 1 .. Len(stack'[v]),
                      Runs(stack'[u][i]), stack'[u][i].op = stack'[v][j].op, stack'[u][i].call = stack'[v][j].call
               PROVE  u = v /\ i = j
    BY DEF OnlyOnce
  <2>1. /\ i \in 1 .. Len(stack[u]) /\ stack'[u][i] = stack[u][i]
        /\ j \in 1 .. Len(stack[v]) /\ stack'[v][j] = stack[v][j]
    BY <1>6
  <2> QED
    BY <2>1 DEF StackInv, OnlyOnce
<1>9. WaitsExplained(stack', shape, at, mark)
  <2>1. ASSUME NEW u \in Thread, NEW j \in 1 .. Len(stack'[u])
        PROVE  j \in 1 .. Len(stack[u]) /\ \A k \in 1 .. j : stack'[u][k] = stack[u][k]
    <3>1. Len(stack'[u]) \in Nat
      BY <1>3
    <3>2. \A k \in 1 .. j : k \in 1 .. Len(stack'[u])
      BY <3>1
    <3> QED
      BY <3>2, <1>6
  <2>2. WaitsExplained(stack, shape, at, mark)
    BY DEF StackInv
  <2> QED
    BY <2>1, <2>2, <1>3, StillExplained
<1> QED
  BY <1>4, <1>5, <1>7, <1>8, <1>9 DEF StackInv

-----------------------------------------------------------------------------
(* A stub marks objects. *)
LEMMA OutputIs ==
  ASSUME TypeOK, NEW c \in Call, NEW i \in Nat, i > 0, i =< Len(shape[c].out)
  PROVE  shape[c].out[i] \in Obj
<1> DEFINE a == shape[c].out
<1>1. shape[c] \in Shapes
  BY DEF TypeOK
<1>2. a \in Seq(Obj)
  BY <1>1, ShapesType
<1> HIDE DEF a
<1>3. a[i] \in Obj
  BY <1>2 DEF a
<1> QED
  BY <1>3 DEF a

LEMMA ArgIs ==
  ASSUME TypeOK, NEW c \in Call, NEW i \in Nat, i > 0, i =< Len(Args(c))
  PROVE  Args(c)[i] \in Obj
<1> DEFINE a == shape[c].out
           b == shape[c].in
<1>1. shape[c] \in Shapes
  BY DEF TypeOK
<1>2. a \in Seq(Obj) /\ b \in Seq(Obj)
  BY <1>1, ShapesType
<1>3. Args(c) = a \o b
  BY DEF Args
<1> HIDE DEF a, b
<1>4. a \o b \in Seq(Obj)
  BY <1>2
<1> QED
  BY <1>3, <1>4

(* The frame a thread is in. *)
LEMMA TopIs ==
  ASSUME StackInv, NEW t \in Thread, NEW op, In(t, op)
  PROVE  /\ Len(stack[t]) \in Nat /\ Len(stack[t]) > 0
         /\ stack[t] # <<>>
         /\ Top(t) = stack[t][Len(stack[t])]
         /\ Top(t) \in Frame
         /\ Top(t).op = op
         /\ FrameFits(Top(t), stage, ran)
<1>1. stack[t] \in Seq(Frame) /\ stack[t] # <<>>
  BY DEF StackInv, FramesFit, In
<1>2. Len(stack[t]) \in Nat /\ Len(stack[t]) > 0
  BY <1>1
<1> QED
  BY <1>1, <1>2 DEF StackInv, FramesFit, In, Top

LEMMA ActiveIs ==
  ASSUME StackInv, NEW t \in Thread
  PROVE  \A i \in 1 .. Len(stack[t]) :
            Activates(stack[t][i]) => stack[t][i].call \in Call /\ stack[t][i].call \in Active(t)
<1>1. DOMAIN stack[t] = 1 .. Len(stack[t])
  BY DEF StackInv, FramesFit
<1> TAKE i \in 1 .. Len(stack[t])
<1> HAVE Activates(stack[t][i])
<1>2. stack[t][i].call \in Call
  BY DEF StackInv, FramesFit, FrameFits, Activates, Runs
<1>3. t \in Frames("submit", stack[t][i].call) \/ t \in Frames("body", stack[t][i].call)
  BY <1>1 DEF Frames, Activates
<1> QED
  BY <1>2, <1>3 DEF Active

(* The thread waits for d; nothing of the marks changes. *)
LEMMA WaitKeeps ==
  ASSUME StackInv, NEW t \in Thread, NEW d \in Call, WaitFor(t, d), UNCHANGED <<markVars, ran, kept>>,
         \/ \A i \in 1 .. Len(stack[t]) : Activates(stack[t][i]) => stack[t][i].call # d
         \/ Explained(stack'[t], Len(stack[t]) + 1, d, shape, at, mark)
  PROVE  StackInv'
<1> DEFINE f == CallFrame("wait", d)
<1>1. f \in Frame /\ f.op = "wait" /\ f.call = d /\ ~Runs(f)
  BY DEF CallFrame, Frame, Owner, Runs
<1>2. shape' = shape /\ at' = at /\ mark' = mark /\ stage' = stage /\ ran' = ran /\ kept' = kept /\ UNCHANGED markVars
  BY DEF markVars
<1>3. Inv'
  BY <1>2, StepKeeps DEF StackInv
<1>4. Push(t, f)
  BY DEF WaitFor
<1> HIDE DEF f
<1>5. FrameFits(f, stage', ran') /\ FrameAlone(stack, f)
  BY <1>1 DEF FrameFits, FrameAlone
<1>6. /\ ran' \in SUBSET Call /\ kept' \in BOOLEAN
      /\ \A c \in ran' : stage'[c] \in {"submitted", "done"}
      /\ \A u \in Thread : \A i \in 1 .. Len(stack[u]) : FrameFits(stack[u][i], stage', ran')
  BY <1>2 DEF StackInv, FramesFit
<1>7. stack'[t] = Append(stack[t], f)
  BY <1>4 DEF Push, StackInv, FramesFit
<1>8. WaitFits(stack[t], f)
  BY <1>1, <1>7 DEF WaitFits
<1> QED
  BY <1>1, <1>2, <1>3, <1>4, <1>5, <1>6, <1>8, PushKeeps

(* A frame that is no wait, with the marks unchanged. *)
LEMMA EnterKeeps ==
  ASSUME StackInv, NEW t \in Thread, NEW f \in Frame, Push(t, f), f.op # "wait", UNCHANGED markVars,
         ran \subseteq ran', ran' \in SUBSET Call, kept' \in BOOLEAN,
         \A c \in ran' : stage[c] \in {"submitted", "done"},
         FrameFits(f, stage, ran'), FrameAlone(stack, f)
  PROVE  StackInv'
<1>1. shape' = shape /\ at' = at /\ mark' = mark /\ stage' = stage
  BY DEF markVars
<1>2. Inv'
  BY StepKeeps DEF StackInv
<1>3. \A u \in Thread : \A i \in 1 .. Len(stack[u]) : FrameFits(stack[u][i], stage', ran')
  BY <1>1 DEF StackInv, FramesFit, FrameFits
<1>4. WaitFits(stack[t], f)
  BY DEF WaitFits
<1> QED
  BY <1>1, <1>2, <1>3, <1>4, PushKeeps

-----------------------------------------------------------------------------
(* The threads' steps, one by one *)

(* What a thread in the frame at n of its stack r may wait for. *)
LEMMA ExplainedNow ==
  ASSUME NEW r, NEW n \in Nat, n > 0, NEW d, NEW sh, NEW a, NEW mk,
         \/ /\ r[n].op = "stub"
            /\ a[r[n].call] =< Len(sh[r[n].call].out)
            /\ mk[sh[r[n].call].out[a[r[n].call]]][d] = "write"
         \/ r[n].op = "buffer" /\ mk[r[n].obj][d] = "write" /\ BodyAbove(r, n + 1, d)
  PROVE  Explained(r, n + 1, d, sh, a, mk)
<1>1. n + 1 > 1 /\ (n + 1) - 1 = n
  OBVIOUS
<1> DEFINE j == n + 1
<1>2. j > 1 /\ j - 1 = n /\ (r[n].op = "buffer" => BodyAbove(r, j, d))
  BY <1>1
<1> HIDE DEF j
<1>3. Explained(r, j, d, sh, a, mk)
  BY <1>2 DEF Explained
<1> QED
  BY <1>3 DEF j

(* mark_find_other leaves out the active calls that read. *)
LEMMA StubWaitsKeeps ==
  ASSUME StackInv, NEW t \in Thread, StubWaits(t)
  PROVE  StackInv'
<1> DEFINE c == Top(t).call
           o == shape[c].out[at[c]]
           n == Len(stack[t])
<1>1. n \in Nat /\ n > 0 /\ Top(t) = stack[t][n] /\ Top(t).op = "stub"
  BY TopIs DEF StubWaits
<1>2. at[c] =< Len(shape[c].out) /\ UNCHANGED <<markVars, ran, kept>>
  BY DEF StubWaits
<1>3. PICK d \in mark_find_other(o, c, Active(t)) : WaitFor(t, d)
  BY DEF StubWaits
<1>4. d \in Call /\ (d \in Active(t) => mark[o][d] = "write")
  BY <1>3 DEF mark_find_other
<1>5. CASE d \notin Active(t)
  BY <1>2, <1>3, <1>4, <1>5, ActiveIs, WaitKeeps
<1>6. CASE d \in Active(t)
  <2>1. stack'[t] = Append(stack[t], CallFrame("wait", d)) /\ stack[t] \in Seq(Frame)
    BY <1>3 DEF WaitFor, Push, StackInv, FramesFit
  <2>2. stack'[t][n] = stack[t][n]
    BY <2>1, <1>1
  <2>3. stack'[t][n].op = "stub" /\ stack'[t][n].call = c
    BY <2>2, <1>1
  <2>4. Explained(stack'[t], n + 1, d, shape, at, mark)
    BY <2>3, <1>1, <1>2, <1>4, <1>6, ExplainedNow
  <2> QED
    BY <2>4, <1>2, <1>3, <1>4, WaitKeeps
<1> QED
  BY <1>5, <1>6

(* RunningBody is the innermost body. *)
LEMMA RunningIs ==
  ASSUME StackInv, NEW t \in Thread, NEW k \in 1 .. Len(stack[t]), stack[t][k].op = "body",
         \A l \in 1 .. Len(stack[t]) : stack[t][l].op = "body" => l =< k
  PROVE  RunningBody(t) = stack[t][k].call
<1>1. Len(stack[t]) \in Nat /\ DOMAIN stack[t] = 1 .. Len(stack[t])
  BY DEF StackInv, FramesFit
<1>2. stack[t][k].call \in Call
  BY DEF StackInv, FramesFit, FrameFits, Runs
<1>3. \E c \in Call : t \in Frames("body", c)
  BY <1>1, <1>2 DEF Frames
<1> DEFINE P(i) == /\ stack[t][i].op = "body"
                   /\ \A j \in DOMAIN stack[t] : stack[t][j].op = "body" => j =< i
           m == CHOOSE i \in DOMAIN stack[t] : P(i)
<1>4. k \in DOMAIN stack[t] /\ P(k)
  BY <1>1
<1>5. m \in DOMAIN stack[t] /\ P(m)
  BY <1>4
<1>6. m =< k /\ k =< m
  BY <1>1, <1>4, <1>5
<1>7. RunningBody(t) = stack[t][m].call
  BY <1>3 DEF RunningBody
<1> HIDE DEF m
<1>8. m \in Nat /\ k \in Nat
  BY <1>1, <1>5
<1>9. m = k
  BY <1>6, <1>8
<1> QED
  BY <1>7, <1>9

(* wait_buffer_locked leaves out the body that runs, and it alone. *)
LEMMA BufferTurnKeeps ==
  ASSUME StackInv, NEW t \in Thread, BufferTurn(t)
  PROVE  StackInv'
<1> DEFINE c == Top(t).call
           o == Top(t).obj
           n == Len(stack[t])
<1>1. n \in Nat /\ n > 0 /\ stack[t] # <<>> /\ Top(t) = stack[t][n] /\ Top(t).op = "buffer"
  BY TopIs DEF BufferTurn
<1>2. UNCHANGED <<markVars, ran, kept>>
  BY DEF BufferTurn
<1>3. CASE Pop(t)
  BY <1>1, <1>2, <1>3, PopKeeps
<1>4. ASSUME NEW d \in wait_buffer_for(o, c, RunningBody(t)), WaitFor(t, d) PROVE StackInv'
  <2>1. d \in Call /\ mark[o][d] = "write" /\ d # RunningBody(t)
    BY DEF wait_buffer_for
  <2>2. stack'[t] = Append(stack[t], CallFrame("wait", d)) /\ stack[t] \in Seq(Frame)
    BY <1>4 DEF WaitFor, Push, StackInv, FramesFit
  <2>3. \A k \in 1 .. n : stack'[t][k] = stack[t][k]
    BY <2>2
  <2>4. BodyAbove(stack'[t], n + 1, d)
    <3> SUFFICES ASSUME NEW k \in 1 .. n, stack[t][k].op = "body", stack[t][k].call = d,
                        \A l \in k + 1 .. n : stack[t][l].op # "body"
                 PROVE  FALSE
      BY <1>1, <2>3 DEF BodyAbove
    <3>1. \A l \in 1 .. n : l =< k \/ l \in k + 1 .. n
      BY <1>1
    <3>2. RunningBody(t) = stack[t][k].call
      BY <3>1, RunningIs
    <3> QED
      BY <3>2, <2>1
  <2>5. stack'[t][n].op = "buffer" /\ stack'[t][n].obj = o
    BY <1>1, <2>3
  <2>6. Explained(stack'[t], n + 1, d, shape, at, mark)
    BY <1>1, <2>1, <2>4, <2>5, ExplainedNow
  <2> QED
    BY <1>2, <1>4, <2>1, <2>6, WaitKeeps
<1> QED
  BY <1>3, <1>4 DEF BufferTurn

LEMMA AccessTurnKeeps ==
  ASSUME StackInv, NEW t \in Thread, AccessTurn(t)
  PROVE  StackInv'
<1>1. stack[t] # <<>> /\ UNCHANGED <<markVars, ran, kept>>
  BY TopIs DEF AccessTurn
<1>2. CASE Pop(t)
  BY <1>1, <1>2, PopKeeps
<1>3. ASSUME NEW d \in wait_access_for(Top(t).obj, Active(t), Top(t).own), WaitFor(t, d) PROVE StackInv'
  <2>1. d \in Call /\ d \notin Active(t)
    BY DEF wait_access_for
  <2> QED
    BY <1>1, <1>3, <2>1, ActiveIs, WaitKeeps
<1> QED
  BY <1>2, <1>3 DEF AccessTurn

LEMMA RunBodyKeeps ==
  ASSUME StackInv, NEW t \in Thread, RunBody(t)
  PROVE  StackInv'
<1> DEFINE c == Top(t).call
           f == CallFrame("body", c)
<1>1. c \in Call
  BY TopIs DEF RunBody, FrameFits, Runs
<1>2. Push(t, f) /\ ran' = ran \cup {c} /\ c \notin ran /\ stage[c] = "submitted" /\ UNCHANGED markVars
  BY DEF RunBody
<1>3. f \in Frame /\ f.op = "body" /\ f.call = c
  BY <1>1 DEF CallFrame, Frame, Owner
<1> HIDE DEF c, f
<1>4. FrameFits(f, stage, ran')
  BY <1>1, <1>2, <1>3 DEF FrameFits, Runs
<1>5. FrameAlone(stack, f)
  BY <1>2, <1>3 DEF FrameAlone, StackInv, FramesFit, FrameFits
<1>6. /\ kept' \in BOOLEAN /\ ran \subseteq ran' /\ ran' \in SUBSET Call
      /\ \A d \in ran' : stage[d] \in {"submitted", "done"}
  BY <1>1, <1>2 DEF RunBody, StackInv, FramesFit
<1> QED
  BY <1>2, <1>3, <1>4, <1>5, <1>6, EnterKeeps

LEMMA WaitBufferKeeps ==
  ASSUME StackInv, NEW t \in Thread, NEW o \in Obj, WaitBuffer(t, o)
  PROVE  StackInv'
<1> DEFINE c == Top(t).call
           f == [op |-> "buffer", call |-> c, obj |-> o, own |-> FALSE]
<1>1. c \in Call
  BY TopIs DEF WaitBuffer, FrameFits, Runs
<1>2. Push(t, f) /\ UNCHANGED <<markVars, ran, kept>>
  BY DEF WaitBuffer
<1>3. f \in Frame /\ f.op = "buffer" /\ f.call = c /\ f.obj = o
  BY <1>1 DEF Frame, Owner
<1> HIDE DEF f
<1>4. FrameFits(f, stage, ran') /\ FrameAlone(stack, f)
  BY <1>1, <1>3 DEF FrameFits, FrameAlone, Runs
<1>5. /\ ran \subseteq ran' /\ ran' \in SUBSET Call /\ kept' \in BOOLEAN
      /\ \A d \in ran' : stage[d] \in {"submitted", "done"}
  BY <1>2 DEF StackInv, FramesFit
<1> QED
  BY <1>2, <1>3, <1>4, <1>5, EnterKeeps

LEMMA AccessKeeps ==
  ASSUME StackInv, NEW t \in Thread, NEW o \in Obj, Access(t, o)
  PROVE  StackInv'
<1> DEFINE f == [op |-> "access", call |-> NoCall, obj |-> o, own |-> own_access(o, Active(t))]
<1>1. Push(t, f) /\ UNCHANGED <<markVars, ran>> /\ kept' \in BOOLEAN
  BY DEF Access
<1>2. own_access(o, Active(t)) \in BOOLEAN
  BY DEF own_access
<1>3. f \in Frame /\ f.op = "access"
  BY <1>2 DEF Frame, Owner
<1> HIDE DEF f
<1>4. FrameFits(f, stage, ran') /\ FrameAlone(stack, f)
  BY <1>3 DEF FrameFits, FrameAlone, Runs
<1>5. ran \subseteq ran' /\ ran' \in SUBSET Call /\ \A d \in ran' : stage[d] \in {"submitted", "done"}
  BY <1>1 DEF StackInv, FramesFit
<1> QED
  BY <1>1, <1>3, <1>4, <1>5, EnterKeeps

LEMMA ProgramWaitsKeeps ==
  ASSUME StackInv, NEW t \in Thread, NEW c \in Call, ProgramWaits(t, c)
  PROVE  StackInv'
<1>1. WaitFor(t, c) /\ UNCHANGED <<markVars, ran, kept>> /\ Len(stack[t]) = 0
  BY DEF ProgramWaits
<1> QED
  BY <1>1, WaitKeeps

(* Whatever the call is given: the order of the program is not needed. *)
LEMMA CallMadeKeeps ==
  ASSUME StackInv, NEW t \in Thread, NEW c \in Call, CallMade(t, c)
  PROVE  StackInv'
<1> DEFINE f == CallFrame("stub", c)
<1>1. Push(t, f) /\ Begin(c) /\ ran' = ran /\ kept' \in BOOLEAN
  BY DEF CallMade
<1>2. f \in Frame /\ f.op = "stub" /\ f.call = c
  BY DEF CallFrame, Frame, Owner
<1> HIDE DEF f
<1>3. TypeOK
  BY DEF StackInv, Inv
<1>4. /\ stage[c] = "new" /\ stage'[c] = "stub" /\ shape' = shape /\ at' = at /\ mark' = mark
      /\ \A d \in Call : d # c => stage'[d] = stage[d]
  BY <1>1, <1>3 DEF Begin, TypeOK
<1>5. Inv'
  <2>1. [Next]_markVars
    BY <1>1 DEF Next
  <2> QED
    BY <2>1, StepKeeps DEF StackInv
<1>6. c \notin ran
  BY <1>4 DEF StackInv, FramesFit
<1>7. ASSUME NEW u \in Thread, NEW i \in 1 .. Len(stack[u])
      PROVE  FrameFits(stack[u][i], stage', ran') /\ (Runs(stack[u][i]) => stack[u][i].call # c)
  <2> DEFINE g == stack[u][i]
  <2>1. FrameFits(g, stage, ran)
    BY DEF StackInv, FramesFit
  <2> HIDE DEF g
  <2>2. Runs(g) => g.call # c
    BY <2>1, <1>4, <1>6 DEF FrameFits, Runs
  <2>3. FrameFits(g, stage', ran')
    BY <2>1, <2>2, <1>1, <1>4 DEF FrameFits, Runs
  <2> QED
    BY <2>2, <2>3 DEF g
<1>8. FrameFits(f, stage', ran') /\ WaitFits(stack[t], f)
  BY <1>2, <1>4 DEF FrameFits, WaitFits, Runs
<1>9. FrameAlone(stack, f)
  BY <1>2, <1>7 DEF FrameAlone, Runs
<1>10. ran' \in SUBSET Call /\ \A d \in ran' : stage'[d] \in {"submitted", "done"}
  BY <1>1, <1>4, <1>6 DEF StackInv, FramesFit
<1> QED
  BY <1>1, <1>2, <1>4, <1>5, <1>7, <1>8, <1>9, <1>10, PushKeeps

(* Marks are taken and dropped, and the stacks stay: the calls waited for  *)
(* by a thread they are active on keep what they write, except for those   *)
(* in gone, and the stubs that wait stay at their argument.                *)
LEMMA MarksMove ==
  ASSUME StackInv, UNCHANGED stackVars, Inv', shape' = shape,
         \A c \in ran : stage'[c] \in {"submitted", "done"},
         \A u \in Thread : \A i \in 1 .. Len(stack[u]) : FrameFits(stack[u][i], stage', ran),
         NEW gone \in SUBSET Call,
         \A o \in Obj, d \in Call \ gone : mark[o][d] = "write" => mark'[o][d] = "write",
         \A u \in Thread : \A i, j \in 1 .. Len(stack[u]) : ForActive(stack[u], i, j) =>
            /\ stack[u][i].call \notin gone
            /\ stack[u][j - 1].op = "stub" => at'[stack[u][j - 1].call] = at[stack[u][j - 1].call]
  PROVE  StackInv'
<1>1. stack' = stack /\ ran' = ran /\ kept' = kept
  BY DEF stackVars
<1>2. FramesFit(stack', stage', ran')
  BY <1>1 DEF StackInv, FramesFit
<1>3. OnlyOnce(stack')
  BY <1>1 DEF StackInv
<1>4. WaitsExplained(stack, shape, at', mark')
  <2> SUFFICES ASSUME NEW u \in Thread, NEW i \in 1 .. Len(stack[u]), NEW j \in 1 .. Len(stack[u]),
                      ForActive(stack[u], i, j)
               PROVE  Explained(stack[u], j, stack[u][j].call, shape, at', mark')
    BY DEF WaitsExplained
  <2> DEFINE d == stack[u][j].call
             f == stack[u][j - 1]
  <2>1. Explained(stack[u], j, d, shape, at, mark)
    BY DEF StackInv, WaitsExplained
  <2>2. d \in Call \ gone
    BY DEF StackInv, FramesFit, FrameFits, ForActive
  <2>3. j - 1 \in 1 .. Len(stack[u])
    <3>1. j > 1
      BY <2>1 DEF Explained
    <3>2. Len(stack[u]) \in Nat
      BY DEF StackInv, FramesFit
    <3> QED
      BY <3>1, <3>2
  <2>4. FrameFits(f, stage, ran)
    BY <2>3 DEF StackInv, FramesFit
  <2>5. CASE f.op = "stub"
    <3> DEFINE o == shape[f.call].out[at[f.call]]
    <3>1. f.call \in Call /\ at'[f.call] = at[f.call]
      BY <2>4, <2>5 DEF FrameFits, Runs
    <3>2. at[f.call] =< Len(shape[f.call].out) /\ mark[o][d] = "write"
      BY <2>1, <2>5 DEF Explained
    <3>3. TypeOK /\ at[f.call] \in Nat /\ at[f.call] > 0
      BY <3>1 DEF StackInv, Inv, TypeOK
    <3>4. o \in Obj
      BY <3>1, <3>2, <3>3, OutputIs
    <3>5. mark'[o][d] = "write"
      BY <3>2, <3>4, <2>2
    <3> QED
      BY <3>1, <3>2, <3>5, <2>1, <2>5 DEF Explained
  <2>6. CASE f.op = "buffer"
    <3>1. f.obj \in Obj /\ mark[f.obj][d] = "write" /\ BodyAbove(stack[u], j, d)
      BY <2>1, <2>4, <2>6 DEF Explained, FrameFits
    <3>2. mark'[f.obj][d] = "write"
      BY <3>1, <2>2
    <3> QED
      BY <3>1, <3>2, <2>1, <2>6 DEF Explained
  <2> QED
    BY <2>1, <2>5, <2>6 DEF Explained
<1>5. WaitsExplained(stack', shape', at', mark')
  BY <1>1, <1>4
<1>6. kept' \in BOOLEAN
  BY <1>1 DEF StackInv
<1> QED
  BY <1>2, <1>3, <1>5, <1>6 DEF StackInv

(* The stub a thread is in is beneath no wait. *)
LEMMA TopStub ==
  ASSUME StackInv, NEW t \in Thread, In(t, "stub"),
         NEW u \in Thread, NEW j \in 1 .. Len(stack[u]), j > 1, stack[u][j - 1].op = "stub"
  PROVE  stack[u][j - 1].call # Top(t).call
<1> DEFINE n == Len(stack[t])
<1>1. n \in Nat /\ n > 0 /\ Top(t) = stack[t][n] /\ Top(t).op = "stub" /\ Len(stack[u]) \in Nat
  BY TopIs DEF StackInv, FramesFit
<1>2. j - 1 \in 1 .. Len(stack[u]) /\ n \in 1 .. n
  BY <1>1
<1>3. ~(u = t /\ j - 1 = n)
  BY <1>1
<1> QED
  BY <1>1, <1>2, <1>3 DEF StackInv, OnlyOnce, Runs

\* A wait that a stub or a submit explains is not the outermost frame.
LEMMA WaitBelow ==
  ASSUME StackInv, NEW u \in Thread, NEW i \in 1 .. Len(stack[u]), NEW j \in 1 .. Len(stack[u]),
         ForActive(stack[u], i, j)
  PROVE  j > 1
BY DEF StackInv, WaitsExplained, Explained

LEMMA MarksOutputKeeps ==
  ASSUME StackInv, NEW t \in Thread, MarksOutput(t)
  PROVE  StackInv'
<1> DEFINE c == Top(t).call
           o == shape[c].out[at[c]]
           m == [mark[o] EXCEPT ![NoCall] = "none"]
<1>1. c \in Call /\ MarkPending(c, Active(t)) /\ UNCHANGED stackVars /\ TypeOK /\ In(t, "stub")
  BY TopIs DEF MarksOutput, FrameFits, Runs, StackInv, Inv
<1>2. at[c] \in Nat /\ at[c] > 0 /\ at[c] =< Len(shape[c].out)
  BY <1>1 DEF MarkPending, TypeOK
<1>3. o \in Obj
  BY <1>1, <1>2, OutputIs
<1>4. /\ mark' = [mark EXCEPT ![o] = [m EXCEPT ![c] = "write"]]
      /\ at' = [at EXCEPT ![c] = @ + 1]
      /\ UNCHANGED <<shape, stage>>
  BY <1>1 DEF MarkPending, mark_pending
<1>5. Inv'
  <2>1. mark' \in [Obj -> [Owner -> MarkKind]] /\ flag' \in [Obj -> BOOLEAN] /\ FlagExact'
    BY <1>1, <1>3, MarkPendingKeeps DEF MarkPending, StackInv
  <2>2. at' \in [Call -> Nat \ {0}]
    BY <1>1, <1>2, <1>4 DEF TypeOK
  <2> QED
    BY <1>1, <1>4, <2>1, <2>2 DEF Inv, TypeOK
<1>6. ASSUME NEW p \in Obj, NEW d \in Call, mark[p][d] = "write" PROVE mark'[p][d] = "write"
  <2>1. mark[p] \in [Owner -> MarkKind] /\ mark[o] \in [Owner -> MarkKind] /\ d \in Owner /\ d # NoCall
    BY <1>1, <1>3, NoCallIsNot DEF TypeOK, Owner
  <2>2. CASE p # o
    BY <2>2, <1>1, <1>4, <1>6 DEF TypeOK
  <2>3. CASE p = o /\ d # c
    BY <2>1, <2>3, <1>1, <1>3, <1>4, <1>6 DEF TypeOK
  <2>4. CASE p = o /\ d = c
    BY <2>1, <2>4, <1>1, <1>3, <1>4 DEF TypeOK
  <2> QED
    BY <2>2, <2>3, <2>4
<1>7. ASSUME NEW u \in Thread, NEW i \in 1 .. Len(stack[u]), NEW j \in 1 .. Len(stack[u]),
             ForActive(stack[u], i, j), stack[u][j - 1].op = "stub"
      PROVE  at'[stack[u][j - 1].call] = at[stack[u][j - 1].call]
  <2>1. stack[u][j - 1].call # c
    BY <1>1, <1>7, WaitBelow, TopStub
  <2> QED
    BY <2>1, <1>1, <1>4 DEF TypeOK
<1>8. /\ \A d \in ran : stage'[d] \in {"submitted", "done"}
      /\ \A u \in Thread : \A i \in 1 .. Len(stack[u]) : FrameFits(stack[u][i], stage', ran)
  BY <1>4 DEF StackInv, FramesFit
<1> DEFINE gone == {}
<1>9. gone \in SUBSET Call /\ \A x : x \notin gone
  OBVIOUS
<1> HIDE DEF gone
<1>10. \A p \in Obj, d \in Call \ gone : mark[p][d] = "write" => mark'[p][d] = "write"
  BY <1>6
<1>11. \A u \in Thread : \A i, j \in 1 .. Len(stack[u]) : ForActive(stack[u], i, j) =>
         /\ stack[u][i].call \notin gone
         /\ stack[u][j - 1].op = "stub" => at'[stack[u][j - 1].call] = at[stack[u][j - 1].call]
  BY <1>7, <1>9
<1>12. shape' = shape
  BY <1>4
<1> QED
  BY <1>1, <1>5, <1>8, <1>9, <1>10, <1>11, <1>12, MarksMove

LEMMA MarksInputKeeps ==
  ASSUME StackInv, NEW t \in Thread, MarksInput(t)
  PROVE  StackInv'
<1> DEFINE c == Top(t).call
           o == Args(c)[at[c]]
<1>1. c \in Call /\ MarkInput(c) /\ UNCHANGED stackVars /\ TypeOK /\ In(t, "stub")
  BY TopIs DEF MarksInput, FrameFits, Runs, StackInv, Inv
<1>2. at[c] \in Nat /\ at[c] > 0 /\ at[c] =< Len(Args(c))
  BY <1>1 DEF MarkInput, TypeOK
<1>3. o \in Obj
  BY <1>1, <1>2, ArgIs
<1>4. /\ mark' = [mark EXCEPT ![o][c] = IF @ = "none" THEN "read" ELSE @]
      /\ at' = [at EXCEPT ![c] = @ + 1]
      /\ UNCHANGED <<shape, stage>>
  BY <1>1 DEF MarkInput, mark_input
<1>5. Inv'
  <2>1. [Next]_markVars
    BY <1>1 DEF Next
  <2> QED
    BY <2>1, StepKeeps DEF StackInv
<1>6. ASSUME NEW p \in Obj, NEW d \in Call, mark[p][d] = "write" PROVE mark'[p][d] = "write"
  <2>1. mark[p] \in [Owner -> MarkKind] /\ mark[o] \in [Owner -> MarkKind] /\ d \in Owner
    BY <1>1, <1>3 DEF TypeOK, Owner
  <2> QED
    BY <2>1, <1>1, <1>3, <1>4, <1>6 DEF TypeOK
<1>7. ASSUME NEW u \in Thread, NEW i \in 1 .. Len(stack[u]), NEW j \in 1 .. Len(stack[u]),
             ForActive(stack[u], i, j), stack[u][j - 1].op = "stub"
      PROVE  at'[stack[u][j - 1].call] = at[stack[u][j - 1].call]
  <2>1. stack[u][j - 1].call # c
    BY <1>1, <1>7, WaitBelow, TopStub
  <2> QED
    BY <2>1, <1>1, <1>4 DEF TypeOK
<1>8. /\ \A d \in ran : stage'[d] \in {"submitted", "done"}
      /\ \A u \in Thread : \A i \in 1 .. Len(stack[u]) : FrameFits(stack[u][i], stage', ran)
  BY <1>4 DEF StackInv, FramesFit
<1> DEFINE gone == {}
<1>9. gone \in SUBSET Call /\ \A x : x \notin gone
  OBVIOUS
<1> HIDE DEF gone
<1>10. \A p \in Obj, d \in Call \ gone : mark[p][d] = "write" => mark'[p][d] = "write"
  BY <1>6
<1>11. \A u \in Thread : \A i, j \in 1 .. Len(stack[u]) : ForActive(stack[u], i, j) =>
         /\ stack[u][i].call \notin gone
         /\ stack[u][j - 1].op = "stub" => at'[stack[u][j - 1].call] = at[stack[u][j - 1].call]
  BY <1>7, <1>9
<1>12. shape' = shape
  BY <1>4
<1> QED
  BY <1>1, <1>5, <1>8, <1>9, <1>10, <1>11, <1>12, MarksMove

(* What completes is active nowhere, or the frame a thread is in, so no    *)
(* thread waits for it above one of its own frames.                        *)
LEMMA CallCompletesKeeps ==
  ASSUME StackInv, NEW c \in Call, CallCompletes(c)
  PROVE  StackInv'
<1>1. Complete(c) /\ UNCHANGED stackVars /\ TypeOK
  BY DEF CallCompletes, StackInv, Inv
<1>2. Inv'
  <2>1. [Next]_markVars
    BY <1>1 DEF Next
  <2> QED
    BY <2>1, StepKeeps DEF StackInv
<1>3. /\ shape' = shape /\ at' = at /\ stage[c] = "submitted" /\ stage'[c] = "done"
      /\ \A d \in Call : d # c => stage'[d] = stage[d]
      /\ mark' = [o \in Obj |-> [mark[o] EXCEPT ![c] = "none"]]
  BY <1>1 DEF Complete, TypeOK
<1>4. ASSUME NEW o \in Obj, NEW d \in Call \ {c}, mark[o][d] = "write" PROVE mark'[o][d] = "write"
  <2>1. mark[o] \in [Owner -> MarkKind] /\ d \in Owner
    BY <1>1 DEF TypeOK, Owner
  <2> QED
    BY <2>1, <1>3, <1>4
<1>5. \A d \in ran : stage'[d] \in {"submitted", "done"}
  BY <1>3 DEF StackInv, FramesFit
<1>6. ASSUME NEW u \in Thread, NEW i \in 1 .. Len(stack[u]) PROVE FrameFits(stack[u][i], stage', ran)
  <2> DEFINE g == stack[u][i]
  <2>1. FrameFits(g, stage, ran)
    BY DEF StackInv, FramesFit
  <2> HIDE DEF g
  <2>2. FrameFits(g, stage', ran)
    BY <2>1, <1>3 DEF FrameFits, Runs
  <2> QED
    BY <2>2 DEF g
<1>7. ASSUME NEW u \in Thread, NEW i \in 1 .. Len(stack[u]), NEW j \in 1 .. Len(stack[u]),
             ForActive(stack[u], i, j), stack[u][i].call = c
      PROVE  FALSE
  <2> DEFINE n == Len(stack[u])
  <2>1. n \in Nat /\ DOMAIN stack[u] = 1 .. n /\ i < j /\ n \in 1 .. n /\ i # n
    <3>1. n \in Nat /\ DOMAIN stack[u] = 1 .. n
      BY DEF StackInv, FramesFit
    <3> QED
      BY <3>1, <1>7 DEF ForActive
  <2>2. stack[u][i].op # "body"
    BY <1>7, <2>1 DEF CallCompletes, Frames
  <2>3. stack[u][i].op = "submit"
    BY <1>7, <2>2 DEF ForActive, Activates
  <2>4. u \in Frames("submit", c)
    BY <1>7, <2>1, <2>3 DEF Frames
  <2>5. stack[u][n] = CallFrame("submit", c)
    BY <2>4 DEF CallCompletes, Top
  <2>6. stack[u][n].op = "submit" /\ stack[u][n].call = c
    BY <2>5 DEF CallFrame
  <2> QED
    BY <1>7, <2>1, <2>3, <2>6 DEF StackInv, OnlyOnce, Runs
<1> DEFINE gone == {c}
<1>8. gone \in SUBSET Call /\ Call \ gone = Call \ {c} /\ \A x : x \in gone => x = c
  OBVIOUS
<1> HIDE DEF gone
<1> QED
  BY <1>1, <1>2, <1>3, <1>4, <1>5, <1>6, <1>7, <1>8, MarksMove

(* The task of an explicit read has no frame and never gets one. *)
LEMMA TracksReadKeeps ==
  ASSUME StackInv, NEW t \in Thread, NEW c \in Call, NEW o \in Obj, TracksRead(t, c, o)
  PROVE  StackInv'
<1>1. /\ TypeOK /\ Inv /\ stage[c] = "new" /\ SharedMark(c, o)
      /\ stage' = [stage EXCEPT ![c] = "submitted"]
      /\ ran' = ran \cup {c} /\ shape' = shape /\ at' = at /\ stack' = stack /\ kept' = kept
  BY DEF TracksRead, StackInv, Inv
<1>2. Inv'
  BY <1>1, MarkSharedKeeps DEF Inv, TypeOK
<1>3. stage'[c] = "submitted" /\ \A d \in Call : d # c => stage'[d] = stage[d]
  BY <1>1 DEF TypeOK
<1>4. c \notin ran
  BY <1>1 DEF StackInv, FramesFit
<1>5. ASSUME NEW u \in Thread, NEW i \in 1 .. Len(stack[u])
      PROVE  FrameFits(stack[u][i], stage', ran \cup {c})
  <2> DEFINE g == stack[u][i]
  <2>1. FrameFits(g, stage, ran)
    BY DEF StackInv, FramesFit
  <2> HIDE DEF g
  <2>2. Runs(g) => g.call # c
    BY <2>1, <1>1, <1>4 DEF FrameFits, Runs
  <2>3. FrameFits(g, stage', ran \cup {c})
    BY <2>1, <2>2, <1>3 DEF FrameFits, Runs
  <2> QED
    BY <2>3 DEF g
<1>6. FramesFit(stack', stage', ran')
  BY <1>1, <1>3, <1>5 DEF StackInv, FramesFit
<1>7. ASSUME NEW p \in Obj, NEW d \in Call, mark[p][d] = "write" PROVE mark'[p][d] = "write"
  <2>1. mark[p] \in [Owner -> MarkKind] /\ mark[o] \in [Owner -> MarkKind] /\ d \in Owner
    BY <1>1 DEF TypeOK, Owner
  <2> QED
    BY <2>1, <1>1, <1>7 DEF SharedMark, TypeOK
<1>8. WaitsExplained(stack, shape, at, mark')
  <2> SUFFICES ASSUME NEW u \in Thread, NEW i \in 1 .. Len(stack[u]), NEW j \in 1 .. Len(stack[u]),
                      ForActive(stack[u], i, j)
               PROVE  Explained(stack[u], j, stack[u][j].call, shape, at, mark')
    BY DEF WaitsExplained
  <2> DEFINE d == stack[u][j].call
             f == stack[u][j - 1]
  <2>1. Explained(stack[u], j, d, shape, at, mark) /\ d \in Call
    BY DEF StackInv, WaitsExplained, FramesFit, FrameFits, ForActive
  <2>2. FrameFits(f, stage, ran)
    <3>1. j > 1
      BY <2>1 DEF Explained
    <3>2. Len(stack[u]) \in Nat
      BY DEF StackInv, FramesFit
    <3>3. j - 1 \in 1 .. Len(stack[u])
      BY <3>1, <3>2
    <3> QED
      BY <3>3 DEF StackInv, FramesFit
  <2>3. CASE f.op = "stub"
    <3>1. f.call \in Call /\ at[f.call] \in Nat /\ at[f.call] > 0
      BY <2>2, <2>3, <1>1 DEF FrameFits, Runs, TypeOK
    <3>2. shape[f.call].out[at[f.call]] \in Obj
      BY <3>1, <2>1, <2>3, <1>1, OutputIs DEF Explained
    <3> QED
      BY <3>2, <2>1, <2>3, <1>7 DEF Explained
  <2>4. CASE f.op = "buffer"
    BY <2>1, <2>2, <2>4, <1>7 DEF Explained, FrameFits
  <2> QED
    BY <2>1, <2>3, <2>4 DEF Explained
<1> QED
  BY <1>1, <1>2, <1>6, <1>8 DEF StackInv

(* The stub's frame becomes the submit's. *)
LEMMA SubmitsKeeps ==
  ASSUME StackInv, NEW t \in Thread, Submits(t)
  PROVE  StackInv'
<1> DEFINE n == Len(stack[t])
           f == stack[t][n]
           c == f.call
           g == [f EXCEPT !.op = "submit"]
<1>1. n \in Nat /\ n > 0 /\ Top(t) = f /\ f \in Frame /\ f.op = "stub" /\ c \in Call
  BY TopIs DEF Submits, FrameFits, Runs
<1>2. /\ Submit(c) /\ ran' = ran /\ kept' = kept /\ stack' = [stack EXCEPT ![t][n].op = "submit"]
      /\ TypeOK /\ stack \in [Thread -> Seq(Frame)]
  BY <1>1 DEF Submits, StackInv, Inv, FramesFit
<1>3. g \in Frame /\ g.op = "submit" /\ g.call = c
  BY <1>1 DEF Frame
<1>4. stack[t] \in Seq(Frame) /\ n \in 1 .. Len(stack[t]) /\ [stack[t] EXCEPT ![n] = g] \in Seq(Frame)
  BY <1>1, <1>2, <1>3
<1>5. stack' = [stack EXCEPT ![t] = [stack[t] EXCEPT ![n] = g]]
  BY <1>1, <1>2
<1>6. /\ stack' \in [Thread -> Seq(Frame)]
      /\ Len(stack'[t]) = n
      /\ stack'[t][n] = g
      /\ \A i \in 1 .. n : i # n => stack'[t][i] = stack[t][i]
      /\ \A u \in Thread : u # t => stack'[u] = stack[u]
  <2> DEFINE r == [stack[t] EXCEPT ![n] = g]
  <2>1. Len(r) = n /\ r[n] = g /\ \A i \in 1 .. n : i # n => r[i] = stack[t][i]
    BY <1>4
  <2>2. r \in Seq(Frame)
    BY <1>4
  <2> HIDE DEF r
  <2>3. stack' = [stack EXCEPT ![t] = r]
    BY <1>5 DEF r
  <2>4. stack'[t] = r /\ stack' \in [Thread -> Seq(Frame)] /\ \A u \in Thread : u # t => stack'[u] = stack[u]
    BY <2>2, <2>3, <1>2
  <2> QED
    BY <2>1, <2>4
<1>7. /\ shape' = shape /\ at' = at /\ mark' = mark /\ stage[c] = "stub" /\ stage'[c] = "submitted"
      /\ \A d \in Call : d # c => stage'[d] = stage[d]
  BY <1>1, <1>2 DEF Submit, TypeOK
<1>8. Inv'
  <2>1. [Next]_markVars
    BY <1>1, <1>2 DEF Next
  <2> QED
    BY <2>1, StepKeeps DEF StackInv
<1> HIDE DEF f, g, c, n
<1>9. ASSUME NEW u \in Thread, NEW i \in 1 .. Len(stack'[u])
      PROVE  \/ u = t /\ i = n /\ stack'[u][i] = g
             \/ i \in 1 .. Len(stack[u]) /\ stack'[u][i] = stack[u][i] /\ ~(u = t /\ i = n)
  BY <1>6 DEF n
<1>10. ASSUME NEW u \in Thread, NEW i \in 1 .. Len(stack[u]), ~(u = t /\ i = n), Runs(stack[u][i])
       PROVE  stack[u][i].call # c \/ stack[u][i].op = "body"
  <2>1. FrameFits(stack[u][i], stage, ran)
    BY DEF StackInv, FramesFit
  <2>2. stack[u][i].op = "stub" => stack[u][i].call # c
    BY <1>1, <1>4, <1>10 DEF StackInv, OnlyOnce, c, f, Runs
  <2> QED
    BY <2>1, <2>2, <1>7, <1>10 DEF FrameFits, Runs
<1>11. c \notin ran
  BY <1>7 DEF StackInv, FramesFit
<1>12. FramesFit(stack', stage', ran')
  <2>1. ASSUME NEW u \in Thread, NEW i \in 1 .. Len(stack'[u]) PROVE FrameFits(stack'[u][i], stage', ran')
    <3>1. CASE stack'[u][i] = g
      BY <3>1, <1>1, <1>3, <1>7 DEF FrameFits, Runs
    <3>2. CASE i \in 1 .. Len(stack[u]) /\ stack'[u][i] = stack[u][i] /\ ~(u = t /\ i = n)
      <4> DEFINE h == stack[u][i]
      <4>1. FrameFits(h, stage, ran) /\ (Runs(h) => h.call # c \/ h.op = "body")
        BY <3>2, <1>10 DEF StackInv, FramesFit
      <4> HIDE DEF h
      <4>2. FrameFits(h, stage', ran')
        BY <4>1, <1>2, <1>7 DEF FrameFits, Runs
      <4> QED
        BY <4>2, <3>2 DEF h
    <3> QED
      BY <3>1, <3>2, <1>9
  <2>2. ran' \in SUBSET Call /\ \A d \in ran' : stage'[d] \in {"submitted", "done"}
    BY <1>2, <1>7, <1>11 DEF StackInv, FramesFit
  <2> QED
    BY <2>1, <2>2, <1>6 DEF FramesFit
<1>13. OnlyOnce(stack')
  <2> SUFFICES ASSUME NEW u \in Thread, NEW v \in Thread, NEW i \in 1 .. Len(stack'[u]), NEW j \in 1 .. Len(stack'[v]),
                      Runs(stack'[u][i]), stack'[u][i].op = stack'[v][j].op, stack'[u][i].call = stack'[v][j].call
               PROVE  u = v /\ i = j
    BY DEF OnlyOnce
  <2>1. Runs(stack'[v][j])
    BY DEF Runs
  <2>2. CASE (u = t /\ i = n) /\ (v = t /\ j = n)
    BY <2>2
  <2>3. CASE (u = t /\ i = n) /\ ~(v = t /\ j = n)
    BY <2>1, <2>3, <1>3, <1>6, <1>9, <1>10
  <2>4. CASE ~(u = t /\ i = n) /\ (v = t /\ j = n)
    BY <2>4, <1>3, <1>6, <1>9, <1>10
  <2>5. CASE ~(u = t /\ i = n) /\ ~(v = t /\ j = n)
    <3>1. /\ i \in 1 .. Len(stack[u]) /\ stack'[u][i] = stack[u][i]
          /\ j \in 1 .. Len(stack[v]) /\ stack'[v][j] = stack[v][j]
      BY <2>5, <1>9
    <3> QED
      BY <3>1 DEF StackInv, OnlyOnce
  <2> QED
    BY <2>2, <2>3, <2>4, <2>5
<1>14. WaitsExplained(stack', shape, at, mark)
  <2>1. ASSUME NEW u \in Thread, NEW i \in 1 .. Len(stack'[u]), NEW j \in 1 .. Len(stack'[u]), ForActive(stack'[u], i, j)
        PROVE  j \in 1 .. Len(stack[u]) /\ \A k \in 1 .. j : stack'[u][k] = stack[u][k]
    <3>1. CASE u # t
      <4>1. stack'[u] = stack[u]
        BY <3>1, <1>6
      <4> QED
        BY <4>1
    <3>2. CASE u = t
      <4>1. j # n
        BY <3>2, <2>1, <1>3, <1>6 DEF ForActive
      <4>2. n \in Nat /\ j \in 1 .. n - 1 /\ n = Len(stack[t])
        BY <3>2, <4>1, <1>1, <1>6 DEF n
      <4>3. \A k \in 1 .. j : k \in 1 .. n /\ k # n
        BY <4>2
      <4> QED
        BY <3>2, <4>2, <4>3, <1>6
    <3> QED
      BY <3>1, <3>2
  <2>2. WaitsExplained(stack, shape, at, mark)
    BY DEF StackInv
  <2> QED
    BY <2>1, <2>2, <1>6, StillExplained
<1> QED
  BY <1>2, <1>7, <1>8, <1>12, <1>13, <1>14 DEF StackInv

LEMMA StackStepKeeps ==
  ASSUME StackInv, [StackNext]_allVars
  PROVE  StackInv'
<1>1. ASSUME NEW t \in Thread, WaitOver(t) \/ BodyReturns(t) \/ SubmitReturns(t) PROVE StackInv'
  <2>1. stack[t] # <<>> /\ Pop(t) /\ UNCHANGED <<markVars, ran, kept>>
    BY <1>1 DEF WaitOver, BodyReturns, SubmitReturns, In
  <2> QED
    BY <2>1, PopKeeps
<1>2. ASSUME NEW t \in Thread, Turn(t) PROVE StackInv'
  BY <1>1, <1>2, MarksOutputKeeps, StubWaitsKeeps, MarksInputKeeps, SubmitsKeeps, BufferTurnKeeps,
     AccessTurnKeeps DEF Turn
<1>3. CASE UNCHANGED allVars
  <2>1. /\ UNCHANGED markVars /\ shape' = shape /\ at' = at /\ stage' = stage /\ mark' = mark
        /\ stack' = stack /\ ran' = ran /\ kept' = kept
    BY <1>3 DEF allVars, markVars, stackVars
  <2>2. Inv'
    BY <2>1, StepKeeps DEF StackInv
  <2> QED
    BY <2>1, <2>2 DEF StackInv
<1>4. CASE StackNext
  BY <1>2, <1>4, RunBodyKeeps, CallMadeKeeps, ProgramWaitsKeeps, WaitBufferKeeps, AccessKeeps,
     TracksReadKeeps, CallCompletesKeeps DEF StackNext
<1> QED
  BY <1>3, <1>4

LEMMA StackInitInv == StackInit => StackInv
<1> SUFFICES ASSUME StackInit PROVE StackInv
  OBVIOUS
<1>1. /\ Init /\ stack = [t \in Thread |-> <<>>] /\ ran = {} /\ kept \in BOOLEAN
      /\ \A t \in Thread : Len(stack[t]) = 0
  BY DEF StackInit
<1>2. Inv
  BY <1>1, InitInv
<1>3. FramesFit(stack, stage, ran)
  BY <1>1 DEF FramesFit
<1>4. OnlyOnce(stack) /\ WaitsExplained(stack, shape, at, mark)
  BY <1>1 DEF OnlyOnce, WaitsExplained
<1> QED
  BY <1>1, <1>2, <1>3, <1>4 DEF StackInv

(* A set of numbers up to n that is not empty has a last one. *)
LEMMA LastOf ==
  ASSUME NEW n \in Nat, NEW S \in SUBSET (1 .. n), S # {}
  PROVE  \E m \in S : \A k \in S : k =< m
<1> DEFINE R == {ss \in Nat \X Nat : ss[1] < ss[2]}
           T == {n - k : k \in S}
<1>1. IsWellFoundedOn(R, Nat)
  BY NatLessThanWellFounded DEF OpToRel
<1>2. T \subseteq Nat /\ T # {}
  <2>1. \A k \in S : k \in 1 .. n /\ n - k \in Nat
    OBVIOUS
  <2>2. PICK k \in S : TRUE
    OBVIOUS
  <2>3. n - k \in T
    BY <2>2
  <2> QED
    BY <2>1, <2>3
<1>3. PICK x \in T : \A y \in T : ~(<<y, x>> \in R)
  <2> HIDE DEF R, T
  <2> QED
    BY <1>1, <1>2, WFMin
<1>4. PICK m \in S : x = n - m
  OBVIOUS
<1>5. \A k \in S : k =< m
  <2> SUFFICES ASSUME NEW k \in S, m < k PROVE FALSE
    OBVIOUS
  <2>1. n - k \in T /\ n - k \in Nat /\ x \in Nat /\ n - k < x
    BY <1>2, <1>4
  <2>2. <<n - k, x>> \in R
    BY <2>1
  <2> QED
    BY <2>1, <2>2, <1>3
<1> QED
  BY <1>5

(* A call with a body on the thread that is not the last such body is not  *)
(* the running one.                                                        *)
LEMMA NotRunning ==
  ASSUME StackInv, NEW t \in Thread, In(t, "wait"), NEW d \in Call, BodyAbove(stack[t], Len(stack[t]), d)
  PROVE  d # RunningBody(t)
<1> DEFINE n == Len(stack[t])
           S == {k \in 1 .. n : stack[t][k].op = "body"}
<1>1. n \in Nat /\ n > 0 /\ DOMAIN stack[t] = 1 .. n /\ stack[t][n].op = "wait"
  BY TopIs DEF StackInv, FramesFit
<1>2. CASE S = {}
  <2>1. \A c \in Call : t \notin Frames("body", c)
    BY <1>1, <1>2 DEF Frames
  <2> QED
    BY <2>1, NoCallIsNot DEF RunningBody
<1>3. CASE S # {}
  <2>1. PICK m \in S : \A k \in S : k =< m
    BY <1>1, <1>3, LastOf
  <2>2. m \in 1 .. n /\ stack[t][m].op = "body" /\ m \in 1 .. n - 1
    BY <1>1
  <2>3. RunningBody(t) = stack[t][m].call
    BY <2>1, <2>2, RunningIs
  <2>4. \A l \in m + 1 .. n - 1 : stack[t][l].op # "body"
    BY <1>1, <2>1, <2>2
  <2> QED
    BY <2>2, <2>3, <2>4 DEF BodyAbove
<1> QED
  BY <1>2, <1>3

LEMMA StackInvTells == StackInv => SelfWaitsForWritersOnly
<1> SUFFICES ASSUME StackInv PROVE SelfWaitsForWritersOnly
  OBVIOUS
<1>1. \A t \in Thread : stack[t] \in Seq(Frame) /\ DOMAIN stack[t] = 1 .. Len(stack[t])
  BY DEF StackInv, FramesFit
<1>2. StackTypeOK
  <2>1. TypeOK /\ stack \in [Thread -> Seq(Frame)] /\ ran \in SUBSET Call /\ kept \in BOOLEAN
    BY DEF StackInv, Inv, FramesFit
  <2>2. \A t, u \in Thread : \A i \in DOMAIN stack[t], j \in DOMAIN stack[u] :
            stack[t][i] = stack[u][j] /\ stack[t][i].op \in {"stub", "submit", "body"} => t = u /\ i = j
    <3> SUFFICES ASSUME NEW t \in Thread, NEW u \in Thread, NEW i \in 1 .. Len(stack[t]), NEW j \in 1 .. Len(stack[u]),
                        stack[t][i] = stack[u][j], Runs(stack[t][i])
                 PROVE  t = u /\ i = j
      BY <1>1 DEF Runs
    <3> QED
      BY DEF StackInv, OnlyOnce
  <2> QED
    BY <2>1, <2>2 DEF StackTypeOK
<1>3. ASSUME NEW t \in Thread, In(t, "wait"), Top(t).call \in Active(t)
      PROVE  LET d == Top(t).call
                 f == stack[t][Len(stack[t]) - 1] IN
             \/ f.op = "stub" /\ mark[shape[f.call].out[at[f.call]]][d] = "write"
             \/ f.op = "buffer" /\ mark[f.obj][d] = "write" /\ d # RunningBody(t)
  <2> DEFINE n == Len(stack[t])
             c == Top(t).call
  <2>1. n \in Nat /\ n > 0 /\ Top(t) = stack[t][n] /\ Top(t).op = "wait" /\ c \in Call
    BY <1>3, TopIs DEF FrameFits
  <2>2. t \in Frames("submit", c) \/ t \in Frames("body", c)
    BY <1>3 DEF Active
  <2>3. PICK i \in DOMAIN stack[t] : Activates(stack[t][i]) /\ stack[t][i].call = c
    BY <2>2 DEF Frames, Activates
  <2>4. i \in 1 .. n /\ i # n
    BY <1>1, <2>1, <2>3 DEF Activates
  <2>5. n \in 1 .. n /\ ForActive(stack[t], i, n)
    BY <2>1, <2>3, <2>4 DEF ForActive
  <2>6. Explained(stack[t], n, c, shape, at, mark)
    BY <2>1, <2>4, <2>5 DEF StackInv, WaitsExplained
  <2>7. BodyAbove(stack[t], n, c) => c # RunningBody(t)
    BY <1>3, <2>1, NotRunning
  <2> QED
    BY <2>6, <2>7 DEF Explained
<1> QED
  BY <1>2, <1>3 DEF SelfWaitsForWritersOnly

(* Of any program, on any number of threads, in whatever order it gives    *)
(* objects to its calls: no thread waits for a call that is active on it,  *)
(* except for an object this call still writes, when a stub or a submit    *)
(* inside it is given the object, and nothing runs twice at once: what the *)
(* comment at g_active says, and where it does not hold.                   *)
THEOREM SelfWaits == StackSpec => []SelfWaitsForWritersOnly
<1>1. StackInit => StackInv
  BY StackInitInv
<1>2. StackInv /\ [StackNext]_allVars => StackInv'
  BY StackStepKeeps
<1>3. StackInv => SelfWaitsForWritersOnly
  BY StackInvTells
<1> QED
  BY <1>1, <1>2, <1>3, PTL DEF StackSpec

=============================================================================
