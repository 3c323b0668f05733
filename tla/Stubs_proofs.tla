---------------------------- MODULE Stubs_proofs ----------------------------
(***************************************************************************)
(* What stubs rest on. The dependency locks a stub takes, for any number   *)
(* of calls, keys and dependency arguments. And the compiler pass that     *)
(* writes the stubs, for all programs: what parseKinds accepts and makes   *)
(* of the options, by induction over their list; what the pass does to a   *)
(* unit (PassInv); and what startup lets run.                              *)
(***************************************************************************)
EXTENDS DepLocks, AsyncPass, FiniteSetTheorems, WellFoundedInduction, TLAPS

-----------------------------------------------------------------------------
(* The dependency locks *)

(* How the records refer to each other: a request is on a lock exactly     *)
(* while it waits for it or holds it, that lock is the one in the table    *)
(* for the request's key, no two keys share a lock, a queue never names a  *)
(* request that is gone, and only a waiting stub has a holder to wait for. *)
Linked ==
    /\ \A h \in Hold : status[h] # "none" <=> lockOf[h] # NoLock
    /\ \A h \in Hold : status[h] # "none" => h[2] =< Len(deps[h[1]])
    /\ LockNotRecycled
    /\ \A j, k \in Key : table[j] = table[k] /\ table[j] # NoLock => j = k
    /\ \A g, h \in Hold : g \in older[h] => status[g] # "none" /\ g # h
    /\ \A t \in Task : waitOn[t] # NoTask =>
            /\ stage[t] = "stub"
            /\ at[t] =< Len(deps[t])
            /\ status[<<t, at[t]>>] = "waiting"

(* The inductive invariant. *)
IInv ==
    /\ TypeOK
    /\ Linked
    /\ CountsInStep
    /\ Exclusion
    /\ NoOvertaking
    /\ WaitsForHolder

-----------------------------------------------------------------------------
(* A subset taken out of a finite set takes its elements from the count. *)
LEMMA SubsetTakenOut ==
  ASSUME NEW S, IsFiniteSet(S), NEW T \in SUBSET S
  PROVE  Cardinality(S \ T) = Cardinality(S) - Cardinality(T)
<1>1. S \cap T = T
  OBVIOUS
<1> QED
  BY <1>1, FS_Difference

(* There are finitely many requests, so every set of them has a size. *)
LEMMA HoldFinite == IsFiniteSet(Hold)
<1>1. IsFiniteSet(1 .. MaxDeps)
  BY MaxDepsNat, FS_Interval
<1> QED
  BY <1>1, TasksFinite, FS_Product DEF Hold

LEMMA HoldSubset ==
  ASSUME NEW S \in SUBSET Hold
  PROVE  IsFiniteSet(S) /\ Cardinality(S) \in Nat /\ (Cardinality(S) = 0 <=> S = {})
BY HoldFinite, FS_Subset, FS_CardinalityType, FS_EmptySet

(* The argument a request is about is a well-formed dependency argument. *)
LEMMA DepType ==
  ASSUME TypeOK, NEW h \in Hold, h[2] =< Len(deps[h[1]])
  PROVE  Dep(h).key \in Key /\ Dep(h).write \in BOOLEAN
<1>1. h[1] \in Task /\ h[2] \in Nat /\ h[2] >= 1
  BY MaxDepsNat DEF Hold
<1>2. deps[h[1]] \in Seq(DepArg)
  BY <1>1, DepListsType DEF TypeOK
<1>3. deps[h[1]][h[2]] \in DepArg
  <2> DEFINE d == deps[h[1]]
  <2> HIDE DEF d
  <2>1. d \in Seq(DepArg) /\ Len(d) \in Nat /\ h[2] \in 1 .. Len(d)
    BY <1>1, <1>2 DEF d
  <2>2. d[h[2]] \in DepArg
    BY <2>1
  <2> QED
    BY <2>2 DEF d
<1> QED
  BY <1>3 DEF Dep, DepArg

(* The stub's next request is a request of the model. *)
LEMMA CurrentHold ==
  ASSUME TypeOK, NEW t \in Task, at[t] =< Len(deps[t])
  PROVE  <<t, at[t]>> \in Hold
<1>1. at[t] \in Nat /\ at[t] >= 1 /\ deps[t] \in DepLists
  BY MaxDepsNat DEF TypeOK
<1>2. deps[t] \in Seq(DepArg) /\ Len(deps[t]) =< MaxDeps
  BY <1>1, DepListsType
<1>3. Len(deps[t]) \in Nat
  BY <1>2
<1>4. at[t] =< MaxDeps
  BY <1>1, <1>2, <1>3, MaxDepsNat
<1> QED
  BY <1>1, <1>4, MaxDepsNat DEF Hold

-----------------------------------------------------------------------------
LEMMA InitIInv == Init => IInv
<1> SUFFICES ASSUME Init PROVE IInv
  OBVIOUS
<1>1. TypeOK
  BY MaxDepsNat DEF Init, TypeOK
<1>2. Linked
  BY NullsAreNot DEF Init, Linked, LockNotRecycled
<1>3. \A l \in Lock : Holders(l) = {} /\ Writers(l) = {}
  BY DEF Init, Holders, Writers, Requests
<1>4. CountsInStep
  BY <1>3, FS_EmptySet DEF Init, CountsInStep
<1>5. Exclusion /\ NoOvertaking /\ WaitsForHolder
  BY DEF Init, Exclusion, NoOvertaking, WaitsForHolder
<1> QED
  BY <1>1, <1>2, <1>4, <1>5 DEF IInv

-----------------------------------------------------------------------------
(* What lock_take knows about the lock l it found for the request h: h is  *)
(* new to l or already waits on it, and l is the lock of h's key from now  *)
(* on.                                                                     *)
AtLock(t, h, l, ahead) ==
    /\ h = <<t, at[t]>>
    /\ stage[t] = "stub"
    /\ at[t] =< Len(deps[t])
    /\ waitOn[t] = NoTask
    /\ status[h] = "none" \/ (status[h] = "waiting" /\ lockOf[h] = l)
    /\ table[Dep(h).key] = l \/ (table[Dep(h).key] = NoLock /\ l \in FreeLocks)
    /\ ahead \subseteq Hold
    /\ \A g \in ahead : status[g] # "none" /\ g # h
    /\ table' = [table EXCEPT ![Dep(h).key] = l]
    /\ lockOf' = [lockOf EXCEPT ![h] = l]
    /\ older' = [older EXCEPT ![h] = ahead]
    /\ UNCHANGED <<deps, stage>>

(* Putting h on l keeps the records linked, whatever h's status becomes. *)
LEMMA AtLockLinked ==
  ASSUME IInv, NEW t \in Task, NEW h, NEW l \in Lock, NEW ahead,
         AtLock(t, h, l, ahead),
         NEW s \in {"waiting", "held"}, status' = [status EXCEPT ![h] = s],
         \A u \in Task : u # t => waitOn'[u] = waitOn[u] /\ at'[u] = at[u],
         waitOn'[t] # NoTask => s = "waiting" /\ at'[t] = at[t]
  PROVE  Linked'
<1> USE DEF AtLock
<1>1. h \in Hold /\ h[1] = t /\ h[2] = at[t]
  BY CurrentHold DEF IInv
<1>2. Dep(h).key \in Key
  BY <1>1, DepType DEF IInv
<1>3. l # NoLock
  BY NullsAreNot
<1>4. \A g \in Hold : g # h => status'[g] = status[g] /\ lockOf'[g] = lockOf[g]
  BY DEF IInv, TypeOK
<1>5. status'[h] = s /\ lockOf'[h] = l
  BY <1>1 DEF IInv, TypeOK
<1>6. \A g \in Hold : Dep(g)' = Dep(g)
  BY DEF Dep
<1>7. \A g \in Hold : status'[g] # "none" <=> lockOf'[g] # NoLock
  BY <1>3, <1>4, <1>5 DEF IInv, Linked
<1>8. \A g \in Hold : status'[g] # "none" => g[2] =< Len(deps'[g[1]])
  BY <1>1, <1>4 DEF IInv, Linked
<1>9. LockNotRecycled'
  <2> SUFFICES ASSUME NEW g \in Hold, status'[g] # "none"
               PROVE  table'[Dep(g).key] = lockOf'[g]
    BY <1>6 DEF LockNotRecycled
  <2>1. CASE g = h
    BY <2>1, <1>2, <1>5 DEF IInv, TypeOK
  <2>2. CASE g # h
    <3>1. table[Dep(g).key] = lockOf[g] /\ lockOf[g] # NoLock /\ Dep(g).key \in Key
      BY <2>2, <1>4, DepType DEF IInv, Linked, LockNotRecycled
    <3>2. CASE Dep(g).key = Dep(h).key
      BY <3>1, <3>2, <1>2, <1>4, <2>2 DEF IInv, TypeOK
    <3>3. CASE Dep(g).key # Dep(h).key
      BY <3>1, <3>3, <1>4, <2>2 DEF IInv, TypeOK
    <3> QED
      BY <3>2, <3>3
  <2> QED
    BY <2>1, <2>2
<1>10. \A j, k \in Key : table'[j] = table'[k] /\ table'[j] # NoLock => j = k
  <2>1. \A j \in Key : j # Dep(h).key => table[j] # l
    BY <1>2, <1>3 DEF IInv, Linked, FreeLocks
  <2> QED
    BY <2>1, <1>2 DEF IInv, Linked, TypeOK
<1>11. \A f, g \in Hold : f \in older'[g] => status'[f] # "none" /\ f # g
  BY <1>1, <1>4, <1>5 DEF IInv, Linked, TypeOK
<1>12. ASSUME NEW u \in Task, waitOn'[u] # NoTask
       PROVE  /\ stage'[u] = "stub"
              /\ at'[u] =< Len(deps'[u])
              /\ status'[<<u, at'[u]>>] = "waiting"
  <2>1. CASE u = t
    BY <2>1, <1>5, <1>12
  <2>2. CASE u # t
    <3>1. waitOn[u] # NoTask /\ at'[u] = at[u]
      BY <2>2, <1>12
    <3>2. /\ stage[u] = "stub" /\ at[u] =< Len(deps[u])
          /\ status[<<u, at[u]>>] = "waiting"
      BY <3>1 DEF IInv, Linked
    <3>3. <<u, at[u]>> \in Hold /\ <<u, at[u]>> # h
      BY <3>2, <2>2, CurrentHold DEF IInv
    <3> QED
      BY <3>1, <3>2, <3>3, <1>4
  <2> QED
    BY <2>1, <2>2
<1> QED
  BY <1>7, <1>8, <1>9, <1>10, <1>11, <1>12 DEF Linked

(* Nobody holds the lock in a mode that conflicts with h when              *)
(* lock_conflict says so: here the counts are trusted, and are right.      *)
LEMMA NoConflictFound ==
  ASSUME IInv, NEW h \in Hold, NEW l \in Lock, h[2] =< Len(deps[h[1]]),
         lock_conflict(l, h, nholders, nwriters) = {}
  PROVE  \A g \in Holders(l) : ~Conflict(g, h)
<1>1. Holders(l) \in SUBSET Hold /\ Writers(l) \in SUBSET Hold
  BY DEF Holders, Writers, Requests
<1>2. nholders[l] = Cardinality(Holders(l)) /\ nwriters[l] = Cardinality(Writers(l))
  BY DEF IInv, CountsInStep
<1>3. CASE Dep(h).write /\ nholders[l] = 0
  BY <1>1, <1>2, <1>3, HoldSubset
<1>4. CASE ~Dep(h).write /\ nwriters[l] = 0
  <2>1. Writers(l) = {}
    BY <1>1, <1>2, <1>4, HoldSubset
  <2> QED
    BY <2>1, <1>4 DEF Writers, Conflict
<1>5. CASE ~(IF Dep(h).write THEN nholders[l] = 0 ELSE nwriters[l] = 0)
  BY <1>5 DEF lock_conflict
<1> QED
  BY <1>3, <1>4, <1>5

(* The grant at the end of lock_take. *)
LEMMA GrantKeeps ==
  ASSUME IInv, NEW t \in Task, NEW h, NEW l \in Lock, NEW ahead,
         AtLock(t, h, l, ahead),
         CanGrant(h, l, ahead, nholders, nwriters),
         Grant(h, l, nholders, nwriters)
  PROVE  IInv'
<1> USE DEF AtLock
<1>1. h \in Hold /\ h[1] = t /\ h[2] = at[t] /\ h[2] =< Len(deps[h[1]])
  BY CurrentHold DEF IInv
<1>2. Dep(h).key \in Key /\ Dep(h).write \in BOOLEAN
  BY <1>1, DepType DEF IInv
<1>3. status' = [status EXCEPT ![h] = "held"]
  BY DEF Grant
<1>4. \A g \in Hold : g # h => status'[g] = status[g] /\ lockOf'[g] = lockOf[g]
                               /\ older'[g] = older[g]
  BY <1>3 DEF IInv, TypeOK
<1>5. status'[h] = "held" /\ lockOf'[h] = l /\ older'[h] = ahead
  BY <1>1, <1>3 DEF IInv, TypeOK
<1>6. \A f, g \in Hold : Dep(g)' = Dep(g) /\ (Conflict(f, g)' <=> Conflict(f, g))
  BY DEF Dep, Conflict
<1>7. status[h] # "held"
  OBVIOUS
<1>8. TypeOK'
  <2>1. at' \in [Task -> 1 .. MaxDeps + 1]
    <3>1. at[t] \in 1 .. MaxDeps
      BY <1>1 DEF Hold
    <3> QED
      BY <3>1, MaxDepsNat DEF IInv, TypeOK, Grant
  <2>2. nholders' \in [Lock -> Nat] /\ nwriters' \in [Lock -> Nat]
    BY DEF IInv, TypeOK, Grant
  <2>3. lockOf' \in [Hold -> Lock \cup {NoLock}] /\ table' \in [Key -> Lock \cup {NoLock}]
    BY DEF IInv, TypeOK
  <2>4. older' \in [Hold -> SUBSET Hold]
    BY DEF IInv, TypeOK
  <2>5. waitOn' \in [Task -> Task \cup {NoTask}]
    BY DEF IInv, TypeOK, Grant
  <2>6. status' \in [Hold -> {"none", "waiting", "held"}]
    BY <1>3 DEF IInv, TypeOK
  <2> QED
    BY <2>1, <2>2, <2>3, <2>4, <2>5, <2>6 DEF IInv, TypeOK
<1>9. Linked'
  <2>1. waitOn'[t] = NoTask
    BY DEF Grant, IInv, TypeOK
  <2>2. \A u \in Task : u # t => waitOn'[u] = waitOn[u] /\ at'[u] = at[u]
    BY <1>1 DEF Grant, IInv, TypeOK
  <2> QED
    BY <2>1, <2>2, <1>3, AtLockLinked
<1>10. CountsInStep'
  <2> SUFFICES ASSUME NEW m \in Lock
               PROVE  /\ nholders'[m] = Cardinality(Holders(m)')
                      /\ nwriters'[m] = Cardinality(Writers(m)')
    BY DEF CountsInStep
  <2>0. /\ nholders[m] = Cardinality(Holders(m)) /\ nwriters[m] = Cardinality(Writers(m))
        /\ IsFiniteSet(Holders(m)) /\ IsFiniteSet(Writers(m))
    BY HoldSubset DEF IInv, CountsInStep, Holders, Writers, Requests
  <2>1. CASE m = l
    <3>1. Holders(m)' = Holders(m) \cup {h} /\ h \notin Holders(m)
      BY <2>1, <1>1, <1>4, <1>5, <1>7 DEF Holders, Requests
    <3>2. Writers(m)' = IF Dep(h).write THEN Writers(m) \cup {h} ELSE Writers(m)
      BY <3>1, <1>6, <1>2 DEF Writers, Holders, Requests
    <3>3. nholders'[m] = nholders[m] + 1
      BY <2>1 DEF Grant, IInv, TypeOK
    <3>4. nwriters'[m] = IF Dep(h).write THEN nwriters[m] + 1 ELSE nwriters[m]
      BY <2>1 DEF Grant, IInv, TypeOK
    <3>5. h \notin Writers(m)
      BY <3>1 DEF Writers
    <3>6. Cardinality(Holders(m) \cup {h}) = Cardinality(Holders(m)) + 1
      BY <3>1, <2>0, FS_AddElement
    <3>7. Cardinality(Writers(m) \cup {h}) = Cardinality(Writers(m)) + 1
      BY <3>5, <2>0, FS_AddElement
    <3> QED
      BY <3>1, <3>2, <3>3, <3>4, <3>6, <3>7, <2>0
  <2>2. CASE m # l
    <3>1. status[h] # "none" => lockOf[h] # m
      BY <2>2
    <3>2. status[h] = "none" => lockOf[h] # m
      BY <1>1, NullsAreNot DEF IInv, Linked
    <3>3. Holders(m)' = Holders(m)
      BY <3>1, <3>2, <2>2, <1>4, <1>5 DEF Holders, Requests
    <3>4. Writers(m)' = Writers(m)
      BY <3>3, <1>6 DEF Writers, Holders, Requests
    <3>5. nholders'[m] = nholders[m] /\ nwriters'[m] = nwriters[m]
      BY <2>2 DEF Grant, IInv, TypeOK
    <3> QED
      BY <3>3, <3>4, <3>5, <2>0
  <2> QED
    BY <2>1, <2>2
<1>11. ASSUME NEW g \in Hold, status[g] = "held", Dep(g).key = Dep(h).key
       PROVE  ~Conflict(g, h) /\ ~Conflict(h, g)
  <2>1. table[Dep(h).key] = lockOf[g] /\ lockOf[g] # NoLock
    BY <1>11 DEF IInv, Linked, LockNotRecycled
  <2>2. g \in Holders(l)
    BY <2>1, <1>11 DEF Holders, Requests
  <2>3. ~Conflict(g, h)
    BY <2>2, <1>1, NoConflictFound DEF CanGrant
  <2> QED
    BY <2>3 DEF Conflict
<1>12. ~Conflict(h, h)
  BY DEF Conflict
<1>13. Exclusion'
  BY <1>4, <1>5, <1>6, <1>11, <1>12 DEF Exclusion, IInv
<1>14. NoOvertaking'
  <2> SUFFICES ASSUME NEW f \in Hold, NEW g \in Hold, status'[f] = "held",
                      status'[g] = "waiting", g \in older'[f]
               PROVE  ~Conflict(f, g)
    BY <1>6 DEF NoOvertaking
  <2>1. g # h /\ status[g] = "waiting"
    BY <1>4, <1>5
  <2>2. CASE f = h
    BY <2>1, <2>2, <1>5 DEF CanGrant, queued_behind, Conflict
  <2>3. CASE f # h
    BY <2>1, <2>3, <1>4 DEF IInv, NoOvertaking
  <2> QED
    BY <2>2, <2>3
<1>15. WaitsForHolder'
  <2> SUFFICES ASSUME NEW u \in Task, waitOn'[u] # NoTask
               PROVE  \E g \in Hold : /\ g[1] = waitOn'[u]
                                      /\ status'[g] = "held"
                                      /\ lockOf'[g] = lockOf'[<<u, at'[u]>>]
                                      /\ Conflict(g, <<u, at'[u]>>)
    BY DEF WaitsForHolder, Conflict, Dep
  <2>1. u # t /\ waitOn'[u] = waitOn[u] /\ at'[u] = at[u]
    BY <1>1 DEF Grant, IInv, TypeOK
  <2>2. PICK g \in Hold : /\ g[1] = waitOn[u] /\ status[g] = "held"
                          /\ lockOf[g] = lockOf[<<u, at[u]>>]
                          /\ Conflict(g, <<u, at[u]>>)
    BY <2>1 DEF IInv, WaitsForHolder
  <2>3. <<u, at[u]>> \in Hold /\ <<u, at[u]>> # h
    BY <2>1, CurrentHold DEF IInv, Linked
  <2> QED
    BY <2>1, <2>2, <2>3, <1>4, <1>7
<1> QED
  BY <1>8, <1>9, <1>10, <1>13, <1>14, <1>15 DEF IInv

(* A pass of lock_take's loop that ends in a wait. *)
LEMMA WaitKeeps ==
  ASSUME IInv, NEW t \in Task, NEW h, NEW l \in Lock, NEW ahead,
         AtLock(t, h, l, ahead),
         Wait(h, l, ahead, nholders, nwriters)
  PROVE  IInv'
<1> USE DEF AtLock
<1>1. h \in Hold /\ h[1] = t /\ h[2] = at[t] /\ h[2] =< Len(deps[h[1]])
  BY CurrentHold DEF IInv
<1>2. /\ status' = [status EXCEPT ![h] = "waiting"]
      /\ nholders' = nholders /\ nwriters' = nwriters /\ at' = at
  BY DEF Wait
<1>3. \A g \in Hold : g # h => status'[g] = status[g] /\ lockOf'[g] = lockOf[g]
                               /\ older'[g] = older[g]
  BY <1>2 DEF IInv, TypeOK
<1>4. status'[h] = "waiting" /\ lockOf'[h] = l /\ older'[h] = ahead
  BY <1>1, <1>2 DEF IInv, TypeOK
<1>5. \A f, g \in Hold : Dep(g)' = Dep(g) /\ (Conflict(f, g)' <=> Conflict(f, g))
  BY DEF Dep, Conflict
<1>6. \/ waitOn' = waitOn
      \/ \E g \in Holders(l) : Conflict(g, h) /\ waitOn' = [waitOn EXCEPT ![t] = g[1]]
  <2>1. \A u \in lock_conflict(l, h, nholders, nwriters) :
            \E g \in Holders(l) : Conflict(g, h) /\ u = g[1]
    BY DEF lock_conflict
  <2> QED
    BY <2>1, <1>1 DEF Wait
<1>7. \A g \in Holders(l) : g \in Hold /\ g[1] \in Task
  BY DEF Holders, Requests, Hold
<1>8. TypeOK'
  <2>1. waitOn' \in [Task -> Task \cup {NoTask}]
    BY <1>6, <1>7 DEF IInv, TypeOK
  <2>2. lockOf' \in [Hold -> Lock \cup {NoLock}] /\ table' \in [Key -> Lock \cup {NoLock}]
    BY DEF IInv, TypeOK
  <2>3. older' \in [Hold -> SUBSET Hold] /\ status' \in [Hold -> {"none", "waiting", "held"}]
    BY <1>2 DEF IInv, TypeOK
  <2> QED
    BY <2>1, <2>2, <2>3, <1>2 DEF IInv, TypeOK
<1>9. \A u \in Task : u # t => waitOn'[u] = waitOn[u]
  BY <1>6 DEF IInv, TypeOK
<1>10. Linked'
  BY <1>2, <1>9, AtLockLinked
<1>11. \A m \in Lock : Holders(m)' = Holders(m) /\ Writers(m)' = Writers(m)
  <2>1. \A m \in Lock : Holders(m)' = Holders(m)
    BY <1>1, <1>3, <1>4 DEF Holders, Requests
  <2> QED
    BY <2>1, <1>5 DEF Writers, Holders, Requests
<1>12. CountsInStep'
  BY <1>2, <1>11 DEF CountsInStep, IInv
<1>13. Exclusion'
  BY <1>3, <1>4, <1>5 DEF Exclusion, IInv
<1>14. NoOvertaking'
  <2> SUFFICES ASSUME NEW f \in Hold, NEW g \in Hold, status'[f] = "held",
                      status'[g] = "waiting", g \in older'[f]
               PROVE  ~Conflict(f, g)
    BY <1>5 DEF NoOvertaking
  <2>1. f # h /\ status[f] = "held" /\ g \in older[f]
    BY <1>3, <1>4
  <2>2. CASE g = h
    BY <2>1, <2>2 DEF IInv, Linked, NoOvertaking
  <2>3. CASE g # h
    BY <2>1, <2>3, <1>3 DEF IInv, NoOvertaking
  <2> QED
    BY <2>2, <2>3
<1>15. WaitsForHolder'
  <2> SUFFICES ASSUME NEW u \in Task, waitOn'[u] # NoTask
               PROVE  \E g \in Hold : /\ g[1] = waitOn'[u]
                                      /\ status'[g] = "held"
                                      /\ lockOf'[g] = lockOf'[<<u, at[u]>>]
                                      /\ Conflict(g, <<u, at[u]>>)
    BY <1>2 DEF WaitsForHolder, Conflict, Dep
  <2>1. CASE u = t
    <3>1. PICK g \in Holders(l) : Conflict(g, h) /\ waitOn' = [waitOn EXCEPT ![t] = g[1]]
      BY <2>1, <1>6
    <3>2. g \in Hold /\ status[g] = "held" /\ lockOf[g] = l /\ g # h
      BY <3>1 DEF Holders, Requests
    <3> QED
      BY <3>1, <3>2, <2>1, <1>3, <1>4 DEF IInv, TypeOK
  <2>2. CASE u # t
    <3>1. PICK g \in Hold : /\ g[1] = waitOn[u] /\ status[g] = "held"
                            /\ lockOf[g] = lockOf[<<u, at[u]>>]
                            /\ Conflict(g, <<u, at[u]>>)
      BY <2>2, <1>9 DEF IInv, WaitsForHolder
    <3>2. <<u, at[u]>> \in Hold /\ <<u, at[u]>> # h
      BY <2>2, <1>9, CurrentHold DEF IInv, Linked
    <3> QED
      BY <3>1, <3>2, <2>2, <1>3, <1>9
  <2> QED
    BY <2>1, <2>2
<1> QED
  BY <1>8, <1>10, <1>12, <1>13, <1>14, <1>15 DEF IInv

LEMMA LockTakeKeeps ==
  ASSUME IInv, NEW t \in Task, LockTake(t)
  PROVE  IInv'
<1> DEFINE h == <<t, at[t]>>
           k == Dep(h).key
<1>1. h \in Hold /\ h[1] = t /\ h[2] = at[t] /\ h[2] =< Len(deps[t])
  BY CurrentHold DEF LockTake, IInv
<1>2. k \in Key
  BY <1>1, DepType DEF IInv
<1>3. PICK l \in Lock :
        /\ lock_get(k, l)
        /\ table' = [table EXCEPT ![k] = l]
        /\ lockOf' = [lockOf EXCEPT ![h] = l]
        /\ older' = [older EXCEPT ![h] = Requests(l)]
        /\ \/ /\ CanGrant(h, l, Requests(l), Cleared(nholders, k, l), Cleared(nwriters, k, l))
              /\ Grant(h, l, Cleared(nholders, k, l), Cleared(nwriters, k, l))
           \/ Wait(h, l, Requests(l), Cleared(nholders, k, l), Cleared(nwriters, k, l))
  BY DEF LockTake
<1>4. l # NoLock /\ Requests(l) \subseteq Hold
  BY NullsAreNot DEF Requests
<1>5. \A g \in Requests(l) : status[g] # "none" /\ g # h
  BY <1>1, <1>4 DEF Requests, IInv, Linked, LockTake
<1>6. Cleared(nholders, k, l) = nholders /\ Cleared(nwriters, k, l) = nwriters
  <2>1. CASE table[k] # NoLock
    BY <2>1 DEF Cleared
  <2>2. CASE table[k] = NoLock
    <3>1. \A j \in Key : table[j] # l
      BY <2>2, <1>3 DEF lock_get, FreeLocks
    <3>2. Requests(l) = {}
      <4> SUFFICES ASSUME NEW g \in Requests(l) PROVE FALSE
        OBVIOUS
      <4>1. g \in Hold /\ lockOf[g] = l /\ status[g] # "none"
        BY <1>5 DEF Requests
      <4>2. table[Dep(g).key] = l /\ g[2] =< Len(deps[g[1]])
        BY <4>1 DEF IInv, Linked, LockNotRecycled
      <4> QED
        BY <4>1, <4>2, <3>1, DepType DEF IInv
    <3>3. nholders[l] = 0 /\ nwriters[l] = 0
      BY <3>2, FS_EmptySet DEF IInv, CountsInStep, Writers, Holders
    <3> QED
      BY <3>3, <2>2 DEF Cleared, IInv, TypeOK
  <2> QED
    BY <2>1, <2>2
<1>7. waitOn[t] = NoTask
  BY DEF LockTake, IInv, Linked
<1>8. AtLock(t, h, l, Requests(l))
  BY <1>1, <1>3, <1>4, <1>5, <1>7 DEF AtLock, LockTake, lock_get
<1> HIDE DEF h, k
<1> QED
  BY <1>3, <1>6, <1>8, GrantKeeps, WaitKeeps

LEMMA LockRetryKeeps ==
  ASSUME IInv, NEW t \in Task, LockRetry(t)
  PROVE  IInv'
<1> DEFINE h == <<t, at[t]>>
           l == lockOf[h]
<1>1. h \in Hold /\ h[1] = t /\ h[2] = at[t] /\ h[2] =< Len(deps[t])
  BY CurrentHold DEF LockRetry, IInv
<1>2. Dep(h).key \in Key
  BY <1>1, DepType DEF IInv
<1>3. l \in Lock /\ table[Dep(h).key] = l /\ status[h] = "waiting"
  BY <1>1 DEF LockRetry, IInv, Linked, LockNotRecycled, TypeOK
<1>4. /\ table' = [table EXCEPT ![Dep(h).key] = l]
      /\ lockOf' = [lockOf EXCEPT ![h] = l]
      /\ older' = [older EXCEPT ![h] = older[h]]
  BY <1>1, <1>2, <1>3 DEF LockRetry, IInv, TypeOK
<1>5. older[h] \subseteq Hold /\ \A g \in older[h] : status[g] # "none"
  BY <1>1 DEF IInv, TypeOK, Linked
<1>6. h \notin older[h]
  BY <1>1 DEF IInv, Linked
<1>7. AtLock(t, h, l, older[h])
  BY <1>1, <1>3, <1>4, <1>5, <1>6 DEF AtLock, LockRetry
<1>8. \/ /\ CanGrant(h, l, older[h], nholders, nwriters)
         /\ Grant(h, l, nholders, nwriters)
      \/ Wait(h, l, older[h], nholders, nwriters)
  BY DEF LockRetry
<1> HIDE DEF h, l
<1> QED
  BY <1>3, <1>7, <1>8, GrantKeeps, WaitKeeps

(* Completion: the call's holds leave their locks, in any number. *)
LEMMA CompleteKeeps ==
  ASSUME IInv, NEW t \in Task, Complete(t)
  PROVE  IInv'
<1> DEFINE gone(h) == h[1] = t /\ status[h] = "held"
<1>1. \A h \in Hold : /\ gone(h) => status'[h] = "none" /\ lockOf'[h] = NoLock /\ older'[h] = {}
                      /\ ~gone(h) => /\ status'[h] = status[h] /\ lockOf'[h] = lockOf[h]
                                     /\ older'[h] = {g \in older[h] : ~gone(g)}
  BY DEF Complete, locks_release
<1>2. deps' = deps /\ stage' = [stage EXCEPT ![t] = "idle"] /\ at' = [at EXCEPT ![t] = 1]
  BY DEF Complete
<1>3. \A f, g \in Hold : Dep(g)' = Dep(g) /\ (Conflict(f, g)' <=> Conflict(f, g))
  BY <1>2 DEF Dep, Conflict
<1>4. \A u \in Task : waitOn'[u] = IF waitOn[u] = t THEN NoTask ELSE waitOn[u]
  BY DEF Complete
<1>5. \A l \in Lock : Held(t, l) \subseteq Holders(l)
  BY DEF Held
<1>6. \A l \in Lock : /\ Holders(l)' = Holders(l) \ Held(t, l)
                      /\ Writers(l)' = Writers(l) \ {h \in Held(t, l) : Dep(h).write}
  <2>1. \A l \in Lock : Holders(l)' = Holders(l) \ Held(t, l)
    BY <1>1, NullsAreNot DEF Holders, Requests, Held
  <2> QED
    BY <2>1, <1>3 DEF Writers, Holders, Requests, Held
<1>7. CountsInStep'
  <2> SUFFICES ASSUME NEW l \in Lock
               PROVE  /\ nholders'[l] = Cardinality(Holders(l)')
                      /\ nwriters'[l] = Cardinality(Writers(l)')
    BY DEF CountsInStep
  <2> DEFINE W == {h \in Held(t, l) : Dep(h).write}
  <2>1. IsFiniteSet(Holders(l)) /\ IsFiniteSet(Writers(l))
    BY HoldSubset DEF Holders, Writers, Requests
  <2>2. Held(t, l) \in SUBSET Holders(l) /\ W \in SUBSET Writers(l)
    BY DEF Held, Writers
  <2>3. Cardinality(Holders(l) \ Held(t, l)) = Cardinality(Holders(l)) - Cardinality(Held(t, l))
    BY <2>1, <2>2, SubsetTakenOut
  <2>4. Cardinality(Writers(l) \ W) = Cardinality(Writers(l)) - Cardinality(W)
    <3> HIDE DEF W
    <3> QED
      BY <2>1, <2>2, SubsetTakenOut
  <2>5. nholders'[l] = nholders[l] - Cardinality(Held(t, l)) /\ nwriters'[l] = nwriters[l] - Cardinality(W)
    BY DEF Complete, locks_release
  <2> QED
    BY <2>3, <2>4, <2>5, <1>6 DEF IInv, CountsInStep
<1>8. TypeOK'
  <2>1. nholders' \in [Lock -> Nat] /\ nwriters' \in [Lock -> Nat]
    <3>1. DOMAIN nholders' = Lock /\ DOMAIN nwriters' = Lock
      BY DEF Complete, locks_release
    <3>2. nholders' = [l \in Lock |-> nholders'[l]] /\ nwriters' = [l \in Lock |-> nwriters'[l]]
      BY DEF Complete, locks_release
    <3>3. ASSUME NEW l \in Lock PROVE nholders'[l] \in Nat /\ nwriters'[l] \in Nat
      <4>1. Holders(l)' \in SUBSET Hold /\ Writers(l)' \in SUBSET Hold
        BY <1>6 DEF Holders, Writers, Requests
      <4>2. Cardinality(Holders(l)') \in Nat /\ Cardinality(Writers(l)') \in Nat
        BY <4>1, HoldSubset
      <4> QED
        BY <4>2, <1>7 DEF CountsInStep
    <3> QED
      BY <3>2, <3>3
  <2>2. table' \in [Key -> Lock \cup {NoLock}]
    BY DEF Complete, locks_release, IInv, TypeOK
  <2>3. /\ status' \in [Hold -> {"none", "waiting", "held"}]
        /\ lockOf' \in [Hold -> Lock \cup {NoLock}]
        /\ older' \in [Hold -> SUBSET Hold]
    BY DEF Complete, locks_release, IInv, TypeOK
  <2>4. waitOn' \in [Task -> Task \cup {NoTask}]
    BY DEF Complete, IInv, TypeOK
  <2>5. at' \in [Task -> 1 .. MaxDeps + 1] /\ stage' \in [Task -> {"idle", "stub", "submitted"}]
    BY <1>2, MaxDepsNat DEF IInv, TypeOK
  <2> QED
    BY <2>1, <2>2, <2>3, <2>4, <2>5, <1>2 DEF IInv, TypeOK
<1>9. LockNotRecycled'
  <2> SUFFICES ASSUME NEW h \in Hold, status'[h] # "none"
               PROVE  table'[Dep(h).key] = lockOf'[h]
    BY <1>3 DEF LockNotRecycled
  <2>1. ~gone(h) /\ status[h] # "none" /\ lockOf'[h] = lockOf[h]
    BY <1>1
  <2>2. table[Dep(h).key] = lockOf[h] /\ h[2] =< Len(deps[h[1]])
    BY <2>1 DEF IInv, Linked, LockNotRecycled
  <2>3. Dep(h).key \in Key
    BY <2>2, DepType DEF IInv
  <2>4. ~Unused(t, lockOf[h])
    BY <2>1 DEF Unused, Requests
  <2> QED
    BY <2>1, <2>2, <2>3, <2>4 DEF Complete, locks_release
<1>10. \A u \in Task : waitOn'[u] # NoTask =>
            u # t /\ waitOn[u] = waitOn'[u] /\ waitOn[u] # t /\ waitOn[u] # NoTask
            /\ at'[u] = at[u] /\ stage'[u] = stage[u]
  <2>1. waitOn[t] = NoTask
    BY DEF Complete, IInv, Linked
  <2> QED
    BY <2>1, <1>2, <1>4 DEF IInv, TypeOK
<1>11. \A u \in Task : waitOn[u] # NoTask => <<u, at[u]>> \in Hold /\ ~gone(<<u, at[u]>>)
  <2> SUFFICES ASSUME NEW u \in Task, waitOn[u] # NoTask
               PROVE  <<u, at[u]>> \in Hold /\ ~gone(<<u, at[u]>>)
    OBVIOUS
  <2>1. at[u] =< Len(deps[u]) /\ status[<<u, at[u]>>] = "waiting"
    BY DEF IInv, Linked
  <2> QED
    BY <2>1, CurrentHold DEF IInv
<1>12. Linked'
  <2>1. \A h \in Hold : status'[h] # "none" <=> lockOf'[h] # NoLock
    BY <1>1 DEF IInv, Linked
  <2>2. \A h \in Hold : status'[h] # "none" => h[2] =< Len(deps'[h[1]])
    BY <1>1, <1>2 DEF IInv, Linked
  <2>3. \A j, k \in Key : table'[j] = table'[k] /\ table'[j] # NoLock => j = k
    BY DEF Complete, locks_release, IInv, Linked
  <2>4. \A g, h \in Hold : g \in older'[h] => status'[g] # "none" /\ g # h
    BY <1>1 DEF IInv, Linked
  <2>5. \A u \in Task : waitOn'[u] # NoTask =>
            stage'[u] = "stub" /\ at'[u] =< Len(deps'[u]) /\ status'[<<u, at'[u]>>] = "waiting"
    <3> SUFFICES ASSUME NEW u \in Task, waitOn'[u] # NoTask
                 PROVE  stage'[u] = "stub" /\ at'[u] =< Len(deps'[u])
                        /\ status'[<<u, at'[u]>>] = "waiting"
      OBVIOUS
    <3>1. stage[u] = "stub" /\ at[u] =< Len(deps[u]) /\ status[<<u, at[u]>>] = "waiting"
      BY <1>10 DEF IInv, Linked
    <3> QED
      BY <3>1, <1>1, <1>2, <1>10, <1>11
  <2> QED
    BY <2>1, <2>2, <2>3, <2>4, <2>5, <1>9 DEF Linked
<1>13. Exclusion'
  BY <1>1, <1>3 DEF Exclusion, IInv
<1>14. NoOvertaking'
  BY <1>1, <1>3 DEF NoOvertaking, IInv
<1>15. WaitsForHolder'
  <2> SUFFICES ASSUME NEW u \in Task, waitOn'[u] # NoTask
               PROVE  \E g \in Hold : /\ g[1] = waitOn'[u]
                                      /\ status'[g] = "held"
                                      /\ lockOf'[g] = lockOf'[<<u, at'[u]>>]
                                      /\ Conflict(g, <<u, at'[u]>>)
    BY <1>2 DEF WaitsForHolder, Conflict, Dep
  <2>1. PICK g \in Hold : /\ g[1] = waitOn[u] /\ status[g] = "held"
                          /\ lockOf[g] = lockOf[<<u, at[u]>>]
                          /\ Conflict(g, <<u, at[u]>>)
    BY <1>10 DEF IInv, WaitsForHolder
  <2>2. ~gone(g)
    BY <2>1, <1>10
  <2> QED
    BY <2>1, <2>2, <1>1, <1>10, <1>11
<1> QED
  BY <1>7, <1>8, <1>12, <1>13, <1>14, <1>15 DEF IInv

(* Entering a stub and submitting a call leave the locks alone. *)
LEMMA BeginSubmitKeeps ==
  ASSUME IInv, NEW t \in Task, Begin(t) \/ Submit(t)
  PROVE  IInv'
<1>1. /\ UNCHANGED <<deps, at, status, lockOf, older, waitOn, table, nholders, nwriters>>
      /\ stage' \in [Task -> {"idle", "stub", "submitted"}]
      /\ \A u \in Task : u # t => stage'[u] = stage[u]
  BY DEF Begin, Submit, IInv, TypeOK
<1>2. waitOn[t] = NoTask
  <2>1. CASE Begin(t)
    BY <2>1 DEF Begin, IInv, Linked
  <2>2. CASE Submit(t)
    <3>1. Len(deps[t]) \in Nat
      BY DepListsType DEF IInv, TypeOK
    <3>2. at[t] = Len(deps[t]) + 1
      BY <2>2 DEF Submit
    <3>3. ~(at[t] =< Len(deps[t]))
      BY <3>1, <3>2
    <3> QED
      BY <3>3 DEF IInv, Linked
  <2> QED
    BY <2>1, <2>2
<1>3. \A g, h \in Hold : Dep(g)' = Dep(g) /\ (Conflict(g, h)' <=> Conflict(g, h))
  BY <1>1 DEF Dep, Conflict
<1>4. \A l : Holders(l)' = Holders(l) /\ Writers(l)' = Writers(l)
  BY <1>1, <1>3 DEF Writers, Holders, Requests, Dep
<1>5. TypeOK'
  BY <1>1 DEF IInv, TypeOK
<1>6. LockNotRecycled' /\ Exclusion' /\ NoOvertaking'
  BY <1>1, <1>3 DEF IInv, Linked, LockNotRecycled, Exclusion, NoOvertaking
<1>7. WaitsForHolder'
  BY <1>1 DEF IInv, WaitsForHolder, Conflict, Dep
<1>8. CountsInStep'
  BY <1>1, <1>4 DEF IInv, CountsInStep
<1>9. Linked'
  BY <1>1, <1>2, <1>6 DEF IInv, Linked
<1> QED
  BY <1>5, <1>6, <1>7, <1>8, <1>9 DEF IInv

-----------------------------------------------------------------------------
LEMMA StutterKeeps == IInv /\ UNCHANGED vars => IInv'
<1> SUFFICES ASSUME IInv, UNCHANGED vars PROVE IInv'
  OBVIOUS
<1> USE DEF vars
<1>1. \A l : Holders(l)' = Holders(l) /\ Writers(l)' = Writers(l)
  BY DEF Writers, Holders, Requests, Dep
<1>2. TypeOK' /\ LockNotRecycled' /\ Exclusion' /\ NoOvertaking'
  BY DEF IInv, TypeOK, Linked, LockNotRecycled, Exclusion, NoOvertaking, Conflict, Dep
<1>3. Linked' /\ WaitsForHolder'
  BY <1>2 DEF IInv, Linked, WaitsForHolder, Conflict, Dep
<1>4. CountsInStep'
  BY <1>1 DEF IInv, CountsInStep
<1> QED
  BY <1>2, <1>3, <1>4 DEF IInv

(* The invariant of the dependency locks holds of every behaviour. *)
THEOREM Invariant == Spec => []IInv
<1>1. IInv /\ [Next]_vars => IInv'
  <2> SUFFICES ASSUME IInv, [Next]_vars PROVE IInv'
    OBVIOUS
  <2>1. ASSUME NEW t \in Task, Begin(t) PROVE IInv'
    BY <2>1, BeginSubmitKeeps
  <2>2. ASSUME NEW t \in Task, LockTake(t) PROVE IInv'
    BY <2>2, LockTakeKeeps
  <2>3. ASSUME NEW t \in Task, LockRetry(t) PROVE IInv'
    BY <2>3, LockRetryKeeps
  <2>4. ASSUME NEW t \in Task, Submit(t) PROVE IInv'
    BY <2>4, BeginSubmitKeeps
  <2>5. ASSUME NEW t \in Task, Complete(t) PROVE IInv'
    BY <2>5, CompleteKeeps
  <2>6. CASE UNCHANGED vars
    BY <2>6, StutterKeeps
  <2> QED
    BY <2>1, <2>2, <2>3, <2>4, <2>5, <2>6 DEF Next
<1> QED
  BY InitIInv, <1>1, PTL DEF Spec

(* Type correctness of the lock table, its counts included. *)
THEOREM LockTypes == Spec => []TypeOK
<1>1. IInv => TypeOK
  BY DEF IInv
<1> QED
  BY Invariant, <1>1, PTL

(* A read lock is shared and a write lock is exclusive, for every program. *)
THEOREM LockExclusion == Spec => []Exclusion
<1>1. IInv => Exclusion
  BY DEF IInv
<1> QED
  BY Invariant, <1>1, PTL

(* locks_release's "counts out of step" abort is unreachable, and          *)
(* lock_conflict may trust the counts.                                     *)
THEOREM LockCounts == Spec => []CountsInStep
<1>1. IInv => CountsInStep
  BY DEF IInv
<1> QED
  BY Invariant, <1>1, PTL

(* A lock record is never recycled under a call that waits on it. *)
THEOREM LockIdentity == Spec => []LockNotRecycled
<1>1. IInv => LockNotRecycled
  BY DEF IInv, Linked
<1> QED
  BY Invariant, <1>1, PTL

(* Conflicting requests are granted in the order they arrived. *)
THEOREM LockOrder == Spec => []NoOvertaking
<1>1. IInv => NoOvertaking
  BY DEF IInv
<1> QED
  BY Invariant, <1>1, PTL

(* The call a waiting stub polls is one that holds the lock against it. *)
THEOREM LockWaits == Spec => []WaitsForHolder
<1>1. IInv => WaitsForHolder
  BY DEF IInv
<1> QED
  BY Invariant, <1>1, PTL

-----------------------------------------------------------------------------
(* Induction, on sets of numbers: that < is well-founded on Nat gives each *)
(* nonempty set a least member.                                            *)
LEMMA LeastNatural ==
  ASSUME NEW T, T \subseteq Nat, T # {}
  PROVE  \E x \in T : \A y \in T : x <= y
<1> DEFINE R == {ss \in Nat \X Nat : ss[1] < ss[2]}
<1>1. IsWellFoundedOn(R, Nat)
  BY NatLessThanWellFounded, Zenon DEF OpToRel
<1>2. \A y, x \in Nat : y < x => <<y, x>> \in R
  OBVIOUS
<1> HIDE DEF R
<1>3. PICK x \in T : \A y \in T : ~(<<y, x>> \in R)
  BY <1>1, WFMin
<1>4. ASSUME NEW y \in T PROVE x <= y
  <2>1. x \in Nat /\ y \in Nat /\ ~(y < x)
    BY <1>2, <1>3
  <2> QED
    BY <2>1
<1> QED
  BY <1>4

LEMMA InductionUpTo ==
  ASSUME NEW N \in Nat, NEW S, 0 \in S, \A k \in 1 .. N : k - 1 \in S => k \in S
  PROVE  \A k \in 0 .. N : k \in S
<1> DEFINE T == {k \in 0 .. N : k \notin S}
<1> SUFFICES ASSUME T # {} PROVE FALSE
  OBVIOUS
<1>1. T \subseteq Nat
  OBVIOUS
<1> HIDE DEF T
<1>2. PICK x \in T : \A y \in T : x <= y
  BY <1>1, LeastNatural
<1>3. x \in 0 .. N /\ x \notin S
  BY DEF T
<1>4. x # 0
  BY <1>3
<1>5. x \in 1 .. N /\ x - 1 \in 0 .. N /\ ~(x <= x - 1)
  BY <1>3, <1>4
<1>6. x - 1 \notin T
  BY <1>2, <1>5
<1> QED
  BY <1>3, <1>5, <1>6 DEF T

LEMMA MinIsLeast ==
  ASSUME NEW T, T \subseteq Nat, T # {}
  PROVE  Min(T) \in T /\ \A y \in T : Min(T) <= y
<1>1. \E x \in T : \A y \in T : x <= y
  BY LeastNatural
<1> QED
  BY <1>1 DEF Min

LEMMA MaxIsLargest ==
  ASSUME NEW N \in Nat, NEW T, T \subseteq 1 .. N, T # {}
  PROVE  Max(T) \in T /\ \A y \in T : y <= Max(T)
<1> DEFINE D == {N - y : y \in T}
<1>1. D \subseteq Nat /\ D # {}
  OBVIOUS
<1>2. PICK d \in D : \A e \in D : d <= e
  BY <1>1, LeastNatural
<1>3. PICK x \in T : d = N - x
  OBVIOUS
<1>4. \A y \in T : N - x <= N - y
  BY <1>2, <1>3
<1>5. \A y \in T : y <= x
  BY <1>4
<1>6. \E z \in T : \A y \in T : z >= y
  BY <1>5
<1> QED
  BY <1>6 DEF Max

(* What a recursion over 0 .. N computes, when each step stays in V.       *)
Recurs(P, N, V, a, step) ==
    P \in [0 .. N -> V] /\ P[0] = a /\ \A k \in 1 .. N : P[k] = step[<<k, P[k - 1]>>]

LEMMA Recursion ==
  ASSUME NEW N \in Nat, NEW V, NEW a \in V, NEW step, step \in [(1 .. N) \X V -> V]
  PROVE  \E P : Recurs(P, N, V, a, step)
<1> DEFINE Up(n) == \E P \in [0 .. n -> V] : P[0] = a /\ \A k \in 1 .. n : P[k] = step[<<k, P[k - 1]>>]
           S == {n \in Nat : Up(n)}
<1>1. 0 \in S
  <2> DEFINE P == [k \in 0 .. 0 |-> a]
  <2>1. P \in [0 .. 0 -> V] /\ P[0] = a
    OBVIOUS
  <2> HIDE DEF P
  <2>2. \A k \in 1 .. 0 : P[k] = step[<<k, P[k - 1]>>]
    OBVIOUS
  <2>3. Up(0)
    BY <2>1, <2>2
  <2> HIDE DEF Up
  <2> QED
    BY <2>3
<1>2. ASSUME NEW n \in 1 .. N, n - 1 \in S PROVE n \in S
  <2>1. PICK P \in [0 .. n - 1 -> V] : P[0] = a /\ \A k \in 1 .. n - 1 : P[k] = step[<<k, P[k - 1]>>]
    BY <1>2
  <2> DEFINE Q == [k \in 0 .. n |-> IF k = n THEN step[<<n, P[n - 1]>>] ELSE P[k]]
  <2>2. P[n - 1] \in V /\ step[<<n, P[n - 1]>>] \in V
    BY <2>1
  <2>3. Q \in [0 .. n -> V]
    BY <2>1, <2>2
  <2>4. Q[0] = a
    BY <2>1
  <2>5. ASSUME NEW k \in 1 .. n PROVE Q[k] = step[<<k, Q[k - 1]>>]
    <3>1. CASE k = n
      <4>1. n \in 0 .. n /\ n - 1 \in 0 .. n /\ n - 1 # n
        OBVIOUS
      <4>2. Q[n] = step[<<n, P[n - 1]>>] /\ Q[n - 1] = P[n - 1]
        BY <4>1
      <4> QED
        BY <3>1, <4>2
    <3>2. CASE k # n
      <4>1. k \in 1 .. n - 1 /\ Q[k] = P[k] /\ Q[k - 1] = P[k - 1]
        BY <3>2
      <4> QED
        BY <4>1, <2>1
    <3> QED
      BY <3>1, <3>2
  <2> HIDE DEF Q
  <2> QED
    BY <2>3, <2>4, <2>5
<1> HIDE DEF S
<1>3. N \in S
  BY <1>1, <1>2, InductionUpTo
<1> QED
  BY <1>3 DEF S, Recurs

-----------------------------------------------------------------------------
(* Picked *)

LEMMA PicksSteps ==
  ASSUME NEW T, NEW s \in Seq(T), NEW S
  PROVE  /\ Picks(s, S)[0] = << >>
         /\ \A n \in 1 .. Len(s) :
              Picks(s, S)[n] = IF n \in S THEN Append(Picks(s, S)[n - 1], s[n]) ELSE Picks(s, S)[n - 1]
<1> DEFINE N == Len(s)
           V == Seq(T)
           nil == << >>
           step == [x \in (1 .. N) \X V |-> IF x[1] \in S THEN Append(x[2], s[x[1]]) ELSE x[2]]
           Ok(P) == P = [n \in 0 .. Len(s) |-> IF n = 0 THEN << >> ELSE IF n \in S THEN Append(P[n - 1], s[n]) ELSE P[n - 1]]
<1>1. N \in Nat /\ nil \in V
  OBVIOUS
<1>2. step \in [(1 .. N) \X V -> V]
  OBVIOUS
<1>3. \A k \in 1 .. N, v \in V : step[<<k, v>>] = IF k \in S THEN Append(v, s[k]) ELSE v
  OBVIOUS
<1> HIDE DEF step, V, N, nil
<1>a. PICK Q : Recurs(Q, N, V, nil, step)
  BY <1>1, <1>2, Recursion
<1>4. Q \in [0 .. N -> V] /\ Q[0] = << >> /\ \A k \in 1 .. N : Q[k] = step[<<k, Q[k - 1]>>]
  BY <1>a DEF nil, Recurs
<1>5. \A k \in 1 .. N : Q[k] = IF k \in S THEN Append(Q[k - 1], s[k]) ELSE Q[k - 1]
  <2>1. \A k \in 1 .. N : k - 1 \in 0 .. N /\ Q[k - 1] \in V
    BY <1>1, <1>4
  <2> QED
    BY <2>1, <1>3, <1>4
<1>6. Ok(Q)
  <2> DEFINE G == [n \in 0 .. Len(s) |-> IF n = 0 THEN << >> ELSE IF n \in S THEN Append(Q[n - 1], s[n]) ELSE Q[n - 1]]
  <2>1. ASSUME NEW n \in 0 .. N PROVE Q[n] = G[n]
    <3>1. n \in 0 .. Len(s)
      BY DEF N
    <3>2. G[n] = IF n = 0 THEN << >> ELSE IF n \in S THEN Append(Q[n - 1], s[n]) ELSE Q[n - 1]
      BY <3>1
    <3>3. n = 0 \/ n \in 1 .. N
      BY <1>1
    <3> HIDE DEF G
    <3> QED
      BY <3>2, <3>3, <1>4, <1>5
  <2>2. DOMAIN Q = 0 .. N /\ DOMAIN G = 0 .. N /\ Q = [n \in 0 .. N |-> Q[n]]
    BY <1>4 DEF N
  <2> QED
    BY <2>1, <2>2
<1>7. Picks(s, S) = CHOOSE P : Ok(P)
  BY Zenon DEF Picks
<1> HIDE DEF Ok
<1>8. Ok(CHOOSE P : Ok(P))
  BY <1>6, Zenon
<1>9. Ok(Picks(s, S))
  BY <1>7, <1>8, Zenon
<1>10. Picks(s, S) = [n \in 0 .. Len(s) |-> IF n = 0 THEN << >> ELSE IF n \in S THEN Append(Picks(s, S)[n - 1], s[n]) ELSE Picks(s, S)[n - 1]]
  BY <1>9, Zenon DEF Ok
<1> QED
  <2> DEFINE X == Picks(s, S)
  <2>1. X = [n \in 0 .. Len(s) |-> IF n = 0 THEN << >> ELSE IF n \in S THEN Append(X[n - 1], s[n]) ELSE X[n - 1]]
    BY <1>10
  <2> HIDE DEF X
  <2>2. X[0] = << >>
    <3>1. 0 \in 0 .. Len(s)
      BY <1>1 DEF N
    <3> QED
      BY <2>1, <3>1
  <2>3. ASSUME NEW n \in 1 .. Len(s) PROVE X[n] = IF n \in S THEN Append(X[n - 1], s[n]) ELSE X[n - 1]
    <3>1. n \in 0 .. Len(s) /\ n # 0
      OBVIOUS
    <3> QED
      BY <2>1, <3>1
  <2> QED
    BY <2>2, <2>3 DEF X

LEMMA AppendMembers ==
  ASSUME NEW T, NEW s \in Seq(T), NEW x \in T
  PROVE  Append(s, x) \in Seq(T) /\ ToSet(Append(s, x)) = ToSet(s) \cup {x}
<1> DEFINE c == Append(s, x)
           n == Len(s)
<1>1. /\ n \in Nat /\ c \in Seq(T) /\ Len(c) = n + 1 /\ c[n + 1] = x
      /\ \A i \in 1 .. n : c[i] = s[i]
  OBVIOUS
<1>2. ToSet(s) = {s[i] : i \in 1 .. n} /\ ToSet(c) = {c[i] : i \in 1 .. n + 1}
  BY <1>1 DEF ToSet
<1> HIDE DEF c
<1>3. ASSUME NEW y \in ToSet(c) PROVE y \in ToSet(s) \cup {x}
  BY <1>1, <1>2
<1>4. ASSUME NEW y \in ToSet(s) PROVE y \in ToSet(c)
  BY <1>1, <1>2
<1>5. x \in ToSet(c)
  BY <1>1, <1>2
<1> QED
  BY <1>1, <1>3, <1>4, <1>5 DEF c

\* The members of what is picked.
LEMMA PickedMembers ==
  ASSUME NEW T, NEW s \in Seq(T), NEW S
  PROVE  Picked(s, S) \in Seq(T) /\ ToSet(Picked(s, S)) = {s[i] : i \in (1 .. Len(s)) \cap S}
<1> DEFINE N == Len(s)
           X == Picks(s, S)
           Good(n) == X[n] \in Seq(T) /\ ToSet(X[n]) = {s[i] : i \in (1 .. n) \cap S}
           G == {n \in Nat : Good(n)}
<1>1. N \in Nat
  OBVIOUS
<1>2. X[0] = << >> /\ \A n \in 1 .. N : X[n] = IF n \in S THEN Append(X[n - 1], s[n]) ELSE X[n - 1]
  BY PicksSteps
<1>a. \A n \in 1 .. N : s[n] \in T
  OBVIOUS
<1> HIDE DEF X, N
<1>3. 0 \in G
  <2>1. X[0] \in Seq(T) /\ ToSet(X[0]) = {}
    BY <1>2 DEF ToSet
  <2>2. {s[i] : i \in (1 .. 0) \cap S} = {}
    OBVIOUS
  <2> QED
    BY <2>1, <2>2
<1>4. ASSUME NEW n \in 1 .. N, n - 1 \in G PROVE n \in G
  <2>1. X[n - 1] \in Seq(T) /\ ToSet(X[n - 1]) = {s[i] : i \in (1 .. n - 1) \cap S}
    BY <1>4
  <2>2. CASE n \in S
    <3>1. X[n] = Append(X[n - 1], s[n]) /\ s[n] \in T
      BY <1>2, <1>a, <2>2
    <3>2. X[n] \in Seq(T) /\ ToSet(X[n]) = ToSet(X[n - 1]) \cup {s[n]}
      BY <2>1, <3>1, AppendMembers
    <3>3. {s[i] : i \in (1 .. n) \cap S} = {s[i] : i \in (1 .. n - 1) \cap S} \cup {s[n]}
      BY <1>1, <2>2
    <3>4. Good(n)
      BY <2>1, <3>2, <3>3
    <3> HIDE DEF Good
    <3> QED
      BY <3>4, <1>1
  <2>3. CASE n \notin S
    <3>1. X[n] = X[n - 1]
      BY <1>2, <2>3
    <3>2. (1 .. n) \cap S = (1 .. n - 1) \cap S
      BY <1>1, <2>3
    <3> QED
      BY <2>1, <3>1, <3>2
  <2> QED
    BY <2>2, <2>3
<1> HIDE DEF G
<1>5. N \in G
  <2>1. \A k \in 1 .. N : k - 1 \in G => k \in G
    BY <1>4
  <2>2. \A k \in 0 .. N : k \in G
    BY <1>1, <1>3, <2>1, InductionUpTo
  <2> QED
    BY <1>1, <2>2
<1> QED
  BY <1>5 DEF G, X, Picked, N

\* Whoever picks everything gets it as it was.
LEMMA PickedAll ==
  ASSUME NEW T, NEW s \in Seq(T), NEW S, 1 .. Len(s) \subseteq S
  PROVE  Picked(s, S) = s
<1> DEFINE N == Len(s)
           X == Picks(s, S)
           Good(n) == X[n] \in Seq(T) /\ Len(X[n]) = n /\ \A i \in 1 .. n : X[n][i] = s[i]
           G == {n \in Nat : Good(n)}
<1>1. N \in Nat
  OBVIOUS
<1>2. X[0] = << >> /\ \A n \in 1 .. N : X[n] = IF n \in S THEN Append(X[n - 1], s[n]) ELSE X[n - 1]
  BY PicksSteps
<1>a. \A n \in 1 .. N : s[n] \in T
  OBVIOUS
<1> HIDE DEF X, N
<1>3. 0 \in G
  <2>1. X[0] \in Seq(T) /\ Len(X[0]) = 0
    BY <1>2
  <2> QED
    BY <2>1
<1>4. ASSUME NEW n \in 1 .. N, n - 1 \in G PROVE n \in G
  <2>1. X[n - 1] \in Seq(T) /\ Len(X[n - 1]) = n - 1 /\ \A i \in 1 .. n - 1 : X[n - 1][i] = s[i]
    BY <1>4
  <2>2. X[n] = Append(X[n - 1], s[n]) /\ s[n] \in T
    <3>1. n \in S
      BY DEF N
    <3> QED
      BY <3>1, <1>2, <1>a
  <2>3. X[n] \in Seq(T) /\ Len(X[n]) = n
    BY <2>1, <2>2
  <2>4. \A i \in 1 .. n : X[n][i] = s[i]
    BY <2>1, <2>2
  <2> QED
    BY <2>3, <2>4
<1> HIDE DEF G
<1>5. N \in G
  BY <1>1, <1>3, <1>4, InductionUpTo
<1>6. X[N] \in Seq(T) /\ Len(X[N]) = N /\ \A i \in 1 .. N : X[N][i] = s[i]
  BY <1>5 DEF G
<1>7. X[N] = s
  BY <1>6 DEF N
<1> QED
  BY <1>7 DEF X, Picked, N

-----------------------------------------------------------------------------
(* One option: parseKinds' loop *)

FnFits(fn) ==
    /\ fn.param \in Seq(Parameter)
    /\ \A i, j \in DOMAIN fn.param : fn.param[i].name = fn.param[j].name => i = j \/ fn.param[i].name = ""

Hashed(o) ==
    /\ o \in Option
    /\ o.key \in {"r_dep", "w_dep"} /\ o.ns \notin {NoNs, ""} => <<o.param, o.ns>> \in DOMAIN Hash

\* o names the parameter i, as a dependency, as a buffer; o is not for the pass.
Names(fn, i, o) == o.param # "" /\ fn.param[i].name = o.param
DepFor(fn, i, o) == /\ o.key \in {"r_dep", "w_dep"} /\ Names(fn, i, o)
                    /\ o.ns \notin {NoNs, ""} /\ fn.param[i].type # "other"
BufFor(fn, i, o) == o.key \in {"bin", "bout", "buf"} /\ Names(fn, i, o) /\ IsPointer(fn.param[i].type)
Skipped(o) == o.key \notin {"r_dep", "w_dep", "bin", "bout", "buf", "fd", "read_dep", "write_dep"}
Fits(fn, o) == Skipped(o) \/ \E i \in DOMAIN fn.param : DepFor(fn, i, o) \/ BufFor(fn, i, o)

WordFor(fn, i, o) == DepWord(DepMode[o.key], IsPointer(fn.param[i].type), HashNamespace(o.param, o.ns))

LEMMA FnParams ==
  ASSUME NEW fn, FnFits(fn)
  PROVE  /\ Len(fn.param) \in Nat /\ DOMAIN fn.param = 1 .. Len(fn.param) /\ 0 \notin DOMAIN fn.param
         /\ \A i \in DOMAIN fn.param : fn.param[i].type \in {"ptr", "constptr", "int", "other"}
<1>1. PICK s : s = fn.param
  OBVIOUS
<1>2. s \in Seq(Parameter)
  BY <1>1 DEF FnFits
<1>3. Len(s) \in Nat /\ DOMAIN s = 1 .. Len(s) /\ \A i \in 1 .. Len(s) : s[i] \in Parameter
  BY <1>2
<1>4. \A x \in Parameter : x.type \in {"ptr", "constptr", "int", "other"}
  BY DEF Parameter
<1> QED
  BY <1>1, <1>3, <1>4

LEMMA ModeFacts ==
  /\ DepMode["r_dep"] = 1 /\ DepMode["w_dep"] = 2
  /\ BufferKind["bin"] = "in" /\ BufferKind["bout"] = "out" /\ BufferKind["buf"] = "pending"
BY DEF DepMode, BufferKind, DepRead, DepWrite

LEMMA ParamIndexIs ==
  ASSUME NEW fn, FnFits(fn), NEW name
  PROVE  /\ ParamIndex(fn, name) \in DOMAIN fn.param \cup {0}
         /\ \A i \in DOMAIN fn.param : ParamIndex(fn, name) = i <=> name # "" /\ fn.param[i].name = name
<1> DEFINE I == {i \in 1 .. Len(fn.param) : fn.param[i].name = name}
<1>1. DOMAIN fn.param = 1 .. Len(fn.param) /\ Len(fn.param) \in Nat
  BY FnParams
<1>2. \A i, j \in I : name # "" => i = j
  BY <1>1 DEF FnFits
<1>3. ParamIndex(fn, name) = IF name = "" THEN 0 ELSE IF I # {} THEN Min(I) ELSE 0
  BY Zenon DEF ParamIndex, SelectInSeq
<1>4. I # {} => Min(I) \in I
  <2>1. I \subseteq Nat
    BY <1>1
  <2> HIDE DEF I
  <2> QED
    BY <2>1, MinIsLeast
<1>5. \A i : i \in I <=> i \in DOMAIN fn.param /\ fn.param[i].name = name
  BY <1>1
<1>6. 0 \notin DOMAIN fn.param
  BY <1>1
<1> HIDE DEF I
<1> QED
  BY <1>2, <1>3, <1>4, <1>5, <1>6

LEMMA WordFacts ==
  ASSUME NEW fn, FnFits(fn), NEW o, Hashed(o), NEW i \in DOMAIN fn.param, DepFor(fn, i, o)
  PROVE  /\ HashNamespace(o.param, o.ns) \in Nat
         /\ WordFor(fn, i, o) \in Nat \ {0}
         /\ ModeOf(WordFor(fn, i, o)) = DepMode[o.key]
         /\ WordFor(fn, i, o) \div 256 = HashNamespace(o.param, o.ns)
         /\ (WordFor(fn, i, o) \div 4) % 2 = IF IsPointer(fn.param[i].type) THEN 1 ELSE 0
         /\ (WordFor(fn, i, o) \div 8) % 32 = 0
<1>1. HashNamespace(o.param, o.ns) \in Nat
  BY HashType DEF HashNamespace, Hashed, DepFor
<1>2. DepMode[o.key] \in {1, 2}
  BY ModeFacts DEF DepFor
<1>3. PICK h \in Nat : h = HashNamespace(o.param, o.ns)
  BY <1>1
<1>4. PICK m \in {1, 2} : m = DepMode[o.key]
  BY <1>2
<1>5. WordFor(fn, i, o) = m + (IF IsPointer(fn.param[i].type) THEN 4 ELSE 0) + 256 * h
  BY <1>3, <1>4 DEF WordFor, DepWord
<1>6. ASSUME NEW b \in {0, 4}, NEW w \in Nat, w = m + b + 256 * h
      PROVE  w # 0 /\ w % 4 = m /\ w \div 256 = h /\ (w \div 4) % 2 = b \div 4 /\ (w \div 8) % 32 = 0
  <2>1. w # 0 /\ w % 4 = m /\ w \div 256 = h
    BY <1>6
  <2>2. w \div 4 = b \div 4 + 64 * h
    BY <1>6
  <2>3. w \div 8 = 32 * h
    BY <1>6
  <2>4. (b \div 4 + 64 * h) % 2 = b \div 4 /\ (32 * h) % 32 = 0
    OBVIOUS
  <2> QED
    BY <2>1, <2>2, <2>3, <2>4
<1>7. CASE IsPointer(fn.param[i].type)
  <2>1. WordFor(fn, i, o) = m + 4 + 256 * h /\ WordFor(fn, i, o) \in Nat
    BY <1>5, <1>7
  <2> QED
    BY <2>1, <1>6, <1>1, <1>3, <1>4, <1>7 DEF ModeOf
<1>8. CASE ~IsPointer(fn.param[i].type)
  <2>1. WordFor(fn, i, o) = m + 0 + 256 * h /\ WordFor(fn, i, o) \in Nat
    BY <1>5, <1>8
  <2> QED
    BY <2>1, <1>6, <1>1, <1>3, <1>4, <1>8 DEF ModeOf
<1> QED
  BY <1>7, <1>8

\* Equal words mean equal keys and equal hashes.
LEMMA WordsTell ==
  ASSUME NEW fn, FnFits(fn), NEW o, Hashed(o), NEW q, Hashed(q), NEW i \in DOMAIN fn.param,
         DepFor(fn, i, o), DepFor(fn, i, q)
  PROVE  WordFor(fn, i, o) = WordFor(fn, i, q) <=>
            o.key = q.key /\ HashNamespace(fn.param[i].name, o.ns) = HashNamespace(fn.param[i].name, q.ns)
<1>1. fn.param[i].name = o.param /\ fn.param[i].name = q.param
  BY DEF DepFor, Names
<1>2. DepMode[o.key] = DepMode[q.key] <=> o.key = q.key
  <2>1. o.key \in {"r_dep", "w_dep"} /\ q.key \in {"r_dep", "w_dep"}
    BY DEF DepFor
  <2>2. CASE o.key = q.key
    BY <2>2
  <2>3. CASE o.key = "r_dep" /\ q.key = "w_dep"
    BY <2>3, ModeFacts
  <2>4. CASE o.key = "w_dep" /\ q.key = "r_dep"
    BY <2>4, ModeFacts
  <2> QED
    BY <2>1, <2>2, <2>3, <2>4
<1>3. /\ ModeOf(WordFor(fn, i, o)) = DepMode[o.key] /\ WordFor(fn, i, o) \div 256 = HashNamespace(o.param, o.ns)
      /\ ModeOf(WordFor(fn, i, q)) = DepMode[q.key] /\ WordFor(fn, i, q) \div 256 = HashNamespace(q.param, q.ns)
  BY WordFacts
<1>4. ASSUME WordFor(fn, i, o) = WordFor(fn, i, q)
      PROVE  o.key = q.key /\ HashNamespace(o.param, o.ns) = HashNamespace(q.param, q.ns)
  BY <1>2, <1>3, <1>4
<1>5. ASSUME o.key = q.key, HashNamespace(o.param, o.ns) = HashNamespace(q.param, q.ns)
      PROVE  WordFor(fn, i, o) = WordFor(fn, i, q)
  BY <1>5 DEF WordFor
<1> QED
  BY <1>1, <1>4, <1>5

(* What the loop works on. *)
DepWords == {0} \cup {w \in Nat : ModeOf(w) \in {1, 2} /\ (w \div 8) % 32 = 0}
KindsOf(fn) ==
    {k \in [DOMAIN fn.param -> {"in", "out", "pending", "ignored"}] :
        \A i \in DOMAIN fn.param : k[i] # "ignored" => IsPointer(fn.param[i].type)}
ParseState(fn) == [kind : KindsOf(fn), dep : [DOMAIN fn.param -> DepWords], noped : Nat, ok : BOOLEAN]

DefaultKind(type) == IF type = "ptr" THEN "pending" ELSE IF type = "constptr" THEN "in" ELSE "ignored"

LEMMA DefaultsAre ==
  ASSUME NEW fn, FnFits(fn)
  PROVE  /\ Defaults(fn) \in ParseState(fn) /\ Defaults(fn).ok
         /\ \A i \in DOMAIN fn.param : Defaults(fn).kind[i] = DefaultKind(fn.param[i].type) /\ Defaults(fn).dep[i] = 0
<1>1. \A i \in DOMAIN fn.param : fn.param[i].type \in {"ptr", "constptr", "int", "other"}
  BY FnParams
<1>2. /\ Defaults(fn).kind \in [DOMAIN fn.param -> {"in", "out", "pending", "ignored"}]
      /\ \A i \in DOMAIN fn.param : Defaults(fn).kind[i] = DefaultKind(fn.param[i].type)
  BY <1>1 DEF Defaults, DefaultKind
<1>3. Defaults(fn).kind \in KindsOf(fn)
  BY <1>2 DEF KindsOf, DefaultKind, IsPointer
<1>4. /\ Defaults(fn).dep \in [DOMAIN fn.param -> DepWords] /\ Defaults(fn).noped \in Nat /\ Defaults(fn).ok = TRUE
      /\ \A i \in DOMAIN fn.param : Defaults(fn).dep[i] = 0
  BY DEF Defaults, DepWords
<1>5. Defaults(fn) = [kind |-> Defaults(fn).kind, dep |-> Defaults(fn).dep, noped |-> Defaults(fn).noped, ok |-> Defaults(fn).ok]
  BY DEF Defaults
<1> QED
  BY <1>2, <1>3, <1>4, <1>5 DEF ParseState

(* An option is a dependency, a buffer, not for the pass, or wrong. *)
Turn(fn, acc, o, r) ==
    /\ \A i \in DOMAIN fn.param : DepFor(fn, i, o) =>
          r = [acc EXCEPT !.ok = @ /\ acc.dep[i] \in {0, WordFor(fn, i, o)}, !.dep[i] = WordFor(fn, i, o)]
    /\ \A i \in DOMAIN fn.param : BufFor(fn, i, o) =>
          r = [acc EXCEPT !.kind[i] = BufferKind[o.key], !.noped = @ + 1]
    /\ Skipped(o) => r = acc
    /\ ~Fits(fn, o) => r = [acc EXCEPT !.ok = FALSE]

LEMMA OptionParsed ==
  ASSUME NEW fn, FnFits(fn), NEW o, NEW acc
  PROVE  Turn(fn, acc, o, ParseOption(fn, acc, o))
<1> DEFINE j == ParamIndex(fn, o.param)
<1>1. /\ j \in DOMAIN fn.param \cup {0} /\ 0 \notin DOMAIN fn.param
      /\ \A i \in DOMAIN fn.param : j = i <=> Names(fn, i, o)
  BY ParamIndexIs DEF Names, FnFits
<1>2. DOMAIN DepMode = {"r_dep", "w_dep"} /\ DOMAIN BufferKind = {"bin", "bout", "buf"}
  BY DEF DepMode, BufferKind
<1> DEFINE D == o.key \in DOMAIN DepMode /\ j # 0 /\ o.ns \notin {NoNs, ""} /\ fn.param[j].type # "other"
           B == o.key \in DOMAIN BufferKind /\ j # 0 /\ IsPointer(fn.param[j].type)
           K == o.key \notin DOMAIN DepMode \cup DOMAIN BufferKind \cup {"fd", "read_dep", "write_dep"}
           rD == [acc EXCEPT !.ok = @ /\ acc.dep[j] \in {0, WordFor(fn, j, o)}, !.dep[j] = WordFor(fn, j, o)]
           rB == [acc EXCEPT !.kind[j] = BufferKind[o.key], !.noped = @ + 1]
           rX == [acc EXCEPT !.ok = FALSE]
<1>3. ParseOption(fn, acc, o) = CASE D -> rD [] B -> rB [] K -> acc [] OTHER -> rX
  BY Zenon DEF ParseOption, WordFor
<1>4. ~(D /\ B) /\ ~(D /\ K) /\ ~(B /\ K)
  BY <1>2
<1>5. \A i \in DOMAIN fn.param : DepFor(fn, i, o) => D /\ j = i
  BY <1>1, <1>2 DEF DepFor
<1>6. \A i \in DOMAIN fn.param : BufFor(fn, i, o) => B /\ j = i
  BY <1>1, <1>2 DEF BufFor
<1>7. Skipped(o) <=> K
  BY <1>2 DEF Skipped
<1>8. ~Fits(fn, o) => ~D /\ ~B /\ ~K
  BY <1>1, <1>2, <1>7 DEF Fits, DepFor, BufFor
<1> HIDE DEF D, B, K
<1>9. D => ParseOption(fn, acc, o) = rD
  BY <1>3, <1>4
<1>10. B => ParseOption(fn, acc, o) = rB
  BY <1>3, <1>4
<1>11. K => ParseOption(fn, acc, o) = acc
  BY <1>3, <1>4
<1>12. ~D /\ ~B /\ ~K => ParseOption(fn, acc, o) = rX
  BY <1>3
<1>13. ASSUME NEW i \in DOMAIN fn.param, DepFor(fn, i, o)
       PROVE  ParseOption(fn, acc, o) = [acc EXCEPT !.ok = @ /\ acc.dep[i] \in {0, WordFor(fn, i, o)},
                                                    !.dep[i] = WordFor(fn, i, o)]
  <2>1. D /\ j = i
    BY <1>5, <1>13
  <2> QED
    BY <2>1, <1>9, Zenon
<1>14. ASSUME NEW i \in DOMAIN fn.param, BufFor(fn, i, o)
       PROVE  ParseOption(fn, acc, o) = [acc EXCEPT !.kind[i] = BufferKind[o.key], !.noped = @ + 1]
  <2>1. B /\ j = i
    BY <1>6, <1>14
  <2> QED
    BY <2>1, <1>10, Zenon
<1> QED
  BY <1>7, <1>8, <1>11, <1>12, <1>13, <1>14, Zenon DEF Turn

-----------------------------------------------------------------------------
(* All options *)

\* What parsing o changes of acc.
Parsed(fn, acc, o, r) ==
    /\ r \in ParseState(fn)
    /\ \A i \in DOMAIN fn.param : DepFor(fn, i, o) =>
          /\ r.kind = acc.kind /\ r.dep = [acc.dep EXCEPT ![i] = WordFor(fn, i, o)]
          /\ r.ok <=> acc.ok /\ acc.dep[i] \in {0, WordFor(fn, i, o)}
    /\ \A i \in DOMAIN fn.param : BufFor(fn, i, o) =>
          /\ r.kind = [acc.kind EXCEPT ![i] = BufferKind[o.key]] /\ r.dep = acc.dep
          /\ r.ok <=> acc.ok
    /\ Skipped(o) => r = acc
    /\ ~Fits(fn, o) => ~r.ok

LEMMA OptionKeeps ==
  ASSUME NEW fn, FnFits(fn), NEW o, Hashed(o), NEW acc \in ParseState(fn)
  PROVE  Parsed(fn, acc, o, ParseOption(fn, acc, o))
<1>1. /\ acc.kind \in [DOMAIN fn.param -> {"in", "out", "pending", "ignored"}]
      /\ \A i \in DOMAIN fn.param : acc.kind[i] # "ignored" => IsPointer(fn.param[i].type)
      /\ acc.dep \in [DOMAIN fn.param -> DepWords] /\ acc.noped \in Nat /\ acc.ok \in BOOLEAN
      /\ acc.kind \in KindsOf(fn)
      /\ acc = [kind |-> acc.kind, dep |-> acc.dep, noped |-> acc.noped, ok |-> acc.ok]
  BY DEF ParseState, KindsOf
<1>a. PICK r : r = ParseOption(fn, acc, o)
  OBVIOUS
<1>b. Turn(fn, acc, o, r)
  BY <1>a, OptionParsed
<1>2. ASSUME NEW i \in DOMAIN fn.param, DepFor(fn, i, o)
      PROVE  /\ r \in ParseState(fn)
             /\ r.kind = acc.kind /\ r.dep = [acc.dep EXCEPT ![i] = WordFor(fn, i, o)]
             /\ r.ok <=> acc.ok /\ acc.dep[i] \in {0, WordFor(fn, i, o)}
  <2>1. PICK w : w = WordFor(fn, i, o)
    OBVIOUS
  <2>2. w \in DepWords
    <3>1. DepMode[o.key] \in {1, 2}
      BY <1>2, ModeFacts DEF DepFor
    <3> QED
      BY <2>1, <3>1, <1>2, WordFacts DEF DepWords
  <2>3. r = [acc EXCEPT !.ok = @ /\ acc.dep[i] \in {0, w}, !.dep[i] = w]
    BY <1>2, <1>b, <2>1, Zenon DEF Turn
  <2>4. [acc.dep EXCEPT ![i] = w] \in [DOMAIN fn.param -> DepWords]
    BY <1>1, <2>2
  <2>5. PICK b \in BOOLEAN : b <=> acc.ok /\ acc.dep[i] \in {0, w}
    OBVIOUS
  <2>6. r = [kind |-> acc.kind, dep |-> [acc.dep EXCEPT ![i] = w], noped |-> acc.noped, ok |-> b]
    BY <1>1, <2>3, <2>5
  <2> QED
    BY <1>1, <2>1, <2>4, <2>5, <2>6 DEF ParseState
<1>3. ASSUME NEW i \in DOMAIN fn.param, BufFor(fn, i, o)
      PROVE  /\ r \in ParseState(fn)
             /\ r.kind = [acc.kind EXCEPT ![i] = BufferKind[o.key]] /\ r.dep = acc.dep
             /\ r.ok <=> acc.ok
  <2>1. PICK k : k = BufferKind[o.key]
    OBVIOUS
  <2>2. k \in {"in", "out", "pending"}
    BY <1>3, <2>1, ModeFacts DEF BufFor
  <2>3. r = [acc EXCEPT !.kind[i] = k, !.noped = @ + 1]
    BY <1>3, <1>b, <2>1, Zenon DEF Turn
  <2>4. [acc.kind EXCEPT ![i] = k] \in KindsOf(fn)
    BY <1>1, <1>3, <2>2 DEF KindsOf, BufFor
  <2>5. r = [kind |-> [acc.kind EXCEPT ![i] = k], dep |-> acc.dep, noped |-> acc.noped + 1, ok |-> acc.ok]
    BY <1>1, <2>3
  <2> QED
    BY <1>1, <2>1, <2>4, <2>5 DEF ParseState
<1>4. ASSUME Skipped(o) PROVE r = acc
  BY <1>4, <1>b, Zenon DEF Turn
<1>5. ASSUME ~Fits(fn, o) PROVE r \in ParseState(fn) /\ ~r.ok
  <2>1. r = [acc EXCEPT !.ok = FALSE]
    BY <1>5, <1>b, Zenon DEF Turn
  <2>2. r = [kind |-> acc.kind, dep |-> acc.dep, noped |-> acc.noped, ok |-> FALSE]
    BY <1>1, <2>1
  <2> QED
    BY <1>1, <2>2 DEF ParseState
<1>6. r \in ParseState(fn)
  BY <1>2, <1>3, <1>4, <1>5 DEF Fits
<1> QED
  BY <1>a, <1>2, <1>3, <1>4, <1>5, <1>6, Zenon DEF Parsed

OptsFit(opts) == opts \in Seq(Option) /\ \A j \in 1 .. Len(opts) : Hashed(opts[j])

LEMMA ParsingSteps ==
  ASSUME NEW fn, FnFits(fn), NEW opts, OptsFit(opts)
  PROVE  /\ Parsing(fn, opts)[0] = Defaults(fn)
         /\ \A n \in 1 .. Len(opts) : Parsing(fn, opts)[n] = ParseOption(fn, Parsing(fn, opts)[n - 1], opts[n])
         /\ \A n \in 0 .. Len(opts) : Parsing(fn, opts)[n] \in ParseState(fn)
<1> DEFINE N == Len(opts)
           V == ParseState(fn)
           a == Defaults(fn)
           step == [x \in (1 .. N) \X V |-> ParseOption(fn, x[2], opts[x[1]])]
           Ok(P) == P = [n \in 0 .. Len(opts) |-> IF n = 0 THEN Defaults(fn) ELSE ParseOption(fn, P[n - 1], opts[n])]
<1>1. N \in Nat /\ a \in V
  BY DefaultsAre DEF OptsFit
<1>2. \A k \in 1 .. N, v \in V : ParseOption(fn, v, opts[k]) \in V
  BY OptionKeeps DEF OptsFit, Parsed
<1>3. step \in [(1 .. N) \X V -> V]
  BY <1>2
<1>4. \A k \in 1 .. N, v \in V : step[<<k, v>>] = ParseOption(fn, v, opts[k])
  OBVIOUS
<1> HIDE DEF step, V, N, a
<1>5. PICK Q : Recurs(Q, N, V, a, step)
  BY <1>1, <1>3, Recursion
<1>6. Q \in [0 .. N -> V] /\ Q[0] = a /\ \A k \in 1 .. N : Q[k] = step[<<k, Q[k - 1]>>]
  BY <1>5 DEF Recurs
<1>7. \A k \in 1 .. N : Q[k] = ParseOption(fn, Q[k - 1], opts[k])
  <2>1. \A k \in 1 .. N : k - 1 \in 0 .. N /\ Q[k - 1] \in V
    BY <1>1, <1>6
  <2> QED
    BY <2>1, <1>4, <1>6
<1>8. Ok(Q)
  <2> DEFINE G == [n \in 0 .. Len(opts) |-> IF n = 0 THEN Defaults(fn) ELSE ParseOption(fn, Q[n - 1], opts[n])]
  <2>1. ASSUME NEW n \in 0 .. N PROVE Q[n] = G[n]
    <3>1. n \in 0 .. Len(opts)
      BY DEF N
    <3>2. G[n] = IF n = 0 THEN Defaults(fn) ELSE ParseOption(fn, Q[n - 1], opts[n])
      BY <3>1
    <3>3. n = 0 \/ n \in 1 .. N
      BY <1>1
    <3> HIDE DEF G
    <3> QED
      BY <3>2, <3>3, <1>6, <1>7 DEF a
  <2>2. DOMAIN Q = 0 .. N /\ DOMAIN G = 0 .. N /\ Q = [n \in 0 .. N |-> Q[n]]
    BY <1>6 DEF N
  <2> QED
    BY <2>1, <2>2
<1>9. Parsing(fn, opts) = CHOOSE P : Ok(P)
  BY Zenon DEF Parsing
<1> HIDE DEF Ok
<1>10. Ok(CHOOSE P : Ok(P))
  BY <1>8, Zenon
<1>11. PICK X : X = Parsing(fn, opts)
  OBVIOUS
<1>12. Ok(X)
  BY <1>9, <1>10, <1>11, Zenon
<1>13. X = [n \in 0 .. Len(opts) |-> IF n = 0 THEN Defaults(fn) ELSE ParseOption(fn, X[n - 1], opts[n])]
  BY <1>12, Zenon DEF Ok
<1>14. X[0] = Defaults(fn)
  <2>1. 0 \in 0 .. Len(opts)
    BY <1>1 DEF N
  <2> QED
    BY <2>1, <1>13
<1>15. ASSUME NEW n \in 1 .. Len(opts) PROVE X[n] = ParseOption(fn, X[n - 1], opts[n])
  <2>1. n \in 0 .. Len(opts) /\ n # 0
    OBVIOUS
  <2> QED
    BY <2>1, <1>13
<1>16. \A n \in 0 .. N : X[n] \in V
  <2> DEFINE S == {n \in Nat : X[n] \in V}
  <2>1. 0 \in S
    BY <1>1, <1>14 DEF a
  <2>2. \A k \in 1 .. N : k - 1 \in S => k \in S
    BY <1>1, <1>2, <1>15 DEF N
  <2> HIDE DEF S
  <2>3. \A k \in 0 .. N : k \in S
    BY <1>1, <2>1, <2>2, InductionUpTo
  <2> QED
    BY <2>3 DEF S
<1> QED
  BY <1>11, <1>14, <1>15, <1>16 DEF N, V

\* A parameter is named by one option in one way, an option names one parameter.
LEMMA OneUse ==
  ASSUME NEW fn, FnFits(fn), NEW o, NEW i \in DOMAIN fn.param, NEW k \in DOMAIN fn.param
  PROVE  /\ DepFor(fn, i, o) /\ DepFor(fn, k, o) => i = k
         /\ BufFor(fn, i, o) /\ BufFor(fn, k, o) => i = k
         /\ ~(DepFor(fn, i, o) /\ BufFor(fn, k, o))
         /\ DepFor(fn, i, o) \/ BufFor(fn, i, o) => Fits(fn, o) /\ ~Skipped(o)
BY DEF FnFits, DepFor, BufFor, Names, Skipped, Fits

(* What the first n options have made of the parameters: a dependency on   *)
(* a parameter has the word of every option that names it, its kind is     *)
(* that of the last buffer option that does.                               *)
AllFit(fn, opts, n) == \A j \in 1 .. n : Fits(fn, opts[j])
Agree(fn, opts, n) ==
    \A i \in DOMAIN fn.param : \A j, k \in 1 .. n :
        DepFor(fn, i, opts[j]) /\ DepFor(fn, i, opts[k]) => WordFor(fn, i, opts[j]) = WordFor(fn, i, opts[k])
DepsRight(fn, opts, n, p) ==
    \A i \in DOMAIN fn.param :
        /\ (\A j \in 1 .. n : ~DepFor(fn, i, opts[j])) => p.dep[i] = 0
        /\ p.ok => \A j \in 1 .. n : DepFor(fn, i, opts[j]) => p.dep[i] = WordFor(fn, i, opts[j])
KindsRight(fn, opts, n, p) ==
    \A i \in DOMAIN fn.param :
        /\ (\A j \in 1 .. n : ~BufFor(fn, i, opts[j])) => p.kind[i] = DefaultKind(fn.param[i].type)
        /\ \A j \in 1 .. n : BufFor(fn, i, opts[j]) /\ (\A k \in j + 1 .. n : ~BufFor(fn, i, opts[k]))
              => p.kind[i] = BufferKind[opts[j].key]
SoFar(fn, opts, n, p) ==
    /\ p.ok <=> AllFit(fn, opts, n) /\ Agree(fn, opts, n)
    /\ DepsRight(fn, opts, n, p)
    /\ KindsRight(fn, opts, n, p)

\* The next option, whichever way it is.
LEMMA DepNext ==
  ASSUME NEW fn, FnFits(fn), NEW opts, OptsFit(opts), NEW n \in 1 .. Len(opts), NEW p \in ParseState(fn), NEW r,
         Parsed(fn, p, opts[n], r), SoFar(fn, opts, n - 1, p), NEW m \in DOMAIN fn.param, DepFor(fn, m, opts[n])
  PROVE  SoFar(fn, opts, n, r)
<1> DEFINE D(i, j) == DepFor(fn, i, opts[j])
           B(i, j) == BufFor(fn, i, opts[j])
           W(i, j) == WordFor(fn, i, opts[j])
           I == DOMAIN fn.param
<1>1. PICK w : w = W(m, n)
  OBVIOUS
<1>2. r.kind = p.kind /\ r.dep = [p.dep EXCEPT ![m] = w] /\ (r.ok <=> p.ok /\ p.dep[m] \in {0, w})
  BY <1>1 DEF Parsed
<1>3. \A i \in I : (D(i, n) <=> i = m) /\ ~B(i, n)
  BY OneUse
<1>4. Fits(fn, opts[n])
  BY OneUse
<1>5. \A j \in 1 .. n : D(m, j) => W(m, j) # 0
  <2>1. \A j \in 1 .. n : Hashed(opts[j])
    BY DEF OptsFit
  <2> QED
    BY <2>1, WordFacts
<1>7. DOMAIN p.dep = I
  BY DEF ParseState
<1>8. n \in Nat /\ n - 1 \in Nat /\ (\A j : j \in 1 .. n <=> j \in 1 .. n - 1 \/ j = n) /\ n \notin 1 .. n - 1
  BY DEF OptsFit
<1>9. AllFit(fn, opts, n) <=> AllFit(fn, opts, n - 1)
  BY <1>4, <1>8 DEF AllFit
<1>10. p.ok <=> AllFit(fn, opts, n - 1) /\ Agree(fn, opts, n - 1)
  BY DEF SoFar
<1>11. Agree(fn, opts, n) => Agree(fn, opts, n - 1)
  BY <1>8 DEF Agree
<1>12. \A i \in I : /\ (\A j \in 1 .. n - 1 : ~D(i, j)) => p.dep[i] = 0
                    /\ p.ok => \A j \in 1 .. n - 1 : D(i, j) => p.dep[i] = W(i, j)
  BY DEF SoFar, DepsRight
<1>13. \A i \in I : /\ (\A j \in 1 .. n - 1 : ~B(i, j)) => p.kind[i] = DefaultKind(fn.param[i].type)
                    /\ \A j \in 1 .. n - 1 : B(i, j) /\ (\A k \in j + 1 .. n - 1 : ~B(i, k))
                          => p.kind[i] = BufferKind[opts[j].key]
  BY DEF SoFar, KindsRight
<1>a. Agree(fn, opts, n) <=> \A i \in I : \A j, k \in 1 .. n : D(i, j) /\ D(i, k) => W(i, j) = W(i, k)
  BY DEF Agree
<1>b. Agree(fn, opts, n - 1) <=> \A i \in I : \A j, k \in 1 .. n - 1 : D(i, j) /\ D(i, k) => W(i, j) = W(i, k)
  BY DEF Agree
<1> HIDE DEF D, B, W
<1>14. ASSUME p.ok PROVE p.dep[m] \in {0, w} <=> Agree(fn, opts, n)
  <2>1. ASSUME p.dep[m] \in {0, w}, NEW j \in 1 .. n - 1, D(m, j) PROVE W(m, j) = w
    BY <2>1, <1>5, <1>8, <1>12, <1>14
  <2>2. ASSUME p.dep[m] \in {0, w} PROVE Agree(fn, opts, n)
    BY <2>1, <2>2, <1>1, <1>3, <1>8, <1>a, <1>b, <1>10, <1>14
  <2>3. ASSUME Agree(fn, opts, n), p.dep[m] # 0 PROVE p.dep[m] = w
    <3>1. PICK j \in 1 .. n - 1 : D(m, j)
      BY <2>3, <1>12
    <3>2. W(m, j) = w
      BY <2>3, <3>1, <1>1, <1>3, <1>8, <1>a
    <3> QED
      BY <3>1, <3>2, <1>12, <1>14
  <2> QED
    BY <2>2, <2>3
<1>15. r.ok <=> AllFit(fn, opts, n) /\ Agree(fn, opts, n)
  BY <1>2, <1>9, <1>10, <1>11, <1>14
<1>16. DepsRight(fn, opts, n, r)
  <2>1. ASSUME NEW i \in I
        PROVE  /\ (\A j \in 1 .. n : ~D(i, j)) => r.dep[i] = 0
               /\ r.ok => \A j \in 1 .. n : D(i, j) => r.dep[i] = W(i, j)
    <3>1. CASE i = m
      <4>1. r.dep[i] = w /\ D(m, n)
        BY <3>1, <1>2, <1>3, <1>7
      <4>2. ASSUME r.ok, NEW j \in 1 .. n, D(m, j) PROVE W(m, j) = w
        BY <4>1, <4>2, <1>1, <1>8, <1>15, <1>a
      <4> QED
        BY <3>1, <4>1, <4>2, <1>8
    <3>2. CASE i # m
      <4>1. r.dep[i] = p.dep[i] /\ ~D(i, n)
        BY <3>2, <1>2, <1>3, <1>7
      <4> QED
        BY <4>1, <1>2, <1>8, <1>12
    <3> QED
      BY <3>1, <3>2
  <2> QED
    BY <2>1 DEF DepsRight, D, W
<1>17. KindsRight(fn, opts, n, r)
  <2>1. ASSUME NEW i \in I
        PROVE  /\ (\A j \in 1 .. n : ~B(i, j)) => r.kind[i] = DefaultKind(fn.param[i].type)
               /\ \A j \in 1 .. n : B(i, j) /\ (\A k \in j + 1 .. n : ~B(i, k))
                     => r.kind[i] = BufferKind[opts[j].key]
    <3>1. \A j \in 1 .. n - 1 : \A k \in j + 1 .. n - 1 : k \in j + 1 .. n
      BY <1>8
    <3>2. ASSUME NEW j \in 1 .. n, B(i, j), \A k \in j + 1 .. n : ~B(i, k)
          PROVE  r.kind[i] = BufferKind[opts[j].key]
      <4>1. j \in 1 .. n - 1
        BY <1>3, <1>8, <3>2
      <4>2. \A k \in j + 1 .. n - 1 : ~B(i, k)
        BY <4>1, <3>1, <3>2
      <4>3. p.kind[i] = BufferKind[opts[j].key]
        BY <4>1, <4>2, <3>2, <1>13
      <4> QED
        BY <4>3, <1>2
    <3> QED
      BY <3>2, <1>2, <1>8, <1>13
  <2> QED
    BY <2>1 DEF KindsRight, B
<1> QED
  BY <1>15, <1>16, <1>17 DEF SoFar

LEMMA BufNext ==
  ASSUME NEW fn, FnFits(fn), NEW opts, OptsFit(opts), NEW n \in 1 .. Len(opts), NEW p \in ParseState(fn), NEW r,
         Parsed(fn, p, opts[n], r), SoFar(fn, opts, n - 1, p), NEW m \in DOMAIN fn.param, BufFor(fn, m, opts[n])
  PROVE  SoFar(fn, opts, n, r)
<1> DEFINE D(i, j) == DepFor(fn, i, opts[j])
           B(i, j) == BufFor(fn, i, opts[j])
           I == DOMAIN fn.param
<1>1. PICK x : x = BufferKind[opts[n].key]
  OBVIOUS
<1>2. r.kind = [p.kind EXCEPT ![m] = x] /\ r.dep = p.dep /\ (r.ok <=> p.ok)
  BY <1>1 DEF Parsed
<1>3. \A i \in I : (B(i, n) <=> i = m) /\ ~D(i, n)
  BY OneUse
<1>4. Fits(fn, opts[n])
  BY OneUse
<1>5. DOMAIN p.kind = I
  BY DEF ParseState, KindsOf
<1>6. n \in Nat /\ n - 1 \in Nat /\ (\A j : j \in 1 .. n <=> j \in 1 .. n - 1 \/ j = n) /\ n \notin 1 .. n - 1
  BY DEF OptsFit
<1>7. r.ok <=> AllFit(fn, opts, n) /\ Agree(fn, opts, n)
  <2>1. AllFit(fn, opts, n) <=> AllFit(fn, opts, n - 1)
    BY <1>4, <1>6 DEF AllFit
  <2>2. Agree(fn, opts, n) <=> Agree(fn, opts, n - 1)
    BY <1>3, <1>6 DEF Agree
  <2> QED
    BY <2>1, <2>2, <1>2 DEF SoFar
<1>8. DepsRight(fn, opts, n, r)
  BY <1>2, <1>3, <1>6 DEF SoFar, DepsRight
<1>9. \A i \in I : /\ (\A j \in 1 .. n - 1 : ~B(i, j)) => p.kind[i] = DefaultKind(fn.param[i].type)
                   /\ \A j \in 1 .. n - 1 : B(i, j) /\ (\A k \in j + 1 .. n - 1 : ~B(i, k))
                         => p.kind[i] = BufferKind[opts[j].key]
  BY DEF SoFar, KindsRight
<1> HIDE DEF B
<1>10. ASSUME NEW i \in I, i # m
       PROVE  /\ (\A j \in 1 .. n : ~B(i, j)) => r.kind[i] = DefaultKind(fn.param[i].type)
              /\ \A j \in 1 .. n : B(i, j) /\ (\A k \in j + 1 .. n : ~B(i, k))
                    => r.kind[i] = BufferKind[opts[j].key]
  <2>1. r.kind[i] = p.kind[i] /\ ~B(i, n)
    BY <1>2, <1>3, <1>5, <1>10
  <2>2. \A j \in 1 .. n - 1 : \A k \in j + 1 .. n - 1 : k \in j + 1 .. n
    BY <1>6
  <2>3. ASSUME NEW j \in 1 .. n, B(i, j), \A k \in j + 1 .. n : ~B(i, k)
        PROVE  r.kind[i] = BufferKind[opts[j].key]
    <3>1. j \in 1 .. n - 1
      BY <2>1, <1>6, <2>3
    <3>2. \A k \in j + 1 .. n - 1 : ~B(i, k)
      BY <3>1, <2>2, <2>3
    <3>3. p.kind[i] = BufferKind[opts[j].key]
      BY <3>1, <3>2, <2>3, <1>9
    <3> QED
      BY <3>3, <2>1
  <2> QED
    BY <2>1, <2>3, <1>6, <1>9
<1>11. /\ ~(\A j \in 1 .. n : ~B(m, j))
       /\ \A j \in 1 .. n : B(m, j) /\ (\A k \in j + 1 .. n : ~B(m, k)) => r.kind[m] = BufferKind[opts[j].key]
  <2>1. r.kind[m] = x /\ B(m, n)
    BY <1>2, <1>3, <1>5
  <2>2. \A j \in 1 .. n : j # n => n \in j + 1 .. n
    BY <1>6
  <2> QED
    BY <2>1, <2>2, <1>1, <1>6
<1>12. KindsRight(fn, opts, n, r)
  <2>1. ASSUME NEW i \in I
        PROVE  /\ (\A j \in 1 .. n : ~B(i, j)) => r.kind[i] = DefaultKind(fn.param[i].type)
               /\ \A j \in 1 .. n : B(i, j) /\ (\A k \in j + 1 .. n : ~B(i, k))
                     => r.kind[i] = BufferKind[opts[j].key]
    <3>1. CASE i = m
      BY <3>1, <1>11
    <3>2. CASE i # m
      BY <3>2, <1>10
    <3> QED
      BY <3>1, <3>2
  <2> QED
    BY <2>1 DEF KindsRight, B
<1> QED
  BY <1>7, <1>8, <1>12 DEF SoFar

LEMMA OtherNext ==
  ASSUME NEW fn, FnFits(fn), NEW opts, OptsFit(opts), NEW n \in 1 .. Len(opts), NEW p \in ParseState(fn), NEW r,
         p.ok, r.ok, Skipped(opts[n]), Parsed(fn, p, opts[n], r), SoFar(fn, opts, n - 1, p)
  PROVE  SoFar(fn, opts, n, r)
<1> DEFINE B(i, j) == BufFor(fn, i, opts[j])
           I == DOMAIN fn.param
<1>1. r = p /\ Fits(fn, opts[n])
  BY DEF Parsed, Fits
<1>2. \A i \in I : ~BufFor(fn, i, opts[n]) /\ ~DepFor(fn, i, opts[n])
  BY OneUse
<1>3. n \in Nat /\ n - 1 \in Nat /\ (\A j : j \in 1 .. n <=> j \in 1 .. n - 1 \/ j = n) /\ n \notin 1 .. n - 1
  BY DEF OptsFit
<1>4. AllFit(fn, opts, n) /\ Agree(fn, opts, n)
  BY <1>1, <1>2, <1>3 DEF SoFar, AllFit, Agree
<1>5. DepsRight(fn, opts, n, r)
  BY <1>1, <1>2, <1>3 DEF SoFar, DepsRight
<1>6. KindsRight(fn, opts, n, r)
  <2>1. \A j \in 1 .. n - 1 : \A k \in j + 1 .. n - 1 : k \in j + 1 .. n
    BY <1>3
  <2> QED
    BY <1>1, <1>2, <1>3, <2>1 DEF SoFar, KindsRight
<1> QED
  BY <1>4, <1>5, <1>6 DEF SoFar

(* parseKinds accepts the options exactly when each fits and no two give a *)
(* parameter different words; then the kinds and words are as SoFar says.  *)
LEMMA ParsedAre ==
  ASSUME NEW fn, FnFits(fn), NEW opts, OptsFit(opts)
  PROVE  /\ ParseKinds(fn, opts) \in ParseState(fn)
         /\ ParseKinds(fn, opts).ok <=> AllFit(fn, opts, Len(opts)) /\ Agree(fn, opts, Len(opts))
         /\ ParseKinds(fn, opts).ok => SoFar(fn, opts, Len(opts), ParseKinds(fn, opts))
<1> DEFINE N == Len(opts)
<1>1. PICK P : P = Parsing(fn, opts)
  OBVIOUS
<1>2. /\ P[0] = Defaults(fn)
      /\ \A n \in 1 .. N : P[n] = ParseOption(fn, P[n - 1], opts[n])
      /\ \A n \in 0 .. N : P[n] \in ParseState(fn)
  BY <1>1, ParsingSteps
<1>3. N \in Nat /\ \A j \in 1 .. N : Hashed(opts[j])
  BY DEF OptsFit
<1> DEFINE Good(n) == /\ P[n].ok <=> AllFit(fn, opts, n) /\ Agree(fn, opts, n)
                      /\ P[n].ok => SoFar(fn, opts, n, P[n])
           G == {n \in Nat : Good(n)}
<1>4. 0 \in G
  <2>1. AllFit(fn, opts, 0) /\ Agree(fn, opts, 0)
    BY DEF AllFit, Agree
  <2>2. P[0].ok /\ \A i \in DOMAIN fn.param : P[0].kind[i] = DefaultKind(fn.param[i].type) /\ P[0].dep[i] = 0
    BY <1>2, DefaultsAre
  <2>3. DepsRight(fn, opts, 0, P[0]) /\ KindsRight(fn, opts, 0, P[0])
    BY <2>2 DEF DepsRight, KindsRight
  <2> QED
    BY <2>1, <2>2, <2>3 DEF SoFar
<1>5. ASSUME NEW n \in 1 .. N, n - 1 \in G PROVE n \in G
  <2>1. PICK p : p = P[n - 1]
    OBVIOUS
  <2>2. PICK r : r = P[n]
    OBVIOUS
  <2>3. p \in ParseState(fn) /\ r = ParseOption(fn, p, opts[n])
    BY <1>2, <1>3, <2>1, <2>2
  <2>4. Parsed(fn, p, opts[n], r)
    BY <2>3, <1>3, OptionKeeps
  <2>5. (p.ok <=> AllFit(fn, opts, n - 1) /\ Agree(fn, opts, n - 1)) /\ (p.ok => SoFar(fn, opts, n - 1, p))
    BY <2>1, <1>5
  <2>6. (AllFit(fn, opts, n) => AllFit(fn, opts, n - 1) /\ Fits(fn, opts[n]))
         /\ (Agree(fn, opts, n) => Agree(fn, opts, n - 1))
    BY <1>3 DEF AllFit, Agree
  <2>7. Fits(fn, opts[n]) => \/ \E m \in DOMAIN fn.param : DepFor(fn, m, opts[n])
                             \/ \E m \in DOMAIN fn.param : BufFor(fn, m, opts[n])
                             \/ Skipped(opts[n])
    BY DEF Fits
  <2>8. r.ok => p.ok /\ Fits(fn, opts[n])
    <3>1. ASSUME NEW m \in DOMAIN fn.param, DepFor(fn, m, opts[n]) PROVE r.ok => p.ok
      BY <2>4, <3>1 DEF Parsed
    <3>2. ASSUME NEW m \in DOMAIN fn.param, BufFor(fn, m, opts[n]) PROVE r.ok => p.ok
      BY <2>4, <3>2 DEF Parsed
    <3>3. (Skipped(opts[n]) => r = p) /\ (~Fits(fn, opts[n]) => ~r.ok)
      BY <2>4 DEF Parsed
    <3> QED
      BY <2>7, <3>1, <3>2, <3>3
  <2>9. ASSUME p.ok, Fits(fn, opts[n]) PROVE SoFar(fn, opts, n, r)
    <3>1. ASSUME NEW m \in DOMAIN fn.param, DepFor(fn, m, opts[n]) PROVE SoFar(fn, opts, n, r)
      BY <2>3, <2>4, <2>5, <2>9, <3>1, DepNext
    <3>2. ASSUME NEW m \in DOMAIN fn.param, BufFor(fn, m, opts[n]) PROVE SoFar(fn, opts, n, r)
      BY <2>3, <2>4, <2>5, <2>9, <3>2, BufNext
    <3>3. ASSUME Skipped(opts[n]) PROVE SoFar(fn, opts, n, r)
      <4>1. r = p
        BY <2>4, <3>3 DEF Parsed
      <4> QED
        BY <2>3, <2>4, <2>5, <2>9, <3>3, <4>1, OtherNext
    <3> QED
      BY <2>7, <2>9, <3>1, <3>2, <3>3
  <2>10. SoFar(fn, opts, n, r) => (r.ok <=> AllFit(fn, opts, n) /\ Agree(fn, opts, n))
    BY DEF SoFar
  <2>11. Good(n)
    BY <2>2, <2>5, <2>6, <2>8, <2>9, <2>10
  <2> HIDE DEF Good
  <2> QED
    BY <2>11, <1>3
<1> HIDE DEF G
<1>6. N \in G
  <2>1. \A k \in 0 .. N : k \in G
    BY <1>3, <1>4, <1>5, InductionUpTo
  <2> QED
    BY <2>1, <1>3
<1>7. ParseKinds(fn, opts) = P[N]
  BY <1>1 DEF ParseKinds
<1> QED
  BY <1>2, <1>3, <1>6, <1>7 DEF G

-----------------------------------------------------------------------------
(* What the reference page asks of an annotation is what the pass checks. *)

LEMMA RuntimeIs ==
  ASSUME NEW opts
  PROVE  /\ RuntimeOk(opts) <=> /\ RuntimesOf(opts) # {}
                                /\ \A r, s \in RuntimesOf(opts) : r = s /\ r \notin {"", "1bad"}
         /\ RuntimeOk(opts) => RuntimesOf(opts) = {CHOOSE r \in RuntimesOf(opts) : TRUE}
<1>1. PICK R : R = RuntimesOf(opts)
  OBVIOUS
<1>2. RuntimeOk(opts) <=> \E r \in R : r \notin {"", "1bad"} /\ R = {r}
  BY <1>1 DEF RuntimeOk, Identifier
<1>3. (\E r \in R : r \notin {"", "1bad"} /\ R = {r}) <=> R # {} /\ \A r, s \in R : r = s /\ r \notin {"", "1bad"}
  OBVIOUS
<1>4. ASSUME NEW r \in R, R = {r} PROVE R = {CHOOSE q \in R : TRUE}
  BY <1>4
<1> QED
  BY <1>1, <1>2, <1>3, <1>4

LEMMA MeaningfulIs ==
  ASSUME NEW fn, FnFits(fn), NEW opts, OptsFit(opts)
  PROVE  Meaningful(fn, opts) <=> ParseKinds(fn, opts).ok /\ RuntimeOk(opts)
<1> DEFINE I == DOMAIN fn.param
           N == Len(opts)
           Alone == /\ RuntimesOf(opts) # {}
                    /\ \A r, s \in RuntimesOf(opts) : r = s /\ r \notin {"", "1bad"}
<1>1. N \in Nat /\ DOMAIN opts = 1 .. N /\ \A j \in 1 .. N : Hashed(opts[j])
  BY DEF OptsFit
<1>2. DOMAIN fn.param = 1 .. Len(fn.param) /\ ToSet(fn.param) = {fn.param[i] : i \in I}
  BY FnParams DEF ToSet
<1>3. AllFit(fn, opts, N) <=>
        /\ \A j \in 1 .. N : opts[j].key \notin {"fd", "read_dep", "write_dep"}
        /\ \A j \in 1 .. N : opts[j].key \in {"bin", "bout", "buf"} =>
              \E p \in ToSet(fn.param) : p.name = opts[j].param /\ p.name # "" /\ IsPointer(p.type)
        /\ \A j \in 1 .. N : opts[j].key \in {"r_dep", "w_dep"} =>
              /\ opts[j].ns \notin {NoNs, ""}
              /\ \E p \in ToSet(fn.param) : p.name = opts[j].param /\ p.name # "" /\ p.type # "other"
  <2>1. ASSUME NEW j \in 1 .. N
        PROVE  Fits(fn, opts[j]) <=>
                 /\ opts[j].key \notin {"fd", "read_dep", "write_dep"}
                 /\ opts[j].key \in {"bin", "bout", "buf"} =>
                      \E p \in ToSet(fn.param) : p.name = opts[j].param /\ p.name # "" /\ IsPointer(p.type)
                 /\ opts[j].key \in {"r_dep", "w_dep"} =>
                      /\ opts[j].ns \notin {NoNs, ""}
                      /\ \E p \in ToSet(fn.param) : p.name = opts[j].param /\ p.name # "" /\ p.type # "other"
    <3>1. PICK o : o = opts[j]
      OBVIOUS
    <3>2. (\E p \in ToSet(fn.param) : p.name = o.param /\ p.name # "" /\ IsPointer(p.type))
            <=> \E i \in I : Names(fn, i, o) /\ IsPointer(fn.param[i].type)
      BY <1>2 DEF Names
    <3>3. (\E p \in ToSet(fn.param) : p.name = o.param /\ p.name # "" /\ p.type # "other")
            <=> \E i \in I : Names(fn, i, o) /\ fn.param[i].type # "other"
      BY <1>2 DEF Names
    <3> QED
      BY <3>1, <3>2, <3>3 DEF Fits, Skipped, DepFor, BufFor
  <2> QED
    BY <2>1 DEF AllFit
<1>4. ASSUME AllFit(fn, opts, N)
      PROVE  Agree(fn, opts, N) <=>
               \A p \in ToSet(fn.param) : \A i, j \in Naming(opts, {"r_dep", "w_dep"}, p) :
                   /\ opts[i].key = opts[j].key
                   /\ HashNamespace(p.name, opts[i].ns) = HashNamespace(p.name, opts[j].ns)
  <2>1. ASSUME NEW i \in I, NEW j \in 1 .. N
        PROVE  j \in Naming(opts, {"r_dep", "w_dep"}, fn.param[i]) <=> DepFor(fn, i, opts[j])
    <3>1. j \in Naming(opts, {"r_dep", "w_dep"}, fn.param[i]) <=>
             opts[j].key \in {"r_dep", "w_dep"} /\ opts[j].param = fn.param[i].name
      BY <1>1 DEF Naming
    <3>2. ASSUME opts[j].key \in {"r_dep", "w_dep"}, opts[j].param = fn.param[i].name PROVE DepFor(fn, i, opts[j])
      <4>1. PICK k \in I : DepFor(fn, k, opts[j])
        BY <3>2, <1>4 DEF AllFit, Fits, Skipped, BufFor
      <4>2. fn.param[k].name = fn.param[i].name /\ fn.param[k].name # ""
        BY <3>2, <4>1 DEF DepFor, Names
      <4>3. k = i
        BY <4>2 DEF FnFits
      <4> QED
        BY <4>1, <4>3
    <3> QED
      BY <3>1, <3>2 DEF DepFor, Names
  <2>2. ASSUME NEW i \in I, NEW j \in 1 .. N, NEW k \in 1 .. N, DepFor(fn, i, opts[j]), DepFor(fn, i, opts[k])
        PROVE  WordFor(fn, i, opts[j]) = WordFor(fn, i, opts[k]) <=>
                  /\ opts[j].key = opts[k].key
                  /\ HashNamespace(fn.param[i].name, opts[j].ns) = HashNamespace(fn.param[i].name, opts[k].ns)
    BY <2>2, <1>1, WordsTell
  <2>3. ASSUME NEW p, NEW j \in Naming(opts, {"r_dep", "w_dep"}, p) PROVE j \in 1 .. N
    BY <1>1 DEF Naming
  <2>4. (\A p \in ToSet(fn.param) : \A i, j \in Naming(opts, {"r_dep", "w_dep"}, p) :
                   /\ opts[i].key = opts[j].key
                   /\ HashNamespace(p.name, opts[i].ns) = HashNamespace(p.name, opts[j].ns))
        <=> \A m \in I : \A i, j \in 1 .. N : DepFor(fn, m, opts[i]) /\ DepFor(fn, m, opts[j]) =>
                   /\ opts[i].key = opts[j].key
                   /\ HashNamespace(fn.param[m].name, opts[i].ns) = HashNamespace(fn.param[m].name, opts[j].ns)
    <3> DEFINE Same(p, i, j) == /\ opts[i].key = opts[j].key
                                /\ HashNamespace(p.name, opts[i].ns) = HashNamespace(p.name, opts[j].ns)
               In(p, j) == j \in Naming(opts, {"r_dep", "w_dep"}, p)
               For(m, j) == DepFor(fn, m, opts[j])
    <3>1. \A m \in I : \A j \in 1 .. N : In(fn.param[m], j) <=> For(m, j)
      BY <2>1
    <3>2. \A p, j : In(p, j) => j \in 1 .. N
      BY <2>3
    <3> HIDE DEF Same, In, For
    <3>3. (\A p \in ToSet(fn.param) : \A i, j : In(p, i) /\ In(p, j) => Same(p, i, j))
          <=> \A m \in I : \A i, j \in 1 .. N : For(m, i) /\ For(m, j) => Same(fn.param[m], i, j)
      BY <1>2, <3>1, <3>2
    <3> QED
      BY <3>3, Zenon DEF Same, In, For
  <2> QED
    BY <2>2, <2>4 DEF Agree
<1>5. RuntimeOk(opts) <=> Alone
  BY RuntimeIs
<1>6. ParseKinds(fn, opts).ok <=> AllFit(fn, opts, N) /\ Agree(fn, opts, N)
  BY ParsedAre
<1>7. Meaningful(fn, opts) <=>
        /\ /\ \A j \in 1 .. N : opts[j].key \notin {"fd", "read_dep", "write_dep"}
           /\ \A j \in 1 .. N : opts[j].key \in {"bin", "bout", "buf"} =>
                 \E p \in ToSet(fn.param) : p.name = opts[j].param /\ p.name # "" /\ IsPointer(p.type)
           /\ \A j \in 1 .. N : opts[j].key \in {"r_dep", "w_dep"} =>
                 /\ opts[j].ns \notin {NoNs, ""}
                 /\ \E p \in ToSet(fn.param) : p.name = opts[j].param /\ p.name # "" /\ p.type # "other"
        /\ \A p \in ToSet(fn.param) : \A i, j \in Naming(opts, {"r_dep", "w_dep"}, p) :
                   /\ opts[i].key = opts[j].key
                   /\ HashNamespace(p.name, opts[i].ns) = HashNamespace(p.name, opts[j].ns)
        /\ Alone
  BY <1>1, Zenon DEF Meaningful
<1> HIDE DEF Alone
<1> QED
  BY <1>3, <1>4, <1>5, <1>6, <1>7

-----------------------------------------------------------------------------
(* A unit and what becomes of it *)

\* The functions s annotates, what the last annotation of f says, and whether it may.
Targets(s) == {e.target : e \in {x \in ToSet(s.annos) : x.mine}}
Counts(s, f) == s.annos[Max({i \in DOMAIN s.annos : s.annos[i].mine /\ s.annos[i].target = f})].opts
Sound(s, f) == ParseKinds(s.func[f], Counts(s, f)).ok /\ RuntimeOk(Counts(s, f))

Annotation == [mine : BOOLEAN, target : Nat, opts : Seq(Option)]

LEMMA UnitFacts ==
  ASSUME NEW s, UnitFits(s)
  PROVE  /\ s.annos \in Seq(Annotation) /\ Len(s.annos) \in Nat /\ DOMAIN s.annos = 1 .. Len(s.annos)
         /\ \A i \in DOMAIN s.annos : s.annos[i] \in Annotation /\ OptsFit(s.annos[i].opts)
         /\ \A f \in DOMAIN s.func : FnFits(s.func[f]) /\ f \in Nat \ {0}
         /\ \A f \in Targets(s) : f = 0 \/ f \in DOMAIN s.func
<1>1. PICK a : a = s.annos
  OBVIOUS
<1>2. a \in Seq(Annotation)
  BY <1>1 DEF UnitFits, Annotation
<1>3. Len(a) \in Nat /\ DOMAIN a = 1 .. Len(a) /\ \A i \in DOMAIN a : a[i] \in Annotation
  BY <1>2
<1>4. ASSUME NEW i \in DOMAIN a PROVE OptsFit(a[i].opts)
  <2>1. PICK q : q = a[i].opts
    OBVIOUS
  <2>2. q \in Seq(Option)
    BY <1>3, <1>4, <2>1 DEF Annotation
  <2>3. Len(q) \in Nat /\ DOMAIN q = 1 .. Len(q) /\ \A j \in 1 .. Len(q) : q[j] \in Option /\ q[j] \in ToSet(q)
    BY <2>2 DEF ToSet
  <2>4. \A o \in ToSet(q) : o.key \in {"r_dep", "w_dep"} /\ o.ns \notin {NoNs, ""} => <<o.param, o.ns>> \in DOMAIN Hash
    BY <1>1, <1>4, <2>1, Zenon DEF UnitFits
  <2>5. \A j \in 1 .. Len(q) : Hashed(q[j])
    BY <2>3, <2>4 DEF Hashed
  <2> QED
    BY <2>1, <2>2, <2>5 DEF OptsFit
<1>5. \A f \in DOMAIN s.func : FnFits(s.func[f]) /\ f \in Nat \ {0}
  BY DEF UnitFits, FnFits
<1>6. ASSUME NEW f \in Targets(s) PROVE f = 0 \/ f \in DOMAIN s.func
  <2>1. PICK i \in DOMAIN a : a[i].mine /\ a[i].target = f
    BY <1>1, <1>3 DEF Targets, ToSet
  <2> QED
    BY <1>1, <2>1 DEF UnitFits
<1> QED
  BY <1>1, <1>2, <1>3, <1>4, <1>5, <1>6

\* An annotated function has a last entry.
LEMMA CountsIs ==
  ASSUME NEW s, UnitFits(s), NEW f \in Targets(s)
  PROVE  \E i \in DOMAIN s.annos :
            /\ s.annos[i].mine /\ s.annos[i].target = f
            /\ \A j \in DOMAIN s.annos : s.annos[j].mine /\ s.annos[j].target = f => j <= i
            /\ Counts(s, f) = s.annos[i].opts
<1> DEFINE E == {i \in DOMAIN s.annos : s.annos[i].mine /\ s.annos[i].target = f}
<1>1. Len(s.annos) \in Nat /\ DOMAIN s.annos = 1 .. Len(s.annos)
  BY UnitFacts
<1>2. E \subseteq 1 .. Len(s.annos) /\ E # {}
  BY <1>1 DEF Targets, ToSet
<1>3. Counts(s, f) = s.annos[Max(E)].opts
  BY Zenon DEF Counts
<1>4. \A j : j \in E <=> j \in DOMAIN s.annos /\ s.annos[j].mine /\ s.annos[j].target = f
  OBVIOUS
<1> HIDE DEF E
<1>5. Max(E) \in E /\ \A j \in E : j <= Max(E)
  BY <1>1, <1>2, MaxIsLargest
<1> QED
  BY <1>3, <1>4, <1>5

LEMMA CountsFit ==
  ASSUME NEW s, UnitFits(s), NEW f \in Targets(s)
  PROVE  OptsFit(Counts(s, f))
BY CountsIs, UnitFacts

\* What enrollAnnotatedFunctions enters for f.
LEMMA LastIsCounts ==
  ASSUME NEW s, UnitFits(s), NEW f \in Targets(s)
  PROVE  s.annos[LastFor(s.annos, f)].opts = Counts(s, f)
<1> DEFINE ours == {i \in DOMAIN s.annos : s.annos[i].mine /\ s.annos[i].target = f}
           Is(i) == \A j \in ours : j <= i
           last == CHOOSE i \in ours : Is(i)
<1>1. PICK i \in DOMAIN s.annos :
            /\ s.annos[i].mine /\ s.annos[i].target = f
            /\ \A j \in DOMAIN s.annos : s.annos[j].mine /\ s.annos[j].target = f => j <= i
            /\ Counts(s, f) = s.annos[i].opts
  BY CountsIs
<1>2. DOMAIN s.annos = 1 .. Len(s.annos) /\ Len(s.annos) \in Nat
  BY UnitFacts
<1>3. i \in ours /\ Is(i)
  BY <1>1
<1>4. last \in ours /\ Is(last)
  BY <1>3
<1>5. last = i
  BY <1>2, <1>3, <1>4
<1>6. LastFor(s.annos, f) = last
  BY Zenon DEF LastFor
<1> QED
  BY <1>1, <1>5, <1>6

(* What holds of a unit's image from the first step to the last: a body    *)
(* that has left its name leaves an alias; whatever is described is        *)
(* described as its last annotation says, in strings the unit has; and the *)
(* strings of other consumers stay.                                        *)
Shape(im) ==
    im = [symbol |-> im.symbol, alias |-> im.alias, meta |-> im.meta, opts |-> im.opts,
          table |-> im.table, calls |-> im.calls, annos |-> im.annos, strs |-> im.strs]
NamesKept(s, im) ==
    /\ im.symbol \in [DOMAIN s.func -> [fn : DOMAIN s.func, impl : BOOLEAN]]
    /\ \A f \in DOMAIN s.func : s.func[f].linkage = "external" /\ im.symbol[f].impl => f \in im.alias
Tabled(s, im) ==
    /\ im.table \in Seq(Nat)
    /\ ToSet(im.table) \subseteq Targets(s) \cap DOMAIN s.func
    /\ DOMAIN im.meta = ToSet(im.table)
    /\ DOMAIN im.opts = ToSet(im.table)
    /\ \A f \in ToSet(im.table) : im.meta[f] = Meta(s.func[f], Counts(s, f)) /\ Sound(s, f)
Texts(s, im) ==
    \A f \in ToSet(im.table) :
        /\ DOMAIN im.opts[f] = DOMAIN Counts(s, f)
        /\ \A j \in DOMAIN Counts(s, f) :
              /\ im.opts[f][j].text = Counts(s, f)[j]
              /\ im.opts[f][j].by # "variable"
              /\ im.opts[f][j] \in im.strs
ForeignKept(s, im) ==
    \A i \in DOMAIN s.annos : ~s.annos[i].mine =>
        \A o \in ToSet(s.annos[i].opts) : [text |-> o, by |-> "clang"] \in im.strs
Faithful(s, im) ==
    Shape(im) /\ NamesKept(s, im) /\ Tabled(s, im) /\ Texts(s, im) /\ ForeignKept(s, im)

LEMMA UntouchedFaithful ==
  ASSUME NEW s, UnitFits(s)
  PROVE  Faithful(s, Untouched(s))
<1>1. PICK im : im = Untouched(s)
  OBVIOUS
<1>2. /\ im.symbol = [f \in DOMAIN s.func |-> [fn |-> f, impl |-> FALSE]]
      /\ im.alias = {} /\ im.meta = << >> /\ im.opts = << >> /\ im.table = << >>
      /\ im.calls = s.calls /\ im.annos = s.annos /\ im.strs = s.strs /\ Shape(im)
  BY <1>1 DEF Untouched, Shape
<1>3. NamesKept(s, im)
  BY <1>2 DEF NamesKept
<1>4. Tabled(s, im) /\ Texts(s, im)
  <2>1. im.table \in Seq(Nat) /\ ToSet(im.table) = {} /\ DOMAIN im.meta = {} /\ DOMAIN im.opts = {}
    BY <1>2 DEF ToSet
  <2> QED
    BY <2>1 DEF Tabled, Texts
<1>5. ForeignKept(s, im)
  BY <1>2 DEF ForeignKept, UnitFits
<1> QED
  BY <1>1, <1>2, <1>3, <1>4, <1>5 DEF Faithful

LEMMA RenamedIs ==
  ASSUME NEW s, s = Source(unit), NEW im, Shape(im), NamesKept(s, im), NEW f \in DOMAIN s.func, NEW q, q = Renamed(im, f),
         s.func[f].linkage \in Linkage
  PROVE  /\ Shape(q) /\ NamesKept(s, q)
         /\ q.meta = im.meta /\ q.opts = im.opts /\ q.table = im.table /\ q.calls = im.calls
         /\ q.annos = im.annos /\ q.strs = im.strs
<1>1. PICK l : l = s.func[f].linkage
  OBVIOUS
<1>2. PICK A : A = IF l = "local" THEN im.alias ELSE im.alias \cup {f}
  OBVIOUS
<1>3. q = IF l \in {"declared", "copy"} THEN im ELSE [im EXCEPT !.symbol[f].impl = TRUE, !.alias = A]
  BY <1>1, <1>2, Zenon DEF Renamed, Func
<1>4. CASE l \in {"declared", "copy"}
  BY <1>3, <1>4
<1>5. CASE l \notin {"declared", "copy"}
  <2>1. PICK sy : sy = [im.symbol EXCEPT ![f].impl = TRUE]
    OBVIOUS
  <2>2. q = [im EXCEPT !.symbol = sy, !.alias = A]
    BY <1>3, <1>5, <2>1 DEF Shape
  <2>3. q = [symbol |-> sy, alias |-> A, meta |-> im.meta, opts |-> im.opts, table |-> im.table,
             calls |-> im.calls, annos |-> im.annos, strs |-> im.strs]
    BY <2>2 DEF Shape
  <2>4. /\ q.symbol = sy /\ q.alias = A /\ q.meta = im.meta /\ q.opts = im.opts /\ q.table = im.table
        /\ q.calls = im.calls /\ q.annos = im.annos /\ q.strs = im.strs /\ Shape(q)
    BY <2>3 DEF Shape
  <2>5. /\ im.symbol \in [DOMAIN s.func -> [fn : DOMAIN s.func, impl : BOOLEAN]]
        /\ \A g \in DOMAIN s.func : s.func[g].linkage = "external" /\ im.symbol[g].impl => g \in im.alias
    BY DEF NamesKept
  <2>6. /\ sy \in [DOMAIN s.func -> [fn : DOMAIN s.func, impl : BOOLEAN]]
        /\ \A g \in DOMAIN s.func : g # f => sy[g] = im.symbol[g]
    BY <2>1, <2>5
  <2>7. im.alias \subseteq A /\ (l = "external" => f \in A)
    BY <1>2
  <2>8. \A g \in DOMAIN s.func : s.func[g].linkage = "external" /\ sy[g].impl => g \in A
    BY <1>1, <2>5, <2>6, <2>7
  <2> QED
    BY <2>4, <2>6, <2>8 DEF NamesKept
<1> QED
  BY <1>4, <1>5

LEMMA StringsForIs ==
  ASSUME NEW strs, NEW text, NEW x \in StringsFor(strs, text)
  PROVE  x.text = text /\ x.by # "variable"
BY DEF StringsFor

LEMMA DescribedIs ==
  ASSUME NEW s, s = Source(unit), UnitFits(s), NEW im, Faithful(s, im), NEW f \in Targets(s), f # 0, Sound(s, f),
         f \notin ToSet(im.table), NEW where, DOMAIN where = DOMAIN Counts(s, f),
         \A i \in DOMAIN Counts(s, f) : where[i] \in StringsFor(im.strs, Counts(s, f)[i]),
         NEW r, r = Described(im, f, Counts(s, f), where)
  PROVE  Faithful(s, r) /\ r.calls = im.calls /\ r.annos = im.annos /\ ToSet(r.table) = ToSet(im.table) \cup {f}
<1>1. f \in DOMAIN s.func /\ f \in Nat
  BY UnitFacts
<1>2. s.func[f].linkage \in Linkage
  BY <1>1 DEF UnitFits
<1>3. PICK q : q = Renamed(im, f)
  OBVIOUS
<1>4. Shape(im) /\ NamesKept(s, im) /\ Tabled(s, im) /\ Texts(s, im) /\ ForeignKept(s, im)
  BY DEF Faithful
<1>5. /\ Shape(q) /\ NamesKept(s, q)
      /\ q.meta = im.meta /\ q.opts = im.opts /\ q.table = im.table /\ q.calls = im.calls
      /\ q.annos = im.annos /\ q.strs = im.strs
  BY <1>1, <1>2, <1>3, <1>4, RenamedIs
<1>6. PICK c : c = Counts(s, f)
  OBVIOUS
<1>7. PICK m : m = Meta(s.func[f], c)
  OBVIOUS
<1>8. PICK ops : ops = With(im.opts, f, where)
  OBVIOUS
<1>9. PICK metas : metas = With(im.meta, f, m)
  OBVIOUS
<1>10. PICK tab : tab = Append(im.table, f)
  OBVIOUS
<1>11. PICK strs : strs = im.strs \cup ToSet(where)
  OBVIOUS
<1>12. r = [q EXCEPT !.opts = ops, !.meta = metas, !.table = tab, !.strs = strs]
  BY <1>3, <1>6, <1>7, <1>8, <1>9, <1>10, <1>11, Zenon DEF Described, Func
<1>13. r = [symbol |-> q.symbol, alias |-> q.alias, meta |-> metas, opts |-> ops, table |-> tab,
            calls |-> q.calls, annos |-> q.annos, strs |-> strs]
  BY <1>12, <1>5 DEF Shape
<1>14. /\ r.symbol = q.symbol /\ r.alias = q.alias /\ r.meta = metas /\ r.opts = ops /\ r.table = tab
       /\ r.calls = q.calls /\ r.annos = q.annos /\ r.strs = strs /\ Shape(r)
  BY <1>13 DEF Shape
<1>15. NamesKept(s, r)
  BY <1>5, <1>14 DEF NamesKept
<1>16. tab \in Seq(Nat) /\ ToSet(tab) = ToSet(im.table) \cup {f}
  BY <1>1, <1>4, <1>10, AppendMembers DEF Tabled
<1>17. DOMAIN ops = DOMAIN im.opts \cup {f} /\ ops[f] = where /\ \A y \in DOMAIN im.opts : y # f => ops[y] = im.opts[y]
  BY <1>8 DEF With
<1>18. DOMAIN metas = DOMAIN im.meta \cup {f} /\ metas[f] = m /\ \A y \in DOMAIN im.meta : y # f => metas[y] = im.meta[y]
  BY <1>9 DEF With
<1>19. Tabled(s, r)
  BY <1>1, <1>4, <1>6, <1>7, <1>14, <1>16, <1>17, <1>18 DEF Tabled
<1>20. Texts(s, r)
  <2>1. ASSUME NEW j \in DOMAIN c PROVE where[j].text = c[j] /\ where[j].by # "variable" /\ where[j] \in strs
    <3>1. where[j] \in StringsFor(im.strs, c[j])
      BY <1>6, <2>1
    <3>2. where[j] \in ToSet(where)
      <4>1. OptsFit(c)
        BY <1>6, CountsFit
      <4>2. DOMAIN c = 1 .. Len(c) /\ Len(c) \in Nat
        BY <4>1 DEF OptsFit
      <4> QED
        BY <1>6, <2>1, <4>2 DEF ToSet
    <3> QED
      BY <3>1, <3>2, <1>11, StringsForIs
  <2>2. ASSUME NEW g \in ToSet(im.table)
        PROVE  /\ DOMAIN ops[g] = DOMAIN Counts(s, g)
               /\ \A j \in DOMAIN Counts(s, g) :
                     ops[g][j].text = Counts(s, g)[j] /\ ops[g][j].by # "variable" /\ ops[g][j] \in strs
    <3>1. ops[g] = im.opts[g]
      BY <1>4, <1>17, <2>2 DEF Tabled
    <3> QED
      BY <3>1, <1>4, <1>11, <2>2 DEF Texts
  <2> QED
    BY <2>1, <2>2, <1>6, <1>14, <1>16, <1>17 DEF Texts
<1>21. ForeignKept(s, r)
  BY <1>4, <1>11, <1>14 DEF ForeignKept
<1> QED
  BY <1>5, <1>14, <1>15, <1>16, <1>19, <1>20, <1>21 DEF Faithful

-----------------------------------------------------------------------------
(* The inductive invariant. Units behind the pass are finished, those      *)
(* ahead of it untouched; what it has of the one it is at depends on the   *)
(* phase.                                                                  *)
CallsRight(s, im) ==
    \A c \in im.calls :
        /\ c.via = "stub" <=> c.form = "plain" /\ c.to \in Targets(s) /\ s.func[c.to].ret # "word"
        /\ c.via = "stub" => \E t \in im.calls : t.to = c.to /\ t.form = "thunk"
Covered(s, im) == 0 \notin Targets(s) /\ ToSet(im.table) = Targets(s)
Finished(s, im) == CallsRight(s, im) /\ Covered(s, im) /\ im.annos = Others(s.annos)

HasProgram == \E family \in Families : program \in family
Placed ==
    /\ unit \in DOMAIN program.units
    /\ DOMAIN image = DOMAIN program.units
    /\ phase \in {"enroll", "describe", "erase", "startup", "rejected", "aborted", "running"}
AllFaithful == \A u \in DOMAIN image : Faithful(Source(u), image[u])
Behind == \A u \in DOMAIN image : u < unit => Finished(Source(u), image[u])
Ahead == \A u \in DOMAIN image : u > unit => image[u] = Untouched(Source(u))

Enrolling ==
    phase = "enroll" => annotated = << >> /\ described = {} /\ image[unit] = Untouched(Source(unit))
Describing ==
    phase = "describe" =>
        /\ 0 \notin Targets(Source(unit))
        /\ DOMAIN annotated = Targets(Source(unit))
        /\ \A f \in DOMAIN annotated : annotated[f] = Counts(Source(unit), f)
        /\ described = ToSet(image[unit].table)
        /\ image[unit].calls = Source(unit).calls /\ image[unit].annos = Source(unit).annos
Erasing ==
    phase = "erase" =>
        /\ CallsRight(Source(unit), image[unit]) /\ Covered(Source(unit), image[unit])
        /\ image[unit].annos = Source(unit).annos
Compiled ==
    phase \in {"startup", "running", "aborted"} =>
        unit = Len(program.units) /\ Finished(Source(unit), image[unit])
Rejected ==
    phase = "rejected" =>
        \E u \in DOMAIN image : \E f \in Targets(Source(u)) : f = 0 \/ ~Sound(Source(u), f)
Judged ==
    /\ phase = "running" =>
          \A u \in DOMAIN image : \A f \in ToSet(image[u].table) : Accepted(image[u].meta[f])
    /\ phase = "aborted" =>
          \E u \in DOMAIN image : \E f \in ToSet(image[u].table) : ~Accepted(image[u].meta[f])

PassInv ==
    /\ HasProgram /\ Placed /\ AllFaithful /\ Behind /\ Ahead
    /\ Enrolling /\ Describing /\ Erasing /\ Compiled /\ Rejected /\ Judged

LEMMA ProgramFacts ==
  ASSUME HasProgram
  PROVE  /\ Len(program.units) \in Nat \ {0} /\ DOMAIN program.units = 1 .. Len(program.units)
         /\ \A u \in DOMAIN program.units : UnitFits(Source(u))
<1>1. PICK q : q = program.units
  OBVIOUS
<1>2. q # << >> /\ q \in Seq(ToSet(q)) /\ \A i \in DOMAIN q : UnitFits(q[i])
  BY <1>1, ProgramsFit DEF HasProgram
<1>3. Len(q) \in Nat \ {0} /\ DOMAIN q = 1 .. Len(q)
  BY <1>2
<1> QED
  BY <1>1, <1>2, <1>3 DEF Source

LEMMA NoneAnnotated ==
  ASSUME NEW s, UnitFits(s), Targets(s) = {}
  PROVE  Finished(s, Untouched(s))
<1>1. \A i \in DOMAIN s.annos : ~s.annos[i].mine
  <2>1. \A i \in DOMAIN s.annos : s.annos[i] \in ToSet(s.annos)
    BY UnitFacts DEF ToSet
  <2> QED
    BY <2>1 DEF Targets
<1>2. Others(s.annos) = s.annos
  <2>1. PICK a : a = s.annos
    OBVIOUS
  <2>2. a \in Seq(Annotation) /\ DOMAIN a = 1 .. Len(a)
    BY <2>1, UnitFacts
  <2>3. PICK S : S = {i \in DOMAIN a : ~a[i].mine}
    OBVIOUS
  <2>4. 1 .. Len(a) \subseteq S
    BY <1>1, <2>1, <2>2, <2>3
  <2>5. Picked(a, S) = a
    BY <2>2, <2>4, PickedAll
  <2> QED
    BY <2>1, <2>3, <2>5, Zenon DEF Others
<1>3. Untouched(s).calls = s.calls /\ Untouched(s).annos = s.annos /\ Untouched(s).table = << >>
  BY DEF Untouched
<1>4. ToSet(Untouched(s).table) = {}
  BY <1>3 DEF ToSet
<1>5. \A c \in s.calls : c.via = "body"
  BY DEF UnitFits
<1> QED
  BY <1>1, <1>2, <1>3, <1>4, <1>5 DEF Finished, CallsRight, Covered

LEMMA PassInvInit == PassInit => PassInv
<1> SUFFICES ASSUME PassInit PROVE PassInv
  OBVIOUS
<1>1. HasProgram
  BY DEF PassInit, HasProgram
<1>2. /\ Len(program.units) \in Nat \ {0} /\ DOMAIN program.units = 1 .. Len(program.units)
      /\ \A u \in DOMAIN program.units : UnitFits(Source(u))
  BY <1>1, ProgramFacts
<1>3. unit = 1 /\ phase = "enroll" /\ annotated = << >> /\ described = {}
  BY DEF PassInit
<1>4. DOMAIN image = DOMAIN program.units /\ \A u \in DOMAIN image : image[u] = Untouched(Source(u))
  BY DEF PassInit, Source
<1>5. Placed
  BY <1>2, <1>3, <1>4 DEF Placed
<1>6. AllFaithful
  BY <1>2, <1>4, UntouchedFaithful DEF AllFaithful
<1>7. Behind /\ Ahead /\ Enrolling
  BY <1>2, <1>3, <1>4 DEF Behind, Ahead, Enrolling
<1>8. Describing /\ Erasing /\ Compiled /\ Rejected /\ Judged
  BY <1>3 DEF Describing, Erasing, Compiled, Rejected, Judged
<1> QED
  BY <1>1, <1>5, <1>6, <1>7, <1>8 DEF PassInv

\* The unit is finished and the pass goes to the next, or the compiler is done.
LEMMA UnitEnds ==
  ASSUME PassInv, NextUnit, UNCHANGED program, DOMAIN image' = DOMAIN image,
         \A u \in DOMAIN image : u # unit => image'[u] = image[u],
         Faithful(Source(unit), image'[unit]), Finished(Source(unit), image'[unit])
  PROVE  PassInv'
<1> DEFINE N == Len(program.units)
<1>1. N \in Nat /\ DOMAIN program.units = 1 .. N /\ unit \in 1 .. N /\ DOMAIN image = 1 .. N
  BY ProgramFacts DEF PassInv, Placed
<1>2. program' = program /\ \A u : Source(u)' = Source(u)
  BY DEF Source
<1>3. annotated' = << >> /\ described' = {}
  BY DEF NextUnit
<1>4. \/ unit' = unit + 1 /\ unit + 1 \in 1 .. N /\ phase' = "enroll"
      \/ unit' = unit /\ unit = N /\ phase' = "startup"
  BY <1>1 DEF NextUnit
<1>5. HasProgram'
  BY <1>2 DEF PassInv, HasProgram
<1>6. Placed'
  BY <1>1, <1>2, <1>4 DEF Placed
<1>7. AllFaithful'
  <2>1. \A u \in DOMAIN image : Faithful(Source(u), image[u])
    BY DEF PassInv, AllFaithful
  <2>2. \A u \in DOMAIN image : Faithful(Source(u), image'[u])
    BY <2>1
  <2> QED
    BY <2>2, <1>2 DEF AllFaithful
<1>8. \A u \in DOMAIN image : u <= unit => Finished(Source(u), image'[u])
  <2>1. \A u \in DOMAIN image : u < unit => Finished(Source(u), image[u])
    BY DEF PassInv, Behind
  <2> QED
    BY <2>1, <1>1
<1>9. \A u \in DOMAIN image : u > unit => image'[u] = Untouched(Source(u))
  BY <1>1 DEF PassInv, Ahead
<1>10. Behind' /\ Ahead'
  <2>1. \A u \in 1 .. N : /\ u < unit' => u <= unit
                          /\ u > unit' => u > unit
    BY <1>1, <1>4
  <2> QED
    BY <2>1, <1>1, <1>2, <1>8, <1>9 DEF Behind, Ahead
<1>11. Enrolling'
  <2>1. phase' = "enroll" => unit' \in DOMAIN image /\ unit' > unit
    BY <1>1, <1>4
  <2> QED
    BY <2>1, <1>2, <1>3, <1>9 DEF Enrolling
<1>12. Compiled'
  BY <1>1, <1>2, <1>4, <1>8 DEF Compiled
<1>13. Describing' /\ Erasing' /\ Rejected' /\ Judged'
  BY <1>4 DEF Describing, Erasing, Rejected, Judged
<1> QED
  BY <1>5, <1>6, <1>7, <1>10, <1>11, <1>12, <1>13 DEF PassInv

\* The pass stays at its unit.
LEMMA UnitStays ==
  ASSUME PassInv, UNCHANGED <<program, unit>>, DOMAIN image' = DOMAIN image,
         \A u \in DOMAIN image : u # unit => image'[u] = image[u],
         Faithful(Source(unit), image'[unit]),
         phase' \in {"enroll", "describe", "erase", "startup", "rejected", "aborted", "running"}
  PROVE  HasProgram' /\ Placed' /\ AllFaithful' /\ Behind' /\ Ahead'
<1>1. program' = program /\ unit' = unit /\ \A u : Source(u)' = Source(u)
  BY DEF Source
<1>2. Len(program.units) \in Nat /\ unit \in 1 .. Len(program.units) /\ DOMAIN image = 1 .. Len(program.units)
  BY ProgramFacts DEF PassInv, Placed
<1>3. HasProgram' /\ Placed'
  BY <1>1 DEF PassInv, HasProgram, Placed
<1>4. AllFaithful'
  <2>1. \A u \in DOMAIN image : Faithful(Source(u), image[u])
    BY DEF PassInv, AllFaithful
  <2>2. \A u \in DOMAIN image : Faithful(Source(u), image'[u])
    BY <2>1
  <2> QED
    BY <2>2, <1>1 DEF AllFaithful
<1>5. Behind' /\ Ahead'
  <2>1. /\ \A u \in DOMAIN image : u < unit => Finished(Source(u), image[u])
        /\ \A u \in DOMAIN image : u > unit => image[u] = Untouched(Source(u))
    BY DEF PassInv, Behind, Ahead
  <2>2. \A u \in DOMAIN image : u < unit \/ u > unit => image'[u] = image[u]
    BY <1>2
  <2> QED
    BY <2>1, <2>2, <1>1 DEF Behind, Ahead
<1> QED
  BY <1>3, <1>4, <1>5

LEMMA EnrollKeeps == PassInv /\ Enroll => PassInv'
<1> SUFFICES ASSUME PassInv, Enroll PROVE PassInv'
  OBVIOUS
<1>1. unit \in DOMAIN image /\ UnitFits(Source(unit)) /\ Faithful(Source(unit), image[unit])
  BY ProgramFacts DEF PassInv, Placed, AllFaithful
<1>2. PICK s : s = Source(unit)
  OBVIOUS
<1>4. phase = "enroll" /\ program' = program /\ image' = image
  BY DEF Enroll
<1>5. annotated = << >> /\ described = {} /\ image[unit] = Untouched(s)
  BY <1>2, <1>4 DEF PassInv, Enrolling
<1>6. Enrolled(unit) = Targets(s)
  BY <1>2 DEF Enrolled, Targets
<1>7. \/ Targets(s) = {} /\ NextUnit
      \/ 0 \in Targets(s) /\ phase' = "rejected" /\ UNCHANGED <<unit, annotated, described>>
      \/ /\ 0 \notin Targets(s) /\ phase' = "describe" /\ UNCHANGED <<unit, described>>
         /\ DOMAIN annotated' = Targets(s) \cup DOMAIN annotated
         /\ \A f \in Targets(s) : annotated'[f] = s.annos[LastFor(s.annos, f)].opts
  BY <1>2, <1>6 DEF Enroll
<1>8. CASE Targets(s) = {} /\ NextUnit
  <2>1. Finished(s, Untouched(s))
    BY <1>1, <1>2, <1>8, NoneAnnotated
  <2> QED
    BY <2>1, <1>1, <1>2, <1>4, <1>5, <1>8, UnitEnds
<1>9. CASE 0 \in Targets(s) /\ phase' = "rejected" /\ UNCHANGED <<unit, annotated, described>>
  <2>1. HasProgram' /\ Placed' /\ AllFaithful' /\ Behind' /\ Ahead'
    BY <1>1, <1>4, <1>9, UnitStays
  <2>2. Rejected'
    BY <1>1, <1>2, <1>4, <1>9 DEF Rejected, Source
  <2>3. Enrolling' /\ Describing' /\ Erasing' /\ Compiled' /\ Judged'
    BY <1>9 DEF Enrolling, Describing, Erasing, Compiled, Judged
  <2> QED
    BY <2>1, <2>2, <2>3 DEF PassInv
<1>10. CASE /\ 0 \notin Targets(s) /\ phase' = "describe" /\ UNCHANGED <<unit, described>>
            /\ DOMAIN annotated' = Targets(s) \cup DOMAIN annotated
            /\ \A f \in Targets(s) : annotated'[f] = s.annos[LastFor(s.annos, f)].opts
  <2>1. HasProgram' /\ Placed' /\ AllFaithful' /\ Behind' /\ Ahead'
    BY <1>1, <1>4, <1>10, UnitStays
  <2>2. DOMAIN annotated = {}
    BY <1>5
  <2>3. \A f \in Targets(s) : s.annos[LastFor(s.annos, f)].opts = Counts(s, f)
    BY <1>1, <1>2, LastIsCounts
  <2>4. DOMAIN annotated' = Targets(s) /\ \A f \in Targets(s) : annotated'[f] = Counts(s, f)
    BY <2>2, <2>3, <1>10
  <2>5. ToSet(image[unit].table) = {} /\ image[unit].calls = s.calls /\ image[unit].annos = s.annos
    BY <1>5 DEF Untouched, ToSet
  <2>6. Source(unit)' = s
    BY <1>2, <1>4, <1>10 DEF Source
  <2>7. Describing'
    BY <2>4, <2>5, <2>6, <1>4, <1>5, <1>10, <1>2 DEF Describing, Source
  <2>8. Enrolling' /\ Erasing' /\ Compiled' /\ Rejected' /\ Judged'
    BY <1>10 DEF Enrolling, Erasing, Compiled, Rejected, Judged
  <2> QED
    BY <2>1, <2>7, <2>8 DEF PassInv
<1> QED
  BY <1>7, <1>8, <1>9, <1>10

LEMMA DescribeKeeps == PassInv /\ Describe => PassInv'
<1> SUFFICES ASSUME PassInv, Describe PROVE PassInv'
  OBVIOUS
<1>1. unit \in DOMAIN image /\ UnitFits(Source(unit)) /\ Faithful(Source(unit), image[unit])
  BY ProgramFacts DEF PassInv, Placed, AllFaithful
<1>2. PICK s : s = Source(unit)
  OBVIOUS
<1>3. PICK im : im = image[unit]
  OBVIOUS
<1>4. phase = "describe" /\ UNCHANGED <<program, unit, annotated>> /\ DOMAIN annotated \ described # {}
  BY DEF Describe
<1>5. /\ 0 \notin Targets(s) /\ DOMAIN annotated = Targets(s)
      /\ \A f \in Targets(s) : annotated[f] = Counts(s, f)
      /\ described = ToSet(im.table) /\ im.calls = s.calls /\ im.annos = s.annos
  BY <1>2, <1>3, <1>4 DEF PassInv, Describing
<1> DEFINE g == Min(DOMAIN annotated \ described)
           d == annotated[g]
<1>a. \/ /\ ~ParseKinds(Func(g), d).ok \/ ~RuntimeOk(d)
         /\ phase' = "rejected" /\ UNCHANGED <<described, image>>
      \/ /\ ParseKinds(Func(g), d).ok /\ RuntimeOk(d)
         /\ \E where \in [DOMAIN d -> UNION {StringsFor(image[unit].strs, d[i]) : i \in DOMAIN d}] :
               /\ \A i \in DOMAIN d : where[i] \in StringsFor(image[unit].strs, d[i])
               /\ image' = [image EXCEPT ![unit] = Described(@, g, d, where)]
         /\ described' = described \cup {g} /\ phase' = phase
  BY Zenon DEF Describe
<1> HIDE DEF g, d
<1>6. PICK f : f = g
  OBVIOUS
<1>7. f \in Targets(s) /\ f \notin ToSet(im.table) /\ f # 0 /\ f \in DOMAIN s.func
  <2>1. \A h \in Targets(s) : h # 0 /\ h \in DOMAIN s.func /\ h \in Nat
    BY <1>1, <1>2, <1>5, UnitFacts
  <2>2. f \in DOMAIN annotated \ described
    <3>1. DOMAIN annotated \ described \subseteq Nat
      BY <2>1, <1>5
    <3> QED
      BY <3>1, <1>4, <1>6, MinIsLeast DEF g
  <2> QED
    BY <2>1, <2>2, <1>5
<1>8. PICK c : c = Counts(s, f)
  OBVIOUS
<1>9. d = c /\ Func(g) = s.func[f]
  BY <1>2, <1>5, <1>6, <1>7, <1>8 DEF Func, d
<1>11. CASE ~Sound(s, f) /\ phase' = "rejected" /\ UNCHANGED <<described, image>>
  <2>1. HasProgram' /\ Placed' /\ AllFaithful' /\ Behind' /\ Ahead'
    BY <1>1, <1>4, <1>11, UnitStays
  <2>2. Rejected'
    BY <1>1, <1>2, <1>4, <1>7, <1>11 DEF Rejected, Source
  <2>3. Enrolling' /\ Describing' /\ Erasing' /\ Compiled' /\ Judged'
    BY <1>11 DEF Enrolling, Describing, Erasing, Compiled, Judged
  <2> QED
    BY <2>1, <2>2, <2>3 DEF PassInv
<1>12. ASSUME Sound(s, f), NEW where, DOMAIN where = DOMAIN c, \A i \in DOMAIN c : where[i] \in StringsFor(im.strs, c[i]),
              image' = [image EXCEPT ![unit] = Described(im, f, c, where)], described' = described \cup {f}, phase' = phase
       PROVE  PassInv'
  <2>1. PICK r : r = Described(im, f, c, where)
    OBVIOUS
  <2>2. Faithful(s, r) /\ r.calls = im.calls /\ r.annos = im.annos /\ ToSet(r.table) = ToSet(im.table) \cup {f}
    BY <1>1, <1>2, <1>3, <1>7, <1>8, <1>12, <2>1, DescribedIs
  <2>3. DOMAIN image' = DOMAIN image /\ image'[unit] = r /\ \A u \in DOMAIN image : u # unit => image'[u] = image[u]
    BY <1>1, <1>12, <2>1
  <2>4. HasProgram' /\ Placed' /\ AllFaithful' /\ Behind' /\ Ahead'
    BY <1>1, <1>2, <1>4, <1>12, <2>2, <2>3, UnitStays
  <2>5. Source(unit)' = s
    BY <1>2, <1>4 DEF Source
  <2>6. Describing'
    BY <1>4, <1>5, <1>12, <2>2, <2>3, <2>5 DEF Describing
  <2>7. Enrolling' /\ Erasing' /\ Compiled' /\ Rejected' /\ Judged'
    BY <1>4, <1>12 DEF Enrolling, Erasing, Compiled, Rejected, Judged
  <2> QED
    BY <2>4, <2>6, <2>7 DEF PassInv
<1>13. Sound(s, f) <=> ParseKinds(s.func[f], c).ok /\ RuntimeOk(c)
  BY <1>8 DEF Sound
<1>14. CASE /\ ParseKinds(Func(g), d).ok /\ RuntimeOk(d)
            /\ \E where \in [DOMAIN d -> UNION {StringsFor(image[unit].strs, d[i]) : i \in DOMAIN d}] :
                  /\ \A i \in DOMAIN d : where[i] \in StringsFor(image[unit].strs, d[i])
                  /\ image' = [image EXCEPT ![unit] = Described(@, g, d, where)]
            /\ described' = described \cup {g} /\ phase' = phase
  <2>1. PICK where \in [DOMAIN d -> UNION {StringsFor(image[unit].strs, d[i]) : i \in DOMAIN d}] :
                  /\ \A i \in DOMAIN d : where[i] \in StringsFor(image[unit].strs, d[i])
                  /\ image' = [image EXCEPT ![unit] = Described(@, g, d, where)]
    BY <1>14
  <2>2. DOMAIN where = DOMAIN c
    BY <2>1, <1>9
  <2>3. \A i \in DOMAIN c : where[i] \in StringsFor(im.strs, c[i])
    BY <2>1, <1>3, <1>9
  <2>4. image' = [image EXCEPT ![unit] = Described(im, f, c, where)]
    BY <2>1, <1>3, <1>6, <1>9
  <2> QED
    BY <2>2, <2>3, <2>4, <1>6, <1>9, <1>12, <1>13, <1>14
<1> QED
  BY <1>a, <1>6, <1>9, <1>11, <1>13, <1>14

LEMMA RewriteKeeps == PassInv /\ Rewrite => PassInv'
<1> SUFFICES ASSUME PassInv, Rewrite PROVE PassInv'
  OBVIOUS
<1>1. unit \in DOMAIN image /\ UnitFits(Source(unit)) /\ Faithful(Source(unit), image[unit])
  BY ProgramFacts DEF PassInv, Placed, AllFaithful
<1>2. PICK s : s = Source(unit)
  OBVIOUS
<1>3. PICK im : im = image[unit]
  OBVIOUS
<1>4. phase = "describe" /\ UNCHANGED <<program, unit, annotated, described>> /\ phase' = "erase"
       /\ DOMAIN annotated \subseteq described
  BY DEF Rewrite
<1>5. /\ 0 \notin Targets(s) /\ DOMAIN annotated = Targets(s)
      /\ described = ToSet(im.table) /\ im.calls = s.calls /\ im.annos = s.annos
  BY <1>2, <1>3, <1>4 DEF PassInv, Describing
<1> DEFINE C == {IF Redirected(c) THEN [c EXCEPT !.via = "stub"] ELSE c : c \in image[unit].calls}
                  \cup {[to |-> f, form |-> "thunk", via |-> "body"] :
                          f \in {c.to : c \in {x \in image[unit].calls : Redirected(x)}}}
<1>6. image' = [image EXCEPT ![unit].calls = C]
  BY <1>1 DEF Rewrite
<1>7. Shape(im)
  BY <1>1, <1>3 DEF Faithful
<1> HIDE DEF C
<1>8. PICK r : r = [im EXCEPT !.calls = C]
  OBVIOUS
<1>9. r = [symbol |-> im.symbol, alias |-> im.alias, meta |-> im.meta, opts |-> im.opts,
           table |-> im.table, calls |-> C, annos |-> im.annos, strs |-> im.strs]
  BY <1>7, <1>8 DEF Shape
<1>10. /\ r.symbol = im.symbol /\ r.alias = im.alias /\ r.meta = im.meta /\ r.opts = im.opts
       /\ r.table = im.table /\ r.calls = C /\ r.annos = im.annos /\ r.strs = im.strs /\ Shape(r)
  BY <1>9 DEF Shape
<1>11. DOMAIN image' = DOMAIN image /\ image'[unit] = r /\ \A u \in DOMAIN image : u # unit => image'[u] = image[u]
  BY <1>1, <1>3, <1>6, <1>8
<1>12. Faithful(s, r)
  BY <1>1, <1>2, <1>3, <1>10 DEF Faithful, NamesKept, Tabled, Texts, ForeignKept
<1>13. CallsRight(s, r)
  <2>1. \A c \in s.calls : Redirected(c) <=> c.form = "plain" /\ c.to \in Targets(s) /\ s.func[c.to].ret # "word"
    <3>1. \A f \in Targets(s) : f \in DOMAIN s.func
      BY <1>1, <1>2, <1>5, UnitFacts
    <3>2. \A f \in DOMAIN s.func : s.func[f].ret \in {"void", "ptr", "word"}
      BY <1>1, <1>2 DEF UnitFits
    <3> QED
      BY <3>1, <3>2, <1>2, <1>5 DEF Redirected, Func
  <2>2. \A c \in s.calls : c.via = "body" /\ c = [to |-> c.to, form |-> c.form, via |-> c.via]
    <3>1. \A c \in s.calls : c \in [to : DOMAIN s.func, form : {"plain", "invoke", "mismatch", "indirect"},
                                    via : {"body"}]
      BY <1>1, <1>2 DEF UnitFits
    <3> QED
      BY <3>1
  <2>3. /\ \A x \in C : \/ \E c \in s.calls : Redirected(c) /\ x = [c EXCEPT !.via = "stub"]
                        \/ \E c \in s.calls : ~Redirected(c) /\ x = c
                        \/ \E f : x = [to |-> f, form |-> "thunk", via |-> "body"]
        /\ \A c \in s.calls : Redirected(c) => [to |-> c.to, form |-> "thunk", via |-> "body"] \in C
    <3>1. im.calls = s.calls /\ image[unit].calls = s.calls
      BY <1>3, <1>5
    <3> HIDE DEF Redirected
    <3> QED
      BY <3>1 DEF C
  <2>4. ASSUME NEW x \in C
        PROVE  /\ x.via = "stub" <=> x.form = "plain" /\ x.to \in Targets(s) /\ s.func[x.to].ret # "word"
               /\ x.via = "stub" => \E t \in C : t.to = x.to /\ t.form = "thunk"
    <3>1. ASSUME NEW c \in s.calls, Redirected(c), x = [c EXCEPT !.via = "stub"]
          PROVE  /\ x.via = "stub" <=> x.form = "plain" /\ x.to \in Targets(s) /\ s.func[x.to].ret # "word"
                 /\ \E t \in C : t.to = x.to /\ t.form = "thunk"
      <4>1. x.via = "stub" /\ x.form = c.form /\ x.to = c.to
        BY <2>2, <3>1
      <4>2. PICK t \in C : t = [to |-> c.to, form |-> "thunk", via |-> "body"]
        BY <2>3, <3>1
      <4>3. t.to = x.to /\ t.form = "thunk"
        BY <4>1, <4>2
      <4> QED
        BY <4>1, <4>2, <4>3, <2>1, <3>1
    <3>2. ASSUME NEW c \in s.calls, ~Redirected(c), x = c
          PROVE  x.via # "stub" /\ ~(x.form = "plain" /\ x.to \in Targets(s) /\ s.func[x.to].ret # "word")
      BY <2>1, <2>2, <3>2
    <3>3. ASSUME NEW f, x = [to |-> f, form |-> "thunk", via |-> "body"]
          PROVE  x.via # "stub" /\ x.form # "plain"
      BY <3>3
    <3> QED
      BY <2>3, <2>4, <3>1, <3>2, <3>3
  <2> QED
    BY <2>4, <1>10 DEF CallsRight
<1>14. Covered(s, r)
  BY <1>1, <1>2, <1>3, <1>4, <1>5, <1>10 DEF Covered, Faithful, Tabled
<1>15. HasProgram' /\ Placed' /\ AllFaithful' /\ Behind' /\ Ahead'
  BY <1>1, <1>2, <1>4, <1>11, <1>12, UnitStays
<1>16. Source(unit)' = s
  BY <1>2, <1>4 DEF Source
<1>17. Erasing'
  BY <1>5, <1>10, <1>11, <1>13, <1>14, <1>16, <1>4 DEF Erasing
<1>18. Enrolling' /\ Describing' /\ Compiled' /\ Rejected' /\ Judged'
  BY <1>4 DEF Enrolling, Describing, Compiled, Rejected, Judged
<1> QED
  BY <1>15, <1>17, <1>18 DEF PassInv

\* The entries of other consumers.
LEMMA OthersAre ==
  ASSUME NEW s, UnitFits(s)
  PROVE  ToSet(Others(s.annos)) = {s.annos[i] : i \in {j \in DOMAIN s.annos : ~s.annos[j].mine}}
<1>1. PICK a : a = s.annos
  OBVIOUS
<1>2. a \in Seq(Annotation) /\ DOMAIN a = 1 .. Len(a)
  BY <1>1, UnitFacts
<1>3. PICK S : S = {i \in DOMAIN a : ~a[i].mine}
  OBVIOUS
<1>4. ToSet(Picked(a, S)) = {a[i] : i \in (1 .. Len(a)) \cap S}
  BY <1>2, PickedMembers
<1>5. Others(a) = Picked(a, S)
  BY <1>3, Zenon DEF Others
<1>6. (1 .. Len(a)) \cap S = S
  BY <1>2, <1>3
<1> QED
  BY <1>1, <1>3, <1>4, <1>5, <1>6

LEMMA EraseKeeps == PassInv /\ Erase => PassInv'
<1> SUFFICES ASSUME PassInv, Erase PROVE PassInv'
  OBVIOUS
<1>1. unit \in DOMAIN image /\ UnitFits(Source(unit)) /\ Faithful(Source(unit), image[unit])
  BY ProgramFacts DEF PassInv, Placed, AllFaithful
<1>2. PICK s : s = Source(unit)
  OBVIOUS
<1>3. PICK im : im = image[unit]
  OBVIOUS
<1>4. phase = "erase" /\ UNCHANGED program /\ NextUnit
  BY DEF Erase
<1>5. CallsRight(s, im) /\ Covered(s, im) /\ im.annos = s.annos
  BY <1>2, <1>3, <1>4 DEF PassInv, Erasing
<1>6. Shape(im) /\ NamesKept(s, im) /\ Tabled(s, im) /\ Texts(s, im) /\ ForeignKept(s, im)
  BY <1>1, <1>2, <1>3 DEF Faithful
<1> DEFINE kept == Others(image[unit].annos)
           used == UNION {ToSet(image[unit].opts[f]) : f \in DOMAIN image[unit].opts}
           named == UNION {ToSet(e.opts) : e \in ToSet(kept)}
           S == {x \in image[unit].strs : x.by # "clang" \/ x \in used \/ x.text \in named}
<1>7. image' = [image EXCEPT ![unit].annos = kept, ![unit].strs = S]
  BY <1>1, <1>3, <1>6 DEF Erase, Shape
<1>8. kept = Others(s.annos)
  BY <1>3, <1>5
<1>9. \A x \in im.strs : x \in S <=> x.by # "clang" \/ x \in used \/ x.text \in named
  BY <1>3
<1>10. \A f \in DOMAIN im.opts : ToSet(im.opts[f]) \subseteq used
  BY <1>3
<1>11. \A i \in DOMAIN s.annos : ~s.annos[i].mine => ToSet(s.annos[i].opts) \subseteq named
  <2>1. \A i \in DOMAIN s.annos : ~s.annos[i].mine => s.annos[i] \in ToSet(kept)
    BY <1>1, <1>2, <1>8, OthersAre
  <2> HIDE DEF kept
  <2> QED
    BY <2>1
<1> HIDE DEF kept, used, named, S
<1>12. PICK r : r = [im EXCEPT !.annos = kept, !.strs = S]
  OBVIOUS
<1>13. r = [symbol |-> im.symbol, alias |-> im.alias, meta |-> im.meta, opts |-> im.opts,
            table |-> im.table, calls |-> im.calls, annos |-> kept, strs |-> S]
  BY <1>6, <1>12 DEF Shape
<1>14. /\ r.symbol = im.symbol /\ r.alias = im.alias /\ r.meta = im.meta /\ r.opts = im.opts
       /\ r.table = im.table /\ r.calls = im.calls /\ r.annos = kept /\ r.strs = S /\ Shape(r)
  BY <1>13 DEF Shape
<1>15. DOMAIN image' = DOMAIN image /\ image'[unit] = r /\ \A u \in DOMAIN image : u # unit => image'[u] = image[u]
  BY <1>1, <1>3, <1>7, <1>12
<1>16. NamesKept(s, r) /\ Tabled(s, r)
  BY <1>6, <1>14 DEF NamesKept, Tabled
<1>17. Texts(s, r)
  <2>1. ASSUME NEW f \in ToSet(im.table), NEW j \in DOMAIN Counts(s, f) PROVE im.opts[f][j] \in S
    <3>1. DOMAIN im.opts[f] = DOMAIN Counts(s, f) /\ im.opts[f][j] \in im.strs /\ f \in DOMAIN im.opts /\ f \in Targets(s)
      BY <2>1, <1>6 DEF Texts, Tabled
    <3>2. OptsFit(Counts(s, f))
      BY <3>1, <1>1, <1>2, CountsFit
    <3>3. DOMAIN im.opts[f] = 1 .. Len(Counts(s, f)) /\ Len(Counts(s, f)) \in Nat
      BY <3>1, <3>2 DEF OptsFit
    <3>4. im.opts[f][j] \in ToSet(im.opts[f])
      BY <2>1, <3>1, <3>3 DEF ToSet
    <3> QED
      BY <3>1, <3>4, <1>9, <1>10
  <2> QED
    BY <2>1, <1>6, <1>14 DEF Texts
<1>18. ForeignKept(s, r)
  BY <1>6, <1>9, <1>11, <1>14 DEF ForeignKept
<1>19. Faithful(s, r)
  BY <1>14, <1>16, <1>17, <1>18 DEF Faithful
<1>20. Finished(s, r)
  BY <1>5, <1>8, <1>14 DEF Finished, CallsRight, Covered
<1> QED
  BY <1>2, <1>4, <1>15, <1>19, <1>20, UnitEnds

LEMMA StartupKeeps == PassInv /\ Startup => PassInv'
<1> SUFFICES ASSUME PassInv, Startup PROVE PassInv'
  OBVIOUS
<1>1. phase = "startup" /\ UNCHANGED <<program, unit, annotated, described, image>>
  BY DEF Startup
<1>2. unit \in DOMAIN image /\ Faithful(Source(unit), image[unit])
  BY DEF PassInv, Placed, AllFaithful
<1>3. \/ /\ phase' = "running"
         /\ \A u \in DOMAIN image : \A f \in ToSet(image[u].table) : Accepted(image[u].meta[f])
      \/ /\ phase' = "aborted"
         /\ \E u \in DOMAIN image : \E f \in ToSet(image[u].table) : ~Accepted(image[u].meta[f])
  BY Zenon DEF Startup
<1>4. HasProgram' /\ Placed' /\ AllFaithful' /\ Behind' /\ Ahead'
  BY <1>1, <1>2, <1>3, UnitStays
<1>5. Compiled'
  BY <1>1 DEF PassInv, Compiled, Source
<1>6. \A m : Accepted(m)' <=> Accepted(m)
  BY <1>1 DEF Accepted
<1>7. Judged'
  BY <1>1, <1>3, <1>6 DEF Judged
<1>8. Enrolling' /\ Describing' /\ Erasing' /\ Rejected'
  BY <1>3 DEF Enrolling, Describing, Erasing, Rejected
<1> QED
  BY <1>4, <1>5, <1>7, <1>8 DEF PassInv

LEMMA PassInvStutters == PassInv /\ UNCHANGED passVars => PassInv'
<1> SUFFICES ASSUME PassInv, UNCHANGED passVars PROVE PassInv'
  OBVIOUS
<1>1. UNCHANGED <<program, unit, phase, annotated, described, image>>
  BY DEF passVars
<1>2. HasProgram' /\ Placed' /\ AllFaithful' /\ Behind' /\ Ahead'
  BY <1>1 DEF PassInv, HasProgram, Placed, AllFaithful, Behind, Ahead, Source
<1>3. Enrolling' /\ Describing' /\ Erasing' /\ Compiled' /\ Rejected'
  BY <1>1 DEF PassInv, Enrolling, Describing, Erasing, Compiled, Rejected, Source
<1>4. Judged'
  BY <1>1 DEF PassInv, Judged, Accepted
<1> QED
  BY <1>2, <1>3, <1>4 DEF PassInv

LEMMA PassInvNext == PassInv /\ [PassNext]_passVars => PassInv'
BY EnrollKeeps, DescribeKeeps, RewriteKeeps, EraseKeeps, StartupKeeps, PassInvStutters DEF PassNext, Ended

LEMMA PassInvAlways == PassSpec => []PassInv
BY PassInvInit, PassInvNext, PTL DEF PassSpec

-----------------------------------------------------------------------------
(* The theorems *)

LEMMA AllFinished ==
  ASSUME PassInv, phase \in {"startup", "running", "aborted"}
  PROVE  \A u \in DOMAIN image : Finished(Source(u), image[u])
<1>1. Len(program.units) \in Nat /\ DOMAIN image = 1 .. Len(program.units) /\ unit = Len(program.units)
  BY ProgramFacts DEF PassInv, Placed, Compiled
<1>2. \A u \in DOMAIN image : u < unit \/ u = unit
  BY <1>1
<1> QED
  BY <1>2 DEF PassInv, Behind, Compiled

(* Calls keep reaching the bodies they were written to, for every program: *)
(* rewriteCallSites redirects what it must and nothing else, and           *)
(* renameBody's alias keeps every exported name bound.                     *)
THEOREM CallsKeepBodies == PassSpec => []CallsReachBodies
<1>1. PassInv => CallsReachBodies
  <2> SUFFICES ASSUME PassInv, phase \in {"startup", "running"}, NEW u \in DOMAIN image, NEW c \in image[u].calls
               PROVE  /\ c.via = "stub" <=> /\ c.form = "plain"
                                            /\ c.to \in Enrolled(u)
                                            /\ Source(u).func[c.to].ret # "word"
                      /\ c.via = "stub" => \E t \in image[u].calls : t.to = c.to /\ t.form = "thunk"
                      /\ \A v \in DOMAIN image :
                            /\ c.to \in DOMAIN Source(v).func
                            /\ Source(v).func[c.to].linkage = "external"
                            => c.to \in Exports(v)
    BY DEF CallsReachBodies
  <2>1. CallsRight(Source(u), image[u])
    BY AllFinished DEF Finished
  <2>2. Enrolled(u) = Targets(Source(u))
    BY DEF Enrolled, Targets
  <2>3. ASSUME NEW v \in DOMAIN image, c.to \in DOMAIN Source(v).func, Source(v).func[c.to].linkage = "external"
        PROVE  c.to \in Exports(v)
    <3>1. NamesKept(Source(v), image[v])
      BY DEF PassInv, AllFaithful, Faithful
    <3>2. image[v].symbol[c.to].impl => c.to \in image[v].alias
      BY <2>3, <3>1 DEF NamesKept
    <3> QED
      BY <2>3, <3>2 DEF Exports
  <2> QED
    BY <2>1, <2>2, <2>3 DEF CallsRight
<1> QED
  BY <1>1, PassInvAlways, PTL

(* eraseAnnotations takes away what is the pass's own and nothing else:    *)
(* the options the runtimes will read and the entries of other consumers   *)
(* are there when the pass is done.                                        *)
THEOREM AnnotationsKept == PassSpec => []AnnotationsAccounted
<1>1. PassInv => AnnotationsAccounted
  <2> SUFFICES ASSUME PassInv, phase \in {"startup", "running"}, NEW u \in DOMAIN image
               PROVE  /\ \A f \in ToSet(image[u].table) : \A j \in DOMAIN Says(u, f) :
                            /\ image[u].opts[f][j].text = Says(u, f)[j]
                            /\ image[u].opts[f][j].by # "variable"
                            /\ image[u].opts[f][j] \in image[u].strs
                      /\ image[u].annos = Others(Source(u).annos)
                      /\ \A e \in ToSet(image[u].annos) : \A o \in ToSet(e.opts) :
                            \E s \in image[u].strs : s.text = o /\ s.by = "clang"
    BY Zenon DEF AnnotationsAccounted
  <2>1. Texts(Source(u), image[u]) /\ ForeignKept(Source(u), image[u]) /\ UnitFits(Source(u))
    BY ProgramFacts DEF PassInv, Placed, AllFaithful, Faithful
  <2>2. \A f : Says(u, f) = Counts(Source(u), f)
    BY Zenon DEF Says, Counts, EntriesFor
  <2>3. image[u].annos = Others(Source(u).annos)
    BY AllFinished DEF Finished
  <2>4. ASSUME NEW e \in ToSet(image[u].annos), NEW o \in ToSet(e.opts)
        PROVE  \E s \in image[u].strs : s.text = o /\ s.by = "clang"
    <3>1. PICK i \in DOMAIN Source(u).annos : ~Source(u).annos[i].mine /\ e = Source(u).annos[i]
      BY <2>1, <2>3, <2>4, OthersAre
    <3>2. [text |-> o, by |-> "clang"] \in image[u].strs
      BY <2>1, <3>1 DEF ForeignKept
    <3> QED
      BY <3>2
  <2> QED
    BY <2>1, <2>2, <2>3, <2>4 DEF Texts
<1> QED
  BY <1>1, PassInvAlways, PTL

(* The compiler stops exactly on what the reference page calls an error.   *)
THEOREM CompilerStopsExactly == PassSpec => []StopsExactly
<1>1. PassInv => StopsExactly
  <2> SUFFICES ASSUME PassInv PROVE StopsExactly
    OBVIOUS
  <2>1. ASSUME NEW u \in DOMAIN image
        PROVE  /\ Enrolled(u) = Targets(Source(u))
               /\ \A f : Says(u, f) = Counts(Source(u), f)
               /\ UnitFits(Source(u)) /\ Faithful(Source(u), image[u])
    <3>1. Enrolled(u) = Targets(Source(u)) /\ \A f : Says(u, f) = Counts(Source(u), f)
      BY Zenon DEF Enrolled, Targets, Says, Counts, EntriesFor
    <3> QED
      BY <3>1, ProgramFacts DEF PassInv, Placed, AllFaithful
  <2>2. ASSUME NEW u \in DOMAIN image, NEW f \in Targets(Source(u)), f # 0
        PROVE  Sound(Source(u), f) <=> Meaningful(Source(u).func[f], Says(u, f))
    <3>1. PICK s : s = Source(u)
      OBVIOUS
    <3>2. UnitFits(s) /\ f \in Targets(s) /\ Says(u, f) = Counts(s, f)
      BY <2>1, <2>2, <3>1
    <3>3. FnFits(s.func[f]) /\ OptsFit(Counts(s, f))
      BY <2>2, <3>2, UnitFacts, CountsFit
    <3> QED
      BY <3>1, <3>2, <3>3, MeaningfulIs DEF Sound
  <2> DEFINE Fine(u, f) == f # 0 /\ Meaningful(Source(u).func[f], Says(u, f))
             sound == \A u \in DOMAIN image : \A f \in Enrolled(u) : Fine(u, f)
  <2>3. \A u \in DOMAIN image : \A f \in Targets(Source(u)) : Fine(u, f) <=> f # 0 /\ Sound(Source(u), f)
    BY <2>2
  <2> HIDE DEF Fine
  <2>4. ASSUME phase = "rejected" PROVE ~sound
    <3>1. PICK u \in DOMAIN image : \E f \in Targets(Source(u)) : f = 0 \/ ~Sound(Source(u), f)
      BY <2>4 DEF PassInv, Rejected
    <3>2. PICK f \in Targets(Source(u)) : f = 0 \/ ~Sound(Source(u), f)
      BY <3>1
    <3>3. f \in Enrolled(u) /\ ~Fine(u, f)
      BY <3>2, <2>1, <2>3
    <3> QED
      BY <3>3
  <2>5. ASSUME phase \in {"startup", "running", "aborted"}, NEW u \in DOMAIN image, NEW f \in Enrolled(u) PROVE Fine(u, f)
    <3>1. Covered(Source(u), image[u]) /\ Tabled(Source(u), image[u]) /\ f \in Targets(Source(u))
      BY <2>1, <2>5, AllFinished DEF Finished, Faithful
    <3>2. f # 0 /\ Sound(Source(u), f)
      BY <3>1 DEF Covered, Tabled
    <3> QED
      BY <3>1, <3>2, <2>3
  <2>6. (phase = "rejected" => ~sound) /\ (phase \in {"startup", "running", "aborted"} => sound)
    BY <2>4, <2>5
  <2> QED
    BY <2>6, Zenon DEF StopsExactly, Fine
<1> QED
  BY <1>1, PassInvAlways, PTL

\* Among options that fit, those that name a parameter are for it.
LEMMA NamingIs ==
  ASSUME NEW fn, FnFits(fn), NEW opts, OptsFit(opts), AllFit(fn, opts, Len(opts)), NEW i \in DOMAIN fn.param
  PROVE  /\ Naming(opts, {"r_dep", "w_dep"}, fn.param[i]) = {j \in 1 .. Len(opts) : DepFor(fn, i, opts[j])}
         /\ Naming(opts, {"bin", "bout", "buf"}, fn.param[i]) = {j \in 1 .. Len(opts) : BufFor(fn, i, opts[j])}
<1>1. Len(opts) \in Nat /\ DOMAIN opts = 1 .. Len(opts)
  BY DEF OptsFit
<1>2. ASSUME NEW j \in 1 .. Len(opts), opts[j].param = fn.param[i].name,
             opts[j].key \in {"r_dep", "w_dep", "bin", "bout", "buf"}
      PROVE  DepFor(fn, i, opts[j]) \/ BufFor(fn, i, opts[j])
  <2>1. PICK k \in DOMAIN fn.param : DepFor(fn, k, opts[j]) \/ BufFor(fn, k, opts[j])
    BY <1>2 DEF AllFit, Fits, Skipped
  <2>2. fn.param[k].name = fn.param[i].name /\ fn.param[k].name # ""
    BY <1>2, <2>1 DEF DepFor, BufFor, Names
  <2>3. k = i
    BY <2>2 DEF FnFits
  <2> QED
    BY <2>1, <2>3
<1>3. ASSUME NEW j \in 1 .. Len(opts)
      PROVE  /\ opts[j].key \in {"r_dep", "w_dep"} /\ opts[j].param = fn.param[i].name <=> DepFor(fn, i, opts[j])
             /\ opts[j].key \in {"bin", "bout", "buf"} /\ opts[j].param = fn.param[i].name <=> BufFor(fn, i, opts[j])
  BY <1>2, <1>3 DEF DepFor, BufFor, Names
<1> QED
  BY <1>1, <1>3 DEF Naming

\* What emitMeta writes for options that parse.
LEMMA KindTold ==
  ASSUME NEW fn, FnFits(fn), NEW opts, OptsFit(opts), AllFit(fn, opts, Len(opts)), NEW i \in DOMAIN fn.param,
         NEW r, r.ok, SoFar(fn, opts, Len(opts), r)
  PROVE  Tells(opts, fn.param[i], r.kind[i], r.dep[i])
<1>1. PICK p : p = fn.param[i]
  OBVIOUS
<1>2. PICK buffers : buffers = Naming(opts, {"bin", "bout", "buf"}, p)
  OBVIOUS
<1>3. PICK words : words = Naming(opts, {"r_dep", "w_dep"}, p)
  OBVIOUS
<1>4. /\ words = {j \in 1 .. Len(opts) : DepFor(fn, i, opts[j])}
      /\ buffers = {j \in 1 .. Len(opts) : BufFor(fn, i, opts[j])}
  BY <1>1, <1>2, <1>3, NamingIs
<1>5. Len(opts) \in Nat /\ \A j \in 1 .. Len(opts) : Hashed(opts[j])
  BY DEF OptsFit
<1>6. ASSUME buffers = {} PROVE r.kind[i] = DefaultKind(p.type)
  BY <1>1, <1>4, <1>6 DEF SoFar, KindsRight
<1>7. ASSUME buffers # {} PROVE r.kind[i] = BufferKind[opts[Max(buffers)].key]
  <2>1. PICK b : b = Max(buffers)
    OBVIOUS
  <2>2. b \in buffers /\ \A y \in buffers : y <= b
    BY <1>4, <1>5, <1>7, <2>1, MaxIsLargest
  <2>3. BufFor(fn, i, opts[b]) /\ b \in 1 .. Len(opts) /\ \A k \in b + 1 .. Len(opts) : ~BufFor(fn, i, opts[k])
    BY <1>4, <1>5, <2>2
  <2>4. r.kind[i] = BufferKind[opts[b].key]
    BY <2>3 DEF SoFar, KindsRight
  <2> QED
    BY <2>1, <2>4
<1>8. words = {} => r.dep[i] = 0
  BY <1>4 DEF SoFar, DepsRight
<1>9. ASSUME NEW j \in words
      PROVE  /\ ModeOf(r.dep[i]) = DepMode[opts[j].key]
             /\ r.dep[i] \div 256 = HashNamespace(p.name, opts[j].ns)
             /\ (r.dep[i] \div 4) % 2 = IF IsPointer(p.type) THEN 1 ELSE 0
  <2>1. j \in 1 .. Len(opts) /\ DepFor(fn, i, opts[j]) /\ Hashed(opts[j])
    BY <1>4, <1>5, <1>9
  <2>2. r.dep[i] = WordFor(fn, i, opts[j])
    BY <2>1 DEF SoFar, DepsRight
  <2>3. opts[j].param = p.name
    BY <2>1, <1>1 DEF DepFor, Names
  <2>4. /\ ModeOf(WordFor(fn, i, opts[j])) = DepMode[opts[j].key]
        /\ WordFor(fn, i, opts[j]) \div 256 = HashNamespace(opts[j].param, opts[j].ns)
        /\ (WordFor(fn, i, opts[j]) \div 4) % 2 = IF IsPointer(fn.param[i].type) THEN 1 ELSE 0
    BY <2>1, WordFacts
  <2> QED
    BY <2>2, <2>3, <2>4, <1>1, Zenon
<1>10. Tells(opts, p, r.kind[i], r.dep[i])
  BY <1>2, <1>3, <1>6, <1>7, <1>8, <1>9, Zenon DEF Tells, DefaultKind
<1> QED
  BY <1>1, <1>10

LEMMA MetaSaysIt ==
  ASSUME NEW fn, FnFits(fn), NEW opts, OptsFit(opts), ParseKinds(fn, opts).ok, RuntimeOk(opts),
         NEW m, m = Meta(fn, opts)
  PROVE  /\ m.opts = opts /\ {m.runtime} = RuntimesOf(opts) /\ m.nargs = Len(fn.param) /\ m.noped \in Nat
         /\ m.kind \in KindsOf(fn) /\ m.dep \in [DOMAIN fn.param -> DepWords]
         /\ \A i \in DOMAIN fn.param : Tells(opts, fn.param[i], m.kind[i], m.dep[i])
<1>1. PICK r : r = ParseKinds(fn, opts)
  OBVIOUS
<1>2. r \in ParseState(fn) /\ AllFit(fn, opts, Len(opts)) /\ SoFar(fn, opts, Len(opts), r) /\ r.ok
  BY <1>1, ParsedAre
<1>3. m.opts = opts /\ m.runtime = (CHOOSE x \in RuntimesOf(opts) : TRUE) /\ m.nargs = Len(fn.param)
       /\ m.kind = r.kind /\ m.dep = r.dep /\ m.noped = r.noped
  BY <1>1 DEF Meta
<1>4. r.noped \in Nat /\ r.kind \in KindsOf(fn) /\ r.dep \in [DOMAIN fn.param -> DepWords]
  BY <1>2 DEF ParseState
<1>5. {m.runtime} = RuntimesOf(opts)
  BY <1>3, RuntimeIs
<1>6. \A i \in DOMAIN fn.param : Tells(opts, fn.param[i], m.kind[i], m.dep[i])
  BY <1>2, <1>3, KindTold
<1> QED
  BY <1>3, <1>4, <1>5, <1>6

\* What the table of a unit says of a function.
LEMMA TableFacts ==
  ASSUME PassInv, NEW u \in DOMAIN image, NEW f \in ToSet(image[u].table)
  PROVE  /\ f \in Enrolled(u) /\ image[u].meta[f] = Meta(Source(u).func[f], Says(u, f))
         /\ FnFits(Source(u).func[f]) /\ OptsFit(Says(u, f))
         /\ ParseKinds(Source(u).func[f], Says(u, f)).ok /\ RuntimeOk(Says(u, f))
<1>1. PICK s : s = Source(u)
  OBVIOUS
<1>2. UnitFits(s) /\ Tabled(s, image[u])
  BY <1>1, ProgramFacts DEF PassInv, Placed, AllFaithful, Faithful
<1>3. Enrolled(u) = Targets(s) /\ Says(u, f) = Counts(s, f)
  <2>1. Enrolled(u) = Targets(Source(u)) /\ Says(u, f) = Counts(Source(u), f)
    BY Zenon DEF Enrolled, Targets, Says, Counts, EntriesFor
  <2> QED
    BY <2>1, <1>1
<1>4. f \in Targets(s) /\ f \in DOMAIN s.func /\ image[u].meta[f] = Meta(s.func[f], Counts(s, f)) /\ Sound(s, f)
  BY <1>2 DEF Tabled
<1>5. FnFits(s.func[f]) /\ OptsFit(Counts(s, f))
  BY <1>2, <1>4, UnitFacts, CountsFit
<1> QED
  BY <1>1, <1>3, <1>4, <1>5 DEF Sound

(* For every program, a descriptor says what the last annotation of its    *)
(* function says, whatever the options and their order.                    *)
THEOREM DescriptorsSayIt == PassSpec => []DescriptorSaysIt
<1>1. PassInv => DescriptorSaysIt
  <2> SUFFICES ASSUME PassInv, NEW u \in DOMAIN image, NEW f \in ToSet(image[u].table)
               PROVE  LET fn == Source(u).func[f]
                          m == image[u].meta[f]
                      IN /\ f \in Enrolled(u)
                         /\ m.opts = Says(u, f)
                         /\ {m.runtime} = RuntimesOf(m.opts)
                         /\ \A i \in DOMAIN fn.param : Tells(m.opts, fn.param[i], m.kind[i], m.dep[i])
    BY Zenon DEF DescriptorSaysIt
  <2>1. PICK o : o = Says(u, f)
    OBVIOUS
  <2>2. PICK fn : fn = Source(u).func[f]
    OBVIOUS
  <2>3. PICK m : m = image[u].meta[f]
    OBVIOUS
  <2>4. f \in Enrolled(u) /\ m = Meta(fn, o) /\ FnFits(fn) /\ OptsFit(o) /\ ParseKinds(fn, o).ok /\ RuntimeOk(o)
    BY <2>1, <2>2, <2>3, TableFacts
  <2>5. /\ m.opts = o /\ {m.runtime} = RuntimesOf(o)
        /\ \A i \in DOMAIN fn.param : Tells(o, fn.param[i], m.kind[i], m.dep[i])
    BY <2>4, MetaSaysIt
  <2> QED
    BY <2>1, <2>2, <2>3, <2>4, <2>5
<1> QED
  BY <1>1, PassInvAlways, PTL

-----------------------------------------------------------------------------
(* The stub's marks *)

LEMMA ConcatMembers ==
  ASSUME NEW T, NEW s \in Seq(T), NEW t \in Seq(T)
  PROVE  s \o t \in Seq(T) /\ ToSet(s \o t) = ToSet(s) \cup ToSet(t)
<1> DEFINE c == s \o t
           n == Len(s)
           k == Len(t)
<1>1. /\ n \in Nat /\ k \in Nat /\ c \in Seq(T) /\ Len(c) = n + k
      /\ \A i \in 1 .. n : c[i] = s[i]
      /\ \A i \in n + 1 .. n + k : c[i] = t[i - n]
  OBVIOUS
<1>2. ToSet(s) = {s[i] : i \in 1 .. n} /\ ToSet(t) = {t[i] : i \in 1 .. k} /\ ToSet(c) = {c[i] : i \in 1 .. n + k}
  BY <1>1 DEF ToSet
<1> HIDE DEF c, n, k
<1>3. ASSUME NEW y \in ToSet(c) PROVE y \in ToSet(s) \cup ToSet(t)
  <2>1. PICK i \in 1 .. n + k : y = c[i]
    BY <1>2
  <2>2. CASE i \in 1 .. n
    BY <2>1, <2>2, <1>1, <1>2
  <2>3. CASE i \notin 1 .. n
    <3>1. i \in n + 1 .. n + k /\ i - n \in 1 .. k
      BY <2>3, <1>1
    <3> QED
      BY <3>1, <2>1, <1>1, <1>2
  <2> QED
    BY <2>2, <2>3
<1>4. ASSUME NEW y \in ToSet(s) PROVE y \in ToSet(c)
  <2>1. PICK i \in 1 .. n : y = s[i]
    BY <1>2
  <2>2. i \in 1 .. n + k /\ c[i] = y
    BY <2>1, <1>1
  <2> QED
    BY <2>2, <1>2
<1>5. ASSUME NEW y \in ToSet(t) PROVE y \in ToSet(c)
  <2>1. PICK i \in 1 .. k : y = t[i]
    BY <1>2
  <2>2. i + n \in n + 1 .. n + k /\ i + n \in 1 .. n + k /\ (i + n) - n = i
    BY <1>1
  <2>3. c[i + n] = y
    BY <2>1, <2>2, <1>1
  <2> QED
    BY <2>2, <2>3, <1>2
<1> QED
  BY <1>1, <1>3, <1>4, <1>5 DEF c

StubOp == [op : {"lock", "mark", "input", "submit"}, arg : Nat]
OpsOf(op, args) == [j \in DOMAIN args |-> [op |-> op, arg |-> args[j]]]

LEMMA OpsMembers ==
  ASSUME NEW op \in {"lock", "mark", "input", "submit"}, NEW args \in Seq(Nat), NEW q, q = OpsOf(op, args)
  PROVE  /\ q \in Seq(StubOp)
         /\ \A y \in ToSet(q) : y.op = op /\ y.arg \in ToSet(args)
         /\ \A a \in ToSet(args) : [op |-> op, arg |-> a] \in ToSet(q)
<1>1. Len(args) \in Nat /\ DOMAIN args = 1 .. Len(args) /\ \A i \in 1 .. Len(args) : args[i] \in Nat
  OBVIOUS
<1>2. DOMAIN q = 1 .. Len(args) /\ \A i \in 1 .. Len(args) : q[i] = [op |-> op, arg |-> args[i]]
  BY <1>1 DEF OpsOf
<1>3. q \in Seq(StubOp)
  <2>1. q \in [1 .. Len(args) -> StubOp]
    BY <1>1 DEF OpsOf, StubOp
  <2>2. PICK n \in Nat : n = Len(args)
    BY <1>1
  <2>3. q \in [1 .. n -> StubOp]
    BY <2>1, <2>2
  <2> QED
    BY <2>3
<1>4. ToSet(q) = {q[i] : i \in 1 .. Len(args)} /\ ToSet(args) = {args[i] : i \in 1 .. Len(args)}
  BY <1>1, <1>2 DEF ToSet
<1> QED
  BY <1>2, <1>3, <1>4

LEMMA PickedArguments ==
  ASSUME NEW m, m.nargs \in Nat, NEW S, S \subseteq 1 .. m.nargs
  PROVE  Picked(Arguments(m), S) \in Seq(Nat) /\ ToSet(Picked(Arguments(m), S)) = S
<1>1. PICK s : s = Arguments(m)
  OBVIOUS
<1>2. s = [i \in 1 .. m.nargs |-> i]
  BY <1>1 DEF Arguments
<1>3. s \in [1 .. m.nargs -> Nat] /\ \A i \in 1 .. m.nargs : s[i] = i
  BY <1>2
<1>4. s \in Seq(Nat) /\ Len(s) = m.nargs
  BY <1>3
<1>5. Picked(s, S) \in Seq(Nat) /\ ToSet(Picked(s, S)) = {s[i] : i \in (1 .. Len(s)) \cap S}
  BY <1>4, PickedMembers
<1>6. {s[i] : i \in (1 .. Len(s)) \cap S} = S
  BY <1>3, <1>4
<1> QED
  BY <1>1, <1>5, <1>6

LEMMA MarksAre ==
  ASSUME NEW m, m.nargs \in Nat
  PROVE  Marked(m) = {i \in 1 .. m.nargs : IsOutputKind(m.kind[i])}
<1>1. PICK L : L = Lockers(m)
  OBVIOUS
<1>2. PICK O : O = Outputs(m)
  OBVIOUS
<1>3. PICK I : I = Inputs(m)
  OBVIOUS
<1>4. PICK S : S = {i \in 1 .. m.nargs : IsOutputKind(m.kind[i])}
  OBVIOUS
<1>5. L \in Seq(Nat)
  <2>1. PICK R : R = {i \in 1 .. m.nargs : ModeOf(m.dep[i]) # 0}
    OBVIOUS
  <2> QED
    BY <2>1, <1>1, PickedArguments DEF Lockers
<1>6. O \in Seq(Nat) /\ ToSet(O) = S
  <2>1. S \subseteq 1 .. m.nargs
    BY <1>4
  <2>2. O = Picked(Arguments(m), S)
    BY <1>2, <1>4 DEF Outputs
  <2> QED
    BY <2>1, <2>2, PickedArguments
<1>7. I \in Seq(Nat)
  <2>1. PICK R : R = {i \in 1 .. m.nargs : m.kind[i] = "in"}
    OBVIOUS
  <2> QED
    BY <2>1, <1>3, PickedArguments DEF Inputs
<1>8. PICK qL : qL = OpsOf("lock", L)
  OBVIOUS
<1>9. PICK qO : qO = OpsOf("mark", O)
  OBVIOUS
<1>10. PICK qI : qI = OpsOf("input", I)
  OBVIOUS
<1>11. PICK qS : qS = <<[op |-> "submit", arg |-> 0]>>
  OBVIOUS
<1>12. StubOps(m) = qL \o qO \o qI \o qS
  BY <1>1, <1>2, <1>3, <1>8, <1>9, <1>10, <1>11, Zenon DEF StubOps, OpsOf
<1>13. qL \in Seq(StubOp) /\ \A y \in ToSet(qL) : y.op = "lock"
  BY <1>5, <1>8, OpsMembers
<1>14. /\ qO \in Seq(StubOp) /\ \A y \in ToSet(qO) : y.op = "mark" /\ y.arg \in S
       /\ \A a \in S : [op |-> "mark", arg |-> a] \in ToSet(qO)
  BY <1>6, <1>9, OpsMembers
<1>15. qI \in Seq(StubOp) /\ \A y \in ToSet(qI) : y.op = "input"
  BY <1>7, <1>10, OpsMembers
<1>16. qS \in Seq(StubOp) /\ \A y \in ToSet(qS) : y.op = "submit"
  <2>1. PICK y : y = [op |-> "submit", arg |-> 0]
    OBVIOUS
  <2>2. y \in StubOp /\ y.op = "submit" /\ qS = <<y>>
    BY <2>1, <1>11 DEF StubOp
  <2> QED
    BY <2>2 DEF ToSet
<1>17. qL \o qO \in Seq(StubOp) /\ ToSet(qL \o qO) = ToSet(qL) \cup ToSet(qO)
  BY <1>13, <1>14, ConcatMembers
<1>18. PICK q2 : q2 = qL \o qO
  OBVIOUS
<1>a. q2 \in Seq(StubOp)
  BY <1>17, <1>18
<1>19. q2 \o qI \in Seq(StubOp) /\ ToSet(q2 \o qI) = ToSet(q2) \cup ToSet(qI)
  BY <1>15, <1>a, ConcatMembers
<1>20. PICK q3 : q3 = q2 \o qI
  OBVIOUS
<1>b. q3 \in Seq(StubOp)
  BY <1>19, <1>20
<1>21. ToSet(q3 \o qS) = ToSet(q3) \cup ToSet(qS)
  BY <1>16, <1>b, ConcatMembers
<1>22. ToSet(StubOps(m)) = ToSet(qL) \cup ToSet(qO) \cup ToSet(qI) \cup ToSet(qS)
  BY <1>12, <1>17, <1>18, <1>19, <1>20, <1>21
<1>23. \A x \in Marked(m) : x \in S
  BY <1>13, <1>14, <1>15, <1>16, <1>22 DEF Marked
<1>24. ASSUME NEW a \in S PROVE a \in Marked(m)
  <2>1. PICK y \in ToSet(StubOps(m)) : y = [op |-> "mark", arg |-> a]
    BY <1>14, <1>22, <1>24
  <2>2. y.op = "mark" /\ y.arg = a
    BY <2>1
  <2> QED
    BY <2>1, <2>2 DEF Marked
<1> QED
  BY <1>4, <1>23, <1>24

-----------------------------------------------------------------------------
(* Startup *)

LEMMA WordsPass ==
  ASSUME NEW fn, FnFits(fn), NEW m, m.nargs = Len(fn.param), m.dep \in [DOMAIN fn.param -> DepWords], m.noped <= m.nargs
  PROVE  DependenciesOk(m)
<1>1. DOMAIN fn.param = 1 .. m.nargs
  BY FnParams
<1>2. \A w \in DepWords : ModeOf(w) # 3 /\ (w \div 8) % 32 = 0 /\ (ModeOf(w) = 0 => w = 0)
  BY DEF DepWords, ModeOf
<1>3. \A i \in 1 .. m.nargs : m.dep[i] \in DepWords
  BY <1>1
<1> QED
  BY <1>2, <1>3 DEF DependenciesOk, DepRead, DepWrite

LEMMA ValidSettles ==
  ASSUME NEW fn, FnFits(fn), NEW m, m.nargs = Len(fn.param), m.kind \in KindsOf(fn), Validate(m)
  PROVE  /\ OpOf(m) \in {"pread", "pwrite", "openat", "step", "get", "put"} => IsPointer(fn.param[2].type)
         /\ OpOf(m) \in {"pread", "step", "get"} => 2 \in Marked(m)
         /\ OpOf(m) = "put" => Marked(m) = {}
         /\ 1 \in DOMAIN m.kind /\ OpOf(m) # "ignore" => 1 \notin Marked(m)
<1>1. m.nargs \in Nat /\ DOMAIN fn.param = 1 .. m.nargs
  BY FnParams
<1>2. \A i \in 1 .. m.nargs : m.kind[i] # "ignored" => IsPointer(fn.param[i].type)
  BY <1>1 DEF KindsOf
<1>3. Marked(m) = {i \in 1 .. m.nargs : IsOutputKind(m.kind[i])}
  BY <1>1, MarksAre
<1>4. PICK op : op = OpOf(m)
  OBVIOUS
<1>5. CASE m.runtime = "rpc"
  <2>1. op = RpcOp(m.opts) /\ RpcValidate(m)
    BY <1>4, <1>5 DEF OpOf, Validate
  <2>2. CASE op \in {"step", "get"} /\ m.nargs = 2 /\ m.kind[1] = "ignored" /\ IsOutputKind(m.kind[2])
    BY <2>2, <1>1, <1>2, <1>3, <1>4 DEF IsOutputKind
  <2>3. CASE op = "put" /\ m.nargs = 3 /\ m.kind[1] = "ignored" /\ m.kind[2] = "in" /\ m.kind[3] = "ignored"
    BY <2>3, <1>1, <1>2, <1>3, <1>4 DEF IsOutputKind
  <2> QED
    BY <2>1, <2>2, <2>3 DEF RpcValidate
<1>6. CASE m.runtime # "rpc"
  <2>1. op = UringOp(m.opts) /\ ShapeOk(m, op)
    BY <1>4, <1>6 DEF OpOf, Validate, UringValidate
  <2>2. CASE op = "ignore"
    BY <2>2, <1>4
  <2>3. CASE /\ m.nargs > 0 /\ m.kind[1] = "ignored" /\ op \in {"pread", "pwrite", "openat"} /\ m.nargs >= 4
             /\ IF op = "pread" THEN IsOutputKind(m.kind[2]) ELSE IsInputKind(m.kind[2])
    BY <2>3, <1>1, <1>2, <1>3, <1>4 DEF IsOutputKind, IsInputKind
  <2>4. CASE m.nargs > 0 /\ m.kind[1] = "ignored" /\ op \in {"fsync", "close"}
    BY <2>4, <1>1, <1>3, <1>4 DEF IsOutputKind
  <2> QED
    BY <2>1, <2>2, <2>3, <2>4 DEF ShapeOk, CompletionArgsOk
<1> QED
  BY <1>5, <1>6

(* For every program that compiles: startup never refuses a dependency     *)
(* word the pass made, and what the built-in validators let run is what    *)
(* the runtimes count on.                                                  *)
THEOREM StartupDecides == PassSpec => []StartupSettles
<1>1. PassInv => StartupSettles
  <2> SUFFICES ASSUME PassInv PROVE StartupSettles
    OBVIOUS
  <2>1. ASSUME NEW u \in DOMAIN image, NEW f \in ToSet(image[u].table), NEW m, m = image[u].meta[f]
        PROVE  /\ f \in Enrolled(u)
               /\ Accepted(m) /\ program.validator = "none" => Validate(m)
               /\ ~Accepted(m) => \/ m.noped > m.nargs
                                  \/ IF program.validator = "none" THEN ~Validate(m) ELSE program.validator # "all"
               /\ Validate(m) =>
                    /\ OpOf(m) \in {"pread", "pwrite", "openat", "step", "get", "put"} =>
                          IsPointer(Source(u).func[f].param[2].type)
                    /\ OpOf(m) \in {"pread", "step", "get"} => 2 \in Marked(m)
                    /\ OpOf(m) = "put" => Marked(m) = {}
                    /\ 1 \in DOMAIN m.kind /\ OpOf(m) # "ignore" => 1 \notin Marked(m)
    <3>1. PICK fn : fn = Source(u).func[f]
      OBVIOUS
    <3>2. PICK o : o = Says(u, f)
      OBVIOUS
    <3>3. f \in Enrolled(u) /\ m = Meta(fn, o) /\ FnFits(fn) /\ OptsFit(o) /\ ParseKinds(fn, o).ok /\ RuntimeOk(o)
      BY <2>1, <3>1, <3>2, TableFacts
    <3>4. m.nargs = Len(fn.param) /\ m.noped \in Nat /\ m.kind \in KindsOf(fn) /\ m.dep \in [DOMAIN fn.param -> DepWords]
      BY <3>3, MetaSaysIt
    <3>5. m.nargs \in Nat
      BY <3>3, <3>4, FnParams
    <3>6. m.noped <= m.nargs => DependenciesOk(m)
      BY <3>3, <3>4, WordsPass
    <3>7. m.noped <= m.nargs \/ m.noped > m.nargs
      BY <3>4, <3>5
    <3>8. ~Accepted(m) => \/ m.noped > m.nargs
                          \/ IF program.validator = "none" THEN ~Validate(m) ELSE program.validator # "all"
      BY <3>6, <3>7 DEF Accepted
    <3>9. Accepted(m) /\ program.validator = "none" => Validate(m)
      BY DEF Accepted
    <3>10. ASSUME Validate(m)
           PROVE  /\ OpOf(m) \in {"pread", "pwrite", "openat", "step", "get", "put"} => IsPointer(fn.param[2].type)
                  /\ OpOf(m) \in {"pread", "step", "get"} => 2 \in Marked(m)
                  /\ OpOf(m) = "put" => Marked(m) = {}
                  /\ 1 \in DOMAIN m.kind /\ OpOf(m) # "ignore" => 1 \notin Marked(m)
      BY <3>3, <3>4, <3>10, ValidSettles
    <3> QED
      BY <3>1, <3>3, <3>8, <3>9, <3>10
  <2>2. ASSUME phase = "aborted"
        PROVE  \E u \in DOMAIN image : \E f \in Enrolled(u) :
                  \/ image[u].meta[f].noped > image[u].meta[f].nargs
                  \/ IF program.validator = "none" THEN ~Validate(image[u].meta[f]) ELSE program.validator # "all"
    <3>1. PICK u \in DOMAIN image : \E f \in ToSet(image[u].table) : ~Accepted(image[u].meta[f])
      BY <2>2 DEF PassInv, Judged
    <3>2. PICK f \in ToSet(image[u].table) : ~Accepted(image[u].meta[f])
      BY <3>1
    <3> QED
      BY <2>1, <3>1, <3>2
  <2>3. ASSUME phase = "running", program.validator = "none", NEW u \in DOMAIN image, NEW f \in ToSet(image[u].table),
               NEW m, m = image[u].meta[f]
        PROVE  /\ OpOf(m) \in {"pread", "pwrite", "openat", "step", "get", "put"} =>
                     IsPointer(Source(u).func[f].param[2].type)
               /\ OpOf(m) \in {"pread", "step", "get"} => 2 \in Marked(m)
               /\ OpOf(m) = "put" => Marked(m) = {}
               /\ 1 \in DOMAIN m.kind /\ OpOf(m) # "ignore" => 1 \notin Marked(m)
    <3>1. Accepted(m)
      BY <2>3 DEF PassInv, Judged
    <3> QED
      BY <2>1, <2>3, <3>1
  <2> QED
    BY <2>2, <2>3, Zenon DEF StartupSettles
<1> QED
  BY <1>1, PassInvAlways, PTL

=============================================================================
