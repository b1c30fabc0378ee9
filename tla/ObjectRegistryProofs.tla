------------------------ MODULE ObjectRegistryProofs ------------------------
(***************************************************************************)
(* Proofs about ObjectRegistry, for any number of objects and extents.     *)
(* The first invariant is about the tables: LiveOK, which is stated of     *)
(* values and not of the variables, because HandlePlayerJoinOpcode goes    *)
(* through three such states in one step (the player made, inserted, the   *)
(* items removed).  The second is about the queues: Reachable.  The last   *)
(* two theorems are on conditions: what holds where extents do not run out *)
(* (NamedWhenRoomy), and where nothing freed is ever met                   *)
(* (SafeOnConditions).                                                     *)
(***************************************************************************)
EXTENDS ObjectRegistry, FiniteSetTheorems, WellFoundedInduction, TLAPS

(* Extents and objects name each other, in ObjectMgr m.                    *)
Names(m) ==
    /\ \A o \in m.table : m.extent[o] # 0 => m.slots[m.extent[o]] = o
    /\ \A e \in Extents :
         m.slots[e] # None => /\ m.slots[e] \in m.table
                              /\ m.extent[m.slots[e]] = e

MgrType == [extent : [Objs -> Extents],
            slots : [Extents -> Objs \union {None}],
            table : SUBSET Objs]

(* The tables of ObjectMgr and ObjectAccessor, and who has joined.         *)
LiveOK(l, m, u, ps, r, j) ==
    /\ l \in [Objs -> Life] /\ m \in MgrType /\ u \subseteq Updated
    /\ ps \in [Extents -> Players \union {None}]
    /\ r \subseteq Items /\ j \subseteq Players
    /\ Names(m)
    /\ m.table = {o \in Objs : l[o] = "live"}
    /\ u \union r \union j \subseteq m.table
    /\ \A e \in Extents :
         ps[e] # None => ps[e] \in m.table /\ m.extent[ps[e]] = e
    /\ \A p \in j : m.extent[p] # 0 => ps[m.extent[p]] = p

LiveInv == LiveOK(life, mgr, updates, players, removeList, joined)

(* The types of the rest.                                                  *)
RestOK ==
    /\ place \in [Objs -> Places \union {Pack}]
    /\ inv \in [Players -> SUBSET Items]
    /\ queue \in [Players -> SUBSET Objs]
    /\ dead \subseteq Players /\ loading \subseteq Players
    /\ phase \in {"load", "sessions", "update"}
    /\ todo \subseteq Updated
    /\ foreign \subseteq Items /\ moved \subseteq Players
    /\ crashed \in BOOLEAN

LEMMA LiveTypes == LiveInv /\ RestOK => TypeOK
BY DEF LiveInv, LiveOK, RestOK, TypeOK, MgrType

-----------------------------------------------------------------------------
(* RequestExtent.                                                          *)

LEMMA Least ==
    ASSUME NEW T, T \subseteq Nat, T # {}
    PROVE  \E x \in T : \A y \in T : x <= y
<1> DEFINE R == OpToRel(<, Nat)
<1>1. \E x \in T : \A y \in T : ~ (<<y, x>> \in R)
  <2>1. IsWellFoundedOn(R, Nat)
    BY NatLessThanWellFounded
  <2> HIDE DEF R
  <2> QED
    BY <2>1, WFMin
<1>2. \A x, y \in Nat : y < x => <<y, x>> \in R
  BY DEF OpToRel
<1> HIDE DEF R
<1>3. PICK x \in T : \A y \in T : ~ (<<y, x>> \in R)
  BY <1>1
<1>4. \A y \in T : ~ (y < x)
  BY <1>2, <1>3
<1>5. \A y \in T : x <= y
  <2>1. \A a, b \in Nat : ~ (a < b) => b <= a
    OBVIOUS
  <2> QED
    BY <1>4, <2>1
<1> QED
  BY <1>5

LEMMA ExtentsNat == Extents \subseteq Nat /\ 0 \in Extents /\ 1..MaxExtent \subseteq Extents
BY ExtentAssumption DEF Extents

(* It gives a free extent, and 0 only if none is free.                     *)
LEMMA Requested ==
    ASSUME NEW m
    PROVE  /\ RequestExtent(m) \in Extents
           /\ RequestExtent(m) # 0 => Available(m, RequestExtent(m))
           /\ RequestExtent(m) = 0 => \A e \in 1..MaxExtent : m.slots[e] # None
<1> DEFINE Free == {e \in Extents : Available(m, e)}
<1>1. CASE Free = {}
  <2>1. RequestExtent(m) = 0
    BY <1>1 DEF RequestExtent
  <2>2. \A e \in 1..MaxExtent : m.slots[e] # None
    BY <1>1, ExtentsNat DEF Available
  <2> QED
    BY <2>1, <2>2, ExtentsNat
<1>2. CASE Free # {}
  <2>1. \E e \in Free : \A d \in Free : e <= d
    BY <1>2, Least, ExtentsNat
  <2>2. \E e \in Extents :
          Available(m, e) /\ \A d \in Extents : Available(m, d) => e <= d
    BY <2>1
  <2>3. RequestExtent(m) \in Extents /\ Available(m, RequestExtent(m))
    BY <1>2, <2>2 DEF RequestExtent
  <2>4. \A e : Available(m, e) => e # 0
    BY ExtentAssumption DEF Available
  <2> QED
    BY <2>3, <2>4
<1> QED
  BY <1>1, <1>2

-----------------------------------------------------------------------------
(* ObjectMgr's two operations.                                             *)

LEMMA Adding ==
    ASSUME NEW m \in MgrType, Names(m), NEW o \in Objs, o \notin m.table,
           NEW w \in Nat
    PROVE  /\ AddObject(m, o, w) \in MgrType
           /\ Names(AddObject(m, o, w))
           /\ AddObject(m, o, w).table = m.table \union {o}
           /\ \A q \in Objs \ {o} : AddObject(m, o, w).extent[q] = m.extent[q]
           /\ AddObject(m, o, w).extent[o] = 0 =>
                \A e \in 1..MaxExtent : m.slots[e] # None
<1> DEFINE e == IF Available(m, w) THEN w ELSE RequestExtent(m)
           n == AddObject(m, o, w)
<1>1. e \in Extents /\ (e # 0 => m.slots[e] = None)
  BY Requested, ExtentsNat DEF Available
<1>2. e = 0 => \A d \in 1..MaxExtent : m.slots[d] # None
  BY Requested, ExtentAssumption DEF Available
<1>3. n = Registered(m, o, e)
  BY DEF AddObject
<1> HIDE DEF e, n
<1>4. n \in MgrType /\ n.table = m.table \union {o}
  BY <1>1, <1>3 DEF Registered, MgrType
<1>5. /\ n.extent[o] = e /\ n.slots[e] = o
      /\ \A q \in Objs \ {o} : n.extent[q] = m.extent[q]
      /\ \A d \in Extents \ {e} : n.slots[d] = m.slots[d]
  BY <1>1, <1>3 DEF Registered, MgrType
<1>6. m.table \subseteq Objs /\ \A q \in Objs : m.extent[q] \in Extents
  BY DEF MgrType
<1>7. o # None
  BY KindAssumption
<1>8. Names(n)
  <2>1. ASSUME NEW q \in n.table, n.extent[q] # 0
        PROVE  n.slots[n.extent[q]] = q
    <3>1. CASE q = o
      BY <3>1, <1>5
    <3>2. CASE q # o
      <4>1. q \in m.table /\ n.extent[q] = m.extent[q] /\ q \in Objs
        BY <3>2, <1>4, <1>5, <1>6
      <4>2. m.slots[m.extent[q]] = q /\ q # None
        BY <4>1, <2>1, KindAssumption DEF Names
      <4>3. m.extent[q] # e
        BY <4>1, <4>2, <2>1, <1>1
      <4> QED
        BY <4>1, <4>2, <4>3, <1>5, <1>6
    <3> QED
      BY <3>1, <3>2
  <2>2. ASSUME NEW d \in Extents, n.slots[d] # None
        PROVE  n.slots[d] \in n.table /\ n.extent[n.slots[d]] = d
    <3>1. CASE d = e
      BY <3>1, <1>4, <1>5
    <3>2. CASE d # e
      <4>1. n.slots[d] = m.slots[d]
        BY <3>2, <1>5
      <4>2. m.slots[d] \in m.table /\ m.extent[m.slots[d]] = d
        BY <4>1, <2>2 DEF Names
      <4> QED
        BY <4>1, <4>2, <1>4, <1>5, <1>6
    <3> QED
      BY <3>1, <3>2
  <2> QED
    BY <2>1, <2>2 DEF Names
<1> QED
  BY <1>2, <1>4, <1>5, <1>8 DEF n

LEMMA Removing ==
    ASSUME NEW m \in MgrType, Names(m), NEW D
    PROVE  /\ RemoveObjects(m, D) \in MgrType
           /\ Names(RemoveObjects(m, D))
           /\ RemoveObjects(m, D).table = m.table \ D
           /\ \A q \in Objs \ D : RemoveObjects(m, D).extent[q] = m.extent[q]
<1> DEFINE n == RemoveObjects(m, D)
<1>1. n \in MgrType /\ n.table = m.table \ D
  BY ExtentsNat DEF RemoveObjects, MgrType
<1>2. \A q \in Objs \ D : n.extent[q] = m.extent[q]
  BY DEF RemoveObjects, MgrType
<1>3. \A e \in Extents :
        n.slots[e] = IF \E o \in D \intersect m.table : m.extent[o] = e
                     THEN None ELSE m.slots[e]
  BY DEF RemoveObjects, MgrType
<1> HIDE DEF n
<1>4. m.table \subseteq Objs /\ \A q \in Objs : m.extent[q] \in Extents
  BY DEF MgrType
<1>5. ASSUME NEW q \in n.table, n.extent[q] # 0
      PROVE  n.slots[n.extent[q]] = q
  <2>1. q \in m.table /\ q \notin D /\ n.extent[q] = m.extent[q]
    BY <1>1, <1>2, <1>4
  <2>2. m.slots[m.extent[q]] = q
    BY <2>1, <1>5 DEF Names
  <2>3. \A o \in D \intersect m.table : m.extent[o] # m.extent[q]
    BY <2>1, <2>2, <1>5 DEF Names
  <2> QED
    BY <2>1, <2>2, <2>3, <1>3, <1>4
<1>6. ASSUME NEW e \in Extents, n.slots[e] # None
      PROVE  n.slots[e] \in n.table /\ n.extent[n.slots[e]] = e
  <2>1. /\ n.slots[e] = m.slots[e]
        /\ \A o \in D \intersect m.table : m.extent[o] # e
    BY <1>3, <1>6
  <2>2. m.slots[e] \in m.table /\ m.extent[m.slots[e]] = e
    BY <2>1, <1>6 DEF Names
  <2> QED
    BY <2>1, <2>2, <1>1, <1>2, <1>4
<1>7. Names(n)
  BY <1>5, <1>6 DEF Names
<1> QED
  BY <1>1, <1>2, <1>7 DEF n

-----------------------------------------------------------------------------
(* What happens to the tables together.                                    *)

(* An object is made, and may be updated from now on.                      *)
LEMMA MadeLive ==
    ASSUME NEW l, NEW m, NEW u, NEW ps, NEW r, NEW j, LiveOK(l, m, u, ps, r, j),
           NEW o \in Objs, l[o] # "live", NEW w \in Nat,
           NEW v, v = u \/ (v = u \union {o} /\ o \in Updated)
    PROVE  LiveOK([l EXCEPT ![o] = "live"], AddObject(m, o, w), v, ps, r, j)
<1> DEFINE n == AddObject(m, o, w)  k == [l EXCEPT ![o] = "live"]
<1>1. m \in MgrType /\ Names(m) /\ o \notin m.table
  BY DEF LiveOK
<1>2. /\ n \in MgrType /\ Names(n) /\ n.table = m.table \union {o}
      /\ \A q \in Objs \ {o} : n.extent[q] = m.extent[q]
  BY <1>1, Adding
<1> HIDE DEF n
<1>3. k \in [Objs -> Life] /\ n.table = {q \in Objs : k[q] = "live"}
  BY <1>2 DEF LiveOK, Life
<1> HIDE DEF k
<1>4. v \subseteq Updated /\ v \union r \union j \subseteq n.table
  BY <1>2 DEF LiveOK
<1>5. \A q \in m.table : n.extent[q] = m.extent[q]
  BY <1>1, <1>2 DEF MgrType
<1>6. \A e \in Extents :
        ps[e] # None => ps[e] \in n.table /\ n.extent[ps[e]] = e
  BY <1>2, <1>5 DEF LiveOK
<1>7. \A p \in j : n.extent[p] # 0 => ps[n.extent[p]] = p
  BY <1>5 DEF LiveOK
<1>8. LiveOK(k, n, v, ps, r, j)
  BY <1>2, <1>3, <1>4, <1>6, <1>7 DEF LiveOK
<1> QED
  BY <1>8 DEF n, k

(* RemoveAllObjectsInRemoveList.                                           *)
LEMMA RemovedLive ==
    ASSUME NEW l, NEW m, NEW u, NEW ps, NEW r, NEW j, LiveOK(l, m, u, ps, r, j)
    PROVE  LiveOK([o \in Objs |-> IF o \in r THEN "freed" ELSE l[o]],
                  RemoveObjects(m, r), u, ps, {}, j)
<1> DEFINE n == RemoveObjects(m, r)
           k == [o \in Objs |-> IF o \in r THEN "freed" ELSE l[o]]
<1>1. m \in MgrType /\ Names(m)
  BY DEF LiveOK
<1>2. /\ n \in MgrType /\ Names(n) /\ n.table = m.table \ r
      /\ \A q \in Objs \ r : n.extent[q] = m.extent[q]
  BY <1>1, Removing
<1> HIDE DEF n
<1>3. k \in [Objs -> Life] /\ n.table = {q \in Objs : k[q] = "live"}
  BY <1>2 DEF LiveOK, Life
<1> HIDE DEF k
<1>4. u \intersect r = {} /\ j \intersect r = {}
      /\ \A e \in Extents : ps[e] \notin r
  BY KindAssumption DEF LiveOK, Updated, Objs
<1>5. u \union j \subseteq n.table
  BY <1>2, <1>4 DEF LiveOK
<1>6. \A q \in m.table \ r : n.extent[q] = m.extent[q]
  BY <1>1, <1>2 DEF MgrType
<1>7. \A e \in Extents :
        ps[e] # None => ps[e] \in n.table /\ n.extent[ps[e]] = e
  BY <1>2, <1>4, <1>6 DEF LiveOK
<1>8. \A p \in j : n.extent[p] # 0 => ps[n.extent[p]] = p
  BY <1>4, <1>6 DEF LiveOK
<1>9. LiveOK(k, n, u, ps, {}, j)
  BY <1>2, <1>3, <1>5, <1>7, <1>8 DEF LiveOK
<1> QED
  BY <1>9 DEF n, k

(* InsertPlayer, which may oust another from the entry for 0 only.         *)
LEMMA InsertedLive ==
    ASSUME NEW l, NEW m, NEW u, NEW ps, NEW r, NEW j, LiveOK(l, m, u, ps, r, j),
           NEW p \in Players, l[p] = "live"
    PROVE  LiveOK(l, m, u \union {p}, [ps EXCEPT ![m.extent[p]] = p], r,
                  j \union {p})
<1> DEFINE e == m.extent[p]  qs == [ps EXCEPT ![e] = p]
<1>1. p \in m.table /\ p \in Objs /\ p \in Updated
  BY DEF LiveOK, Objs, Updated
<1>2. e \in Extents
  BY <1>1 DEF LiveOK, MgrType
<1>3. qs \in [Extents -> Players \union {None}]
  BY <1>2 DEF LiveOK
<1>4. qs[e] = p /\ \A d \in Extents \ {e} : qs[d] = ps[d]
  BY <1>2 DEF LiveOK
<1> HIDE DEF qs
<1>5. \A d \in Extents :
        qs[d] # None => qs[d] \in m.table /\ m.extent[qs[d]] = d
  BY <1>1, <1>4 DEF LiveOK
<1>6. ASSUME NEW q \in j \union {p}, m.extent[q] # 0
      PROVE  qs[m.extent[q]] = q
  <2>1. CASE q = p
    BY <2>1, <1>4
  <2>2. CASE q # p
    <3>1. q \in j /\ q \in m.table /\ m.extent[q] \in Extents
      BY <2>2 DEF LiveOK, MgrType
    <3>2. m.slots[m.extent[q]] = q
      BY <3>1, <1>6 DEF LiveOK, Names
    <3>3. m.extent[q] # e
      BY <3>2, <2>2, <1>1, <1>6 DEF LiveOK, Names
    <3> QED
      BY <3>1, <3>3, <1>4, <1>6 DEF LiveOK
  <2> QED
    BY <2>1, <2>2
<1>7. LiveOK(l, m, u \union {p}, qs, r, j \union {p})
  <2> HIDE DEF e
  <2> QED
    BY <1>1, <1>3, <1>5, <1>6 DEF LiveOK
<1> QED
  BY <1>7 DEF qs

(* LogoutPlayer.                                                           *)
LEMMA LoggedOutLive ==
    ASSUME NEW l, NEW m, NEW u, NEW ps, NEW r, NEW j, LiveOK(l, m, u, ps, r, j),
           NEW p \in Players, l[p] = "live"
    PROVE  LiveOK([l EXCEPT ![p] = "freed"], RemoveObjects(m, {p}), u \ {p},
                  [ps EXCEPT ![m.extent[p]] = None], r, j \ {p})
<1> DEFINE e == m.extent[p]  qs == [ps EXCEPT ![e] = None]
           n == RemoveObjects(m, {p})  k == [l EXCEPT ![p] = "freed"]
<1>1. p \in m.table /\ p \in Objs /\ m \in MgrType /\ Names(m)
  BY DEF LiveOK, Objs
<1>2. e \in Extents
  BY <1>1 DEF MgrType
<1>3. /\ n \in MgrType /\ Names(n) /\ n.table = m.table \ {p}
      /\ \A q \in Objs \ {p} : n.extent[q] = m.extent[q]
  BY <1>1, Removing
<1> HIDE DEF n
<1>4. k \in [Objs -> Life] /\ n.table = {q \in Objs : k[q] = "live"}
  BY <1>1, <1>3 DEF LiveOK, Life
<1> HIDE DEF k
<1>5. qs \in [Extents -> Players \union {None}]
  BY <1>2 DEF LiveOK
<1>6. qs[e] = None /\ \A d \in Extents \ {e} : qs[d] = ps[d]
  BY <1>2 DEF LiveOK
<1> HIDE DEF qs
<1>7. p \notin r
  BY KindAssumption DEF LiveOK
<1>8. (u \ {p}) \union r \union (j \ {p}) \subseteq n.table
  BY <1>3, <1>7 DEF LiveOK
<1>9. \A q \in n.table : n.extent[q] = m.extent[q]
  BY <1>1, <1>3 DEF MgrType
<1>10. ASSUME NEW d \in Extents, qs[d] # None
       PROVE  qs[d] \in n.table /\ n.extent[qs[d]] = d
  <2>1. d # e /\ qs[d] = ps[d]
    BY <1>6, <1>10
  <2>2. ps[d] \in m.table /\ m.extent[ps[d]] = d
    BY <2>1, <1>10 DEF LiveOK
  <2>3. ps[d] # p
    BY <2>1, <2>2
  <2> QED
    BY <2>1, <2>2, <2>3, <1>3, <1>9
<1>11. ASSUME NEW q \in j \ {p}, n.extent[q] # 0
       PROVE  qs[n.extent[q]] = q
  <2>1. q \in n.table /\ q \in m.table /\ n.extent[q] = m.extent[q]
    BY <1>8, <1>9, <1>3
  <2>2. m.slots[m.extent[q]] = q /\ m.extent[q] \in Extents
    BY <2>1, <1>1, <1>11 DEF Names, MgrType
  <2>3. m.extent[q] # e
    BY <2>1, <2>2, <1>1, <1>11 DEF Names
  <2> QED
    BY <2>1, <2>2, <2>3, <1>6, <1>11 DEF LiveOK
<1>12. LiveOK(k, n, u \ {p}, qs, r, j \ {p})
  <2> HIDE DEF e
  <2> QED
    BY <1>3, <1>4, <1>5, <1>8, <1>10, <1>11 DEF LiveOK
<1> QED
  BY <1>12 DEF n, k, qs

(* Something that is in the world goes on the list of what to remove.      *)
LEMMA ListedLive ==
    ASSUME NEW l, NEW m, NEW u, NEW ps, NEW r, NEW j, LiveOK(l, m, u, ps, r, j),
           NEW x \in Items, x \in m.table
    PROVE  LiveOK(l, m, u, ps, r \union {x}, j)
BY DEF LiveOK

-----------------------------------------------------------------------------
(* The steps and the tables.                                               *)

(* A step leaves an object without an extent only if all are in use.       *)
UnnamedStep ==
    \A o \in mgr'.table \ mgr.table :
      mgr'.extent[o] = 0 => \A e \in 1..MaxExtent : mgr.slots[e] # None

IInv == LiveInv /\ RestOK

LEMMA InitInv == Init => IInv
<1> SUFFICES ASSUME Init PROVE IInv
  OBVIOUS
<1>1. mgr \in MgrType /\ Names(mgr) /\ mgr.table = {}
  BY ExtentsNat DEF Init, MgrType, Names
<1>2. life \in [Objs -> Life] /\ {o \in Objs : life[o] = "live"} = {}
  BY DEF Init, Life
<1>3. LiveInv
  BY <1>1, <1>2 DEF Init, LiveInv, LiveOK
<1>4. RestOK
  BY PlaceAssumption DEF Init, RestOK
<1> QED
  BY <1>3, <1>4 DEF IInv

LEMMA PlayersAreObjs == /\ Players \subseteq Objs /\ Items \subseteq Objs
                        /\ Missiles \subseteq Objs /\ Fixtures \subseteq Objs
                        /\ Players \subseteq Updated /\ Missiles \subseteq Updated
BY DEF Objs, Updated

(* The steps that leave the tables alone.                                  *)
tables == <<life, mgr, updates, players, removeList, joined>>

LEMMA TablesKept == IInv /\ UNCHANGED tables => LiveInv' /\ UnnamedStep
<1> SUFFICES ASSUME IInv, UNCHANGED tables PROVE LiveInv' /\ UnnamedStep
  OBVIOUS
<1>1. LiveInv'
  BY DEF IInv, LiveInv, tables
<1>2. mgr'.table \ mgr.table = {}
  BY DEF tables
<1> QED
  BY <1>1, <1>2 DEF UnnamedStep

(* One object is made.                                                     *)
LEMMA OneMade ==
    ASSUME IInv, NEW o \in Objs, life[o] # "live", NEW w \in Nat,
           life' = [life EXCEPT ![o] = "live"], mgr' = AddObject(mgr, o, w),
           updates' = updates \/ (updates' = updates \union {o} /\ o \in Updated),
           UNCHANGED <<players, removeList, joined>>
    PROVE  LiveInv' /\ UnnamedStep
<1>1. LiveInv'
  BY MadeLive DEF IInv, LiveInv
<1>2. mgr \in MgrType /\ Names(mgr) /\ o \notin mgr.table
  BY DEF IInv, LiveInv, LiveOK
<1>3. /\ mgr'.table = mgr.table \union {o}
      /\ mgr'.extent[o] = 0 => \A e \in 1..MaxExtent : mgr.slots[e] # None
  BY <1>2, Adding
<1> QED
  BY <1>1, <1>3 DEF UnnamedStep

LEMMA ElementOfSeq ==
    ASSUME NEW S, NEW s \in Seq(S), NEW i \in DOMAIN s
    PROVE  s[i] \in S
OBVIOUS

LEMMA LoadLive ==
    ASSUME IInv, NEW i \in DOMAIN MapFile, Load(i)
    PROVE  LiveInv' /\ UnnamedStep /\ RestOK'
<1>1. MapFile[i] \in [obj : Items \union Fixtures, extent : Nat, at : Places]
  BY ExtentAssumption, ElementOfSeq
<1>2. MapFile[i].obj \in Objs /\ MapFile[i].extent \in Nat
      /\ MapFile[i].at \in Places
  <2>1. \A r \in [obj : Items \union Fixtures, extent : Nat, at : Places] :
          /\ r.obj \in Items \union Fixtures
          /\ r.extent \in Nat /\ r.at \in Places
    OBVIOUS
  <2> QED
    BY <1>1, <2>1, PlayersAreObjs
<1>3. LiveInv' /\ UnnamedStep
  BY <1>2, OneMade DEF Load, accessor, sessions
<1>4. place' \in [Objs -> Places \union {Pack}]
  BY <1>2 DEF Load, IInv, RestOK
<1>5. RestOK'
  BY <1>4 DEF Load, IInv, RestOK, accessor, sessions, clock, history
<1> QED
  BY <1>3, <1>5

(* Made(p), for one who may be there already.                              *)
LEMMA MadePlayer ==
    ASSUME IInv, NEW p \in Players
    PROVE  /\ LiveOK([life EXCEPT ![p] = "live"], Made(p), updates, players,
                     removeList, joined)
           /\ \A o \in Made(p).table \ mgr.table :
                Made(p).extent[o] = 0 =>
                  \A e \in 1..MaxExtent : mgr.slots[e] # None
<1>1. CASE life[p] = "live"
  <2>1. [life EXCEPT ![p] = "live"] = life /\ Made(p) = mgr
    BY <1>1 DEF Made, IInv, LiveInv, LiveOK
  <2> QED
    BY <2>1 DEF IInv, LiveInv
<1>2. CASE life[p] # "live"
  <2>1. Made(p) = AddObject(mgr, p, 0) /\ 0 \in Nat /\ p \in Objs
    BY <1>2, PlayersAreObjs DEF Made
  <2>2. LiveOK([life EXCEPT ![p] = "live"], Made(p), updates, players,
               removeList, joined)
    BY <1>2, <2>1, MadeLive DEF IInv, LiveInv
  <2>3. mgr \in MgrType /\ Names(mgr) /\ p \notin mgr.table
    BY <1>2 DEF IInv, LiveInv, LiveOK
  <2>4. /\ Made(p).table = mgr.table \union {p}
        /\ Made(p).extent[p] = 0 =>
             \A e \in 1..MaxExtent : mgr.slots[e] # None
    BY <2>1, <2>3, Adding
  <2> QED
    BY <2>2, <2>4
<1> QED
  BY <1>1, <1>2

LEMMA JoinLive ==
    ASSUME IInv, NEW p \in Players, HandlePlayerJoin(p)
    PROVE  LiveInv' /\ UnnamedStep
<1> DEFINE l == [life EXCEPT ![p] = "live"]  m == Made(p)
<1>1. LiveOK(l, m, updates, players, removeList, joined)
  BY MadePlayer
<1>2. l[p] = "live" /\ l \in [Objs -> Life]
  BY <1>1, PlayersAreObjs DEF IInv, LiveInv, LiveOK
<1>3. LiveOK(l, m, updates', players', removeList, joined')
  <2> HIDE DEF l, m
  <2>1. LiveOK(l, m, updates \union {p}, [players EXCEPT ![m.extent[p]] = p],
               removeList, joined \union {p})
    BY <1>1, <1>2, InsertedLive
  <2> QED
    BY <2>1 DEF HandlePlayerJoin, m
<1>4. LiveOK([o \in Objs |-> IF o \in removeList THEN "freed" ELSE l[o]],
             RemoveObjects(m, removeList), updates', players', {}, joined')
  <2> HIDE DEF l, m
  <2> QED
    BY <1>3, RemovedLive
<1>5. life' = [o \in Objs |-> IF o \in removeList THEN "freed" ELSE l[o]]
  BY DEF HandlePlayerJoin, IInv, LiveInv, LiveOK
<1>6. LiveInv'
  BY <1>4, <1>5 DEF HandlePlayerJoin, LiveInv
<1>7. UnnamedStep
  <2>1. m \in MgrType /\ Names(m)
    BY <1>1 DEF LiveOK
  <2>2. mgr' = RemoveObjects(m, removeList)
    BY DEF HandlePlayerJoin
  <2> HIDE DEF m
  <2>3. /\ mgr'.table = m.table \ removeList
        /\ \A q \in Objs \ removeList : mgr'.extent[q] = m.extent[q]
    BY <2>1, <2>2, Removing
  <2>4. m.table \subseteq Objs
    BY <2>1 DEF MgrType
  <2>5. \A o \in m.table \ mgr.table :
          m.extent[o] = 0 => \A e \in 1..MaxExtent : mgr.slots[e] # None
    BY MadePlayer DEF m
  <2> QED
    BY <2>3, <2>4, <2>5 DEF UnnamedStep
<1> QED
  BY <1>6, <1>7

LEMMA LogoutLive ==
    ASSUME IInv, NEW p \in Players, LogoutPlayer(p)
    PROVE  LiveInv' /\ UnnamedStep
<1>1. life[p] = "live"
  BY DEF LogoutPlayer, Alive
<1>2. LiveInv'
  BY <1>1, LoggedOutLive DEF LogoutPlayer, IInv, LiveInv
<1>3. mgr'.table = mgr.table \ {p}
  BY Removing DEF LogoutPlayer, IInv, LiveInv, LiveOK
<1> QED
  BY <1>2, <1>3 DEF UnnamedStep

LEMMA QuickStepLive ==
    ASSUME IInv, NEW to \in [Players -> Places], QuickStep(to)
    PROVE  LiveInv' /\ UnnamedStep
<1>1. LiveInv'
  BY RemovedLive DEF QuickStep, IInv, LiveInv, sessions
<1>2. mgr'.table = mgr.table \ removeList
  BY Removing DEF QuickStep, IInv, LiveInv, LiveOK
<1> QED
  BY <1>1, <1>2 DEF UnnamedStep

LEMMA RespawnLive ==
    ASSUME IInv, NEW p \in Players, NEW K \in Kits, NEW q, Respawn(p, K, q)
    PROVE  LiveInv' /\ UnnamedStep
<1>1. UNCHANGED <<updates, players, removeList, joined>>
  BY DEF Respawn, accessor
<1>2. CASE K = {}
  <2>1. life' = life /\ mgr' = mgr
    BY <1>2 DEF Respawn, IInv, LiveInv, LiveOK
  <2> QED
    BY <1>1, <2>1, TablesKept DEF tables
<1>3. CASE K # {}
  <2>1. PICK x \in NewItems : K = {x}
    BY <1>3 DEF Kits
  <2>2. x \in Objs /\ life[x] # "live" /\ 0 \in Nat
    BY PlayersAreObjs DEF NewItems
  <2>3. (CHOOSE y \in K : TRUE) = x
    BY <2>1
  <2>4. mgr' = AddObject(mgr, x, 0)
    BY <1>3, <2>3 DEF Respawn
  <2>5. life' = [life EXCEPT ![x] = "live"]
    BY <2>1, <2>2 DEF Respawn, IInv, LiveInv, LiveOK
  <2> QED
    BY <1>1, <2>2, <2>4, <2>5, OneMade
<1> QED
  BY <1>2, <1>3

LEMMA GotIsLive ==
    ASSUME IInv, NEW e \in Extents, GetObj(e) \in Items
    PROVE  GetObj(e) \in mgr.table /\ life[GetObj(e)] = "live"
<1>1. GetObj(e) # None
  BY KindAssumption, PlayersAreObjs
<1>2. GetObj(e) = mgr.slots[e]
  BY <1>1 DEF GetObj
<1> QED
  BY <1>1, <1>2 DEF IInv, LiveInv, LiveOK, Names

LEMMA TryGetLive ==
    ASSUME IInv, NEW p \in Players, NEW e \in Extents, HandleTryGet(p, e)
    PROVE  LiveInv' /\ UnnamedStep
<1>1. GetObj(e) \in Items /\ GetObj(e) \in mgr.table
  BY GotIsLive DEF HandleTryGet
<1>2. /\ removeList' = removeList \/ removeList' = removeList \union {GetObj(e)}
      /\ UNCHANGED <<life, mgr, updates, players, joined>>
  BY DEF HandleTryGet, sessions
<1>3. LiveInv'
  BY <1>1, <1>2, ListedLive DEF IInv, LiveInv
<1> QED
  BY <1>2, <1>3 DEF UnnamedStep

LEMMA TryUseLive ==
    ASSUME IInv, NEW p \in Players, NEW e \in Extents, HandleTryUse(p, e)
    PROVE  LiveInv' /\ UnnamedStep
<1>1. GetObj(e) \in Items /\ GetObj(e) \in mgr.table
  BY GotIsLive DEF HandleTryUse
<1>2. /\ removeList' = removeList \union {GetObj(e)}
      /\ UNCHANGED <<life, mgr, updates, players, joined>>
  BY DEF HandleTryUse, sessions
<1>3. LiveInv'
  BY <1>1, <1>2, ListedLive DEF IInv, LiveInv
<1> QED
  BY <1>2, <1>3 DEF UnnamedStep

-----------------------------------------------------------------------------
(* The types of the rest.                                                  *)

Queues == [Players -> SUBSET Objs]

LEMMA MutualSightType ==
    ASSUME IInv, NEW pls \in [Extents -> Players \union {None}]
    PROVE  MutualSight(pls) \in Queues
<1>1. Accessible(pls) \subseteq Objs
  BY PlayersAreObjs DEF Accessible
<1>2. \A v \in Players : queue[v] \subseteq Objs
  BY DEF IInv, RestOK
<1> QED
  BY <1>1, <1>2 DEF MutualSight, Queues

LEMMA SetPositionType ==
    ASSUME IInv, NEW o \in Objs, NEW q
    PROVE  SetPosition(o, q) \in Queues
<1>1. \A v \in Players : queue[v] \subseteq Objs
  BY DEF IInv, RestOK
<1> QED
  BY <1>1 DEF SetPosition, Queues

LEMMA JoinRest ==
    ASSUME IInv, NEW p \in Players, HandlePlayerJoin(p), LiveInv'
    PROVE  RestOK'
<1>1. players' \in [Extents -> Players \union {None}]
  BY DEF LiveInv, LiveOK
<1>2. queue' \in Queues
  BY <1>1, MutualSightType DEF HandlePlayerJoin
<1>3. place' \in [Objs -> Places \union {Pack}]
  BY PlaceAssumption DEF HandlePlayerJoin, Unplaced, IInv, RestOK
<1>4. dead' \subseteq Players /\ loading' \subseteq Players
  BY DEF HandlePlayerJoin, IInv, RestOK
<1> QED
  BY <1>2, <1>3, <1>4
  DEF HandlePlayerJoin, IInv, RestOK, Queues, clock, history

LEMMA ShortRest ==
    ASSUME IInv, NEW p \in Players, HandlePlayerJoinShort(p)
    PROVE  RestOK'
BY DEF HandlePlayerJoinShort, IInv, RestOK, clock, history

LEMMA RespawnRest ==
    ASSUME IInv, NEW p \in Players, NEW K \in Kits, NEW q \in Queues,
           Respawn(p, K, q), loading' \subseteq Players, moved' \subseteq Players
    PROVE  RestOK'
<1>1. K \subseteq Items
  BY DEF Kits, NewItems
<1>2. place' \in [Objs -> Places \union {Pack}]
  BY PlaceAssumption DEF Respawn, IInv, RestOK
<1>3. inv' \in [Players -> SUBSET Items]
  BY <1>1 DEF Respawn, IInv, RestOK
<1>4. dead' \subseteq Players
  BY DEF Respawn, IInv, RestOK
<1> QED
  BY <1>2, <1>3, <1>4 DEF Respawn, IInv, RestOK, Queues, clock

LEMMA ReadyRest ==
    ASSUME IInv, NEW p \in Players, NEW K \in Kits, HandleClientReady(p, K)
    PROVE  RestOK'
<1> DEFINE q == [SetPosition(p, Spawn) EXCEPT ![p] = {}]
<1>1. q \in Queues
  BY SetPositionType, PlayersAreObjs DEF Queues
<1>2. Respawn(p, K, q) /\ loading' \subseteq Players /\ moved' \subseteq Players
  BY DEF HandleClientReady, IInv, RestOK
<1> HIDE DEF q
<1> QED
  BY <1>1, <1>2, RespawnRest

LEMMA AttackRest ==
    ASSUME IInv, NEW p \in Players, NEW K \in Kits, Attack(p, K)
    PROVE  RestOK'
<1>1. SetPosition(p, Spawn) \in Queues
  BY SetPositionType, PlayersAreObjs
<1>2. /\ Respawn(p, K, SetPosition(p, Spawn))
      /\ loading' \subseteq Players /\ moved' \subseteq Players
  BY DEF Attack, Moved, IInv, RestOK
<1> QED
  BY <1>1, <1>2, RespawnRest

LEMMA TryGetRest ==
    ASSUME IInv, NEW p \in Players, NEW e \in Extents, HandleTryGet(p, e)
    PROVE  RestOK'
<1>1. GetObj(e) \in Items /\ GetObj(e) \in Objs
  BY PlayersAreObjs DEF HandleTryGet
<1>2. queue' \in Queues
  BY <1>1, SetPositionType DEF HandleTryGet
<1>3. place' \in [Objs -> Places \union {Pack}]
  BY DEF HandleTryGet, IInv, RestOK
<1>4. inv' \in [Players -> SUBSET Items]
  BY <1>1 DEF HandleTryGet, IInv, RestOK
<1> QED
  BY <1>2, <1>3, <1>4
  DEF HandleTryGet, IInv, RestOK, Queues, sessions, clock, history

LEMMA TryDropRest ==
    ASSUME IInv, NEW p \in Players, NEW e \in Extents, NEW q \in Places,
           HandleTryDrop(p, e, q)
    PROVE  RestOK'
<1>1. GetObj(e) \in Items /\ GetObj(e) \in Objs
  BY PlayersAreObjs DEF HandleTryDrop, IInv, RestOK
<1>2. queue' \in Queues
  BY <1>1, SetPositionType DEF HandleTryDrop
<1>3. place' \in [Objs -> Places \union {Pack}]
  BY DEF HandleTryDrop, IInv, RestOK
<1>4. inv' \in [Players -> SUBSET Items]
  BY DEF HandleTryDrop, IInv, RestOK
<1> QED
  BY <1>2, <1>3, <1>4
  DEF HandleTryDrop, IInv, RestOK, Queues, sessions, clock, history

LEMMA TryUseRest ==
    ASSUME IInv, NEW p \in Players, NEW e \in Extents, HandleTryUse(p, e)
    PROVE  RestOK'
<1>1. inv' \in [Players -> SUBSET Items] /\ foreign' \subseteq Items
  BY DEF HandleTryUse, IInv, RestOK
<1> QED
  BY <1>1 DEF HandleTryUse, IInv, RestOK, sessions, clock

LEMMA CastRest ==
    ASSUME IInv, NEW p \in Players, NEW m \in Missiles, CastProjectile(p, m)
    PROVE  RestOK'
<1>1. place' \in [Objs -> Places \union {Pack}]
  BY PlayersAreObjs DEF CastProjectile, IInv, RestOK
<1> QED
  BY <1>1 DEF CastProjectile, IInv, RestOK, sessions, clock, history

LEMMA TeleportRest ==
    ASSUME IInv, NEW p \in Players, NEW q \in Places, Teleport(p, q)
    PROVE  RestOK'
<1>1. queue' \in Queues
  BY SetPositionType, PlayersAreObjs DEF Teleport
<1>2. place' \in [Objs -> Places \union {Pack}] /\ moved' \subseteq Players
  BY DEF Teleport, Moved, IInv, RestOK
<1> QED
  BY <1>1, <1>2 DEF Teleport, IInv, RestOK, Queues, sessions, clock

LEMMA LogoutRest ==
    ASSUME IInv, NEW p \in Players, LogoutPlayer(p)
    PROVE  RestOK'
<1>1. place' \in [Objs -> Places \union {Pack}]
  BY PlaceAssumption DEF LogoutPlayer, Unplaced, IInv, RestOK
<1>2. inv' \in [Players -> SUBSET Items] /\ queue' \in Queues
  BY DEF LogoutPlayer, IInv, RestOK, Queues
<1> QED
  BY <1>1, <1>2 DEF LogoutPlayer, IInv, RestOK, Queues, clock

LEMMA QuickStepRest ==
    ASSUME IInv, NEW to \in [Players -> Places], QuickStep(to)
    PROVE  RestOK'
<1>1. place' \in [Objs -> Places \union {Pack}]
  BY PlaceAssumption DEF QuickStep, IInv, RestOK
<1>2. queue' \in Queues
  BY MutualSightType DEF QuickStep, IInv, LiveInv, LiveOK
<1>3. todo' \subseteq Updated
  BY DEF QuickStep, IInv, LiveInv, LiveOK
<1> QED
  BY <1>1, <1>2, <1>3 DEF QuickStep, IInv, RestOK, Queues, sessions, history

LEMMA UpdatePlayerRest ==
    ASSUME IInv, NEW p \in Players, NEW dies \in BOOLEAN, UpdatePlayer(p, dies)
    PROVE  RestOK'
<1> DEFINE dropped == IF dies THEN inv[p] ELSE {}
<1>1. dropped \subseteq Objs /\ dropped \subseteq Items
  BY PlayersAreObjs DEF IInv, RestOK
<1>2. place' = [o \in Objs |-> IF o \in dropped THEN place[p] ELSE place[o]]
      /\ queue' = [v \in Players |->
                     IF v = p THEN {}
                     ELSE IF v \in PlayersCanSee(place[p])
                          THEN queue[v] \union dropped ELSE queue[v]]
      /\ inv' = [inv EXCEPT ![p] = @ \ dropped]
  BY DEF UpdatePlayer
<1> HIDE DEF dropped
<1>3. place' \in [Objs -> Places \union {Pack}]
  BY <1>2, PlayersAreObjs DEF IInv, RestOK
<1>4. queue' \in Queues
  BY <1>1, <1>2 DEF IInv, RestOK, Queues
<1>5. inv' \in [Players -> SUBSET Items]
  BY <1>2 DEF IInv, RestOK
<1>6. dead' \subseteq Players /\ moved' \subseteq Players /\ todo' \subseteq Updated
  BY DEF UpdatePlayer, IInv, RestOK
<1> QED
  BY <1>3, <1>4, <1>5, <1>6 DEF UpdatePlayer, IInv, RestOK, Queues

LEMMA UpdateMissileRest ==
    ASSUME IInv, NEW m \in Missiles, UpdateMissile(m)
    PROVE  RestOK'
<1>1. queue' \in Queues
  BY SetPositionType, PlayersAreObjs DEF UpdateMissile
<1> QED
  BY <1>1 DEF UpdateMissile, IInv, RestOK, Queues, objects, sessions, history

-----------------------------------------------------------------------------
(* One case per action.                                                    *)

LEMMA NextInv == IInv /\ [Next]_vars => IInv' /\ UnnamedStep
<1> SUFFICES ASSUME IInv, [Next]_vars PROVE IInv' /\ UnnamedStep
  OBVIOUS
<1> USE PlayersAreObjs
<1>1. ASSUME NEW i \in DOMAIN MapFile, Load(i) PROVE IInv' /\ UnnamedStep
  BY <1>1, LoadLive DEF IInv
<1>2. CASE Loaded
  <2>1. UNCHANGED tables
    BY <1>2 DEF Loaded, tables, objects, accessor, sessions
  <2>2. RestOK'
    BY <1>2 DEF Loaded, IInv, RestOK, objects, sessions, history
  <2> QED
    BY <2>1, <2>2, TablesKept DEF IInv
<1>3. ASSUME NEW p \in Players, HandlePlayerJoin(p)
      PROVE  IInv' /\ UnnamedStep
  BY <1>3, JoinLive, JoinRest DEF IInv
<1>4. ASSUME NEW p \in Players, HandlePlayerJoinShort(p)
      PROVE  IInv' /\ UnnamedStep
  <2>1. 0 \in Nat /\ life[p] # "live"
    BY <1>4 DEF HandlePlayerJoinShort
  <2>2. LiveInv' /\ UnnamedStep
    BY <1>4, <2>1, OneMade DEF HandlePlayerJoinShort
  <2> QED
    BY <1>4, <2>2, ShortRest DEF IInv
<1>5. ASSUME NEW p \in Players, NEW K \in Kits, HandleClientReady(p, K)
      PROVE  IInv' /\ UnnamedStep
  <2>1. LiveInv' /\ UnnamedStep
    BY <1>5, RespawnLive DEF HandleClientReady
  <2> QED
    BY <1>5, <2>1, ReadyRest DEF IInv
<1>6. ASSUME NEW p \in Players, NEW K \in Kits, Attack(p, K)
      PROVE  IInv' /\ UnnamedStep
  <2>1. LiveInv' /\ UnnamedStep
    BY <1>6, RespawnLive DEF Attack
  <2> QED
    BY <1>6, <2>1, AttackRest DEF IInv
<1>7. ASSUME NEW p \in Players, NEW e \in Extents, HandleTryGet(p, e)
      PROVE  IInv' /\ UnnamedStep
  BY <1>7, TryGetLive, TryGetRest DEF IInv
<1>8. ASSUME NEW p \in Players, NEW e \in Extents, NEW q \in Places,
             HandleTryDrop(p, e, q)
      PROVE  IInv' /\ UnnamedStep
  <2>1. UNCHANGED tables
    BY <1>8 DEF HandleTryDrop, tables, accessor, sessions
  <2> QED
    BY <1>8, <2>1, TablesKept, TryDropRest DEF IInv
<1>9. ASSUME NEW p \in Players, NEW e \in Extents, HandleTryUse(p, e)
      PROVE  IInv' /\ UnnamedStep
  BY <1>9, TryUseLive, TryUseRest DEF IInv
<1>10. ASSUME NEW p \in Players, NEW m \in Missiles, CastProjectile(p, m)
       PROVE  IInv' /\ UnnamedStep
  <2>1. 0 \in Nat /\ life[m] # "live"
    BY <1>10 DEF CastProjectile
  <2>2. LiveInv' /\ UnnamedStep
    BY <1>10, <2>1, OneMade DEF CastProjectile, sessions
  <2> QED
    BY <1>10, <2>2, CastRest DEF IInv
<1>11. ASSUME NEW p \in Players, LogoutPlayer(p) PROVE IInv' /\ UnnamedStep
  BY <1>11, LogoutLive, LogoutRest DEF IInv
<1>12. ASSUME NEW p \in Players, NEW q \in Places, Teleport(p, q)
       PROVE  IInv' /\ UnnamedStep
  <2>1. UNCHANGED tables
    BY <1>12 DEF Teleport, tables, accessor, sessions
  <2> QED
    BY <1>12, <2>1, TablesKept, TeleportRest DEF IInv
<1>13. ASSUME NEW to \in [Players -> Places], QuickStep(to)
       PROVE  IInv' /\ UnnamedStep
  BY <1>13, QuickStepLive, QuickStepRest DEF IInv
<1>14. ASSUME NEW p \in Players, NEW dies \in BOOLEAN, UpdatePlayer(p, dies)
       PROVE  IInv' /\ UnnamedStep
  <2>1. UNCHANGED tables
    BY <1>14 DEF UpdatePlayer, tables, accessor
  <2> QED
    BY <1>14, <2>1, TablesKept, UpdatePlayerRest DEF IInv
<1>15. ASSUME NEW m \in Missiles, UpdateMissile(m) PROVE IInv' /\ UnnamedStep
  <2>1. UNCHANGED tables
    BY <1>15 DEF UpdateMissile, tables, objects, accessor, sessions
  <2> QED
    BY <1>15, <2>1, TablesKept, UpdateMissileRest DEF IInv
<1>16. CASE EndUpdate
  <2>1. UNCHANGED tables
    BY <1>16 DEF EndUpdate, tables, objects, accessor, sessions
  <2>2. RestOK'
    BY <1>16 DEF EndUpdate, IInv, RestOK, objects, sessions, history
  <2> QED
    BY <2>1, <2>2, TablesKept DEF IInv
<1>17. ASSUME NEW p \in Players, UseFreed(p) PROVE IInv' /\ UnnamedStep
  <2>1. UNCHANGED tables
    BY <1>17 DEF UseFreed, tables, objects, accessor, sessions
  <2>2. RestOK'
    BY <1>17 DEF UseFreed, IInv, RestOK, objects, sessions, clock
  <2> QED
    BY <2>1, <2>2, TablesKept DEF IInv
<1>18. CASE UNCHANGED vars
  <2>1. UNCHANGED tables
    BY <1>18 DEF vars, tables, objects, accessor, sessions
  <2>2. RestOK'
    BY <1>18 DEF vars, IInv, RestOK, objects, sessions, clock, history
  <2> QED
    BY <2>1, <2>2, TablesKept DEF IInv
<1> QED
  BY <1>1, <1>2, <1>3, <1>4, <1>5, <1>6, <1>7, <1>8, <1>9, <1>10, <1>11,
     <1>12, <1>13, <1>14, <1>15, <1>16, <1>17, <1>18 DEF Next, Handle

LEMMA Invariance == Spec => []IInv
<1>1. IInv /\ [Next]_vars => IInv'
  BY NextInv
<1> QED
  BY InitInv, <1>1, PTL DEF Spec

(* Every variable keeps its type: with no extent left, 0 is an index that  *)
(* objectExtents and i_players have.                                       *)
THEOREM TypeCorrect == Spec => []TypeOK
<1>1. IInv => TypeOK
  BY LiveTypes DEF IInv
<1> QED
  BY <1>1, Invariance, PTL

(* Extents and objects name each other (AddObject, RemoveObject).          *)
THEOREM ExtentsHold == Spec => []ExtentsNameObjects
<1>1. IInv => ExtentsNameObjects
  BY DEF IInv, LiveInv, LiveOK, Names, ExtentsNameObjects
<1> QED
  BY <1>1, Invariance, PTL

(* What the world goes through, and what it deletes, is alive              *)
(* (Object::~Object, RemovePlayer, RemoveAllObjectsInRemoveList).          *)
THEOREM TablesHold == Spec => []TablesLive
<1>1. IInv => TablesLive
  BY DEF IInv, LiveInv, LiveOK, TablesLive, Accessible
<1> QED
  BY <1>1, Invariance, PTL

(* Who is logged in is in i_players (InsertPlayer, RemovePlayer).          *)
THEOREM ReachedHolds == Spec => []PlayersReached
<1>1. IInv => PlayersReached
  BY DEF IInv, LiveInv, LiveOK, PlayersReached
<1> QED
  BY <1>1, Invariance, PTL

(* No object goes without an extent while there is one (RequestExtent).    *)
THEOREM UnnamedHolds == Spec => [][UnnamedStep]_vars
<1>1. IInv /\ [Next]_vars => [UnnamedStep]_vars
  BY NextInv
<1> QED
  BY <1>1, Invariance, PTL DEF Spec

-----------------------------------------------------------------------------
(* What the players' updates find in their queues.  Outside of _update and *)
(* the updates, SightComplete says nothing; in them, nobody moves.         *)

LEMMA OutsideUpdate == phase' # "update" => SightComplete'
BY DEF SightComplete

LEMMA SightStep == IInv /\ SightComplete /\ [Next]_vars => SightComplete'
<1> SUFFICES ASSUME IInv, SightComplete, [Next]_vars PROVE SightComplete'
  OBVIOUS
<1> USE PlayersAreObjs
<1>1. CASE phase' # "update"
  BY <1>1, OutsideUpdate
<1>2. ASSUME NEW to \in [Players -> Places], QuickStep(to)
      PROVE  SightComplete'
  <2>1. players' = players /\ queue' = MutualSight(players)
    BY <1>2 DEF QuickStep
  <2>2. Accessible(players) \subseteq Players
    BY DEF Accessible, IInv, LiveInv, LiveOK
  <2>3. ASSUME NEW p \in Accessible(players), NEW o \in Accessible(players) \ {p},
               <<place'[p], place'[o]>> \in Near
        PROVE  o \in queue'[p]
    BY <2>1, <2>2, <2>3 DEF MutualSight
  <2> QED
    BY <2>1, <2>3 DEF SightComplete
<1>3. ASSUME NEW p \in Players, NEW dies \in BOOLEAN, UpdatePlayer(p, dies)
      PROVE  SightComplete'
  <2>1. phase = "update" /\ players' = players /\ todo' = todo \ {p}
    BY <1>3 DEF UpdatePlayer, Updating, accessor
  <2>2. Accessible(players) \subseteq Players
    BY DEF Accessible, IInv, LiveInv, LiveOK
  <2>3. \A v \in Players : place'[v] = place[v]
    BY <1>3, KindAssumption DEF UpdatePlayer, IInv, RestOK
  <2>4. \A v \in Players \ {p} : queue[v] \subseteq queue'[v]
    BY <1>3 DEF UpdatePlayer
  <2> QED
    BY <2>1, <2>2, <2>3, <2>4 DEF SightComplete
<1>4. ASSUME NEW m \in Missiles, UpdateMissile(m) PROVE SightComplete'
  <2>1. /\ phase = "update" /\ players' = players /\ place' = place
        /\ todo' = todo \ {m} /\ queue' = SetPosition(m, place[m])
    BY <1>4 DEF UpdateMissile, Updating, accessor, objects
  <2>2. \A v \in Players : queue[v] \subseteq queue'[v]
    BY <2>1 DEF SetPosition
  <2>3. Accessible(players) \subseteq Players
    BY DEF Accessible, IInv, LiveInv, LiveOK
  <2> QED
    BY <2>1, <2>2, <2>3 DEF SightComplete
<1>5. ASSUME NEW p \in Players, UseFreed(p) PROVE SightComplete'
  BY <1>5 DEF UseFreed, SightComplete, objects, accessor, clock
<1>6. CASE UNCHANGED vars
  BY <1>6 DEF vars, SightComplete, objects, accessor, clock
<1>7. CASE InSessions /\ UNCHANGED clock
  BY <1>7, <1>1 DEF InSessions, clock
<1>8. CASE EndUpdate
  BY <1>8, <1>1 DEF EndUpdate
<1>9. CASE \E p \in Players : Handle(p)
  <2>1. PICK p \in Players : Handle(p)
    BY <1>9
  <2> QED
    BY <2>1, <1>7 DEF Handle, Alive, Handling, HandlePlayerJoin,
       HandlePlayerJoinShort, HandleClientReady, Attack, Respawn, HandleTryGet,
       HandleTryDrop, HandleTryUse, CastProjectile, LogoutPlayer
<1>10. CASE \E p \in Players, q \in Places : Teleport(p, q)
  BY <1>10, <1>7 DEF Teleport, Alive
<1>11. CASE Loaded \/ \E i \in DOMAIN MapFile : Load(i)
  BY <1>11, <1>1 DEF Loaded, Load, clock
<1> QED
  BY <1>2, <1>3, <1>4, <1>5, <1>6, <1>8, <1>9, <1>10, <1>11 DEF Next

(* A player's packet leaves no player out that it sees (_update,           *)
(* SetPosition, SendUpdatePacket).                                         *)
THEOREM SightHolds == Spec => []SightComplete
<1>1. Init => SightComplete
  BY DEF Init, SightComplete
<1> QED
  BY <1>1, SightStep, Invariance, PTL DEF Spec

-----------------------------------------------------------------------------
(* The second invariant: how an item that is deleted comes to be out of    *)
(* every queue.  Somebody carries it then, and so it is at Pack, which no- *)
(* body sees; and what a player does not see is not in his queue, unless a *)
(* handler moved him, he has no extent, or he is due for an Update, which  *)
(* empties the queue, in this round (InSight).  When something is deleted  *)
(* nobody is due (Turns).                                                  *)

Absent == \A v \in Players : life[v] # "live" => queue[v] = {} /\ inv[v] = {}
Born   == \A v \in Players : \A o \in queue[v] \union inv[v] : life[o] # "unborn"
Carried ==
    /\ \A v \in Players : \A x \in inv[v] : life[x] = "live" => place[x] = Pack
    /\ \A v, w \in Players : v # w => inv[v] \intersect inv[w] = {}
Gone ==
    \A x \in removeList \ foreign :
      place[x] = Pack /\ \A v \in Players : x \notin inv[v]

Sees(v, o) == \/ v \in moved \/ mgr.extent[v] = 0 \/ v \in todo
              \/ v \in joined /\ <<place[v], place[o]>> \in Near
InSight ==
    \A v \in Players : \A x \in queue[v] \intersect Items :
      life[x] = "live" /\ x \notin foreign => Sees(v, x)

Dangling ==
    /\ \A v \in Players : \A o \in queue[v] : life[o] = "freed" => Excused(v, o)
    /\ \A v \in Players : \A x \in inv[v] : life[x] = "freed" => x \in foreign
Turns ==
    /\ phase # "update" => todo = {}
    /\ \A v \in Players : life[v] = "live" => v \in updates
Shown == Accessible(players) \subseteq joined
ToDo  == \A m \in todo \intersect Missiles : life[m] = "live"
Crash == crashed => \E v \in Players : \E o \in queue[v] \union inv[v] :
                      life[o] = "freed" /\ Excused(v, o)

Reachable == /\ Absent /\ Born /\ Carried /\ Gone
             /\ InSight /\ Dangling /\ Shown /\ ToDo /\ Crash

LEMMA InitReachable == Init => Reachable
BY KindAssumption DEF Init, Reachable, Absent, Born, Carried, Gone, InSight,
   Dangling, Shown, ToDo, Crash, Accessible

LEMMA Seers ==
    ASSUME IInv, Reachable
    PROVE  /\ \A q : \A v \in PlayersCanSee(q) :
                v \in Players /\ v \in joined /\ <<place[v], q>> \in Near
           /\ PlayersCanSee(Pack) = {}
           /\ \A v \in joined, q \in Places \union {Pack} :
                mgr.extent[v] # 0 /\ <<place[v], q>> \in Near
                  => v \in PlayersCanSee(q)
<1>1. Accessible(players) \subseteq Players /\ Accessible(players) \subseteq joined
  BY DEF Accessible, IInv, LiveInv, LiveOK, Reachable, Shown
<1>2. \A v \in joined : mgr.extent[v] # 0 => v \in Accessible(players)
  <2>1. ASSUME NEW v \in joined, mgr.extent[v] # 0
        PROVE  v \in Accessible(players)
    <3>1. players[mgr.extent[v]] = v
      BY <2>1 DEF IInv, LiveInv, LiveOK
    <3>2. mgr.extent[v] \in Extents /\ v # None
      BY PlayersAreObjs, KindAssumption DEF IInv, LiveInv, LiveOK, MgrType
    <3> QED
      BY <3>1, <3>2 DEF Accessible
  <2> QED
    BY <2>1
<1>3. \A q : <<q, Pack>> \notin Near
  BY PlaceAssumption
<1> QED
  BY <1>1, <1>2, <1>3 DEF PlayersCanSee

(* Where x is not seen, who has it in his queue has an excuse.             *)
LEMMA Hidden ==
    ASSUME IInv, Reachable, NEW v \in Players, NEW x \in queue[v], x \in Items,
           life[x] = "live", x \notin foreign, v \notin PlayersCanSee(place[x])
    PROVE  v \in moved \/ mgr.extent[v] = 0 \/ v \in todo
<1>1. Sees(v, x)
  BY DEF Reachable, InSight
<1>2. place[x] \in Places \union {Pack}
  BY PlayersAreObjs DEF IInv, RestOK
<1> QED
  BY <1>1, <1>2, Seers DEF Sees

LEMMA HiddenInPack ==
    ASSUME IInv, Reachable, NEW v \in Players, NEW x \in queue[v], x \in Items,
           life[x] = "live", x \notin foreign, place[x] = Pack
    PROVE  v \in moved \/ mgr.extent[v] = 0 \/ v \in todo
BY Seers, Hidden

(* What SetPosition of o does to the queues.                               *)
LEMMA Positioned ==
    ASSUME IInv, Reachable, NEW o, NEW q
    PROVE  \A v \in Players :
             /\ SetPosition(o, q)[v] \subseteq queue[v] \union {o}
             /\ o \in SetPosition(o, q)[v] =>
                  \/ v \in PlayersCanSee(q)
                  \/ o \in queue[v] /\ v \notin PlayersCanSee(place[o])
             /\ v \in PlayersCanSee(q) =>
                  v \in joined /\ <<place[v], q>> \in Near
             /\ life[v] # "live" => SetPosition(o, q)[v] = {}
<1>1. ASSUME NEW v \in Players, life[v] # "live"
      PROVE  queue[v] = {} /\ v \notin PlayersCanSee(q)
  <2>1. v \notin joined
    BY <1>1 DEF IInv, LiveInv, LiveOK
  <2> QED
    BY <1>1, <2>1, Seers DEF Reachable, Absent
<1> QED
  BY <1>1, Seers DEF SetPosition

(* What does not change in most steps.                                     *)
LEMMA Framed ==
    ASSUME Reachable
    PROVE  /\ UNCHANGED <<players, joined>> => Shown'
           /\ todo' \subseteq todo
                /\ (\A m \in Missiles : life[m] = "live" => life'[m] = "live")
                => ToDo'
           /\ ~crashed' => Crash'
BY DEF Reachable, Shown, ToDo, Crash

LEMMA TryGetReach ==
    ASSUME IInv, Reachable, NEW p \in Players, NEW e \in Extents,
           HandleTryGet(p, e)
    PROVE  Reachable'
<1> DEFINE x == GetObj(e)
<1>1. x \in Items /\ x \in Objs /\ life[x] = "live" /\ place[x] # Pack
  BY GotIsLive, PlayersAreObjs DEF HandleTryGet
<1>2. /\ place' = [place EXCEPT ![x] = Pack]
      /\ queue' = SetPosition(x, Pack)
      /\ \/ inv' = [inv EXCEPT ![p] = @ \union {x}] /\ removeList' = removeList
         \/ inv' = inv /\ removeList' = removeList \union {x}
      /\ UNCHANGED <<life, mgr, updates, players, joined, todo, foreign, moved,
                     crashed>>
      /\ ~crashed /\ life[p] = "live"
  BY DEF HandleTryGet, sessions, clock, history, Handling, Alive, InSessions
<1> HIDE DEF x
<1>3. \A v \in Players : x \notin inv[v]
  BY <1>1 DEF Reachable, Carried
<1>4. /\ \A v \in Players : queue'[v] \subseteq queue[v]
      /\ \A v \in Players : x \in queue'[v] => v \notin PlayersCanSee(place[x])
  <2>1. PlayersCanSee(Pack) = {}
    BY Seers
  <2>2. \A v \in Players :
          /\ SetPosition(x, Pack)[v] \subseteq queue[v] \union {x}
          /\ x \in SetPosition(x, Pack)[v] =>
               \/ v \in PlayersCanSee(Pack)
               \/ x \in queue[v] /\ v \notin PlayersCanSee(place[x])
    BY Positioned
  <2>3. \A v \in Players :
          x \in queue'[v] => x \in queue[v] /\ v \notin PlayersCanSee(place[x])
    BY <1>2, <2>1, <2>2
  <2> QED
    BY <1>2, <2>2, <2>3
<1>5. /\ place \in [Objs -> Places \union {Pack}] /\ inv \in [Players -> SUBSET Items]
      /\ removeList \subseteq Items /\ Players \subseteq Objs
  BY PlayersAreObjs DEF IInv, RestOK, LiveInv, LiveOK
<1>6. Absent' /\ Born'
  BY <1>1, <1>2, <1>4, <1>5 DEF Reachable, Absent, Born
<1>7. Carried'
  BY <1>1, <1>2, <1>3, <1>5, PlayersAreObjs DEF Reachable, Carried
<1>8. Gone'
  BY <1>1, <1>2, <1>3, <1>5, PlayersAreObjs DEF Reachable, Gone, Carried
<1>9. InSight'
  <2>1. ASSUME NEW v \in Players, NEW y \in queue'[v], y \in Items,
               life[y] = "live", y \notin foreign
        PROVE  Sees(v, y)'
    <3>1. y \in queue[v]
      BY <1>4
    <3>2. CASE y = x
      BY <2>1, <3>1, <3>2, <1>2, <1>4, Hidden DEF Sees
    <3>3. CASE y # x
      <4>1. Sees(v, y)
        BY <2>1, <3>1 DEF Reachable, InSight
      <4>2. v # x
        BY <1>1, KindAssumption
      <4>3. place'[v] = place[v] /\ place'[y] = place[y]
        BY <3>3, <4>2, <1>2, <1>5, <2>1, PlayersAreObjs
      <4> QED
        BY <4>1, <4>3, <1>2 DEF Sees
    <3> QED
      BY <3>2, <3>3
  <2> QED
    BY <2>1, <1>2 DEF InSight
<1>10. Dangling'
  BY <1>1, <1>2, <1>4, <1>5 DEF Reachable, Dangling, Excused
<1> QED
  BY <1>2, <1>6, <1>7, <1>8, <1>9, <1>10, Framed DEF Reachable

LEMMA TryDropReach ==
    ASSUME IInv, Reachable, NEW p \in Players, NEW e \in Extents, NEW q \in Places,
           HandleTryDrop(p, e, q)
    PROVE  Reachable'
<1> DEFINE x == GetObj(e)
<1>1. x \in Items /\ x \in Objs /\ life[x] = "live" /\ x \in inv[p]
  BY GotIsLive, PlayersAreObjs DEF HandleTryDrop, IInv, RestOK
<1>2. /\ place' = [place EXCEPT ![x] = q]
      /\ queue' = SetPosition(x, q)
      /\ inv' = [inv EXCEPT ![p] = @ \ {x}]
      /\ UNCHANGED <<life, mgr, updates, players, removeList, joined, todo,
                     foreign, moved, crashed>>
      /\ ~crashed /\ life[p] = "live"
  BY DEF HandleTryDrop, sessions, clock, history, accessor, Handling, Alive,
         InSessions
<1> HIDE DEF x
<1>3. place[x] = Pack /\ \A v \in Players \ {p} : x \notin inv[v]
  BY <1>1 DEF Reachable, Carried
<1>4. x \in removeList => x \in foreign
  BY <1>1 DEF Reachable, Gone
<1>5. /\ place \in [Objs -> Places \union {Pack}] /\ inv \in [Players -> SUBSET Items]
      /\ removeList \subseteq Items /\ Players \subseteq Objs
  BY PlayersAreObjs DEF IInv, RestOK, LiveInv, LiveOK
<1>6. \A v \in Players :
        /\ queue'[v] \subseteq queue[v] \union {x}
        /\ x \in queue'[v] => \/ v \in joined /\ <<place[v], q>> \in Near
                              \/ x \in queue[v]
        /\ life[v] # "live" => queue'[v] = {}
  BY <1>2, Positioned
<1>7. Absent' /\ Born'
  <2>1. \A v \in Players : inv'[v] \subseteq inv[v]
    BY <1>2, <1>5
  <2>2. Absent'
    BY <1>2, <1>6, <2>1 DEF Reachable, Absent
  <2>3. Born'
    BY <1>1, <1>2, <1>6, <2>1 DEF Reachable, Born
  <2> QED
    BY <2>2, <2>3
<1>8. Carried'
  BY <1>1, <1>2, <1>3, <1>5, PlayersAreObjs DEF Reachable, Carried
<1>9. Gone'
  BY <1>1, <1>2, <1>4, <1>5, PlayersAreObjs DEF Reachable, Gone
<1>10. InSight'
  <2>1. ASSUME NEW v \in Players, NEW y \in queue'[v], y \in Items,
               life[y] = "live", y \notin foreign
        PROVE  Sees(v, y)'
    <3>1. place'[v] = place[v] /\ place'[x] = q
      BY <1>1, <1>2, <1>5, KindAssumption
    <3>2. CASE y = x /\ x \in queue[v]
      BY <2>1, <3>2, <1>2, <1>3, HiddenInPack DEF Sees
    <3>3. CASE y = x /\ x \notin queue[v]
      BY <3>1, <3>3, <1>2, <1>6 DEF Sees
    <3>4. CASE y # x
      <4>1. y \in queue[v] /\ place'[y] = place[y]
        BY <3>4, <1>2, <1>5, <1>6, <2>1, PlayersAreObjs
      <4> QED
        BY <4>1, <3>1, <1>2, <2>1 DEF Sees, Reachable, InSight
    <3> QED
      BY <3>2, <3>3, <3>4
  <2> QED
    BY <2>1, <1>2 DEF InSight
<1>11. Dangling'
  BY <1>1, <1>2, <1>5, <1>6 DEF Reachable, Dangling, Excused
<1> QED
  BY <1>2, <1>7, <1>8, <1>9, <1>10, <1>11, Framed DEF Reachable

LEMMA TryUseReach ==
    ASSUME IInv, Reachable, NEW p \in Players, NEW e \in Extents,
           HandleTryUse(p, e)
    PROVE  Reachable'
<1> DEFINE x == GetObj(e)
<1>1. x \in Items /\ life[x] = "live"
  BY GotIsLive DEF HandleTryUse
<1>2. /\ inv' = [inv EXCEPT ![p] = @ \ {x}]
      /\ removeList' = removeList \union {x}
      /\ foreign \subseteq foreign'
      /\ x \in foreign' \/ x \in inv[p] \union removeList
      /\ UNCHANGED <<life, place, mgr, players, queue, joined, todo, moved, crashed>>
      /\ ~crashed
  BY DEF HandleTryUse, sessions, clock, Handling, Alive, InSessions
<1> HIDE DEF x
<1>3. inv \in [Players -> SUBSET Items]
  BY DEF IInv, RestOK
<1>4. Absent' /\ Born' /\ Carried'
  BY <1>1, <1>2, <1>3 DEF Reachable, Absent, Born, Carried
<1>5. Gone'
  BY <1>1, <1>2, <1>3 DEF Reachable, Gone, Carried
<1>6. InSight' /\ Dangling'
  BY <1>1, <1>2, <1>3 DEF Reachable, InSight, Sees, Dangling, Excused
<1> QED
  BY <1>2, <1>4, <1>5, <1>6, Framed DEF Reachable

LEMMA LoadReach ==
    ASSUME IInv, Reachable, NEW i \in DOMAIN MapFile, Load(i)
    PROVE  Reachable'
<1> DEFINE o == MapFile[i].obj
<1>1. o \in Objs /\ o \in Items \union Fixtures
  <2>1. MapFile[i] \in [obj : Items \union Fixtures, extent : Nat, at : Places]
    BY ExtentAssumption, ElementOfSeq
  <2>2. \A r \in [obj : Items \union Fixtures, extent : Nat, at : Places] :
          r.obj \in Items \union Fixtures
    OBVIOUS
  <2> QED
    BY <2>1, <2>2, PlayersAreObjs
<1>2. /\ life[o] = "unborn" /\ life' = [life EXCEPT ![o] = "live"]
      /\ place' = [place EXCEPT ![o] = MapFile[i].at]
      /\ mgr' = AddObject(mgr, o, MapFile[i].extent)
      /\ UNCHANGED <<inv, players, removeList, queue, joined, todo, foreign,
                     moved, crashed>>
  BY DEF Load, accessor, sessions, clock, history
<1>3. MapFile[i].extent \in Nat
  <2>1. MapFile[i] \in [obj : Items \union Fixtures, extent : Nat, at : Places]
    BY ExtentAssumption, ElementOfSeq
  <2>2. \A r \in [obj : Items \union Fixtures, extent : Nat, at : Places] :
          r.extent \in Nat
    OBVIOUS
  <2> QED
    BY <2>1, <2>2
<1> HIDE DEF o
<1>4. \A v \in Players : v # o /\ mgr'.extent[v] = mgr.extent[v]
  <2>1. \A v \in Players : v # o /\ v \in Objs
    BY <1>1, KindAssumption, PlayersAreObjs
  <2>2. mgr \in MgrType /\ Names(mgr) /\ o \notin mgr.table
    BY <1>2 DEF IInv, LiveInv, LiveOK
  <2>3. \A q \in Objs \ {o} : mgr'.extent[q] = mgr.extent[q]
    BY <1>1, <1>2, <1>3, <2>2, Adding
  <2> QED
    BY <2>1, <2>3
<1>5. \A v \in Players : o \notin queue[v] /\ o \notin inv[v]
  BY <1>2 DEF Reachable, Born
<1>6. life \in [Objs -> Life] /\ place \in [Objs -> Places \union {Pack}]
      /\ queue \in [Players -> SUBSET Objs] /\ inv \in [Players -> SUBSET Items]
      /\ removeList \subseteq mgr.table /\ o \notin removeList
  BY <1>2 DEF IInv, LiveInv, LiveOK, RestOK
<1>7. \A q \in Objs \ {o} : life'[q] = life[q] /\ place'[q] = place[q]
  BY <1>2, <1>6
<1>8. Absent' /\ Born'
  <2>1. Absent'
    BY <1>2, <1>4, <1>7, PlayersAreObjs DEF Reachable, Absent
  <2>2. Born'
    BY <1>2, <1>5, <1>6, <1>7, PlayersAreObjs DEF Reachable, Born
  <2> QED
    BY <2>1, <2>2
<1>9. Carried' /\ Gone'
  BY <1>2, <1>5, <1>6, <1>7, PlayersAreObjs, KindAssumption
  DEF Reachable, Carried, Gone, IInv, LiveInv, LiveOK
<1>10. InSight'
  BY <1>2, <1>4, <1>5, <1>6, <1>7, PlayersAreObjs
  DEF Reachable, InSight, Sees
<1>11. Dangling'
  BY <1>2, <1>4, <1>5, <1>6, <1>7, PlayersAreObjs
  DEF Reachable, Dangling, Excused
<1>12. Crash'
  BY <1>2, <1>4, <1>5, <1>6, <1>7, PlayersAreObjs
  DEF Reachable, Crash, Excused
<1>13. Shown' /\ ToDo'
  BY <1>1, <1>2, <1>6, <1>7, PlayersAreObjs DEF Reachable, Shown, ToDo
<1> QED
  BY <1>8, <1>9, <1>10, <1>11, <1>12, <1>13 DEF Reachable

(* _update, with i_objectsToRemove emptied: of a join, or of a tick.       *)
LEMMA DeletingReach ==
    ASSUME IInv, Reachable, LiveInv', todo = {},
           \A x \in removeList : life'[x] = "freed",
           \A o \in Objs \ removeList :
             \/ life'[o] = life[o]
             \/ o \in Players /\ life[o] = "unborn" /\ life'[o] = "live",
           \A v \in Players :
             life[v] = "live" => mgr'.extent[v] = mgr.extent[v],
           \A v \in Players :
             life[v] = "live" => v \in todo' \/ place'[v] = place[v],
           \A x \in Items \ removeList : place'[x] = place[x],
           moved \subseteq moved', joined \subseteq joined',
           queue' = MutualSight(players'), removeList' = {},
           UNCHANGED <<inv, foreign>>
    PROVE  Absent' /\ Born' /\ Carried' /\ Gone' /\ InSight' /\ Dangling'
<1>1. /\ queue \in [Players -> SUBSET Objs] /\ inv \in [Players -> SUBSET Items]
      /\ removeList \subseteq Items /\ removeList \subseteq mgr.table
      /\ \A x \in removeList : life[x] = "live"
  BY DEF IInv, LiveInv, LiveOK, RestOK
<1>2. \A v \in Accessible(players') : v \in Players /\ life'[v] = "live"
  BY DEF Accessible, LiveInv, LiveOK
<1>3. \A v \in Players : \A o \in queue'[v] :
        \/ o \in queue[v]
        \/ o \in Players /\ life'[o] = "live" /\ life'[v] = "live"
  BY <1>2 DEF MutualSight
<1>4. \A v \in Players : v \notin removeList /\ v \in Objs
  BY <1>1, KindAssumption, PlayersAreObjs
<1>5. \A v \in Players : life'[v] # "live" => life[v] # "live"
  BY <1>4
<1>6. \A o \in Objs : life[o] # "unborn" => life'[o] # "unborn"
  <2>1. ASSUME NEW o \in Objs, life[o] # "unborn" PROVE life'[o] # "unborn"
    <3>1. CASE o \in removeList
      BY <3>1
    <3>2. CASE o \notin removeList
      BY <3>2, <2>1
    <3> QED
      BY <3>1, <3>2
  <2> QED
    BY <2>1
<1>7. Absent'
  BY <1>3, <1>5 DEF Reachable, Absent
<1>8. Born'
  <2>1. \A v \in Players : \A o \in queue'[v] \union inv[v] : life'[o] # "unborn"
    BY <1>1, <1>3, <1>6, PlayersAreObjs DEF Reachable, Born
  <2> QED
    BY <2>1 DEF Born
<1>9. Carried' /\ Gone'
  <2>1. \A x \in Items : life'[x] = "live" => x \notin removeList /\ life[x] = "live"
    BY PlayersAreObjs, KindAssumption
  <2> QED
    BY <1>1, <2>1 DEF Reachable, Carried, Gone
<1>10. \A v \in Players : queue[v] # {} =>
         life[v] = "live" /\ mgr'.extent[v] = mgr.extent[v]
  BY DEF Reachable, Absent
<1>11. InSight'
  <2>1. ASSUME NEW v \in Players, NEW x \in queue'[v], x \in Items,
               life'[x] = "live", x \notin foreign
        PROVE  Sees(v, x)'
    <3>1. x \in queue[v]
      BY <1>3, <2>1, KindAssumption
    <3>2. x \notin removeList /\ life[x] = "live" /\ place'[x] = place[x]
      BY <2>1, PlayersAreObjs, KindAssumption
    <3>3. Sees(v, x)
      BY <2>1, <3>1, <3>2 DEF Reachable, InSight
    <3>4. /\ mgr'.extent[v] = mgr.extent[v]
          /\ v \in todo' \/ place'[v] = place[v]
      BY <3>1, <1>10
    <3> QED
      BY <3>2, <3>3, <3>4 DEF Sees
  <2> QED
    BY <2>1 DEF InSight
<1>12. Dangling'
  <2>1. ASSUME NEW v \in Players, NEW o \in queue'[v], life'[o] = "freed"
        PROVE  Excused(v, o)'
    <3>1. o \in queue[v] /\ o \in Objs /\ mgr'.extent[v] = mgr.extent[v]
      BY <1>1, <1>3, <1>10, <2>1
    <3>2. CASE o \in removeList
      <4>1. o \in Items /\ life[o] = "live"
        BY <3>2, <1>1
      <4>2. o \notin foreign => place[o] = Pack
        BY <3>2 DEF Reachable, Gone
      <4>3. o \in foreign \/ v \in moved \/ mgr.extent[v] = 0
        BY <3>1, <4>1, <4>2, HiddenInPack
      <4> QED
        BY <3>1, <4>3 DEF Excused
    <3>3. CASE o \notin removeList
      <4>1. life[o] = "freed"
        BY <3>1, <3>3, <2>1
      <4>2. Excused(v, o)
        BY <3>1, <4>1 DEF Reachable, Dangling
      <4> QED
        BY <3>1, <4>2 DEF Excused
    <3> QED
      BY <3>2, <3>3
  <2>2. ASSUME NEW v \in Players, NEW x \in inv[v], life'[x] = "freed"
        PROVE  x \in foreign
    <3>1. x \in Items /\ x \in Objs
      BY <1>1, PlayersAreObjs
    <3>2. CASE x \in removeList
      BY <3>2 DEF Reachable, Gone
    <3>3. CASE x \notin removeList
      BY <3>1, <3>3, <2>2 DEF Reachable, Dangling
    <3> QED
      BY <3>2, <3>3
  <2> QED
    BY <2>1, <2>2 DEF Dangling
<1> QED
  BY <1>7, <1>8, <1>9, <1>11, <1>12

LEMMA JoinReach ==
    ASSUME IInv, Reachable, Turns, NEW p \in Players, HandlePlayerJoin(p), LiveInv'
    PROVE  Reachable'
<1>1. /\ removeList \subseteq Items /\ p \in Objs /\ p \notin removeList
      /\ removeList \subseteq mgr.table /\ life \in [Objs -> Life]
  BY PlayersAreObjs, KindAssumption DEF IInv, LiveInv, LiveOK
<1>2. /\ \A x \in removeList : life'[x] = "freed"
      /\ \A o \in Objs \ removeList :
             \/ life'[o] = life[o]
             \/ o \in Players /\ life[o] = "unborn" /\ life'[o] = "live"
  BY <1>1, PlayersAreObjs DEF HandlePlayerJoin, Life
<1>3. \A v \in Players : life[v] = "live" => mgr'.extent[v] = mgr.extent[v]
  <2>1. ASSUME NEW v \in Players, life[v] = "live"
        PROVE  Made(p).extent[v] = mgr.extent[v]
    <3>1. CASE life[p] = "live"
      BY <3>1 DEF Made
    <3>2. CASE life[p] # "live"
      <4>1. mgr \in MgrType /\ Names(mgr) /\ p \notin mgr.table
        BY <3>2 DEF IInv, LiveInv, LiveOK
      <4>2. v # p /\ v \in Objs /\ 0 \in Nat /\ Made(p) = AddObject(mgr, p, 0)
        BY <2>1, <3>2, PlayersAreObjs DEF Made
      <4> QED
        BY <1>1, <4>1, <4>2, Adding
    <3> QED
      BY <3>1, <3>2
  <2>2. Made(p) \in MgrType /\ Names(Made(p))
    BY MadePlayer DEF LiveOK
  <2>3. \A q \in Objs \ removeList : mgr'.extent[q] = Made(p).extent[q]
    BY <2>2, Removing DEF HandlePlayerJoin
  <2>4. \A v \in Players : v \in Objs /\ v \notin removeList
    BY <1>1, PlayersAreObjs, KindAssumption
  <2> QED
    BY <2>1, <2>3, <2>4
<1>4. \A o \in Objs \ removeList : place'[o] = place[o]
  BY DEF HandlePlayerJoin, Unplaced
<1>5. /\ \A v \in Players : v \in todo' \/ place'[v] = place[v]
      /\ \A x \in Items \ removeList : place'[x] = place[x]
  BY <1>1, <1>4, PlayersAreObjs, KindAssumption
<1>6. /\ moved \subseteq moved' /\ joined' = joined \union {p}
      /\ queue' = MutualSight(players') /\ removeList' = {}
      /\ UNCHANGED <<inv, foreign, todo>> /\ ~crashed'
      /\ players' = [players EXCEPT ![Made(p).extent[p]] = p]
      /\ todo = {}
  BY DEF HandlePlayerJoin, clock, history, InSessions, Turns
<1>7. Absent' /\ Born' /\ Carried' /\ Gone' /\ InSight' /\ Dangling'
  BY <1>2, <1>3, <1>5, <1>6, DeletingReach
<1>8. Shown'
  <2>1. players \in [Extents -> Players \union {None}]
    BY DEF IInv, LiveInv, LiveOK
  <2>2. Accessible(players') \subseteq Accessible(players) \union {p}
    BY <1>6, <2>1 DEF Accessible
  <2> QED
    BY <1>6, <2>2 DEF Reachable, Shown
<1>9. \A m \in Missiles : life[m] = "live" => life'[m] = "live"
  BY <1>1, <1>2, PlayersAreObjs, KindAssumption
<1> QED
  BY <1>6, <1>7, <1>8, <1>9, Framed DEF Reachable

LEMMA QuickStepReach ==
    ASSUME IInv, Reachable, Turns, NEW to \in [Players -> Places], QuickStep(to),
           LiveInv'
    PROVE  Reachable'
<1>1. /\ removeList \subseteq Items /\ life \in [Objs -> Life]
      /\ \A v \in Players : v \in Objs /\ v \notin removeList
  BY PlayersAreObjs, KindAssumption DEF IInv, LiveInv, LiveOK
<1>2. /\ \A x \in removeList : life'[x] = "freed"
      /\ \A o \in Objs \ removeList : life'[o] = life[o]
  BY <1>1, PlayersAreObjs DEF QuickStep
<1>3. \A v \in Players : life[v] = "live" => mgr'.extent[v] = mgr.extent[v]
  BY <1>1, Removing DEF QuickStep, IInv, LiveInv, LiveOK
<1>4. \A v \in Players :
        life[v] = "live" => v \in todo' \/ place'[v] = place[v]
  BY DEF QuickStep, Turns
<1>5. \A x \in Items \ removeList : place'[x] = place[x]
  BY <1>1, PlayersAreObjs, KindAssumption DEF QuickStep
<1>6. /\ moved \subseteq moved' /\ joined \subseteq joined'
      /\ queue' = MutualSight(players') /\ removeList' = {}
      /\ UNCHANGED <<inv, foreign, players, joined>> /\ ~crashed'
      /\ todo' = updates /\ todo = {}
  BY DEF QuickStep, sessions, history, InSessions, Turns
<1>7. Absent' /\ Born' /\ Carried' /\ Gone' /\ InSight' /\ Dangling'
  BY <1>2, <1>3, <1>4, <1>5, <1>6, DeletingReach
<1>8. ToDo'
  BY <1>1, <1>2, <1>6, PlayersAreObjs, KindAssumption
  DEF ToDo, IInv, LiveInv, LiveOK
<1> QED
  BY <1>6, <1>7, <1>8, Framed DEF Reachable

LEMMA ShortReach ==
    ASSUME IInv, Reachable, NEW p \in Players, HandlePlayerJoinShort(p)
    PROVE  Reachable'
<1>1. /\ life[p] = "unborn" /\ life' = [life EXCEPT ![p] = "live"]
      /\ mgr' = AddObject(mgr, p, 0)
      /\ UNCHANGED <<place, inv, players, removeList, queue, joined, todo,
                     foreign, moved, crashed>>
      /\ ~crashed
  BY DEF HandlePlayerJoinShort, clock, history, InSessions
<1>2. /\ queue[p] = {} /\ inv[p] = {}
      /\ \A v \in Players : p \notin queue[v] /\ p \notin inv[v]
  BY <1>1 DEF Reachable, Absent, Born
<1>3. \A q \in Objs \ {p} : life'[q] = life[q] /\ mgr'.extent[q] = mgr.extent[q]
  <2>1. mgr \in MgrType /\ Names(mgr) /\ p \notin mgr.table /\ 0 \in Nat
        /\ life \in [Objs -> Life]
    BY <1>1 DEF IInv, LiveInv, LiveOK
  <2> QED
    BY <1>1, <2>1, Adding, PlayersAreObjs
<1>4. /\ queue \in [Players -> SUBSET Objs] /\ inv \in [Players -> SUBSET Items]
      /\ p \notin Items /\ p \notin Missiles /\ p \notin removeList
      /\ life[p] # "live"
  BY <1>1, KindAssumption DEF IInv, LiveInv, LiveOK, RestOK
<1>5. Absent' /\ Born'
  BY <1>1, <1>2, <1>3, <1>4, PlayersAreObjs DEF Reachable, Absent, Born
<1>6. Carried' /\ Gone'
  BY <1>1, <1>3, <1>4, PlayersAreObjs DEF Reachable, Carried, Gone
<1>7. InSight'
  BY <1>1, <1>2, <1>3, <1>4, PlayersAreObjs DEF Reachable, InSight, Sees
<1>8. Dangling'
  BY <1>1, <1>2, <1>3, <1>4, PlayersAreObjs DEF Reachable, Dangling, Excused
<1>9. \A m \in Missiles : life[m] = "live" => life'[m] = "live"
  BY <1>3, <1>4, PlayersAreObjs
<1> QED
  BY <1>1, <1>5, <1>6, <1>7, <1>8, <1>9, Framed DEF Reachable

LEMMA CastReach ==
    ASSUME IInv, Reachable, NEW p \in Players, NEW m \in Missiles,
           CastProjectile(p, m)
    PROVE  Reachable'
<1>1. /\ life[m] = "unborn" /\ life' = [life EXCEPT ![m] = "live"]
      /\ place' = [place EXCEPT ![m] = place[p]]
      /\ mgr' = AddObject(mgr, m, 0)
      /\ UNCHANGED <<inv, players, removeList, queue, joined, todo, foreign,
                     moved, crashed>>
      /\ ~crashed
  BY DEF CastProjectile, sessions, clock, history, Handling, Alive, InSessions
<1>2. /\ queue \in [Players -> SUBSET Objs] /\ inv \in [Players -> SUBSET Items]
      /\ m \notin Items /\ m \notin Players /\ removeList \subseteq Items
      /\ life \in [Objs -> Life] /\ place \in [Objs -> Places \union {Pack}]
      /\ m \in Objs
  BY KindAssumption, PlayersAreObjs DEF IInv, LiveInv, LiveOK, RestOK
<1>3. \A q \in Objs \ {m} :
        /\ life'[q] = life[q] /\ place'[q] = place[q]
        /\ mgr'.extent[q] = mgr.extent[q]
  <2>1. mgr \in MgrType /\ Names(mgr) /\ m \notin mgr.table /\ 0 \in Nat
    BY <1>1 DEF IInv, LiveInv, LiveOK
  <2> QED
    BY <1>1, <1>2, <2>1, Adding
<1>4. \A v \in Players : m \notin queue[v] /\ m \notin inv[v]
  BY <1>1 DEF Reachable, Born
<1>5. Absent' /\ Born'
  BY <1>1, <1>2, <1>3, <1>4, PlayersAreObjs DEF Reachable, Absent, Born
<1>6. Carried' /\ Gone'
  BY <1>1, <1>2, <1>3, PlayersAreObjs DEF Reachable, Carried, Gone
<1>7. InSight'
  BY <1>1, <1>2, <1>3, PlayersAreObjs DEF Reachable, InSight, Sees
<1>8. Dangling'
  BY <1>1, <1>2, <1>3, <1>4, PlayersAreObjs DEF Reachable, Dangling, Excused
<1>9. \A n \in Missiles : life[n] = "live" => life'[n] = "live"
  BY <1>1, <1>3, PlayersAreObjs
<1> QED
  BY <1>1, <1>5, <1>6, <1>7, <1>8, <1>9, Framed DEF Reachable

(* A player is somewhere else, and shown there.                            *)
LEMMA MovedReach ==
    ASSUME IInv, Reachable, NEW p \in Players, life[p] = "live",
           \A o \in Objs \ {p} : life[o] = "live" => place'[o] = place[o],
           p \in moved' \/ place'[p] = place[p] \/ queue[p] = {},
           moved \subseteq moved',
           \A v \in Players :
             /\ queue'[v] \subseteq queue[v] \union {p}
             /\ life[v] # "live" => queue'[v] = {},
           UNCHANGED <<life, inv, mgr, removeList, joined, todo, foreign>>
    PROVE  Absent' /\ Born' /\ Carried' /\ Gone' /\ InSight' /\ Dangling'
<1>1. /\ inv \in [Players -> SUBSET Items] /\ p \notin Items
      /\ removeList \subseteq Items /\ \A x \in removeList : life[x] = "live"
  BY KindAssumption DEF IInv, LiveInv, LiveOK, RestOK
<1>2. Absent' /\ Born'
  BY DEF Reachable, Absent, Born
<1>3. Carried' /\ Gone'
  BY <1>1, PlayersAreObjs DEF Reachable, Carried, Gone
<1>4. InSight'
  <2>1. ASSUME NEW v \in Players, NEW x \in queue'[v], x \in Items,
               life[x] = "live", x \notin foreign
        PROVE  Sees(v, x)'
    <3>1. x \in queue[v] /\ place'[x] = place[x]
      BY <1>1, <2>1, PlayersAreObjs
    <3>2. v \in moved' \/ place'[v] = place[v]
      <4>1. life[v] = "live"
        BY <2>1
      <4> QED
        BY <3>1, <4>1, PlayersAreObjs
    <3>3. Sees(v, x)
      BY <2>1, <3>1 DEF Reachable, InSight
    <3> QED
      BY <3>1, <3>2, <3>3 DEF Sees
  <2> QED
    BY <2>1 DEF InSight
<1>5. Dangling'
  BY DEF Reachable, Dangling, Excused
<1> QED
  BY <1>2, <1>3, <1>4, <1>5

LEMMA TeleportReach ==
    ASSUME IInv, Reachable, NEW p \in Players, NEW q \in Places, Teleport(p, q)
    PROVE  Reachable'
<1>1. /\ life[p] = "live" /\ ~crashed'
      /\ place' = [place EXCEPT ![p] = q] /\ queue' = SetPosition(p, q)
      /\ moved' = Moved(p, q)
      /\ UNCHANGED <<life, inv, mgr, players, removeList, joined, todo, foreign>>
  BY DEF Teleport, Alive, InSessions, accessor, sessions, clock
<1>2. place \in [Objs -> Places \union {Pack}]
  BY DEF IInv, RestOK
<1>3. /\ \A o \in Objs \ {p} : place'[o] = place[o]
      /\ p \in moved' \/ place'[p] = place[p] \/ queue[p] = {}
      /\ moved \subseteq moved'
  BY <1>1, <1>2, PlayersAreObjs DEF Moved
<1>4. \A v \in Players :
        /\ queue'[v] \subseteq queue[v] \union {p}
        /\ life[v] # "live" => queue'[v] = {}
  BY <1>1, Positioned
<1>5. Absent' /\ Born' /\ Carried' /\ Gone' /\ InSight' /\ Dangling'
  BY <1>1, <1>3, <1>4, MovedReach
<1> QED
  BY <1>1, <1>5, Framed DEF Reachable

(* Respawn, which makes the kit and puts it away in one step.              *)
LEMMA RespawnReach ==
    ASSUME IInv, Reachable, NEW p \in Players, life[p] = "live", ~crashed,
           NEW K \in Kits, NEW q \in Queues, Respawn(p, K, q),
           moved \ {p} \subseteq moved',
           \/ q[p] \subseteq {p}
           \/ moved \subseteq moved' /\ (p \in moved' \/ place[p] = Spawn),
           \A v \in Players : /\ q[v] \subseteq queue[v] \union {p}
                              /\ life[v] # "live" => q[v] = {}
    PROVE  Reachable'
<1>1. /\ queue' = q /\ inv' = [inv EXCEPT ![p] = @ \union K]
      /\ ~crashed'
      /\ UNCHANGED <<players, removeList, joined, todo, foreign>>
  BY DEF Respawn, accessor, clock
<1>2. /\ \A o \in Objs \ K : life'[o] = life[o]
      /\ \A o \in K : o \in Objs => life'[o] = "live" /\ place'[o] = Pack
      /\ \A o \in Objs \ (K \union {p}) : place'[o] = place[o]
      /\ place'[p] = Spawn
  <2>1. K \subseteq Items /\ p \notin K /\ p \in Objs
    BY PlayersAreObjs, KindAssumption DEF Kits, NewItems
  <2>2. life' = [o \in Objs |-> IF o \in K THEN "live" ELSE life[o]]
        /\ place' = [o \in Objs |-> IF o = p THEN Spawn
                                    ELSE IF o \in K THEN Pack ELSE place[o]]
    BY DEF Respawn
  <2>3. \A o \in K : o # p
    BY <2>1
  <2> QED
    BY <2>1, <2>2, <2>3
<1>3. K \subseteq Items /\ \A x \in K : x \in Objs /\ life[x] = "unborn"
  BY PlayersAreObjs DEF Kits, NewItems
<1>4. \A v \in Players : mgr'.extent[v] = mgr.extent[v]
  <2>1. CASE K = {}
    BY <2>1 DEF Respawn
  <2>2. CASE K # {}
    <3>1. PICK x \in NewItems : K = {x}
      BY <2>2 DEF Kits
    <3>2. mgr' = AddObject(mgr, x, 0) /\ 0 \in Nat
      <4>1. (CHOOSE y \in K : TRUE) = x
        BY <3>1
      <4> QED
        BY <2>2, <4>1 DEF Respawn
    <3>3. /\ mgr \in MgrType /\ Names(mgr) /\ x \notin mgr.table /\ x \in Objs
          /\ \A v \in Players : v \in Objs \ {x}
      BY PlayersAreObjs, KindAssumption DEF NewItems, IInv, LiveInv, LiveOK
    <3> QED
      BY <3>2, <3>3, Adding
  <2> QED
    BY <2>1, <2>2
<1>5. \A v \in Players : K \intersect queue[v] = {} /\ K \intersect inv[v] = {}
  BY <1>3 DEF Reachable, Born
<1>6. /\ inv \in [Players -> SUBSET Items]
      /\ removeList \subseteq Items /\ \A x \in removeList : life[x] = "live"
      /\ \A v \in Players : v \in Objs /\ v \notin Items /\ v \notin K
      /\ \A m \in Missiles : m \in Objs /\ m \notin K
      /\ \A v \in Players : queue[v] \subseteq Objs
      /\ \A v \in Players \ {p} : inv'[v] = inv[v]
      /\ inv'[p] = inv[p] \union K
  BY <1>1, <1>3, KindAssumption, PlayersAreObjs DEF IInv, LiveInv, LiveOK, RestOK
<1>7. Absent'
  BY <1>1, <1>2, <1>6 DEF Reachable, Absent
<1>8. Born'
  <2>1. \A v \in Players : \A o \in queue'[v] \union inv'[v] : life'[o] # "unborn"
    BY <1>1, <1>2, <1>3, <1>6, PlayersAreObjs DEF Reachable, Born
  <2> QED
    BY <2>1 DEF Born
<1>9. Carried'
  <2>1. ASSUME NEW v \in Players, NEW x \in inv'[v], life'[x] = "live"
        PROVE  place'[x] = Pack
    <3>1. CASE x \in K
      BY <3>1, <1>2, <1>3
    <3>2. CASE x \notin K
      <4>1. x \in inv[v] /\ x \in Objs /\ x # p
        BY <3>2, <1>6, PlayersAreObjs
      <4> QED
        BY <4>1, <3>2, <2>1, <1>2 DEF Reachable, Carried
    <3> QED
      BY <3>1, <3>2
  <2>2. ASSUME NEW v \in Players, NEW w \in Players, v # w
        PROVE  inv'[v] \intersect inv'[w] = {}
    BY <2>2, <1>5, <1>6 DEF Reachable, Carried
  <2> QED
    BY <2>1, <2>2 DEF Carried
<1>10. Gone'
  <2>1. ASSUME NEW x \in removeList, x \notin foreign
        PROVE  place'[x] = Pack /\ \A v \in Players : x \notin inv'[v]
    <3>1. x \notin K /\ x # p /\ x \in Objs
      BY <1>3, <1>6, PlayersAreObjs
    <3> QED
      BY <2>1, <3>1, <1>2, <1>6 DEF Reachable, Gone
  <2> QED
    BY <2>1, <1>1 DEF Gone
<1>11. InSight'
  <2>1. ASSUME NEW v \in Players, NEW x \in queue'[v], x \in Items,
               life'[x] = "live", x \notin foreign
        PROVE  Sees(v, x)'
    <3>1. x \in queue[v] /\ x \notin K /\ x \in Objs /\ x # p
      BY <1>1, <1>5, <1>6, <2>1, PlayersAreObjs
    <3>2. life[x] = "live" /\ place'[x] = place[x]
      BY <1>2, <2>1, <3>1
    <3>3. Sees(v, x)
      BY <2>1, <3>1, <3>2 DEF Reachable, InSight
    <3>4. /\ v \in moved => v \in moved'
          /\ v \in moved' \/ place'[v] = place[v]
      <4>1. CASE v = p
        <5>1. ~(q[p] \subseteq {p})
          BY <1>1, <2>1, <3>1, <4>1
        <5> QED
          BY <1>2, <4>1, <5>1
      <4>2. CASE v # p
        BY <1>2, <1>6, <4>2
      <4> QED
        BY <4>1, <4>2
    <3> QED
      BY <1>1, <1>4, <3>2, <3>3, <3>4 DEF Sees
  <2> QED
    BY <1>1, <2>1 DEF InSight
<1>12. Dangling'
  <2>1. \A o \in Objs : life'[o] = "freed" => life[o] = "freed"
    BY <1>2
  <2>2. ASSUME NEW v \in Players, NEW o \in queue'[v], life'[o] = "freed",
               o \notin Players
        PROVE  v \in moved => v \in moved'
    BY <1>1, <2>2
  <2>3. ASSUME NEW v \in Players, NEW o \in queue'[v], life'[o] = "freed"
        PROVE  Excused(v, o)'
    <3>1. o \in Players \/ (o \in queue[v] /\ life[o] = "freed")
      BY <1>1, <1>6, <2>1, <2>3
    <3>2. o \in Players \/ (v \in moved => v \in moved')
      BY <2>2, <2>3
    <3> QED
      BY <1>1, <1>4, <2>3, <3>1, <3>2 DEF Reachable, Dangling, Excused
  <2>4. ASSUME NEW v \in Players, NEW x \in inv'[v], life'[x] = "freed"
        PROVE  x \in foreign
    <3>1. x \notin K
      BY <2>4, <1>2, <1>3
    <3>2. x \in inv[v] /\ x \in Objs
      BY <3>1, <2>4, <1>6, PlayersAreObjs
    <3> QED
      BY <2>1, <2>4, <3>2 DEF Reachable, Dangling
  <2> QED
    BY <1>1, <2>3, <2>4 DEF Dangling
<1>13. \A m \in Missiles : life[m] = "live" => life'[m] = "live"
  BY <1>2, <1>6
<1> QED
  BY <1>1, <1>7, <1>8, <1>9, <1>10, <1>11, <1>12, <1>13, Framed DEF Reachable

LEMMA ReadyReach ==
    ASSUME IInv, Reachable, NEW p \in Players, NEW K \in Kits,
           HandleClientReady(p, K)
    PROVE  Reachable'
<1> DEFINE q == [SetPosition(p, Spawn) EXCEPT ![p] = {}]
<1>1. q \in Queues
  BY SetPositionType, PlayersAreObjs DEF Queues
<1>2. /\ Respawn(p, K, q) /\ life[p] = "live" /\ ~crashed
      /\ moved' = moved \ {p}
  BY DEF HandleClientReady, Handling, Alive, InSessions
<1>3. \A v \in Players : /\ q[v] \subseteq queue[v] \union {p}
                         /\ life[v] # "live" => q[v] = {}
  <2>1. SetPosition(p, Spawn) \in Queues
    BY SetPositionType, PlayersAreObjs
  <2>2. \A v \in Players \ {p} : q[v] = SetPosition(p, Spawn)[v]
    BY <2>1 DEF Queues
  <2>3. q[p] \subseteq {p}
    BY <2>1 DEF Queues
  <2> HIDE DEF q
  <2> QED
    BY <1>2, <2>2, <2>3, Positioned
<1>4. q[p] \subseteq {p}
  <2>1. SetPosition(p, Spawn) \in Queues
    BY SetPositionType, PlayersAreObjs
  <2> QED
    BY <2>1 DEF Queues
<1> HIDE DEF q
<1> QED
  BY <1>1, <1>2, <1>3, <1>4, RespawnReach

LEMMA AttackReach ==
    ASSUME IInv, Reachable, NEW p \in Players, NEW K \in Kits, Attack(p, K)
    PROVE  Reachable'
<1>1. SetPosition(p, Spawn) \in Queues
  BY SetPositionType, PlayersAreObjs
<1>2. /\ Respawn(p, K, SetPosition(p, Spawn))
      /\ life[p] = "live" /\ ~crashed /\ moved' = Moved(p, Spawn)
  BY DEF Attack, Handling, Alive, InSessions
<1> DEFINE q == SetPosition(p, Spawn)
<1>3. \A v \in Players : /\ q[v] \subseteq queue[v] \union {p}
                         /\ life[v] # "live" => q[v] = {}
  BY Positioned
<1> HIDE DEF q
<1>4. /\ moved \subseteq moved'
      /\ q[p] \subseteq {p} \/ p \in moved' \/ place[p] = Spawn
  BY <1>2, <1>3 DEF Moved
<1> QED
  BY <1>1, <1>2, <1>3, <1>4, RespawnReach DEF q

LEMMA LogoutReach ==
    ASSUME IInv, Reachable, NEW p \in Players, LogoutPlayer(p)
    PROVE  Reachable'
<1>1. /\ life[p] = "live" /\ ~crashed'
      /\ life' = [life EXCEPT ![p] = "freed"]
      /\ players' = [players EXCEPT ![mgr.extent[p]] = None]
      /\ mgr' = RemoveObjects(mgr, {p})
      /\ inv' = [inv EXCEPT ![p] = {}] /\ queue' = [queue EXCEPT ![p] = {}]
      /\ joined' = joined \ {p} /\ place' = Unplaced({p}) /\ moved' = moved \ {p}
      /\ UNCHANGED <<removeList, todo, foreign>>
  BY DEF LogoutPlayer, Alive, InSessions, clock
<1>2. /\ life \in [Objs -> Life] /\ inv \in [Players -> SUBSET Items]
      /\ queue \in [Players -> SUBSET Objs]
      /\ removeList \subseteq Items
      /\ p \in Objs /\ p \notin Items /\ p \notin Missiles
  BY PlayersAreObjs, KindAssumption DEF IInv, LiveInv, LiveOK, RestOK
<1>3. \A o \in Objs \ {p} : /\ life'[o] = life[o] /\ place'[o] = place[o]
                            /\ mgr'.extent[o] = mgr.extent[o]
  BY <1>1, <1>2, Removing DEF Unplaced, IInv, LiveInv, LiveOK
<1>4. /\ \A v \in Players \ {p} : inv'[v] = inv[v] /\ queue'[v] = queue[v]
      /\ inv'[p] = {} /\ queue'[p] = {} /\ life'[p] = "freed"
      /\ \A v \in Players : inv'[v] \subseteq inv[v] /\ queue'[v] \subseteq queue[v]
  BY <1>1, <1>2
<1>5. Absent'
  BY <1>3, <1>4, PlayersAreObjs DEF Reachable, Absent
<1>6. Born'
  <2>1. \A o \in Objs : life[o] # "unborn" => life'[o] # "unborn"
    BY <1>3, <1>4
  <2> QED
    BY <1>2, <1>4, <2>1, PlayersAreObjs DEF Reachable, Born
<1>7. Carried' /\ Gone'
  <2>1. \A x \in Items : life'[x] = life[x] /\ place'[x] = place[x]
    BY <1>2, <1>3, PlayersAreObjs
  <2>2. \A v \in Players : \A x \in inv'[v] : x \in Items /\ x \in inv[v]
    BY <1>2, <1>4
  <2>3. Carried'
    BY <1>4, <2>1, <2>2 DEF Reachable, Carried
  <2>4. Gone'
    BY <1>1, <1>2, <1>4, <2>1 DEF Reachable, Gone
  <2> QED
    BY <2>3, <2>4
<1>8. InSight'
  <2>1. ASSUME NEW v \in Players, NEW x \in queue'[v], x \in Items,
               life'[x] = "live", x \notin foreign
        PROVE  Sees(v, x)'
    <3>1. v # p /\ x \in queue[v] /\ v \in Objs /\ x \in Objs /\ x # p
      BY <1>2, <1>4, <2>1, PlayersAreObjs
    <3>2. Sees(v, x)
      BY <1>3, <2>1, <3>1 DEF Reachable, InSight
    <3> QED
      BY <1>1, <1>3, <3>1, <3>2 DEF Sees
  <2> QED
    BY <1>1, <2>1 DEF InSight
<1>9. Dangling'
  <2>1. ASSUME NEW v \in Players, NEW o \in queue'[v], life'[o] = "freed"
        PROVE  Excused(v, o)'
    <3>1. v # p /\ o \in queue[v] /\ v \in Objs /\ o \in Objs
      BY <1>2, <1>4, <2>1, PlayersAreObjs
    <3>2. CASE o = p
      BY <3>2 DEF Excused
    <3>3. CASE o # p
      <4>1. Excused(v, o)
        BY <1>3, <2>1, <3>1, <3>3 DEF Reachable, Dangling
      <4> QED
        BY <1>1, <1>3, <3>1, <4>1 DEF Excused
    <3> QED
      BY <3>2, <3>3
  <2>2. ASSUME NEW v \in Players, NEW x \in inv'[v], life'[x] = "freed"
        PROVE  x \in foreign
    <3>1. x \in inv[v] /\ x \in Objs /\ x # p
      BY <1>2, <1>4, <2>2, PlayersAreObjs
    <3> QED
      BY <1>3, <2>2, <3>1 DEF Reachable, Dangling
  <2> QED
    BY <1>1, <2>1, <2>2 DEF Dangling
<1>10. Shown'
  <2>1. \A e \in Extents : players[e] # None => mgr.extent[players[e]] = e
    BY DEF IInv, LiveInv, LiveOK
  <2>2. players \in [Extents -> Players \union {None}]
        /\ mgr.extent[p] \in Extents
    BY <1>2 DEF IInv, LiveInv, LiveOK, MgrType
  <2>3. Accessible(players') \subseteq Accessible(players) \ {p}
    BY <1>1, <2>1, <2>2 DEF Accessible
  <2> QED
    BY <1>1, <2>3 DEF Reachable, Shown
<1>11. \A m \in Missiles : life[m] = "live" => life'[m] = "live"
  BY <1>2, <1>3, PlayersAreObjs
<1> QED
  BY <1>1, <1>5, <1>6, <1>7, <1>8, <1>9, <1>10, <1>11, Framed DEF Reachable

LEMMA UpdatePlayerReach ==
    ASSUME IInv, Reachable, NEW p \in Players, NEW dies \in BOOLEAN,
           UpdatePlayer(p, dies)
    PROVE  Reachable'
<1> DEFINE dropped == IF dies THEN inv[p] ELSE {}
<1>1. /\ place' = [o \in Objs |-> IF o \in dropped THEN place[p] ELSE place[o]]
      /\ queue' = [v \in Players |->
                     IF v = p THEN {}
                     ELSE IF v \in PlayersCanSee(place[p])
                          THEN queue[v] \union dropped ELSE queue[v]]
      /\ inv' = [inv EXCEPT ![p] = @ \ dropped]
      /\ moved' = moved \ {p} /\ todo' = todo \ {p} /\ ~crashed'
      /\ \A x \in dropped : life[x] = "live"
      /\ UNCHANGED <<life, mgr, updates, players, removeList, joined, foreign>>
  BY DEF UpdatePlayer, Updating, accessor
<1>2. dropped \subseteq inv[p]
  OBVIOUS
<1> HIDE DEF dropped
<1>3. /\ inv \in [Players -> SUBSET Items]
      /\ dropped \subseteq Items /\ dropped \subseteq Objs
      /\ \A v \in Players : v \in Objs /\ v \notin dropped
      /\ removeList \subseteq Items
      /\ \A x \in removeList \ foreign : x \notin dropped
  BY <1>2, PlayersAreObjs, KindAssumption
  DEF IInv, LiveInv, LiveOK, RestOK, Reachable, Gone
<1>4. /\ \A o \in Objs \ dropped : place'[o] = place[o]
      /\ \A o \in dropped : place'[o] = place[p]
      /\ \A v \in Players : place'[v] = place[v]
      /\ \A v \in Players : inv'[v] \subseteq inv[v] \ dropped
  <2>1. /\ \A o \in Objs \ dropped : place'[o] = place[o]
        /\ \A o \in dropped : place'[o] = place[p]
        /\ \A v \in Players : place'[v] = place[v]
    BY <1>1, <1>3
  <2>2. \A v \in Players \ {p} : inv[v] \intersect dropped = {}
    BY <1>2 DEF Reachable, Carried
  <2>3. \A v \in Players : inv'[v] \subseteq inv[v] \ dropped
    BY <1>1, <1>3, <2>2
  <2> QED
    BY <2>1, <2>3
<1>5. \A v \in Players :
        /\ queue'[v] \subseteq queue[v] \union dropped
        /\ queue'[p] = {}
        /\ \A o \in queue'[v] :
             \/ o \in queue[v]
             \/ v \in joined /\ <<place[v], place[p]>> \in Near /\ life[v] = "live"
  <2>1. \A v \in PlayersCanSee(place[p]) : life[v] = "live"
    BY Seers DEF IInv, LiveInv, LiveOK
  <2>2. \A v \in PlayersCanSee(place[p]) :
          v \in joined /\ <<place[v], place[p]>> \in Near
    BY Seers
  <2> QED
    BY <1>1, <2>1, <2>2
<1>6. Absent' /\ Born'
  <2>1. Absent'
    BY <1>1, <1>4, <1>5 DEF Reachable, Absent
  <2>2. Born'
    BY <1>1, <1>4, <1>5 DEF Reachable, Born
  <2> QED
    BY <2>1, <2>2
<1>7. Carried'
  <2>1. \A v \in Players : \A x \in inv'[v] :
          x \in inv[v] /\ x \in Objs \ dropped
    BY <1>3, <1>4, PlayersAreObjs
  <2> QED
    BY <1>1, <1>4, <2>1 DEF Reachable, Carried
<1>8. Gone'
  BY <1>1, <1>3, <1>4, PlayersAreObjs DEF Reachable, Gone
<1>9. InSight'
  <2>1. ASSUME NEW v \in Players, NEW x \in queue'[v], x \in Items,
               life[x] = "live", x \notin foreign
        PROVE  Sees(v, x)'
    <3>1. v # p /\ x \in Objs
      BY <1>5, <2>1, PlayersAreObjs
    <3>2. CASE x \in dropped /\ x \in queue[v]
      <4>1. place[x] = Pack
        BY <1>2, <2>1, <3>2 DEF Reachable, Carried
      <4>2. v \in moved \/ mgr.extent[v] = 0 \/ v \in todo
        BY <2>1, <3>2, <4>1, HiddenInPack
      <4> QED
        BY <1>1, <3>1, <4>2 DEF Sees
    <3>3. CASE x \in dropped /\ x \notin queue[v]
      <4>1. v \in joined /\ <<place[v], place[p]>> \in Near
        BY <1>5, <2>1, <3>3
      <4> QED
        BY <1>1, <1>4, <3>3, <4>1 DEF Sees
    <3>4. CASE x \notin dropped
      <4>1. x \in queue[v] /\ place'[x] = place[x]
        BY <1>4, <1>5, <2>1, <3>1, <3>4
      <4>2. Sees(v, x)
        BY <2>1, <4>1 DEF Reachable, InSight
      <4> QED
        BY <1>1, <1>4, <3>1, <4>1, <4>2 DEF Sees
    <3> QED
      BY <3>2, <3>3, <3>4
  <2> QED
    BY <1>1, <2>1 DEF InSight
<1>10. Dangling'
  <2>1. ASSUME NEW v \in Players, NEW o \in queue'[v], life[o] = "freed"
        PROVE  Excused(v, o)'
    <3>1. v # p /\ o \in queue[v]
      BY <1>1, <1>5, <2>1
    <3> QED
      BY <1>1, <2>1, <3>1 DEF Reachable, Dangling, Excused
  <2>2. ASSUME NEW v \in Players, NEW x \in inv'[v], life[x] = "freed"
        PROVE  x \in foreign
    BY <1>4, <2>2 DEF Reachable, Dangling
  <2> QED
    BY <1>1, <2>1, <2>2 DEF Dangling
<1> QED
  BY <1>1, <1>6, <1>7, <1>8, <1>9, <1>10, Framed DEF Reachable

LEMMA UpdateMissileReach ==
    ASSUME IInv, Reachable, NEW m \in Missiles, UpdateMissile(m)
    PROVE  Reachable'
<1>1. /\ queue' = SetPosition(m, place[m]) /\ todo' = todo \ {m} /\ ~crashed'
      /\ m \in todo
      /\ UNCHANGED <<life, place, inv, mgr, players, removeList, joined, foreign,
                     moved>>
  BY DEF UpdateMissile, Updating, objects, accessor, sessions, history
<1>2. life[m] = "live" /\ m \notin Items /\ m \notin Players
  BY <1>1, KindAssumption DEF Reachable, ToDo
<1>3. \A v \in Players : /\ queue'[v] \subseteq queue[v] \union {m}
                         /\ life[v] # "live" => queue'[v] = {}
  BY <1>1, Positioned
<1>4. Absent' /\ Born'
  BY <1>1, <1>2, <1>3 DEF Reachable, Absent, Born
<1>5. Carried' /\ Gone'
  BY <1>1 DEF Reachable, Carried, Gone
<1>6. InSight'
  BY <1>1, <1>2, <1>3 DEF Reachable, InSight, Sees
<1>7. Dangling'
  BY <1>1, <1>2, <1>3 DEF Reachable, Dangling, Excused
<1> QED
  BY <1>1, <1>4, <1>5, <1>6, <1>7, Framed DEF Reachable

(* The crash itself is excused, and nothing happens after it.              *)
LEMMA UseFreedReach ==
    ASSUME IInv, Reachable, NEW p \in Players, UseFreed(p)
    PROVE  Reachable'
<1>1. \E o \in queue[p] \union inv[p] : life[o] = "freed" /\ Excused(p, o)
  <2>1. \E o \in queue[p] \union inv[p] : life[o] = "freed"
    BY DEF UseFreed, Intact
  <2> QED
    BY <2>1 DEF Reachable, Dangling, Excused
<1>2. UNCHANGED <<life, place, inv, mgr, players, removeList, queue, joined,
                  todo, foreign, moved>>
  BY DEF UseFreed, objects, accessor, sessions, clock
<1> QED
  BY <1>1, <1>2 DEF Reachable, Absent, Born, Carried, Gone, InSight, Sees,
     Dangling, Excused, Shown, ToDo, Crash

LEMMA UnchangedReach ==
    ASSUME Reachable,
           UNCHANGED <<life, place, inv, mgr, players, removeList, queue, joined,
                       todo, foreign, moved, crashed>>
    PROVE  Reachable'
BY DEF Reachable, Absent, Born, Carried, Gone, InSight, Sees, Dangling, Excused,
   Shown, ToDo, Crash

LEMMA InitTurns == Init => Turns
BY PlayersAreObjs DEF Init, Turns

(* Nobody is due outside a round, and every player has an Update in it.    *)
LEMMA NextTurns ==
    ASSUME IInv, IInv', Turns, [Next]_vars
    PROVE  Turns'
<1>0. life \in [Objs -> Life] /\ removeList \subseteq Items
  BY DEF IInv, LiveInv, LiveOK
<1>1. CASE Loaded \/ EndUpdate \/ UNCHANGED vars
  BY <1>1 DEF Loaded, EndUpdate, Turns, vars, objects, accessor, clock
<1>2. ASSUME NEW i \in DOMAIN MapFile, Load(i) PROVE Turns'
  <2>1. MapFile[i].obj \notin Players
    <3>1. MapFile[i] \in [obj : Items \union Fixtures, extent : Nat, at : Places]
      BY ExtentAssumption, ElementOfSeq
    <3>2. \A r \in [obj : Items \union Fixtures, extent : Nat, at : Places] :
            r.obj \notin Players
      BY KindAssumption
    <3> QED
      BY <3>1, <3>2
  <2> QED
    BY <1>0, <1>2, <2>1, PlayersAreObjs DEF Load, Turns, accessor, clock
<1>3. ASSUME NEW p \in Players, Handle(p) PROVE Turns'
  <2>1. p \in Objs /\ Players \subseteq Objs /\ Players \intersect Items = {}
    BY PlayersAreObjs, KindAssumption
  <2>2. CASE HandlePlayerJoin(p)
    BY <1>0, <2>1, <2>2 DEF HandlePlayerJoin, Turns, clock
  <2>3. CASE HandlePlayerJoinShort(p)
    BY <1>0, <2>1, <2>3 DEF HandlePlayerJoinShort, Turns, clock
  <2>4. ASSUME NEW K \in Kits, HandleClientReady(p, K) \/ Attack(p, K)
        PROVE  Turns'
    <3>1. K \intersect Players = {}
      BY <2>1 DEF Kits, NewItems
    <3> QED
      BY <1>0, <2>1, <2>4, <3>1
      DEF HandleClientReady, Attack, Respawn, Turns, accessor, clock
  <2>5. CASE \E e \in Extents : \/ HandleTryGet(p, e) \/ HandleTryUse(p, e)
                               \/ \E q \in Places : HandleTryDrop(p, e, q)
    BY <2>5 DEF HandleTryGet, HandleTryUse, HandleTryDrop, Turns, accessor, clock
  <2>6. ASSUME NEW m \in Missiles, CastProjectile(p, m) PROVE Turns'
    <3>1. m \notin Players /\ m \in Objs
      BY PlayersAreObjs, KindAssumption
    <3> QED
      BY <1>0, <2>1, <2>6, <3>1 DEF CastProjectile, Turns, clock
  <2>7. CASE LogoutPlayer(p)
    BY <1>0, <2>1, <2>7 DEF LogoutPlayer, Turns, clock
  <2> QED
    BY <1>3, <2>2, <2>3, <2>4, <2>5, <2>6, <2>7 DEF Handle
<1>4. CASE \/ \E p \in Players, q \in Places : Teleport(p, q)
           \/ \E p \in Players : UseFreed(p)
  BY <1>4 DEF Teleport, UseFreed, Turns, objects, accessor, clock
<1>5. ASSUME NEW to \in [Players -> Places], QuickStep(to) PROVE Turns'
  BY <1>0, <1>5, PlayersAreObjs, KindAssumption DEF QuickStep, Turns
<1>6. CASE \/ \E p \in Players, dies \in BOOLEAN : UpdatePlayer(p, dies)
           \/ \E m \in Missiles : UpdateMissile(m)
  BY <1>6 DEF UpdatePlayer, UpdateMissile, Updating, Turns, objects, accessor
<1> QED
  BY <1>1, <1>2, <1>3, <1>4, <1>5, <1>6 DEF Next

LEMMA NextReach ==
    IInv /\ IInv' /\ Turns /\ Reachable /\ [Next]_vars => Reachable'
<1> SUFFICES ASSUME IInv, IInv', Turns, Reachable, [Next]_vars PROVE Reachable'
  OBVIOUS
<1>1. LiveInv'
  BY DEF IInv
<1>2. CASE Loaded \/ EndUpdate \/ UNCHANGED vars
  BY <1>2, UnchangedReach
  DEF Loaded, EndUpdate, vars, objects, accessor, sessions, clock, history
<1>3. CASE \E p \in Players : Handle(p)
  <2>1. PICK p \in Players : Handle(p)
    BY <1>3
  <2> QED
    BY <1>1, <2>1, JoinReach, ShortReach, ReadyReach, AttackReach, TryGetReach,
       TryUseReach, TryDropReach, CastReach, LogoutReach DEF Handle
<1>4. CASE \E i \in DOMAIN MapFile : Load(i)
  BY <1>4, LoadReach
<1>5. CASE \E p \in Players, q \in Places : Teleport(p, q)
  BY <1>5, TeleportReach
<1>6. CASE \E to \in [Players -> Places] : QuickStep(to)
  BY <1>1, <1>6, QuickStepReach
<1>7. CASE \E p \in Players, dies \in BOOLEAN : UpdatePlayer(p, dies)
  BY <1>7, UpdatePlayerReach
<1>8. CASE \E m \in Missiles : UpdateMissile(m)
  BY <1>8, UpdateMissileReach
<1>9. CASE \E p \in Players : UseFreed(p)
  BY <1>9, UseFreedReach
<1> QED
  BY <1>2, <1>3, <1>4, <1>5, <1>6, <1>7, <1>8, <1>9 DEF Next

(* A freed object that the code can come upon was a player, or was used by *)
(* somebody who did not carry it, or the one who comes upon it was moved   *)
(* by a handler or has no extent (ObjectOutOfSight, SendUpdatePacket, Die).*)
THEOREM DanglingHolds == Spec => []OnlyExcusedDangling
<1>1. Reachable => OnlyExcusedDangling
  BY DEF Reachable, Dangling, Crash, Excused, OnlyExcusedDangling
<1> QED
  BY <1>1, InitReachable, InitTurns, NextReach, NextTurns, Invariance, PTL DEF Spec

-----------------------------------------------------------------------------
(* As long as fewer objects live than there are extents (0x7FFF), none is  *)
(* without one, and what shares the index 0 does not come about.           *)
Roomy == IsFiniteSet(mgr.table) /\ Cardinality(mgr.table) < MaxExtent

LEMMA FreeExtent ==
    ASSUME IInv, Roomy
    PROVE  \E e \in 1..MaxExtent : mgr.slots[e] = None
<1> SUFFICES ASSUME \A e \in 1..MaxExtent : mgr.slots[e] # None PROVE FALSE
  OBVIOUS
<1> DEFINE f == [e \in 1..MaxExtent |-> mgr.slots[e]]
<1>1. MaxExtent \in Nat /\ \A e \in 1..MaxExtent : e \in Extents
  BY ExtentAssumption DEF Extents
<1>2. \A e \in 1..MaxExtent : f[e] \in mgr.table /\ mgr.extent[f[e]] = e
  BY <1>1 DEF IInv, LiveInv, LiveOK, Names
<1>3. f \in Injection(1..MaxExtent, mgr.table)
  BY <1>2 DEF Injection, IsInjective
<1> HIDE DEF f
<1>4. Cardinality(1..MaxExtent) <= Cardinality(mgr.table)
  BY <1>3, FS_Injection DEF Roomy
<1>5. Cardinality(1..MaxExtent) = MaxExtent
  BY <1>1, FS_Interval
<1>6. Cardinality(mgr.table) \in Nat
  BY FS_CardinalityType DEF Roomy
<1> QED
  BY <1>1, <1>4, <1>5, <1>6 DEF Roomy

(* Nobody's extent changes while it lives.                                 *)
ExtentsKept ==
    \A o \in mgr.table \intersect mgr'.table : mgr'.extent[o] = mgr.extent[o]

LEMMA AddKeeps ==
    ASSUME IInv, NEW x \in Objs, life[x] # "live", NEW w \in Nat,
           mgr' = AddObject(mgr, x, w)
    PROVE  ExtentsKept
<1>1. mgr \in MgrType /\ Names(mgr) /\ x \notin mgr.table /\ mgr.table \subseteq Objs
  BY DEF IInv, LiveInv, LiveOK
<1>2. \A q \in Objs \ {x} : mgr'.extent[q] = mgr.extent[q]
  BY <1>1, Adding
<1> QED
  BY <1>1, <1>2 DEF ExtentsKept

LEMMA RemoveKeeps ==
    ASSUME IInv, NEW D, mgr' = RemoveObjects(mgr, D)
    PROVE  ExtentsKept
<1>1. mgr \in MgrType /\ Names(mgr) /\ mgr.table \subseteq Objs
  BY DEF IInv, LiveInv, LiveOK
<1>2. /\ mgr'.table = mgr.table \ D
      /\ \A q \in Objs \ D : mgr'.extent[q] = mgr.extent[q]
  BY <1>1, Removing
<1> QED
  BY <1>1, <1>2 DEF ExtentsKept

LEMMA RespawnKeeps ==
    ASSUME IInv, NEW p \in Players, NEW K \in Kits, NEW q, Respawn(p, K, q)
    PROVE  ExtentsKept
<1>1. CASE K = {}
  BY <1>1 DEF Respawn, ExtentsKept
<1>2. CASE K # {}
  <2>1. PICK x \in NewItems : K = {x}
    BY <1>2 DEF Kits
  <2>2. (CHOOSE y \in K : TRUE) = x /\ 0 \in Nat /\ x \in Objs /\ life[x] # "live"
    BY <2>1, PlayersAreObjs DEF NewItems
  <2>3. mgr' = AddObject(mgr, x, 0)
    BY <1>2, <2>2 DEF Respawn
  <2> QED
    BY <2>2, <2>3, AddKeeps
<1> QED
  BY <1>1, <1>2

LEMMA JoinKeeps ==
    ASSUME IInv, NEW p \in Players, HandlePlayerJoin(p)
    PROVE  ExtentsKept
<1>1. CASE life[p] = "live"
  <2>1. mgr' = RemoveObjects(mgr, removeList)
    BY <1>1 DEF HandlePlayerJoin, Made
  <2> QED
    BY <2>1, RemoveKeeps
<1>2. CASE life[p] # "live"
  <2>1. /\ mgr \in MgrType /\ Names(mgr) /\ p \in Objs /\ p \notin mgr.table
        /\ mgr.table \subseteq Objs /\ 0 \in Nat
    BY <1>2, PlayersAreObjs DEF IInv, LiveInv, LiveOK
  <2>2. mgr' = RemoveObjects(AddObject(mgr, p, 0), removeList)
    BY <1>2 DEF HandlePlayerJoin, Made
  <2> DEFINE m == AddObject(mgr, p, 0)
  <2>3. /\ m \in MgrType /\ Names(m) /\ m.table = mgr.table \union {p}
        /\ \A q \in Objs \ {p} : m.extent[q] = mgr.extent[q]
    BY <2>1, Adding
  <2> HIDE DEF m
  <2>4. /\ mgr'.table = m.table \ removeList
        /\ \A q \in Objs \ removeList : mgr'.extent[q] = m.extent[q]
    BY <2>2, <2>3, Removing DEF m
  <2> QED
    BY <2>1, <2>3, <2>4 DEF ExtentsKept
<1> QED
  BY <1>1, <1>2

LEMMA NextKeeps ==
    ASSUME IInv, [Next]_vars
    PROVE  ExtentsKept
<1>0. 0 \in Nat /\ Players \subseteq Objs /\ Missiles \subseteq Objs
  BY PlayersAreObjs
<1>1. CASE UNCHANGED mgr
  BY <1>1 DEF ExtentsKept
<1>2. ASSUME NEW i \in DOMAIN MapFile, Load(i) PROVE ExtentsKept
  <2>1. MapFile[i] \in [obj : Items \union Fixtures, extent : Nat, at : Places]
    BY ExtentAssumption, ElementOfSeq
  <2>2. MapFile[i].obj \in Objs /\ MapFile[i].extent \in Nat
    BY <2>1, PlayersAreObjs
  <2> QED
    BY <1>2, <2>2, AddKeeps DEF Load
<1>3. ASSUME NEW p \in Players, Handle(p) PROVE ExtentsKept
  <2>1. CASE HandlePlayerJoinShort(p)
    BY <1>0, <2>1, AddKeeps DEF HandlePlayerJoinShort
  <2>2. ASSUME NEW m \in Missiles, CastProjectile(p, m) PROVE ExtentsKept
    BY <1>0, <2>2, AddKeeps DEF CastProjectile
  <2>3. ASSUME NEW K \in Kits, HandleClientReady(p, K) \/ Attack(p, K)
        PROVE  ExtentsKept
    BY <2>3, RespawnKeeps DEF HandleClientReady, Attack
  <2>4. CASE LogoutPlayer(p)
    BY <2>4, RemoveKeeps DEF LogoutPlayer
  <2>5. CASE \E e \in Extents : \/ HandleTryGet(p, e) \/ HandleTryUse(p, e)
                               \/ \E q \in Places : HandleTryDrop(p, e, q)
    BY <1>1, <2>5 DEF HandleTryGet, HandleTryUse, HandleTryDrop
  <2> QED
    BY <1>3, <2>1, <2>2, <2>3, <2>4, <2>5, JoinKeeps DEF Handle
<1>4. ASSUME NEW to \in [Players -> Places], QuickStep(to) PROVE ExtentsKept
  BY <1>4, RemoveKeeps DEF QuickStep
<1>5. CASE \/ Loaded \/ EndUpdate \/ UNCHANGED vars
           \/ \E p \in Players, q \in Places : Teleport(p, q)
           \/ \E p \in Players, dies \in BOOLEAN : UpdatePlayer(p, dies)
           \/ \E m \in Missiles : UpdateMissile(m)
           \/ \E p \in Players : UseFreed(p)
  BY <1>1, <1>5 DEF Loaded, EndUpdate, vars, Teleport, UpdatePlayer,
     UpdateMissile, UseFreed
<1> QED
  BY <1>2, <1>3, <1>4, <1>5 DEF Next

AllNamed == \A o \in mgr.table : mgr.extent[o] # 0

LEMMA InitNamed == Init => AllNamed
<1> SUFFICES ASSUME Init PROVE AllNamed
  OBVIOUS
<1>1. mgr.table = {}
  BY DEF Init
<1> QED
  BY <1>1 DEF AllNamed

LEMMA NamedNext ==
    ASSUME IInv, Roomy, AllNamed, [Next]_vars
    PROVE  AllNamed'
<1>1. UnnamedStep /\ ExtentsKept
  <2>1. CASE UNCHANGED vars
    BY <2>1, NextKeeps DEF vars, UnnamedStep
  <2>2. CASE Next
    BY <2>2, NextInv, NextKeeps
  <2> QED
    BY <2>1, <2>2
<1> QED
  BY <1>1, FreeExtent DEF UnnamedStep, ExtentsKept, AllNamed

(* Where extents do not run out, every object has one, and every player    *)
(* who is logged in is in i_players, without the exception that            *)
(* PlayersReached makes (RequestExtent, InsertPlayer).                     *)
THEOREM NamedWhenRoomy == Spec /\ []Roomy => [](AllNamed /\ joined \subseteq Accessible(players))
<1>1. Init => AllNamed
  BY InitNamed
<1>2. IInv /\ AllNamed => joined \subseteq Accessible(players)
  <2> SUFFICES ASSUME IInv, AllNamed, NEW p \in joined
               PROVE  p \in Accessible(players)
    OBVIOUS
  <2>1. p \in Players /\ p \in mgr.table
    BY DEF IInv, LiveInv, LiveOK
  <2>2. mgr.extent[p] \in Extents /\ p # None
    BY <2>1, PlayersAreObjs, KindAssumption DEF IInv, LiveInv, LiveOK, MgrType
  <2>3. players[mgr.extent[p]] = p
    BY <2>1 DEF IInv, LiveInv, LiveOK, AllNamed
  <2> QED
    BY <2>2, <2>3 DEF Accessible
<1>3. IInv /\ Roomy /\ AllNamed /\ [Next]_vars => AllNamed'
  BY NamedNext
<1> QED
  BY <1>1, <1>2, <1>3, Invariance, PTL DEF Spec

-----------------------------------------------------------------------------
(* When the other three ways to a freed object are closed as well, none is *)
(* left: somebody uses only what he has (or what is to be removed anyway), *)
(* whoever logs out waits in no one's queue, and a teleport, or a respawn  *)
(* in an attack, finds the player's own queue empty.                       *)
OwnUse == \A p \in Players, e \in Extents :
    HandleTryUse(p, e) => GetObj(e) \in inv[p] \union removeList
LogoutUnseen == \A p \in Players :
    LogoutPlayer(p) => \A v \in Players \ {p} : p \notin queue[v]
MovesEmpty == \A p \in Players :
    \/ \E q \in Places : Teleport(p, q)
    \/ \E K \in Kits : Attack(p, K)
    => queue[p] = {}

NothingDangles ==
    /\ ~crashed
    /\ \A v \in Players : \A o \in queue[v] \union inv[v] : life[o] # "freed"

Quiet ==
    /\ foreign = {} /\ moved = {}
    /\ \A v \in Players : \A o \in queue[v] \intersect Players : life[o] = "live"

LEMMA QuietKept ==
    ASSUME IInv, Quiet, foreign' = {}, moved' = {},
           \A o \in Players : life[o] = "live" => life'[o] = "live",
           \A v \in Players : \A o \in queue'[v] \intersect Players :
             o \in queue[v] \/ life'[o] = "live"
    PROVE  Quiet'
BY DEF Quiet

(* What gets into a queue is what was there, or lives.                     *)
LEMMA ShownLive ==
    ASSUME IInv, LiveInv', queue' = MutualSight(players')
    PROVE  \A v \in Players : \A o \in queue'[v] \intersect Players :
             o \in queue[v] \/ life'[o] = "live"
<1>1. \A v \in Accessible(players') : life'[v] = "live"
  BY DEF Accessible, LiveInv, LiveOK
<1> QED
  BY <1>1 DEF MutualSight

LEMMA PlacedLive ==
    ASSUME IInv, NEW o \in Objs, o \in Players => life'[o] = "live", NEW q,
           NEW v \in Players, NEW w \in SetPosition(o, q)[v], w \in Players
    PROVE  w \in queue[v] \/ life'[w] = "live"
BY DEF SetPosition

LEMMA RemovingKeepsPlayers ==
    ASSUME IInv, NEW o \in Players
    PROVE  o \notin removeList
BY KindAssumption DEF IInv, LiveInv, LiveOK

LEMMA QuietHandle ==
    ASSUME IInv, IInv', Quiet, NEW p \in Players, Handle(p),
           OwnUse, LogoutUnseen, MovesEmpty
    PROVE  Quiet'
<1>0. /\ Players \subseteq Objs /\ Items \subseteq Objs /\ LiveInv'
      /\ Players \intersect Items = {} /\ life \in [Objs -> Life]
      /\ queue \in [Players -> SUBSET Objs] /\ foreign = {} /\ moved = {}
      /\ Players \intersect Missiles = {} /\ Missiles \subseteq Objs
  BY PlayersAreObjs, KindAssumption DEF IInv, LiveInv, LiveOK, RestOK, Quiet
<1>1. CASE HandlePlayerJoin(p)
  <2>1. foreign' = {} /\ moved' = {} /\ queue' = MutualSight(players')
    BY <1>0, <1>1 DEF HandlePlayerJoin, history
  <2>2. \A o \in Players : life[o] = "live" => life'[o] = "live"
    BY <1>0, <1>1, RemovingKeepsPlayers DEF HandlePlayerJoin
  <2> QED
    BY <1>0, <2>1, <2>2, ShownLive, QuietKept
<1>2. CASE HandlePlayerJoinShort(p)
  BY <1>0, <1>2, QuietKept DEF HandlePlayerJoinShort, history
<1>3. ASSUME NEW K \in Kits, HandleClientReady(p, K) \/ Attack(p, K)
      PROVE  Quiet'
  <2>1. life[p] = "live" /\ foreign' = {}
    BY <1>0, <1>3 DEF HandleClientReady, Attack, Handling, Alive, Respawn
  <2>2. \A o \in Players : life[o] = "live" => life'[o] = "live"
    BY <1>0, <1>3 DEF HandleClientReady, Attack, Respawn
  <2>3. moved' = {}
    <3>1. CASE HandleClientReady(p, K)
      BY <1>0, <3>1 DEF HandleClientReady
    <3>2. CASE Attack(p, K)
      BY <1>0, <3>2 DEF Attack, Moved, MovesEmpty
    <3> QED
      BY <1>3, <3>1, <3>2
  <2>4. \A v \in Players : queue'[v] \subseteq SetPosition(p, Spawn)[v]
    <3>1. SetPosition(p, Spawn) = [v \in Players |-> SetPosition(p, Spawn)[v]]
      BY DEF SetPosition
    <3>2. \/ queue' = [SetPosition(p, Spawn) EXCEPT ![p] = {}]
          \/ queue' = SetPosition(p, Spawn)
      BY <1>3 DEF HandleClientReady, Attack, Respawn
    <3> QED
      BY <3>1, <3>2
  <2> QED
    BY <1>0, <2>1, <2>2, <2>3, <2>4, PlacedLive, QuietKept
<1>4. ASSUME NEW e \in Extents, HandleTryGet(p, e) PROVE Quiet'
  <2>1. /\ GetObj(e) \in Items /\ UNCHANGED <<life, history>>
        /\ queue' = SetPosition(GetObj(e), Pack)
    BY <1>4 DEF HandleTryGet
  <2>2. foreign' = {} /\ moved' = {}
    BY <1>0, <2>1 DEF history
  <2> QED
    BY <1>0, <2>1, <2>2, PlacedLive, QuietKept
<1>5. ASSUME NEW e \in Extents, NEW q \in Places, HandleTryDrop(p, e, q)
      PROVE  Quiet'
  <2>1. GetObj(e) \in Items
    BY <1>5 DEF HandleTryDrop, IInv, RestOK
  <2>2. UNCHANGED <<life, history>> /\ queue' = SetPosition(GetObj(e), q)
    BY <1>5 DEF HandleTryDrop
  <2>3. foreign' = {} /\ moved' = {}
    BY <1>0, <2>2 DEF history
  <2> QED
    BY <1>0, <2>1, <2>2, <2>3, PlacedLive, QuietKept
<1>6. ASSUME NEW e \in Extents, HandleTryUse(p, e) PROVE Quiet'
  <2>1. GetObj(e) \in inv[p] \union removeList
    BY <1>6 DEF OwnUse
  <2>2. foreign' = {} /\ moved' = {} /\ UNCHANGED <<life, queue>>
    BY <1>0, <1>6, <2>1 DEF HandleTryUse
  <2> QED
    BY <2>2, QuietKept
<1>7. ASSUME NEW m \in Missiles, CastProjectile(p, m) PROVE Quiet'
  <2>1. foreign' = {} /\ moved' = {} /\ queue' = queue
    BY <1>0, <1>7 DEF CastProjectile, history
  <2>2. \A o \in Players : life[o] = "live" => life'[o] = "live"
    BY <1>0, <1>7 DEF CastProjectile
  <2> QED
    BY <2>1, <2>2, QuietKept
<1>8. CASE LogoutPlayer(p)
  <2>1. /\ foreign' = {} /\ moved' = {}
        /\ \A v \in Players \ {p} : queue'[v] = queue[v] /\ p \notin queue[v]
        /\ queue'[p] = {}
        /\ \A o \in Players \ {p} : life'[o] = life[o]
    BY <1>0, <1>8 DEF LogoutPlayer, LogoutUnseen
  <2> QED
    BY <2>1 DEF Quiet
<1> QED
  BY <1>1, <1>2, <1>3, <1>4, <1>5, <1>6, <1>7, <1>8,
     Handle(p) DEF Handle

LEMMA QuietNext ==
    ASSUME IInv, IInv', Quiet, [Next]_vars,
           [OwnUse]_vars, [LogoutUnseen]_vars, [MovesEmpty]_vars
    PROVE  Quiet'
<1>0. /\ Players \subseteq Objs /\ Items \subseteq Objs /\ LiveInv'
      /\ Players \intersect Items = {} /\ life \in [Objs -> Life]
      /\ queue \in [Players -> SUBSET Objs] /\ foreign = {} /\ moved = {}
      /\ Players \intersect Missiles = {} /\ Missiles \subseteq Objs
      /\ Players \intersect Fixtures = {}
  BY PlayersAreObjs, KindAssumption DEF IInv, LiveInv, LiveOK, RestOK, Quiet
<1>1. CASE UNCHANGED vars
  BY <1>1 DEF vars, objects, history, Quiet
<1> SUFFICES ASSUME ~UNCHANGED vars PROVE Quiet'
  BY <1>1
<1>2. Next /\ OwnUse /\ LogoutUnseen /\ MovesEmpty
  OBVIOUS
<1>3. ASSUME NEW p \in Players, Handle(p) PROVE Quiet'
  BY <1>2, <1>3, QuietHandle
<1>4. ASSUME NEW i \in DOMAIN MapFile, Load(i) PROVE Quiet'
  <2>1. foreign' = {} /\ moved' = {} /\ queue' = queue
    BY <1>0, <1>4 DEF Load, history
  <2>2. \A o \in Players : life[o] = "live" => life'[o] = "live"
    BY <1>0, <1>4 DEF Load
  <2> QED
    BY <2>1, <2>2, QuietKept
<1>5. ASSUME NEW p \in Players, NEW q \in Places, Teleport(p, q) PROVE Quiet'
  <2>1. queue[p] = {}
    BY <1>2, <1>5 DEF MovesEmpty
  <2>2. /\ foreign' = {} /\ moved' = {} /\ life' = life /\ life[p] = "live"
        /\ queue' = SetPosition(p, q)
    BY <1>0, <1>5, <2>1 DEF Teleport, Moved, Alive
  <2> QED
    BY <1>0, <2>2, PlacedLive, QuietKept
<1>6. ASSUME NEW to \in [Players -> Places], QuickStep(to) PROVE Quiet'
  <2>1. foreign' = {} /\ moved' = {} /\ queue' = MutualSight(players')
    BY <1>0, <1>6 DEF QuickStep, history
  <2>2. \A o \in Players : life[o] = "live" => life'[o] = "live"
    BY <1>0, <1>6, RemovingKeepsPlayers DEF QuickStep
  <2> QED
    BY <1>0, <2>1, <2>2, ShownLive, QuietKept
<1>7. ASSUME NEW p \in Players, NEW dies \in BOOLEAN, UpdatePlayer(p, dies)
      PROVE  Quiet'
  <2>1. foreign' = {} /\ moved' = {} /\ life' = life
    BY <1>0, <1>7 DEF UpdatePlayer
  <2>2. \A v \in Players : queue'[v] \subseteq queue[v] \union inv[p]
    BY <1>7 DEF UpdatePlayer
  <2>3. inv[p] \subseteq Items
    BY DEF IInv, RestOK
  <2> QED
    BY <1>0, <2>1, <2>2, <2>3, QuietKept
<1>8. ASSUME NEW m \in Missiles, UpdateMissile(m) PROVE Quiet'
  <2>1. /\ UNCHANGED <<objects, history>>
        /\ queue' = SetPosition(m, place[m])
    BY <1>8 DEF UpdateMissile
  <2>2. foreign' = {} /\ moved' = {} /\ life' = life
    BY <1>0, <2>1 DEF objects, history
  <2> QED
    BY <1>0, <2>1, <2>2, PlacedLive, QuietKept
<1>9. CASE Loaded \/ EndUpdate \/ \E p \in Players : UseFreed(p)
  <2>1. UNCHANGED <<objects, queue, foreign, moved>>
    BY <1>9 DEF Loaded, EndUpdate, UseFreed, history
  <2> QED
    BY <2>1 DEF Quiet, objects
<1> QED
  BY <1>2, <1>3, <1>4, <1>5, <1>6, <1>7, <1>8, <1>9 DEF Next

(* On these four conditions nobody's queue or inventory has a freed object *)
(* in it, and nothing freed is touched (SendUpdatePacket, Die).            *)
THEOREM SafeOnConditions ==
    /\ Spec /\ []Roomy
    /\ [][OwnUse]_vars /\ [][LogoutUnseen]_vars /\ [][MovesEmpty]_vars
    => []NothingDangles
<1>1. Init => Quiet
  BY DEF Init, Quiet
<1>2. IInv /\ Reachable /\ AllNamed /\ Quiet => NothingDangles
  <2> SUFFICES ASSUME IInv, Reachable, AllNamed, Quiet PROVE NothingDangles
    OBVIOUS
  <2>1. ASSUME NEW v \in Players, NEW o \in queue[v] \union inv[v]
        PROVE  life[o] # "freed"
    <3>1. life[v] = "live"
      BY <2>1 DEF Reachable, Absent
    <3>2. v \in mgr.table
      BY <3>1, PlayersAreObjs DEF IInv, LiveInv, LiveOK
    <3>3. mgr.extent[v] # 0
      BY <3>2 DEF AllNamed
    <3> QED
      BY <3>3 DEF Reachable, Dangling, Excused, Quiet
  <2> QED
    BY <2>1 DEF Reachable, Crash, NothingDangles
<1>3. Init => AllNamed
  BY InitNamed
<1>4. IInv /\ Roomy /\ AllNamed /\ [Next]_vars => AllNamed'
  BY NamedNext
<1>5. /\ IInv /\ IInv' /\ Quiet /\ [Next]_vars
      /\ [OwnUse]_vars /\ [LogoutUnseen]_vars /\ [MovesEmpty]_vars
      => Quiet'
  BY QuietNext
<1> QED
  BY <1>1, <1>2, <1>3, <1>4, <1>5, InitReachable, InitTurns, NextReach,
     NextTurns, Invariance, PTL DEF Spec
=============================================================================
