----------------------------- MODULE DhcpProofs -----------------------------
(***************************************************************************)
(* Proofs about Dhcp for any set of clients and pools of any size.         *)
(***************************************************************************)
EXTENDS Dhcp, TLAPS, WellFoundedInduction

\* A client has a lease exactly between the successful Update of its rent and
\* the end of its release.
LeaseHeld == \A c \in Client : Leased(c) <=> pc[c] \in Holding

\* A copy with the current resourceVersion is the current object; this is all
\* that the conditional Update of updateDHCPConfigMap relies on.
FreshIsCurrent == \A c \in fresh : snap[c] = cm

\* While the ConfigMap does not exist there are no marks for a Create to erase.
AbsentIsEmpty == cm.exists \/ cm = NoConfigMap

IInv ==
    /\ TypeOK
    /\ AbsentIsEmpty
    /\ UniqueLease
    /\ LeaseMarked
    /\ LeaseHeld
    /\ FreshIsCurrent

\* The scan of the allocator stops at an offset that is inside the bitmap,
\* not marked before and not on a network interface.
LEMMA ChosenUsable ==
    ASSUME NEW marked, NEW nic, NEW max \in Nat, Usable(marked, max, nic) # {}
    PROVE  Chosen(marked, max, nic) \in Usable(marked, max, nic)
<1> DEFINE U == Usable(marked, max, nic)
<1>1. U \subseteq Nat
  BY DEF Usable, Pool
<1>2. PICK o \in U : \A y \in U : ~(<<y, o>> \in OpToRel(<, Nat))
  BY <1>1, NatLessThanWellFounded, WFMin
<1>3. ASSUME NEW a \in Nat, NEW b \in Nat, a < b
      PROVE  <<a, b>> \in OpToRel(<, Nat)
  BY <1>3 DEF OpToRel
<1>4. \A y \in U : o <= y
  <2> TAKE y \in U
  <2> HIDE DEF U
  <2>1. o \in Nat /\ y \in Nat
    BY <1>1
  <2>2. ~(y < o)
    BY <1>2, <1>3, <2>1
  <2> QED
    BY <2>1, <2>2
<1> QED
  BY <1>4 DEF Chosen

\* A rent marks the pair it returns, which was not marked, and takes no mark
\* off the bitmaps.
LEMMA RentFacts ==
    ASSUME NEW data \in Data, NEW nic \in Nics, ~PoolFull(data, nic)
    PROVE  LET l == RentedLease(data, nic)
               d == AfterRent(data, nic)
           IN  /\ l \in [v4 : Pool4, v6 : Pool6]
               /\ l.v4 \notin data.dhcp4 /\ l.v6 \notin data.dhcp6
               /\ d \in Data /\ d.exists = data.exists
               /\ data.dhcp4 \cup {l.v4} \subseteq d.dhcp4
               /\ data.dhcp6 \cup {l.v6} \subseteq d.dhcp6
<1> DEFINE v4 == Chosen(data.dhcp4, Max4, nic.v4)
           v6 == Chosen(data.dhcp6, Max6, nic.v6)
<1>1. v4 \in Usable(data.dhcp4, Max4, nic.v4) /\ v6 \in Usable(data.dhcp6, Max6, nic.v6)
  BY ChosenUsable, PoolAssumption DEF PoolFull
<1>2. v4 \in Pool4 /\ v6 \in Pool6 /\ v4 \notin data.dhcp4 /\ v6 \notin data.dhcp6
  BY <1>1 DEF Usable, Pool4, Pool6
<1>3. RentedLease(data, nic) = [v4 |-> v4, v6 |-> v6]
  BY DEF RentedLease
<1> HIDE DEF v4, v6
<1>4. v4 \in 0 .. v4 /\ v6 \in 0 .. v6 /\ 0 .. v4 \subseteq Pool4 /\ 0 .. v6 \subseteq Pool6
  BY <1>2, PoolAssumption DEF Pool4, Pool6, Pool
<1>5. AfterRent(data, nic) = [data EXCEPT !.dhcp4 = @ \cup 0 .. v4, !.dhcp6 = @ \cup 0 .. v6]
  BY <1>3 DEF AfterRent, MarkedUpTo
<1>6. RentedLease(data, nic).v4 = v4 /\ RentedLease(data, nic).v6 = v6
  BY <1>3
<1>7. data.dhcp4 \cup 0 .. v4 \subseteq Pool4 /\ data.dhcp6 \cup 0 .. v6 \subseteq Pool6
  BY <1>4 DEF Data
<1>8. /\ AfterRent(data, nic) \in Data /\ AfterRent(data, nic).exists = data.exists
      /\ AfterRent(data, nic).dhcp4 = data.dhcp4 \cup 0 .. v4
      /\ AfterRent(data, nic).dhcp6 = data.dhcp6 \cup 0 .. v6
  BY <1>5, <1>7 DEF Data
<1> QED
  BY <1>2, <1>3, <1>4, <1>6, <1>8

\* A release takes at most the returned pair off the bitmaps.
LEMMA ReleaseFacts ==
    ASSUME NEW data \in Data, NEW l \in [v4 : Pool4, v6 : Pool6]
    PROVE  LET d == AfterRelease(data, l)
           IN  /\ d \in Data /\ d.exists = data.exists
               /\ d.dhcp4 \in {data.dhcp4, data.dhcp4 \ {l.v4}}
               /\ d.dhcp6 \in {data.dhcp6, data.dhcp6 \ {l.v6}}
BY DEF AfterRelease, Released, Data

\* No pair of addresses of the pools is the absent lease.
LEMMA LeaseNotNone ==
    ASSUME NEW l \in [v4 : Pool4, v6 : Pool6]
    PROVE  l # NoLease
BY PoolAssumption DEF NoLease, NoIP, Pool4, Pool

\* The initial states satisfy the inductive invariant.
LEMMA InitIInv == Init => IInv
<1> SUFFICES ASSUME Init PROVE IInv
  OBVIOUS
<1>1. NoConfigMap \in Data /\ OldConfigMap \in Data
  BY DEF NoConfigMap, OldConfigMap, Data
<1>2. TypeOK
  BY <1>1 DEF Init, TypeOK
<1> QED
  BY <1>2 DEF Init, IInv, AbsentIsEmpty, UniqueLease, LeaseMarked, LeaseHeld, FreshIsCurrent,
              Leased, Holding, OldConfigMap, NoConfigMap

\* A step that reads the object and leaves every lease alone.
LEMMA ReadStep ==
    ASSUME IInv, NEW c \in Client, Get(c), UNCHANGED lease,
           NEW label \in {"idle", "patch", "create", "ready", "rent"} \cup Holding,
           Goto(c, label), label \in Holding <=> pc[c] \in Holding
    PROVE  IInv'
<1>1. TypeOK'
  BY DEF IInv, TypeOK, Get, Goto
<1>2. FreshIsCurrent'
  BY DEF IInv, TypeOK, FreshIsCurrent, Get
<1>3. LeaseHeld'
  BY DEF IInv, TypeOK, LeaseHeld, Leased, Goto
<1>4. AbsentIsEmpty' /\ UniqueLease' /\ LeaseMarked'
  BY DEF IInv, AbsentIsEmpty, UniqueLease, LeaseMarked, Leased, Get
<1> QED
  BY <1>1, <1>2, <1>3, <1>4 DEF IInv

\* A step that writes data with all the marks of the current object and
\* leaves every lease alone.
LEMMA WriteStep ==
    ASSUME IInv, NEW c \in Client, NEW data \in Data,
           cm' = data, UNCHANGED <<snap, lease>>,
           fresh' = {} \/ (fresh' = fresh /\ data = cm), data.exists \/ data = cm,
           cm.dhcp4 \subseteq data.dhcp4, cm.dhcp6 \subseteq data.dhcp6,
           NEW label \in {"idle", "patch", "create", "ready", "rent"} \cup Holding,
           Goto(c, label), label \in Holding <=> pc[c] \in Holding
    PROVE  IInv'
<1>1. TypeOK'
  BY DEF IInv, TypeOK, Goto
<1>2. FreshIsCurrent'
  BY DEF IInv, FreshIsCurrent
<1>3. LeaseHeld'
  BY DEF IInv, TypeOK, LeaseHeld, Leased, Goto
<1>4. AbsentIsEmpty' /\ UniqueLease' /\ LeaseMarked'
  BY DEF IInv, AbsentIsEmpty, UniqueLease, LeaseMarked, Leased
<1> QED
  BY <1>1, <1>2, <1>3, <1>4 DEF IInv

\* A step in which a client gives its lease up, and with it no other mark.
LEMMA GiveUpStep ==
    ASSUME IInv, NEW c \in Client, Leased(c), NEW data \in Data,
           cm' = data, UNCHANGED snap,
           fresh' = {} \/ (fresh' = fresh /\ data = cm), data.exists \/ data = cm,
           cm.dhcp4 \ {lease[c].v4} \subseteq data.dhcp4,
           cm.dhcp6 \ {lease[c].v6} \subseteq data.dhcp6,
           lease' = [lease EXCEPT ![c] = NoLease], Goto(c, "idle")
    PROVE  IInv'
<1>1. TypeOK'
  BY DEF IInv, TypeOK, Goto
<1>2. FreshIsCurrent'
  BY DEF IInv, FreshIsCurrent
<1>3. LeaseHeld'
  BY DEF IInv, TypeOK, LeaseHeld, Leased, Goto, Holding
<1>4. ASSUME NEW d \in Client, Leased(d)'
      PROVE  d # c /\ Leased(d) /\ lease'[d] = lease[d]
  BY <1>4 DEF IInv, TypeOK, Leased
<1>5. UniqueLease'
  BY <1>4 DEF IInv, UniqueLease
<1>6. AbsentIsEmpty' /\ LeaseMarked'
  BY <1>4 DEF IInv, AbsentIsEmpty, UniqueLease, LeaseMarked
<1> QED
  BY <1>1, <1>2, <1>3, <1>5, <1>6 DEF IInv

\* Every step of every client preserves the inductive invariant.
LEMMA NextIInv == IInv /\ [Next]_vars => IInv'
<1> SUFFICES ASSUME IInv, [Next]_vars PROVE IInv'
  OBVIOUS
<1> USE DEF Holding
<1>0. CASE UNCHANGED vars
  BY <1>0 DEF vars, IInv, TypeOK, AbsentIsEmpty, UniqueLease, LeaseMarked, LeaseHeld, FreshIsCurrent, Leased
<1> SUFFICES ASSUME NEW c \in Client, Operation(c) \/ Failure(c)
             PROVE  IInv'
  BY <1>0 DEF Next
<1> USE DEF Write
<1>1. CASE InitGet(c)
  BY <1>1, ReadStep DEF InitGet
<1>2. CASE InitPatch(c)
  <2>1. [cm EXCEPT !.envoyKey = cm.exists] \in Data
    BY DEF IInv, TypeOK, Data
  <2>2. cm.exists \/ [cm EXCEPT !.envoyKey = cm.exists] = cm
    BY DEF IInv, TypeOK, AbsentIsEmpty, NoConfigMap, Data
  <2> QED
    BY <1>2, <2>1, <2>2, WriteStep DEF InitPatch, IInv, TypeOK, Data
<1>3. CASE InitCreate(c)
  <2>1. NewConfigMap \in Data
    BY DEF NewConfigMap, NoConfigMap, Data
  <2>2. CASE cm.exists
    BY <1>3, <2>2, WriteStep DEF InitCreate, IInv, TypeOK
  <2>3. CASE ~cm.exists
    BY <1>3, <2>1, <2>3, WriteStep DEF InitCreate, IInv, AbsentIsEmpty, NewConfigMap, NoConfigMap
  <2> QED
    BY <2>2, <2>3
<1>4. CASE RentGet(c)
  BY <1>4, ReadStep DEF RentGet
<1>5. CASE RentUpdate(c)
  <2>1. PICK nic \in Nics : /\ ~PoolFull(cm, nic)
                            /\ Write(AfterRent(cm, nic))
                            /\ lease' = [lease EXCEPT ![c] = RentedLease(cm, nic)]
    BY <1>5 DEF RentUpdate, CanUpdate, IInv, FreshIsCurrent
  <2> DEFINE l == RentedLease(cm, nic)
  <2>2. /\ l \in [v4 : Pool4, v6 : Pool6]
        /\ l.v4 \notin cm.dhcp4 /\ l.v6 \notin cm.dhcp6
        /\ cm' \in Data /\ cm'.exists
        /\ cm.dhcp4 \cup {l.v4} \subseteq cm'.dhcp4
        /\ cm.dhcp6 \cup {l.v6} \subseteq cm'.dhcp6
    BY <1>5, <2>1, RentFacts DEF IInv, TypeOK, RentUpdate, CanUpdate
  <2> HIDE DEF l
  <2>3. lease' = [lease EXCEPT ![c] = l] /\ l # NoLease
    BY <2>1, <2>2, LeaseNotNone DEF l
  <2>4. TypeOK' /\ AbsentIsEmpty'
    BY <1>5, <2>1, <2>2, <2>3 DEF IInv, TypeOK, AbsentIsEmpty, RentUpdate, Goto
  <2>5. FreshIsCurrent'
    BY <2>1 DEF IInv, FreshIsCurrent
  <2>6. LeaseHeld'
    BY <1>5, <2>3 DEF IInv, TypeOK, LeaseHeld, Leased, RentUpdate, Goto
  <2>7. ASSUME NEW d \in Client, d # c, Leased(d)'
        PROVE  /\ lease'[d] = lease[d] /\ Leased(d)
               /\ lease[d].v4 \in cm.dhcp4 /\ lease[d].v6 \in cm.dhcp6
    BY <2>3, <2>7 DEF IInv, TypeOK, LeaseMarked, Leased
  <2>8. lease'[c] = l
    BY <2>3 DEF IInv, TypeOK
  <2>9. UniqueLease'
    BY <2>2, <2>7, <2>8 DEF IInv, UniqueLease
  <2>10. LeaseMarked'
    BY <2>2, <2>7, <2>8 DEF IInv, LeaseMarked
  <2> QED
    BY <2>4, <2>5, <2>6, <2>9, <2>10 DEF IInv
<1>6. CASE RentAnswerLost(c)
  <2>1. PICK nic \in Nics : ~PoolFull(cm, nic) /\ Write(AfterRent(cm, nic))
    BY <1>6 DEF RentAnswerLost, CanUpdate, IInv, FreshIsCurrent
  <2>2. /\ AfterRent(cm, nic) \in Data /\ AfterRent(cm, nic).exists
        /\ cm.dhcp4 \subseteq AfterRent(cm, nic).dhcp4
        /\ cm.dhcp6 \subseteq AfterRent(cm, nic).dhcp6
    BY <1>6, <2>1, RentFacts DEF IInv, TypeOK, RentAnswerLost, CanUpdate
  <2> QED
    BY <1>6, <2>1, <2>2, WriteStep DEF RentAnswerLost
<1>7. CASE RentRefused(c)
  BY <1>7, WriteStep DEF RentRefused, IInv, TypeOK
<1>8. CASE SetGet(c)
  BY <1>8, ReadStep DEF SetGet
<1>9. CASE SetUpdate(c)
  <2>1. cm' = cm /\ fresh' = {} /\ cm \in Data
    BY <1>9 DEF SetUpdate, CanUpdate, IInv, TypeOK, FreshIsCurrent
  <2> QED
    BY <1>9, <2>1, WriteStep DEF SetUpdate
<1>10. CASE SetRefused(c)
  BY <1>10, WriteStep DEF SetRefused, IInv, TypeOK
<1>11. CASE ReleaseGet(c)
  BY <1>11, ReadStep DEF ReleaseGet
<1>12. CASE ReleaseUpdate(c)
  <2>1. Leased(c) /\ lease[c] \in [v4 : Pool4, v6 : Pool6] /\ cm \in Data /\ cm.exists
    BY <1>12 DEF ReleaseUpdate, CanUpdate, IInv, TypeOK, LeaseHeld, Leased
  <2>2. Write(AfterRelease(cm, lease[c]))
    BY <1>12 DEF ReleaseUpdate, CanUpdate, IInv, FreshIsCurrent
  <2> QED
    BY <1>12, <2>1, <2>2, ReleaseFacts, GiveUpStep DEF ReleaseUpdate
<1>13. CASE ReleaseRefused(c)
  BY <1>13, GiveUpStep DEF ReleaseRefused, IInv, TypeOK, LeaseHeld
<1>14. CASE Crash(c)
  BY <1>14, GiveUpStep DEF Crash, IInv, TypeOK, LeaseHeld
<1>15. CASE ApiError(c)
  <2>1. CASE pc[c] = "release"
    BY <1>15, <2>1, GiveUpStep DEF ApiError, IInv, TypeOK, LeaseHeld
  <2>2. CASE pc[c] # "release"
    BY <1>15, <2>2, WriteStep DEF ApiError, IInv, TypeOK
  <2> QED
    BY <2>1, <2>2
<1> QED
  BY <1>1, <1>2, <1>3, <1>4, <1>5, <1>6, <1>7, <1>8, <1>9, <1>10, <1>11, <1>12, <1>13, <1>14,
     <1>15 DEF Operation, Failure

\* The inductive invariant holds in every reachable state.
THEOREM Invariance == Spec => []IInv
BY InitIInv, NextIInv, PTL DEF Spec

\* The variables always have their types, for every pool and set of clients.
THEOREM TypeCorrect == Spec => []TypeOK
<1>1. IInv => TypeOK
  BY DEF IInv
<1> QED
  BY <1>1, Invariance, PTL

\* Two clients never use the same address: the conditional Update is enough,
\* for any number of clients and addresses.
THEOREM LeasesAreUnique == Spec => []UniqueLease
<1>1. IInv => UniqueLease
  BY DEF IInv
<1> QED
  BY <1>1, Invariance, PTL

\* The addresses in use are marked in the stored bitmaps at all times.
THEOREM LeasesAreMarked == Spec => []LeaseMarked
<1>1. IInv => LeaseMarked
  BY DEF IInv
<1> QED
  BY <1>1, Invariance, PTL

\* How a step changes the marks and the leases: it leaves both alone, rents a
\* pair that was not marked, loses unmarked addresses, or gives one lease up.
LEMMA StepKinds ==
    ASSUME IInv, Next
    PROVE  \/ cm'.dhcp4 = cm.dhcp4 /\ cm'.dhcp6 = cm.dhcp6 /\ lease' = lease
           \/ \E c \in Client, a \in spare4, b \in spare6 :
                /\ lease[c] = NoLease /\ lease' = [lease EXCEPT ![c] = [v4 |-> a, v6 |-> b]]
                /\ cm.dhcp4 \cup {a} \subseteq cm'.dhcp4 /\ cm.dhcp6 \cup {b} \subseteq cm'.dhcp6
           \/ cm.dhcp4 \subseteq cm'.dhcp4 /\ cm.dhcp6 \subseteq cm'.dhcp6 /\ lease' = lease
           \/ \E c \in Client :
                /\ lease[c] # NoLease /\ lease' = [lease EXCEPT ![c] = NoLease]
                /\ cm'.dhcp4 \in {cm.dhcp4, cm.dhcp4 \ {lease[c].v4}}
                /\ cm'.dhcp6 \in {cm.dhcp6, cm.dhcp6 \ {lease[c].v6}}
<1> PICK c \in Client : Operation(c) \/ Failure(c)
  BY DEF Next
<1> USE DEF Write, Get
<1>1. CASE InitGet(c) \/ RentGet(c) \/ RentRefused(c) \/ SetGet(c) \/ SetRefused(c) \/ ReleaseGet(c)
  BY <1>1 DEF InitGet, RentGet, RentRefused, SetGet, SetRefused, ReleaseGet
<1>2. CASE InitPatch(c)
  BY <1>2 DEF InitPatch, IInv, TypeOK, Data
<1>3. CASE InitCreate(c)
  BY <1>3 DEF InitCreate, IInv, AbsentIsEmpty, NewConfigMap, NoConfigMap
<1>4. CASE RentUpdate(c)
  <2>1. PICK nic \in Nics : /\ ~PoolFull(cm, nic)
                            /\ Write(AfterRent(cm, nic))
                            /\ lease' = [lease EXCEPT ![c] = RentedLease(cm, nic)]
    BY <1>4 DEF RentUpdate, CanUpdate, IInv, FreshIsCurrent
  <2> DEFINE l == RentedLease(cm, nic)
  <2>2. /\ l \in [v4 : Pool4, v6 : Pool6]
        /\ l.v4 \notin cm.dhcp4 /\ l.v6 \notin cm.dhcp6
        /\ cm.dhcp4 \cup {l.v4} \subseteq cm'.dhcp4
        /\ cm.dhcp6 \cup {l.v6} \subseteq cm'.dhcp6
    BY <2>1, RentFacts DEF IInv, TypeOK
  <2>3. lease[c] = NoLease
    BY <1>4 DEF RentUpdate, IInv, LeaseHeld, Leased, Holding
  <2>4. lease' = [lease EXCEPT ![c] = l]
    BY <2>1
  <2> HIDE DEF l
  <2>5. l.v4 \in spare4 /\ l.v6 \in spare6 /\ l = [v4 |-> l.v4, v6 |-> l.v6]
    BY <2>2 DEF spare4, spare6
  <2> DEFINE a == l.v4
             b == l.v6
  <2>6. lease' = [lease EXCEPT ![c] = [v4 |-> a, v6 |-> b]] /\ a \in spare4 /\ b \in spare6
    BY <2>4, <2>5
  <2>7. cm.dhcp4 \cup {a} \subseteq cm'.dhcp4 /\ cm.dhcp6 \cup {b} \subseteq cm'.dhcp6
    BY <2>2
  <2> HIDE DEF a, b
  <2> QED
    BY <2>3, <2>6, <2>7
<1>5. CASE RentAnswerLost(c)
  <2>1. PICK nic \in Nics : ~PoolFull(cm, nic) /\ Write(AfterRent(cm, nic))
    BY <1>5 DEF RentAnswerLost, CanUpdate, IInv, FreshIsCurrent
  <2>2. cm.dhcp4 \subseteq cm'.dhcp4 /\ cm.dhcp6 \subseteq cm'.dhcp6
    BY <2>1, RentFacts DEF IInv, TypeOK
  <2> QED
    BY <1>5, <2>2 DEF RentAnswerLost
<1>6. CASE SetUpdate(c)
  BY <1>6 DEF SetUpdate, CanUpdate, IInv, FreshIsCurrent
<1>7. CASE ReleaseUpdate(c)
  <2>1. lease[c] # NoLease /\ lease[c] \in [v4 : Pool4, v6 : Pool6]
    BY <1>7 DEF ReleaseUpdate, IInv, TypeOK, LeaseHeld, Leased, Holding
  <2>2. cm' = AfterRelease(cm, lease[c])
    BY <1>7 DEF ReleaseUpdate, CanUpdate, IInv, FreshIsCurrent
  <2> QED
    BY <1>7, <2>1, <2>2, ReleaseFacts DEF ReleaseUpdate, IInv, TypeOK
<1>8. CASE ReleaseRefused(c) \/ Crash(c)
  BY <1>8 DEF ReleaseRefused, Crash, IInv, LeaseHeld, Leased, Holding
<1>9. CASE ApiError(c)
  BY <1>9 DEF ApiError, IInv, LeaseHeld, Leased, Holding
<1> QED
  BY <1>1, <1>2, <1>3, <1>4, <1>5, <1>6, <1>7, <1>8, <1>9 DEF Operation, Failure

\* No step takes the mark off an address that somebody else uses or that
\* nobody gives up.
THEOREM MarksAreKept == Spec => OnlyOwnMarksRemoved
<1>1. IInv /\ [Next]_vars =>
        [/\ \A o \in cm.dhcp4 \ cm'.dhcp4 :
              \E c \in Client : lease[c].v4 = o /\ lease'[c] = NoLease
         /\ \A o \in cm.dhcp6 \ cm'.dhcp6 :
              \E c \in Client : lease[c].v6 = o /\ lease'[c] = NoLease]_vars
  <2> SUFFICES ASSUME IInv, Next
               PROVE  /\ \A o \in cm.dhcp4 \ cm'.dhcp4 :
                           \E c \in Client : lease[c].v4 = o /\ lease'[c] = NoLease
                      /\ \A o \in cm.dhcp6 \ cm'.dhcp6 :
                           \E c \in Client : lease[c].v6 = o /\ lease'[c] = NoLease
    OBVIOUS
  <2>1. ASSUME NEW c \in Client, lease' = [lease EXCEPT ![c] = NoLease]
        PROVE  lease'[c] = NoLease
    BY <2>1 DEF IInv, TypeOK
  <2> QED
    BY <2>1, StepKinds
<1> QED
  BY <1>1, Invariance, PTL DEF Spec, OnlyOwnMarksRemoved

\* The managers, which only share the ConfigMap and its resourceVersion,
\* implement the atomic lease service.
THEOREM ImplementsLease == Spec => Abstract
<1>1. Init => LeaseService!Init
  <2>1. Init => cm.dhcp4 = {} /\ cm.dhcp6 = {}
    BY DEF Init, OldConfigMap, NoConfigMap
  <2> QED
    BY <2>1 DEF Init, LeaseService!Init, spare4, spare6
<1>2. IInv /\ IInv' /\ [Next]_vars => [LeaseService!Next]_<<lease, spare4, spare6>>
  <2> SUFFICES ASSUME IInv, IInv', Next
               PROVE  LeaseService!Next
    BY DEF vars, spare4, spare6
  <2> USE DEF LeaseService!Next, spare4, spare6
  <2>1. CASE cm.dhcp4 \subseteq cm'.dhcp4 /\ cm.dhcp6 \subseteq cm'.dhcp6 /\ lease' = lease
    BY <2>1 DEF LeaseService!Lose
  <2>2. ASSUME NEW c \in Client, NEW a \in spare4, NEW b \in spare6,
               lease[c] = NoLease, lease' = [lease EXCEPT ![c] = [v4 |-> a, v6 |-> b]],
               cm.dhcp4 \cup {a} \subseteq cm'.dhcp4, cm.dhcp6 \cup {b} \subseteq cm'.dhcp6
        PROVE  LeaseService!Rent(c)
    BY <2>2 DEF LeaseService!Rent
  <2>3. ASSUME NEW c \in Client,
               lease[c] # NoLease, lease' = [lease EXCEPT ![c] = NoLease],
               cm'.dhcp4 \in {cm.dhcp4, cm.dhcp4 \ {lease[c].v4}},
               cm'.dhcp6 \in {cm.dhcp6, cm.dhcp6 \ {lease[c].v6}}
        PROVE  LeaseService!Return(c)
    <3>1. lease[c].v4 \in Pool4 /\ lease[c].v6 \in Pool6
      BY <2>3 DEF IInv, TypeOK
    <3>2. spare4' \in {spare4, spare4 \cup {lease[c].v4}}
      BY <2>3, <3>1 DEF IInv, LeaseMarked, Leased
    <3>3. spare6' \in {spare6, spare6 \cup {lease[c].v6}}
      BY <2>3, <3>1 DEF IInv, LeaseMarked, Leased
    <3> QED
      BY <2>3, <3>2, <3>3 DEF LeaseService!Return
  <2> QED
    BY <2>1, <2>2, <2>3, StepKinds
<1> QED
  BY <1>1, <1>2, Invariance, PTL DEF Spec, Abstract, LeaseService!Spec
=============================================================================
