-------------------------- MODULE SandboxesProofs --------------------------
(***************************************************************************)
(* Theorems about Sandboxes: for any set of sandboxes and users, any range *)
(* of uids, every driver and every failure of create.                      *)
(***************************************************************************)
EXTENDS Sandboxes, FunctionTheorems, FiniteSetTheorems, WellFoundedInduction, TLAPS

\* Neither a sandbox that is not created yet nor one that found no uid has one.
NoUidYet == \A s \in Boxes : pc[s] \in {"new", "exhausted"} => uid[s] = None

UidInv == TypeOK /\ NoUidYet /\ UidLedger

\* The group is there from create_group to delete_group, and its zygote is
\* registered before anybody can ask for it.
OwnerOrder ==
  \A s \in Boxes :
    /\ pc[s] \in {"group", "zygote", "live", "drop_kill", "drop_group"} => s \in groups
    /\ pc[s] \in {"live", "drop_kill", "drop_group"} => s \in registered

\* Users and watchdogs start with the sandbox.  A user in the middle of a call
\* keeps its owner from dropping it.
InUse ==
  \A s \in Boxes :
    /\ at[Watchdog(s)] # "off" =>
         pc[s] \in {"live", "drop_kill", "drop_group", "drop_fields", "gone"}
    /\ at[User(s)] \notin {"off", "idle", "panicked"} => pc[s] = "live"

PanicInv == OwnerOrder /\ InUse /\ PanicOnlyInDrop

LEMMA MeasurersAre ==
  /\ \A s \in Boxes : Watchdog(s) \in Measurers /\ User(s) \in Measurers
  /\ \A s, r \in Boxes : Watchdog(s) # User(r)
  /\ \A s, r \in Boxes : /\ Watchdog(s) = Watchdog(r) => s = r
                         /\ User(s) = User(r) => s = r
  /\ \A t \in Measurers : \E s \in Boxes : t = Watchdog(s) \/ t = User(s)
  /\ \A s \in Boxes : Watchdog(s)[1] = "watchdog" /\ User(s)[1] = "user"
  /\ \A s \in Boxes : Watchdog(s)[2] = s /\ User(s)[2] = s
BY DEF Measurers, Watchdog, User

LEMMA MeasuredType ==
  ASSUME NEW t \in Measurers, NEW ok \in BOOLEAN, at \in [Measurers -> MeasurerPcs],
         Measured(t, ok)
  PROVE  at' \in [Measurers -> MeasurerPcs]
BY DEF Measured, MeasurerPcs

\* A set of natural numbers has a lowest one: strict inclusion of the intervals
\* that end in its elements is well founded.
LEMMA LowestExists ==
  ASSUME NEW T, T \subseteq Nat, T # {}
  PROVE  \E u \in T : \A v \in T : u <= v
<1> DEFINE R == StrictSubsetOrdering(Nat)
           Q == {0..n : n \in T}
<1>1. IsWellFoundedOn(R, FiniteSubsetsOf(Nat))
  BY FS_StrictSubsetOrderingWellFounded
<1>2. Q \subseteq FiniteSubsetsOf(Nat)
  <2>1. \A n \in T : IsFiniteSet(0..n)
    BY FS_Interval
  <2> QED
    BY <2>1 DEF FiniteSubsetsOf
<1>3. Q # {}
  OBVIOUS
<1>4. \E x \in Q : \A y \in Q : <<y, x>> \notin R
  <2> HIDE DEF R, Q
  <2> QED
    BY <1>1, <1>2, <1>3, WFMin
<1>5. PICK u \in T : \A v \in T : <<0..v, 0..u>> \notin R
  <2> HIDE DEF R
  <2> QED
    BY <1>4
<1>6. ASSUME NEW v \in T, v < u PROVE FALSE
  <2>1. 0..v \subseteq 0..u /\ u \in 0..u /\ u \notin 0..v
    BY <1>6
  <2>2. <<0..v, 0..u>> \in R
    BY <2>1 DEF StrictSubsetOrdering
  <2> QED
    BY <2>2, <1>5
<1> QED
  BY <1>5, <1>6

\* A free uid is one of the range and not in use.
LEMMA AllocateStep ==
  ASSUME NEW s \in Boxes, TypeOK, Allocate(s)
  PROVE  \/ pc[s] = "new" /\ pc' = [pc EXCEPT ![s] = "exhausted"]
            /\ UNCHANGED ids /\ Uids \subseteq used
         \/ \E u \in Uids \ used : /\ pc[s] = "new" /\ pc' = [pc EXCEPT ![s] = "uid"]
                                   /\ used' = used \cup {u}
                                   /\ uid' = [uid EXCEPT ![s] = u]
<1> DEFINE free == (Low..(High - 1)) \ used
           lowest == CHOOSE u \in free : \A v \in free : u <= v
<1>1. CASE free = {}
  BY <1>1 DEF Allocate, Step, Uids
<1>2. CASE free # {}
  <2>1. \E u \in free : \A v \in free : u <= v
    <3>1. free \subseteq Nat
      BY BoundsAssumption
    <3> HIDE DEF free
    <3> QED
      BY <3>1, <1>2, LowestExists
  <2>2. lowest \in free
    BY <2>1
  <2> QED
    BY <1>2, <2>2 DEF Allocate, Step, Uids
<1> QED
  BY <1>1, <1>2

(***************************************************************************)
(* The type invariant and the ledger of uids.                              *)
(***************************************************************************)
LEMMA UidInvInit == Init => UidInv
<1> SUFFICES ASSUME Init PROVE UidInv
  OBVIOUS
<1>1. TypeOK
  BY DEF Init, TypeOK, OwnerPcs, MeasurerPcs
<1>2. NoUidYet
  BY DEF Init, NoUidYet
<1>3. \A s \in Boxes : ~Holds(s)
  BY DEF Init, Holds
<1>4. UidLedger
  BY <1>3 DEF Init, UidLedger
<1> QED
  BY <1>1, <1>2, <1>4 DEF UidInv

\* Steps that leave the uids alone and take an owner only from one place where
\* it holds its uid to another.
LEMMA OwnerKeepsUid ==
  ASSUME NEW s \in Boxes, NEW from, NEW to \in {"uid", "group", "zygote", "live", "failed"},
         UidInv, from \in {"uid", "group", "zygote"}, Step(s, from, to), UNCHANGED ids
  PROVE  NoUidYet' /\ UidLedger' /\ pc' \in [Boxes -> OwnerPcs]
<1>1. \A r \in Boxes : Holds(r)' <=> Holds(r)
  BY DEF UidInv, TypeOK, Step, ids, Holds
<1>2. NoUidYet' /\ pc' \in [Boxes -> OwnerPcs]
  BY DEF UidInv, TypeOK, NoUidYet, Step, ids, OwnerPcs
<1> QED
  BY <1>1, <1>2 DEF UidInv, UidLedger, ids

\* The same for an owner that holds no uid any more.
LEMMA OwnerWithoutUid ==
  ASSUME NEW s \in Boxes, NEW from, NEW to \in {"drop_group", "drop_fields", "gone", "failed"},
         UidInv, UNCHANGED ids, Step(s, from, to),
         \/ from \in {"drop_kill", "drop_group", "drop_fields"} /\ to # "failed"
         \/ from = "new" /\ to = "failed"
  PROVE  NoUidYet' /\ UidLedger' /\ pc' \in [Boxes -> OwnerPcs]
<1>1. \A r \in Boxes : Holds(r)' <=> Holds(r)
  BY DEF UidInv, TypeOK, NoUidYet, Step, ids, Holds
<1>2. NoUidYet' /\ pc' \in [Boxes -> OwnerPcs]
  BY DEF UidInv, TypeOK, NoUidYet, Step, ids, OwnerPcs
<1> QED
  BY <1>1, <1>2 DEF UidInv, UidLedger, ids

\* The uid that is handed out was in nobody's hands.
LEMMA ChooseUidKeeps ==
  ASSUME NEW s \in Boxes, UidInv, ChooseUid(s)
  PROVE  NoUidYet' /\ UidLedger' /\ pc' \in [Boxes -> OwnerPcs]
         /\ used' \subseteq Uids /\ uid' \in [Boxes -> Uids \cup {None}]
<1> USE DEF UidInv, TypeOK
<1>1. CASE Rootless
  <2>1. Step(s, "new", "uid") /\ UNCHANGED ids /\ uid[s] = None
    BY <1>1 DEF ChooseUid, Step, NoUidYet
  <2>2. \A r \in Boxes : Holds(r)' <=> Holds(r)
    BY <2>1 DEF Step, ids, Holds
  <2> QED
    BY <2>1, <2>2 DEF Step, ids, NoUidYet, UidLedger, OwnerPcs
<1>2. CASE pc[s] = "new" /\ pc' = [pc EXCEPT ![s] = "exhausted"] /\ UNCHANGED ids
  <2>1. \A r \in Boxes : Holds(r)' <=> Holds(r)
    BY <1>2 DEF ids, Holds
  <2> QED
    BY <1>2, <2>1 DEF ids, NoUidYet, UidLedger, OwnerPcs
<1>3. ASSUME NEW u \in Uids \ used, pc[s] = "new", pc' = [pc EXCEPT ![s] = "uid"],
             used' = used \cup {u}, uid' = [uid EXCEPT ![s] = u]
      PROVE  NoUidYet' /\ UidLedger' /\ pc' \in [Boxes -> OwnerPcs]
             /\ used' \subseteq Uids /\ uid' \in [Boxes -> Uids \cup {None}]
  <2>1. u # None
    BY BoundsAssumption, NoneAssumption DEF Uids
  <2>2. Holds(s)' /\ uid'[s] = u /\ ~Holds(s)
    BY <1>3, <2>1 DEF Holds
  <2>3. \A r \in Boxes \ {s} : (Holds(r)' <=> Holds(r)) /\ uid'[r] = uid[r]
    BY <1>3 DEF Holds
  <2>4. \A r \in Boxes : Holds(r) => uid[r] # u
    BY DEF UidLedger
  <2>5. UidLedger'
    BY <1>3, <2>2, <2>3, <2>4 DEF UidLedger
  <2> QED
    BY <1>3, <2>5 DEF NoUidYet, OwnerPcs
<1> QED
  BY <1>1, <1>2, <1>3, AllocateStep DEF ChooseUid

\* The uid that is given back was this sandbox's alone.
LEMMA DropUidKeeps ==
  ASSUME NEW s \in Boxes, UidInv, DropUid(s)
  PROVE  NoUidYet' /\ UidLedger' /\ pc' \in [Boxes -> OwnerPcs] /\ used' \subseteq Uids
<1> USE DEF UidInv, TypeOK
<1>1. pc[s] = "live" /\ pc' = [pc EXCEPT ![s] = "drop_kill"]
      /\ used' = used \ {uid[s]} /\ uid' = uid
  BY DEF DropUid, Step
<1>2. \A r \in Boxes \ {s} : Holds(r)' <=> Holds(r)
  BY <1>1 DEF Holds
<1>3. ~Holds(s)' /\ (uid[s] # None => Holds(s))
  BY <1>1 DEF Holds
<1>5. \A r \in Boxes : Holds(r)' <=> Holds(r) /\ r # s
  BY <1>2, <1>3
<1>6. \A r \in Boxes : Holds(r) /\ r # s => uid[r] # uid[s]
  <2>1. CASE uid[s] = None
    BY <2>1 DEF Holds
  <2>2. CASE uid[s] # None
    BY <2>2, <1>3 DEF UidLedger
  <2> QED
    BY <2>1, <2>2
<1>7. used' = {uid[r] : r \in {q \in Boxes : Holds(q) /\ q # s}}
  <2>1. ASSUME NEW u \in used, u # uid[s]
        PROVE  \E r \in Boxes : Holds(r) /\ r # s /\ u = uid[r]
    BY <2>1 DEF UidLedger
  <2>2. \A r \in Boxes : Holds(r) /\ r # s => uid[r] \in used \ {uid[s]}
    BY <1>6 DEF UidLedger
  <2> QED
    BY <1>1, <2>1, <2>2
<1>8. UidLedger'
  BY <1>1, <1>5, <1>7 DEF UidLedger
<1> QED
  BY <1>1, <1>8 DEF NoUidYet, OwnerPcs

\* What the steps of users, watchdogs and the kernel have in common.
LEMMA OthersKeepUids ==
  ASSUME UidInv, UNCHANGED <<ids, pc>>
  PROVE  NoUidYet' /\ UidLedger' /\ pc' \in [Boxes -> OwnerPcs]
         /\ used' \subseteq Uids /\ uid' \in [Boxes -> Uids \cup {None}]
<1>1. \A r \in Boxes : Holds(r)' <=> Holds(r)
  BY DEF ids, Holds
<1> QED
  BY <1>1 DEF UidInv, TypeOK, ids, NoUidYet, UidLedger

\* A watchdog or a user: every step of theirs.
LEMMA MeasurersKeep ==
  ASSUME UidInv,
         \/ \E s \in Boxes : WatchdogStep(s)
         \/ \E s \in Users : UserStep(s)
         \/ \E t \in Measurers : Measure(t)
  PROVE  UidInv'
<1> USE DEF UidInv, TypeOK
<1> DEFINE Types == /\ groups' \subseteq Boxes /\ registered' \subseteq Boxes
                    /\ groupsLock' \in Measurers \cup {None}
                    /\ zlock' \in [Boxes -> Measurers \cup {None}]
                    /\ info' \in [Boxes -> BOOLEAN]
                    /\ zyg' \in [Boxes -> {"none", "running", "signalled", "dead", "orphan"}]
                    /\ jobs' \in [Boxes -> BOOLEAN]
                    /\ at' \in [Measurers -> MeasurerPcs]
<1> SUFFICES UNCHANGED <<ids, pc>> /\ Types
  <2> HIDE DEF Types
  <2>1. UidInv => (UNCHANGED <<ids, pc>> /\ Types => UidInv')
    BY OthersKeepUids DEF Types
  <2> QED
    BY <2>1
<1>1. ASSUME NEW s \in Boxes, WatchdogTick(s) PROVE UNCHANGED <<ids, pc>> /\ Types
  BY <1>1 DEF WatchdogTick, driver, mutex, kernel, MeasurerPcs
<1>2. ASSUME NEW s \in Boxes, WatchdogKill(s) PROVE UNCHANGED <<ids, pc>> /\ Types
  BY <1>2 DEF WatchdogKill, Move, TakeZygote, driver, kernel, MeasurerPcs
<1>3. ASSUME NEW s \in Users, UserMeasures(s) PROVE UNCHANGED <<ids, pc>> /\ Types
  BY <1>3 DEF UserMeasures, Move, driver, mutex, kernel, MeasurerPcs
<1>4. ASSUME NEW s \in Users, UserRequest(s) PROVE UNCHANGED <<ids, pc>> /\ Types
  <2>1. s \in Boxes /\ User(s) \in Measurers
    BY UsersAssumption, MeasurersAre
  <2> QED
    BY <1>4, <2>1 DEF UserRequest, Move, driver, kernel, MeasurerPcs
<1>5. ASSUME NEW s \in Users, UserAnswered(s) PROVE UNCHANGED <<ids, pc>> /\ Types
  <2>1. s \in Boxes
    BY UsersAssumption
  <2>2. jobs' \in [Boxes -> BOOLEAN]
    BY <1>5, <2>1 DEF UserAnswered
  <2>3. zlock' \in [Boxes -> Measurers \cup {None}] /\ at' \in [Measurers -> MeasurerPcs]
    BY <1>5, <2>1 DEF UserAnswered, Move, MeasurerPcs
  <2> QED
    BY <1>5, <2>2, <2>3 DEF UserAnswered, driver
<1>6. ASSUME NEW s \in Users, UserKill(s) PROVE UNCHANGED <<ids, pc>> /\ Types
  BY <1>6, UsersAssumption DEF UserKill, TakeZygote, driver, kernel
<1>7. ASSUME NEW t \in Measurers, ReadUsage(t) PROVE UNCHANGED <<ids, pc>> /\ Types
  BY <1>7 DEF ReadUsage, Measured, driver, mutex, kernel, MeasurerPcs
<1>8. ASSUME NEW t \in Measurers, LookUpGroup(t) PROVE UNCHANGED <<ids, pc>> /\ Types
  BY <1>8 DEF LookUpGroup, Move, mutex, kernel, MeasurerPcs
<1>9. ASSUME NEW t \in Measurers, LockZygote(t) PROVE UNCHANGED <<ids, pc>> /\ Types
  <2>1. t[2] \in Boxes
    BY DEF Measurers
  <2>2. zlock' \in [Boxes -> Measurers \cup {None}] /\ at' \in [Measurers -> MeasurerPcs]
    BY <1>9, <2>1 DEF LockZygote, Move, Measured, MeasurerPcs
  <2> QED
    BY <1>9, <2>2 DEF LockZygote, kernel
<1>10. ASSUME NEW t \in Measurers, Answer(t) PROVE UNCHANGED <<ids, pc>> /\ Types
  <2>1. zlock' \in [Boxes -> Measurers \cup {None}] /\ at' \in [Measurers -> MeasurerPcs]
    BY <1>10 DEF Answer, Measured, MeasurerPcs
  <2> QED
    BY <1>10, <2>1 DEF Answer, driver, kernel
<1> HIDE DEF Types, UidInv, TypeOK
<1> QED
  BY <1>1, <1>2, <1>3, <1>4, <1>5, <1>6, <1>7, <1>8, <1>9, <1>10
     DEF WatchdogStep, UserStep, Measure

\* An owner: every step of create and of drop.
LEMMA OwnerKeeps ==
  ASSUME UidInv, NEW s \in Boxes, Create(s) \/ Drop(s)
  PROVE  UidInv'
<1> USE DEF UidInv, TypeOK
<1>1. CASE ChooseUid(s)
  BY <1>1, ChooseUidKeeps DEF ChooseUid, driver, mutex, kernel
<1>2. CASE CreateGroup(s)
  <2>1. Step(s, "uid", "group") /\ UNCHANGED ids
    BY <1>2 DEF CreateGroup
  <2> QED
    BY <1>2, <2>1, OwnerKeepsUid DEF CreateGroup, ids, mutex, kernel
<1>3. CASE StartZygote(s)
  <2>1. Step(s, "group", "zygote") /\ UNCHANGED ids
    BY <1>3 DEF StartZygote
  <2> QED
    BY <1>3, <2>1, OwnerKeepsUid DEF StartZygote, ids, driver
<1>4. CASE Register(s)
  <2>1. Step(s, "zygote", "live") /\ UNCHANGED ids
    BY <1>4 DEF Register
  <2>2. at' \in [Measurers -> MeasurerPcs]
    BY <1>4 DEF Register, MeasurerPcs
  <2> QED
    BY <1>4, <2>1, <2>2, OwnerKeepsUid DEF Register, ids, mutex, kernel
<1>5. CASE RejectItems(s)
  <2>1. Step(s, "new", "failed") /\ UNCHANGED ids
    BY <1>5 DEF RejectItems
  <2> QED
    BY <1>5, <2>1, OwnerWithoutUid DEF RejectItems, ids, driver, mutex, kernel
<1>6. CASE CreateGroupFails(s)
  <2>1. Step(s, "uid", "failed") /\ UNCHANGED ids
    BY <1>6 DEF CreateGroupFails
  <2>2. groups' \subseteq Boxes
    BY <1>6 DEF CreateGroupFails
  <2> QED
    BY <1>6, <2>1, <2>2, OwnerKeepsUid DEF CreateGroupFails, ids, mutex, kernel
<1>7. CASE StartZygoteFails(s)
  <2>1. Step(s, "group", "failed") /\ UNCHANGED ids
    BY <1>7 DEF StartZygoteFails
  <2>2. zyg' \in [Boxes -> {"none", "running", "signalled", "dead", "orphan"}]
    BY <1>7 DEF StartZygoteFails
  <2> QED
    BY <1>7, <2>1, <2>2, OwnerKeepsUid DEF StartZygoteFails, ids, driver, mutex
<1>8. CASE DropUid(s)
  BY <1>8, DropUidKeeps DEF DropUid, driver, mutex, kernel
<1>9. CASE DropKill(s)
  <2>1. Step(s, "drop_kill", "drop_group") /\ UNCHANGED ids
    BY <1>9 DEF DropKill
  <2> QED
    BY <1>9, <2>1, OwnerWithoutUid DEF DropKill, TakeZygote, ids, driver, kernel
<1>10. CASE DropGroup(s)
  <2>1. Step(s, "drop_group", "drop_fields") /\ UNCHANGED ids
    BY <1>10 DEF DropGroup
  <2> QED
    BY <1>10, <2>1, OwnerWithoutUid DEF DropGroup, ids, mutex, kernel
<1>11. CASE DropFields(s)
  <2>1. Step(s, "drop_fields", "gone") /\ UNCHANGED ids
    BY <1>11 DEF DropFields
  <2> QED
    BY <1>11, <2>1, OwnerWithoutUid DEF DropFields, ids, driver, mutex, kernel
<1> QED
  BY <1>1, <1>2, <1>3, <1>4, <1>5, <1>6, <1>7, <1>8, <1>9, <1>10, <1>11
     DEF Create, Drop

LEMMA KernelKeeps ==
  ASSUME UidInv, NEW s \in Boxes, ZygoteExit(s) \/ JobsExit(s)
  PROVE  UidInv'
BY OthersKeepUids DEF ZygoteExit, JobsExit, ids, driver, mutex, UidInv, TypeOK

LEMMA UidInvNext == UidInv /\ [Next]_vars => UidInv'
<1> SUFFICES ASSUME UidInv, [Next]_vars PROVE UidInv'
  OBVIOUS
<1>1. CASE UNCHANGED vars
  BY <1>1, OthersKeepUids DEF vars, ids, driver, mutex, kernel, UidInv, TypeOK
<1> QED
  BY <1>1, OwnerKeeps, KernelKeeps, MeasurersKeep DEF Next, Quiescent

\* UidAllocator::used is exactly the uids that are held, and they are distinct,
\* for any number of sandboxes: deallocate gives back the caller's own uid and
\* allocate hands out a free one.
THEOREM UidLedgerHolds == Spec => [](TypeOK /\ UidLedger)
<1>1. UidInv => TypeOK /\ UidLedger
  BY DEF UidInv
<1> QED
  BY UidInvInit, UidInvNext, <1>1, PTL DEF Spec

(***************************************************************************)
(* UidExhausted.                                                           *)
(***************************************************************************)

\* When no uid is left, holders and uids correspond one to one.
LEMMA FullLedger ==
  ASSUME UidInv, Uids \subseteq used
  PROVE  Cardinality({r \in Boxes : Holds(r)}) = High - Low
<1> DEFINE Hs == {r \in Boxes : Holds(r)}
           f  == [r \in Hs |-> uid[r]]
<1>1. used = Uids
  BY DEF UidInv, TypeOK
<1>2. f \in Bijection(Hs, Uids)
  <2>1. \A r \in Hs : uid[r] \in Uids
    BY <1>1 DEF UidInv, UidLedger
  <2>2. \A r, q \in Hs : uid[r] = uid[q] => r = q
    BY DEF UidInv, UidLedger
  <2>3. \A u \in Uids : \E r \in Hs : uid[r] = u
    BY <1>1 DEF UidInv, UidLedger
  <2> HIDE DEF Hs
  <2>4. f \in [Hs -> Uids]
    BY <2>1
  <2>5. f \in Injection(Hs, Uids)
    BY <2>2, <2>4 DEF Injection, IsInjective
  <2>6. f \in Surjection(Hs, Uids)
    BY <2>3, <2>4 DEF Surjection
  <2> QED
    BY <2>5, <2>6 DEF Bijection
<1>3. IsFiniteSet(Uids) /\ Cardinality(Uids) = High - Low
  <2>1. Low \in Int /\ High - 1 \in Int /\ Low <= High
    BY BoundsAssumption
  <2>2. /\ IsFiniteSet(Low..(High - 1))
        /\ Cardinality(Low..(High - 1)) = IF Low > High - 1 THEN 0 ELSE (High - 1) - Low + 1
    BY <2>1, FS_Interval, Zenon
  <2>3. (IF Low > High - 1 THEN 0 ELSE (High - 1) - Low + 1) = High - Low
    BY BoundsAssumption
  <2> QED
    BY <2>2, <2>3 DEF Uids
<1>4. ExistsBijection(Uids, Hs)
  <2>1. ExistsBijection(Hs, Uids)
    BY <1>2 DEF ExistsBijection
  <2> QED
    BY <2>1, Fun_ExistsBijSymmetric
<1> QED
  BY <1>3, <1>4, FS_Bijection

\* create fails with UidExhausted only when every uid is held by a sandbox that
\* was created and not dropped.
THEOREM ExhaustedOnlyIfFullHolds == Spec => ExhaustedOnlyIfFull
<1> DEFINE Full == \A s \in Boxes : pc[s] = "new" /\ pc'[s] = "exhausted" =>
                      Cardinality({r \in Boxes : Holds(r)}) = High - Low
<1>1. UidInv /\ [Next]_vars => [Full]_vars
  <2> SUFFICES ASSUME UidInv, Next, NEW s \in Boxes, pc[s] = "new", pc'[s] = "exhausted"
               PROVE  Cardinality({r \in Boxes : Holds(r)}) = High - Low
    BY DEF Full
  <2>1. pc # pc'
    OBVIOUS
  <2>2. PICK q \in Boxes : Create(q) \/ Drop(q)
    <3>1. \A q \in Boxes : WatchdogStep(q) \/ ZygoteExit(q) \/ JobsExit(q) => pc' = pc
      BY DEF WatchdogStep, WatchdogTick, WatchdogKill, ZygoteExit, JobsExit
    <3>2. \A q \in Users : UserStep(q) => pc' = pc
      BY DEF UserStep, UserMeasures, UserRequest, UserAnswered, UserKill
    <3>3. \A t \in Measurers : Measure(t) => pc' = pc
      BY DEF Measure, ReadUsage, LookUpGroup, LockZygote, Answer
    <3> QED
      BY <2>1, <3>1, <3>2, <3>3 DEF Next, Quiescent, vars
  <2>3. q = s /\ ChooseUid(s)
    <3>1. pc \in [Boxes -> OwnerPcs]
      BY DEF UidInv, TypeOK
    <3>2. \A from, to : Step(q, from, to) /\ to # "exhausted" => pc'[s] # "exhausted"
      BY <3>1 DEF Step
    <3>3. ~Drop(q)
      BY <3>2 DEF Drop, DropUid, DropKill, DropGroup, DropFields
    <3>4. ChooseUid(q)
      BY <2>2, <3>2, <3>3 DEF Create, CreateGroup, StartZygote, Register, RejectItems,
                              CreateGroupFails, StartZygoteFails
    <3>5. q = s
      BY <3>1, <3>4 DEF ChooseUid, Allocate, Step, ids
    <3> QED
      BY <3>4, <3>5
  <2>4. ~Rootless /\ Allocate(s)
    BY <2>3 DEF ChooseUid, Step, UidInv, TypeOK
  <2>5. Uids \subseteq used
    BY <2>4, AllocateStep DEF UidInv, TypeOK
  <2> QED
    BY <2>5, FullLedger
<1>2. Spec => []UidInv
  BY UidInvInit, UidInvNext, PTL DEF Spec
<1> QED
  BY <1>1, <1>2, PTL DEF Spec, ExhaustedOnlyIfFull

(***************************************************************************)
(* The panics of Prlimit::resource_usage.                                  *)
(***************************************************************************)

LEMMA PanicInvInit == Init => PanicInv
BY MeasurersAre DEF Init, PanicInv, OwnerOrder, InUse, PanicOnlyInDrop

LEMMA PanicInvOwner ==
  ASSUME UidInv, PanicInv, NEW s \in Boxes, Create(s) \/ Drop(s)
  PROVE  PanicInv'
<1> USE MeasurersAre DEF PanicInv, OwnerOrder, InUse, PanicOnlyInDrop, Step
<1>0. pc \in [Boxes -> OwnerPcs] /\ at \in [Measurers -> MeasurerPcs]
      /\ groups \subseteq Boxes /\ registered \subseteq Boxes
  BY DEF UidInv, TypeOK
<1>1. CASE ChooseUid(s)
  BY <1>0, <1>1 DEF ChooseUid, Allocate, ids, driver
<1>2. CASE CreateGroup(s)
  BY <1>0, <1>2 DEF CreateGroup
<1>3. CASE StartZygote(s)
  BY <1>0, <1>3 DEF StartZygote, driver
<1>4. CASE Register(s)
  <2>1. \A r \in Boxes : /\ r # s => at'[Watchdog(r)] = at[Watchdog(r)]
                                      /\ at'[User(r)] = at[User(r)]
                         /\ at'[Watchdog(s)] = "sleep" /\ at'[User(s)] = "idle"
    BY <1>0, <1>4 DEF Register
  <2> QED
    BY <1>0, <1>4, <2>1 DEF Register
<1>5. CASE RejectItems(s)
  BY <1>0, <1>5 DEF RejectItems, driver
<1>6. CASE CreateGroupFails(s)
  BY <1>0, <1>6 DEF CreateGroupFails
<1>7. CASE StartZygoteFails(s)
  BY <1>0, <1>7 DEF StartZygoteFails, driver
<1>8. CASE DropUid(s)
  BY <1>0, <1>8 DEF DropUid, driver
<1>9. CASE DropKill(s)
  BY <1>0, <1>9 DEF DropKill, driver
<1>10. CASE DropGroup(s)
  BY <1>0, <1>10 DEF DropGroup
<1>11. CASE DropFields(s)
  BY <1>0, <1>11 DEF DropFields, driver
<1> QED
  BY <1>1, <1>2, <1>3, <1>4, <1>5, <1>6, <1>7, <1>8, <1>9, <1>10, <1>11
     DEF Create, Drop

\* A step that moves one measurer, and nothing else that matters.
LEMMA PanicInvMove ==
  ASSUME UidInv, PanicInv, NEW t \in Measurers, NEW to \in MeasurerPcs,
         at' = [at EXCEPT ![t] = to], at[t] # "off", UNCHANGED <<pc, groups, registered>>,
         to \in {"off", "idle", "panicked"} \/ t[1] = "watchdog" \/ pc[t[2]] = "live",
         to = "panicked" => t[2] \notin groups \cap registered /\ at[t] = "look"
  PROVE  PanicInv'
<1> USE MeasurersAre DEF PanicInv, OwnerOrder, InUse, PanicOnlyInDrop
<1>0. at \in [Measurers -> MeasurerPcs]
  BY DEF UidInv, TypeOK
<1>1. PICK s \in Boxes : t = Watchdog(s) \/ t = User(s)
  OBVIOUS
<1>2. CASE t = Watchdog(s)
  <2>1. \A r \in Boxes : at'[User(r)] = at[User(r)] /\ (r # s => at'[Watchdog(r)] = at[Watchdog(r)])
    BY <1>0, <1>2
  <2>2. at'[Watchdog(s)] = to /\ t[2] = s
    BY <1>0, <1>2
  <2> QED
    BY <1>2, <2>1, <2>2
<1>3. CASE t = User(s)
  <2>1. \A r \in Boxes : at'[Watchdog(r)] = at[Watchdog(r)] /\ (r # s => at'[User(r)] = at[User(r)])
    BY <1>0, <1>3
  <2>2. at'[User(s)] = to /\ t[2] = s /\ t[1] # "watchdog"
    BY <1>0, <1>3
  <2>3. to # "panicked"
    BY <1>3, <2>2
  <2> QED
    BY <1>3, <2>1, <2>2, <2>3
<1> QED
  BY <1>1, <1>2, <1>3

LEMMA PanicInvMeasurers ==
  ASSUME UidInv, PanicInv,
         \/ \E s \in Boxes : WatchdogStep(s)
         \/ \E s \in Users : UserStep(s)
         \/ \E t \in Measurers : Measure(t)
  PROVE  PanicInv'
<1> USE DEF MeasurerPcs
<1>1. ASSUME NEW s \in Boxes, WatchdogStep(s) PROVE PanicInv'
  <2>1. Watchdog(s) \in Measurers /\ Watchdog(s)[1] = "watchdog"
    BY MeasurersAre
  <2> QED
    BY <1>1, <2>1, PanicInvMove DEF WatchdogStep, WatchdogTick, WatchdogKill, Move, driver
<1>2. ASSUME NEW s \in Users, UserStep(s) PROVE PanicInv'
  <2>1. s \in Boxes /\ User(s) \in Measurers /\ User(s)[2] = s
    BY MeasurersAre, UsersAssumption
  <2>2. CASE UserKill(s)
    BY <2>2 DEF UserKill, driver, PanicInv, OwnerOrder, InUse, PanicOnlyInDrop
  <2> QED
    BY <1>2, <2>1, <2>2, PanicInvMove
       DEF UserStep, UserMeasures, UserRequest, UserAnswered, Move, driver
<1>3. ASSUME NEW t \in Measurers, Measure(t) PROVE PanicInv'
  <2>1. t[1] # "watchdog" /\ at[t] \notin {"off", "idle", "panicked"} => pc[t[2]] = "live"
    BY MeasurersAre DEF PanicInv, InUse
  <2>2. t[1] = "user" <=> t[1] # "watchdog"
    BY DEF Measurers
  <2>3. CASE LookUpGroup(t)
    BY <2>1, <2>3, PanicInvMove DEF LookUpGroup, Move
  <2>4. CASE ReadUsage(t) \/ Answer(t)
    BY <2>1, <2>2, <2>4, PanicInvMove DEF ReadUsage, Answer, Measured, driver
  <2>5. CASE LockZygote(t)
    BY <2>1, <2>2, <2>5, PanicInvMove DEF LockZygote, Measured, Move
  <2> QED
    BY <1>3, <2>3, <2>4, <2>5 DEF Measure
<1> QED
  BY <1>1, <1>2, <1>3

LEMMA PanicInvNext == UidInv /\ PanicInv /\ [Next]_vars => PanicInv'
<1> SUFFICES ASSUME UidInv, PanicInv, [Next]_vars PROVE PanicInv'
  OBVIOUS
<1> USE DEF PanicInv, OwnerOrder, InUse, PanicOnlyInDrop
<1>1. CASE UNCHANGED vars
  BY <1>1 DEF vars, driver
<1>2. ASSUME NEW s \in Boxes, ZygoteExit(s) \/ JobsExit(s) PROVE PanicInv'
  BY <1>2 DEF ZygoteExit, JobsExit, driver
<1> QED
  BY <1>1, <1>2, PanicInvOwner, PanicInvMeasurers DEF Next, Quiescent

\* resource_usage never panics for a user of a sandbox, and for its watchdog only
\* while or after the sandbox is dropped: create registers the zygote before the
\* watchdog and the user exist, and drop removes the group only when no user is
\* left.
THEOREM PanicsOnlyInDrop == Spec => []PanicOnlyInDrop
<1>1. UidInv /\ PanicInv => PanicOnlyInDrop
  BY DEF PanicInv
<1> QED
  BY UidInvInit, UidInvNext, PanicInvInit, PanicInvNext, <1>1, PTL DEF Spec

\* Where the owner of a zygote that nobody has killed is.  A running zygote still
\* has its ZygoteInfo, so that drop cannot miss it; one that a failed create left
\* behind has none, and its sandbox keeps the uid.
UnkilledPlace ==
  \A s \in Boxes :
    /\ zyg[s] = "running" => info[s] /\ pc[s] \in {"zygote", "live", "drop_kill"}
    /\ zyg[s] = "orphan" => pc[s] = "failed"

LEMMA UnkilledPlaceOwner ==
  ASSUME UidInv, UnkilledPlace, NEW s \in Boxes, Create(s) \/ Drop(s)
  PROVE  UnkilledPlace'
<1>0. /\ pc \in [Boxes -> OwnerPcs] /\ info \in [Boxes -> BOOLEAN]
      /\ zyg \in [Boxes -> {"none", "running", "signalled", "dead", "orphan"}]
  BY DEF UidInv, TypeOK
<1> USE DEF UnkilledPlace, Step, mutex, kernel
<1>1. CASE ChooseUid(s)
  BY <1>0, <1>1 DEF ChooseUid, Allocate
<1>2. CASE CreateGroup(s) \/ CreateGroupFails(s) \/ RejectItems(s)
  BY <1>0, <1>2 DEF CreateGroup, CreateGroupFails, RejectItems
<1>3. CASE StartZygote(s)
  BY <1>0, <1>3 DEF StartZygote
<1>4. CASE StartZygoteFails(s)
  BY <1>0, <1>4 DEF StartZygoteFails
<1>5. CASE Register(s)
  BY <1>0, <1>5 DEF Register
<1>6. CASE DropKill(s)
  BY <1>0, <1>6 DEF DropKill, TakeZygote
<1>7. CASE DropUid(s)
  BY <1>0, <1>7 DEF DropUid
<1>8. CASE DropGroup(s) \/ DropFields(s)
  BY <1>0, <1>8 DEF DropGroup, DropFields
<1> QED
  BY <1>1, <1>2, <1>3, <1>4, <1>5, <1>6, <1>7, <1>8 DEF Create, Drop

LEMMA UnkilledPlaceNext == UidInv /\ UnkilledPlace /\ [Next]_vars => UnkilledPlace'
<1> SUFFICES ASSUME UidInv, UnkilledPlace, [Next]_vars PROVE UnkilledPlace'
  OBVIOUS
<1>0. /\ info \in [Boxes -> BOOLEAN]
      /\ zyg \in [Boxes -> {"none", "running", "signalled", "dead", "orphan"}]
  BY DEF UidInv, TypeOK
<1>1. UNCHANGED <<pc, info, zyg>> => UnkilledPlace'
  BY DEF UnkilledPlace
<1>2. ASSUME NEW s \in Boxes, TakeZygote(s), UNCHANGED pc PROVE UnkilledPlace'
  BY <1>0, <1>2 DEF TakeZygote, UnkilledPlace
<1>3. ASSUME NEW s \in Boxes, ZygoteExit(s) PROVE UnkilledPlace'
  BY <1>0, <1>3 DEF ZygoteExit, mutex, UnkilledPlace
<1>4. ASSUME NEW s \in Boxes, JobsExit(s) PROVE UnkilledPlace'
  BY <1>1, <1>4 DEF JobsExit, mutex
<1>5. ASSUME NEW s \in Boxes, WatchdogStep(s) PROVE UnkilledPlace'
  BY <1>1, <1>2, <1>5 DEF WatchdogStep, WatchdogTick, WatchdogKill, mutex, kernel
<1>6. ASSUME NEW s \in Users, UserStep(s) PROVE UnkilledPlace'
  <2>1. CASE UserKill(s)
    BY <1>2, <2>1, UsersAssumption DEF UserKill
  <2> QED
    BY <1>1, <1>6, <2>1
       DEF UserStep, UserMeasures, UserRequest, UserAnswered, mutex, kernel
<1>7. ASSUME NEW t \in Measurers, Measure(t) PROVE UnkilledPlace'
  BY <1>1, <1>7 DEF Measure, ReadUsage, LookUpGroup, LockZygote, Answer, mutex, kernel
<1>8. CASE UNCHANGED vars
  BY <1>1, <1>8 DEF vars, mutex, kernel
<1> QED
  BY <1>3, <1>4, <1>5, <1>6, <1>7, <1>8, UnkilledPlaceOwner DEF Next, Quiescent

\* The processes of two sandboxes never go on under one uid, for any number of
\* sandboxes, any range of uids and any failure of create, except between the two
\* first steps of a drop: whoever gets the uid again finds the earlier owner at
\* its kill or past it.
THEOREM ProcessesApartHolds == Spec => []ProcessesApart
<1>1. Init => UnkilledPlace
  BY DEF Init, UnkilledPlace
<1>2. UidInv /\ UnkilledPlace => ProcessesApart
  <2> SUFFICES ASSUME UidInv, UnkilledPlace, NEW s \in Boxes, NEW r \in Boxes, s # r,
                      uid[s] # None, uid[s] = uid[r], Unkilled(s), Unkilled(r)
               PROVE  "drop_kill" \in {pc[s], pc[r]}
    BY DEF ProcessesApart
  <2>1. ASSUME NEW q \in {s, r}, pc[q] # "drop_kill" PROVE Holds(q)
    BY <2>1 DEF UnkilledPlace, Unkilled, Holds
  <2>2. ~(Holds(s) /\ Holds(r))
    BY DEF UidInv, UidLedger
  <2> QED
    BY <2>1, <2>2
<1> QED
  BY UidInvInit, UidInvNext, UnkilledPlaceNext, <1>1, <1>2, PTL DEF Spec

(***************************************************************************)
(* The zygote mutex: Sandboxes implements ZygoteLock.                      *)
(***************************************************************************)

\* The zygote runs as long as its ZygoteInfo is in the mutex, and neither is
\* there before start_zygote.
InfoInv ==
  \A s \in Boxes :
    /\ info[s] => zyg[s] = "running"
    /\ pc[s] \in {"new", "uid", "group"} => zyg[s] = "none" /\ ~info[s]

\* Exactly the thread whose request is served has the mutex, and it found a
\* ZygoteInfo in it.
MutexInv ==
  \A s \in Boxes :
    /\ zlock[s] # None => info[s] /\ zlock[s][2] = s /\ at[zlock[s]] \in {"ask", "request"}
    /\ \A t \in Measurers : t[2] = s /\ at[t] \in {"ask", "request"} => zlock[s] = t

LockInv == InfoInv /\ MutexInv

LEMMA LockInvInit == Init => LockInv
BY NoneAssumption DEF Init, LockInv, InfoInv, MutexInv

\* Steps that leave mutexes and zygotes alone, and move no thread in or out of a
\* request.
LEMMA LockInvStable ==
  ASSUME UidInv, LockInv, UNCHANGED <<zlock, info>>,
         \A t \in Measurers : at'[t] \in {"ask", "request"} <=> at[t] \in {"ask", "request"},
         \A s \in Boxes : \/ zyg'[s] = zyg[s]
                          \/ zyg[s] \in {"none", "signalled"} /\ ~info[s]
                             /\ pc'[s] \notin {"new", "uid", "group"},
         \A s \in Boxes : pc'[s] \in {"new", "uid", "group"} => pc[s] \in {"new", "uid", "group"}
  PROVE  LockInv'
<1>1. zlock \in [Boxes -> Measurers \cup {None}]
  BY DEF UidInv, TypeOK
<1>2. InfoInv'
  BY DEF LockInv, InfoInv
<1>3. MutexInv'
  BY <1>1 DEF LockInv, MutexInv
<1> QED
  BY <1>2, <1>3 DEF LockInv

\* Only the start of a zygote, a kill, and the begin and end of a request do more.
LEMMA StartKeepsLock ==
  ASSUME UidInv, LockInv, NEW s \in Boxes, StartZygote(s)
  PROVE  LockInv'
<1> USE DEF StartZygote, Step, ids, driver
<1>0. /\ pc \in [Boxes -> OwnerPcs] /\ info \in [Boxes -> BOOLEAN]
      /\ zyg \in [Boxes -> {"none", "running", "signalled", "dead", "orphan"}]
  BY DEF UidInv, TypeOK
<1>1. InfoInv'
  BY <1>0 DEF LockInv, InfoInv
<1>2. \A r \in Boxes : info[r] => info'[r]
  BY <1>0
<1>3. MutexInv'
  BY <1>2 DEF LockInv, MutexInv
<1> QED
  BY <1>1, <1>3 DEF LockInv

LEMMA TakeKeepsLock ==
  ASSUME UidInv, LockInv, NEW s \in Boxes, TakeZygote(s),
         \A t \in Measurers : at'[t] \in {"ask", "request"} <=> at[t] \in {"ask", "request"},
         \A r \in Boxes : pc'[r] \in {"new", "uid", "group"} => pc[r] \in {"new", "uid", "group"}
  PROVE  LockInv'
<1> USE DEF TakeZygote
<1>0. /\ info \in [Boxes -> BOOLEAN] /\ zlock \in [Boxes -> Measurers \cup {None}]
      /\ zyg \in [Boxes -> {"none", "running", "signalled", "dead", "orphan"}]
  BY DEF UidInv, TypeOK
<1>1. InfoInv'
  BY <1>0 DEF LockInv, InfoInv
<1>2. \A r \in Boxes : r # s => info'[r] = info[r]
  BY <1>0
<1>3. MutexInv'
  BY <1>0, <1>2 DEF LockInv, MutexInv
<1> QED
  BY <1>1, <1>3 DEF LockInv

\* A request begins.
LEMMA BeginKeepsLock ==
  ASSUME UidInv, LockInv, NEW t \in Measurers, NEW to \in {"ask", "request"},
         zlock[t[2]] = None, info[t[2]],
         zlock' = [zlock EXCEPT ![t[2]] = t], at' = [at EXCEPT ![t] = to],
         UNCHANGED <<pc, info, zyg>>
  PROVE  LockInv'
<1>0. zlock \in [Boxes -> Measurers \cup {None}] /\ at \in [Measurers -> MeasurerPcs]
      /\ t[2] \in Boxes /\ t # None
  BY NoneAssumption DEF UidInv, TypeOK, Measurers
<1>1. InfoInv'
  BY DEF LockInv, InfoInv
<1>2. \A r \in Boxes : r # t[2] => zlock'[r] = zlock[r]
  BY <1>0
<1>3. zlock'[t[2]] = t /\ at'[t] = to
  BY <1>0
<1>4. \A u \in Measurers : u # t => at'[u] = at[u]
  BY <1>0
<1>5. ASSUME NEW r \in Boxes, r # t[2]
      PROVE  /\ zlock'[r] # None => info[r] /\ zlock'[r][2] = r
                                    /\ at'[zlock'[r]] \in {"ask", "request"}
             /\ \A u \in Measurers : u[2] = r /\ at'[u] \in {"ask", "request"} => zlock'[r] = u
  <2>1. zlock[r] # None => zlock[r] \in Measurers /\ zlock[r] # t
    BY <1>0, <1>5 DEF LockInv, MutexInv
  <2> QED
    BY <1>2, <1>4, <1>5, <2>1 DEF LockInv, MutexInv
<1>6. ASSUME NEW u \in Measurers, u[2] = t[2], at'[u] \in {"ask", "request"} PROVE u = t
  <2>1. at[u] \in {"ask", "request"} => zlock[t[2]] = u
    BY <1>0, <1>6 DEF LockInv, MutexInv
  <2> QED
    BY <1>4, <1>6, <2>1, NoneAssumption
<1>7. MutexInv'
  BY <1>3, <1>5, <1>6 DEF MutexInv
<1> QED
  BY <1>1, <1>7 DEF LockInv

\* A request ends.
LEMMA EndKeepsLock ==
  ASSUME UidInv, LockInv, NEW t \in Measurers, NEW to \in MeasurerPcs \ {"ask", "request"},
         at[t] \in {"ask", "request"},
         zlock' = [zlock EXCEPT ![t[2]] = None], at' = [at EXCEPT ![t] = to],
         UNCHANGED <<pc, info, zyg>>
  PROVE  LockInv'
<1>0. zlock \in [Boxes -> Measurers \cup {None}] /\ at \in [Measurers -> MeasurerPcs]
      /\ t[2] \in Boxes /\ t # None
  BY NoneAssumption DEF UidInv, TypeOK, Measurers
<1>1. InfoInv'
  BY DEF LockInv, InfoInv
<1>2. zlock[t[2]] = t
  BY <1>0 DEF LockInv, MutexInv
<1>3. zlock'[t[2]] = None /\ at'[t] = to
  BY <1>0
<1>4. \A r \in Boxes : r # t[2] => zlock'[r] = zlock[r]
  BY <1>0
<1>5. \A u \in Measurers : u # t => at'[u] = at[u]
  BY <1>0
<1>6. ASSUME NEW r \in Boxes, r # t[2]
      PROVE  /\ zlock'[r] # None => info[r] /\ zlock'[r][2] = r
                                    /\ at'[zlock'[r]] \in {"ask", "request"}
             /\ \A u \in Measurers : u[2] = r /\ at'[u] \in {"ask", "request"} => zlock'[r] = u
  <2>1. zlock[r] # None => zlock[r] \in Measurers /\ zlock[r] # t
    BY <1>0, <1>6 DEF LockInv, MutexInv
  <2> QED
    BY <1>4, <1>5, <1>6, <2>1 DEF LockInv, MutexInv
<1>7. ASSUME NEW u \in Measurers, u[2] = t[2], at'[u] \in {"ask", "request"} PROVE FALSE
  BY <1>0, <1>2, <1>3, <1>5, <1>7 DEF LockInv, MutexInv
<1>8. MutexInv'
  BY <1>3, <1>6, <1>7 DEF MutexInv
<1> QED
  BY <1>1, <1>8 DEF LockInv

LEMMA LockInvOwner ==
  ASSUME UidInv, PanicInv, LockInv, NEW s \in Boxes, Create(s) \/ Drop(s)
  PROVE  LockInv'
<1>0. pc \in [Boxes -> OwnerPcs] /\ at \in [Measurers -> MeasurerPcs]
      /\ zyg \in [Boxes -> {"none", "running", "signalled", "dead", "orphan"}]
  BY DEF UidInv, TypeOK
<1> USE DEF Step, driver, mutex, kernel, ids
<1>1. CASE ChooseUid(s)
  BY <1>0, <1>1, LockInvStable DEF ChooseUid, Allocate
<1>2. CASE CreateGroup(s) \/ CreateGroupFails(s)
  BY <1>0, <1>2, LockInvStable DEF CreateGroup, CreateGroupFails
<1>3. CASE StartZygote(s)
  BY <1>3, StartKeepsLock
<1>4. CASE Register(s)
  <2>1. at[Watchdog(s)] \notin {"ask", "request"} /\ at[User(s)] \notin {"ask", "request"}
    BY <1>4 DEF Register, PanicInv, InUse
  <2> QED
    BY <1>0, <1>4, <2>1, LockInvStable DEF Register
<1>5. CASE RejectItems(s)
  BY <1>0, <1>5, LockInvStable DEF RejectItems
<1>6. CASE StartZygoteFails(s)
  <2>1. zyg[s] = "none" /\ ~info[s]
    BY <1>6 DEF StartZygoteFails, LockInv, InfoInv
  <2> QED
    BY <1>0, <1>6, <2>1, LockInvStable DEF StartZygoteFails
<1>7. CASE DropKill(s)
  BY <1>0, <1>7, TakeKeepsLock DEF DropKill
<1>8. CASE DropUid(s) \/ DropGroup(s) \/ DropFields(s)
  BY <1>0, <1>8, LockInvStable DEF DropUid, DropGroup, DropFields
<1> QED
  BY <1>1, <1>2, <1>3, <1>4, <1>5, <1>6, <1>7, <1>8 DEF Create, Drop

LEMMA LockInvMeasurers ==
  ASSUME UidInv, PanicInv, LockInv,
         \/ \E s \in Boxes : WatchdogStep(s)
         \/ \E s \in Users : UserStep(s)
         \/ \E t \in Measurers : Measure(t)
  PROVE  LockInv'
<1>0. at \in [Measurers -> MeasurerPcs]
  BY DEF UidInv, TypeOK
<1> USE MeasurersAre, UsersAssumption DEF Move, driver, mutex, kernel
<1>1. ASSUME NEW s \in Boxes, WatchdogStep(s) PROVE LockInv'
  <2>1. CASE WatchdogTick(s)
    BY <1>0, <2>1, LockInvStable DEF WatchdogTick
  <2>2. CASE WatchdogKill(s)
    BY <1>0, <2>2, TakeKeepsLock DEF WatchdogKill
  <2> QED
    BY <1>1, <2>1, <2>2 DEF WatchdogStep
<1>2. ASSUME NEW s \in Users, UserStep(s) PROVE LockInv'
  <2>0. s \in Boxes /\ User(s) \in Measurers /\ User(s)[2] = s
    OBVIOUS
  <2>1. CASE UserMeasures(s)
    BY <1>0, <2>1, LockInvStable DEF UserMeasures
  <2>2. CASE UserRequest(s)
    BY <2>0, <2>2, BeginKeepsLock DEF UserRequest
  <2>3. CASE UserAnswered(s)
    BY <2>0, <2>3, EndKeepsLock DEF UserAnswered, MeasurerPcs
  <2>4. CASE UserKill(s)
    BY <2>0, <2>4, TakeKeepsLock DEF UserKill
  <2> QED
    BY <1>2, <2>1, <2>2, <2>3, <2>4 DEF UserStep
<1>3. ASSUME NEW t \in Measurers, Measure(t) PROVE LockInv'
  <2>1. CASE ReadUsage(t)
    BY <1>0, <2>1, LockInvStable DEF ReadUsage, Measured
  <2>2. CASE LookUpGroup(t)
    BY <1>0, <2>2, LockInvStable DEF LookUpGroup
  <2>3. CASE LockZygote(t) /\ info[t[2]]
    BY <2>3, BeginKeepsLock DEF LockZygote
  <2>4. CASE LockZygote(t) /\ ~info[t[2]]
    BY <1>0, <2>4, LockInvStable DEF LockZygote, Measured
  <2>5. CASE Answer(t)
    <3>1. at[t] = "ask" /\ UNCHANGED <<pc, info, zyg>> /\ zlock' = [zlock EXCEPT ![t[2]] = None]
      BY <2>5 DEF Answer
    <3>2. PICK to \in MeasurerPcs \ {"ask", "request"} : at' = [at EXCEPT ![t] = to]
      BY <2>5 DEF Answer, Measured, MeasurerPcs
    <3> QED
      BY <3>1, <3>2, EndKeepsLock
  <2> QED
    BY <1>3, <2>1, <2>2, <2>3, <2>4, <2>5 DEF Measure
<1> QED
  BY <1>1, <1>2, <1>3

LEMMA LockInvNext == UidInv /\ PanicInv /\ LockInv /\ [Next]_vars => LockInv'
<1> SUFFICES ASSUME UidInv, PanicInv, LockInv, [Next]_vars PROVE LockInv'
  OBVIOUS
<1>1. CASE UNCHANGED vars
  BY <1>1 DEF vars, mutex, kernel, LockInv, InfoInv, MutexInv
<1>2. ASSUME NEW s \in Boxes, ZygoteExit(s) PROVE LockInv'
  <2>1. zyg \in [Boxes -> {"none", "running", "signalled", "dead", "orphan"}]
    BY DEF UidInv, TypeOK
  <2>2. ~info[s] /\ pc[s] \notin {"new", "uid", "group"}
    BY <1>2 DEF ZygoteExit, LockInv, InfoInv
  <2> QED
    BY <1>2, <2>1, <2>2, LockInvStable DEF ZygoteExit, mutex
<1>3. ASSUME NEW s \in Boxes, JobsExit(s) PROVE LockInv'
  BY <1>3, LockInvStable DEF JobsExit, mutex
<1> QED
  BY <1>1, <1>2, <1>3, LockInvOwner, LockInvMeasurers DEF Next, Quiescent

\* How each step of Sandboxes looks through the mapping.
LEMMA StartIsStart ==
  ASSUME UidInv, LockInv, NEW s \in Boxes, StartZygote(s) \/ StartZygoteFails(s)
  PROVE  [Lock!Next]_(Lock!vars)
<1>0. zyg \in [Boxes -> {"none", "running", "signalled", "dead", "orphan"}]
      /\ info \in [Boxes -> BOOLEAN]
  BY DEF UidInv, TypeOK
<1>1. zyg[s] = "none" /\ ~info[s]
  BY DEF StartZygote, StartZygoteFails, Step, LockInv, InfoInv
<1>2. UNCHANGED <<zlock, jobs>>
  BY DEF StartZygote, StartZygoteFails, mutex
<1>3. CASE StartZygote(s)
  BY <1>0, <1>1, <1>2, <1>3 DEF StartZygote, Lock!Next, Lock!Start
<1>4. CASE StartZygoteFails(s) /\ zyg'[s] = "orphan"
  BY <1>0, <1>1, <1>2, <1>4 DEF StartZygoteFails, mutex, Lock!Next, Lock!Start
<1>5. CASE StartZygoteFails(s) /\ zyg'[s] = "none"
  <2>1. zyg' = zyg
    BY <1>0, <1>1, <1>5 DEF StartZygoteFails
  <2> QED
    BY <1>2, <1>5, <2>1 DEF StartZygoteFails, mutex, Lock!vars
<1> QED
  BY <1>0, <1>3, <1>4, <1>5 DEF StartZygoteFails

LEMMA TakeIsKill ==
  ASSUME UidInv, LockInv, NEW s \in Boxes, TakeZygote(s)
  PROVE  [Lock!Next]_(Lock!vars)
<1>0. zyg \in [Boxes -> {"none", "running", "signalled", "dead", "orphan"}]
      /\ info \in [Boxes -> BOOLEAN]
  BY DEF UidInv, TypeOK
<1>1. CASE info[s]
  BY <1>0, <1>1 DEF TakeZygote, Lock!Next, Lock!Kill
<1>2. CASE ~info[s]
  <2>1. info' = info /\ zyg' = zyg
    BY <1>0, <1>2 DEF TakeZygote
  <2> QED
    BY <2>1 DEF TakeZygote, Lock!vars
<1> QED
  BY <1>1, <1>2

LEMMA BeginIsLock ==
  ASSUME UidInv, NEW t \in Measurers, zlock[t[2]] = None, info[t[2]],
         zlock' = [zlock EXCEPT ![t[2]] = t], UNCHANGED <<info, kernel>>
  PROVE  [Lock!Next]_(Lock!vars)
<1>0. zlock \in [Boxes -> Measurers \cup {None}] /\ t[2] \in Boxes /\ t # None
  BY NoneAssumption DEF UidInv, TypeOK, Measurers
<1> QED
  BY <1>0 DEF kernel, Lock!Next, Lock!Lock

\* A request that started a process ends with Spawn, any other one with Unlock.
LEMMA EndIsUnlock ==
  ASSUME UidInv, LockInv, NEW t \in Measurers, at[t] \in {"ask", "request"},
         zlock' = [zlock EXCEPT ![t[2]] = None], UNCHANGED <<info, zyg>>,
         \/ jobs' = jobs
         \/ jobs' = [jobs EXCEPT ![t[2]] = TRUE]
  PROVE  [Lock!Next]_(Lock!vars)
<1>0. zlock \in [Boxes -> Measurers \cup {None}] /\ t[2] \in Boxes /\ t # None
  BY NoneAssumption DEF UidInv, TypeOK, Measurers
<1>1. zlock[t[2]] # None /\ info[t[2]] /\ zyg[t[2]] = "running"
  BY <1>0 DEF LockInv, MutexInv, InfoInv
<1>2. CASE jobs' = jobs
  BY <1>0, <1>1, <1>2 DEF Lock!Next, Lock!Unlock
<1>3. CASE jobs' = [jobs EXCEPT ![t[2]] = TRUE]
  BY <1>0, <1>1, <1>3 DEF Lock!Next, Lock!Spawn
<1> QED
  BY <1>2, <1>3

LEMMA LockStart == Init => Lock!Init
<1> SUFFICES ASSUME Init PROVE Lock!Init
  OBVIOUS
<1> QED
  BY DEF Init, Lock!Init

LEMMA LockSimulation ==
  UidInv /\ LockInv /\ [Next]_vars => [Lock!Next]_(Lock!vars)
<1> SUFFICES ASSUME UidInv, LockInv, [Next]_vars PROVE [Lock!Next]_(Lock!vars)
  OBVIOUS
<1>0. /\ zyg \in [Boxes -> {"none", "running", "signalled", "dead", "orphan"}]
      /\ jobs \in [Boxes -> BOOLEAN]
  BY DEF UidInv, TypeOK
<1>1. UNCHANGED <<mutex, kernel>> => UNCHANGED Lock!vars
  BY DEF mutex, kernel, Lock!vars
<1>2. ASSUME NEW s \in Boxes, Create(s) PROVE [Lock!Next]_(Lock!vars)
  BY <1>1, <1>2, StartIsStart
     DEF Create, ChooseUid, CreateGroup, Register, RejectItems, CreateGroupFails
<1>3. ASSUME NEW s \in Boxes, Drop(s) PROVE [Lock!Next]_(Lock!vars)
  BY <1>1, <1>3, TakeIsKill DEF Drop, DropUid, DropKill, DropGroup, DropFields
<1>4. ASSUME NEW s \in Boxes, WatchdogStep(s) PROVE [Lock!Next]_(Lock!vars)
  BY <1>1, <1>4, TakeIsKill DEF WatchdogStep, WatchdogTick, WatchdogKill
<1>5. ASSUME NEW s \in Boxes, ZygoteExit(s) PROVE [Lock!Next]_(Lock!vars)
  BY <1>0, <1>5 DEF ZygoteExit, mutex, Lock!Next, Lock!Die
<1>6. ASSUME NEW s \in Boxes, JobsExit(s) PROVE [Lock!Next]_(Lock!vars)
  BY <1>0, <1>6 DEF JobsExit, mutex, Lock!Next, Lock!End
<1>7. ASSUME NEW s \in Users, UserStep(s) PROVE [Lock!Next]_(Lock!vars)
  <2>0. s \in Boxes /\ User(s) \in Measurers /\ User(s)[2] = s
    BY <1>7, MeasurersAre, UsersAssumption
  <2>1. CASE UserMeasures(s)
    BY <1>1, <2>1 DEF UserMeasures
  <2>2. CASE UserRequest(s)
    BY <2>0, <2>2, BeginIsLock DEF UserRequest
  <2>3. CASE UserAnswered(s)
    <3>1. at[User(s)] = "request" /\ UNCHANGED <<info, zyg>>
          /\ zlock' = [zlock EXCEPT ![s] = None]
      BY <2>3 DEF UserAnswered, Move
    <3>2. jobs' = jobs \/ jobs' = [jobs EXCEPT ![s] = TRUE]
      BY <1>0, <2>3 DEF UserAnswered
    <3> QED
      BY <2>0, <3>1, <3>2, EndIsUnlock
  <2>4. CASE UserKill(s)
    BY <2>0, <2>4, TakeIsKill DEF UserKill
  <2> QED
    BY <1>7, <2>1, <2>2, <2>3, <2>4 DEF UserStep
<1>8. ASSUME NEW t \in Measurers, Measure(t) PROVE [Lock!Next]_(Lock!vars)
  <2>1. CASE ReadUsage(t) \/ LookUpGroup(t) \/ (LockZygote(t) /\ ~info[t[2]])
    BY <1>1, <2>1 DEF ReadUsage, LookUpGroup, LockZygote, mutex
  <2>2. CASE LockZygote(t) /\ info[t[2]]
    BY <2>2, BeginIsLock DEF LockZygote
  <2>3. CASE Answer(t)
    BY <2>3, EndIsUnlock DEF Answer, kernel
  <2> QED
    BY <1>8, <2>1, <2>2, <2>3 DEF Measure
<1>9. CASE UNCHANGED vars
  BY <1>1, <1>9 DEF vars
<1> QED
  BY <1>2, <1>3, <1>4, <1>5, <1>6, <1>7, <1>8, <1>9 DEF Next, Quiescent

\* For any number of sandboxes, drivers and failures, and whoever kills: owners,
\* users and watchdogs start a process only while they have the mutex and a live
\* zygote behind it, the zygote is signalled only between requests, and it starts
\* nothing afterwards.
THEOREM ZygoteLockImplemented == Spec => ImplementsZygoteLock
<1>1. Init => UidInv /\ PanicInv /\ LockInv /\ Lock!Init
  BY UidInvInit, PanicInvInit, LockInvInit, LockStart
<1>2. UidInv /\ PanicInv /\ LockInv /\ [Next]_vars =>
        UidInv' /\ PanicInv' /\ LockInv' /\ [Lock!Next]_(Lock!vars)
  BY UidInvNext, PanicInvNext, LockInvNext, LockSimulation
<1> QED
  BY <1>1, <1>2, PTL DEF Spec, ImplementsZygoteLock, Lock!Spec

\* A thread that has the mutex of Prlimit::groups waits for one zygote mutex at
\* most, and a thread that has a zygote mutex for the answer of the zygote only.
\* So no two threads wait for each other.
LocksOrdered ==
  /\ groupsLock # None => at[groupsLock] = "lock"
  /\ \A s \in Boxes : zlock[s] # None => at[zlock[s]] \in {"ask", "request"}

\* For any number of sandboxes: the callers of resource_usage, the watchdogs and
\* Drop take the two kinds of mutexes in one order, the map first.
THEOREM LocksOrderedHolds == Spec => []LocksOrdered
<1> DEFINE MapInv == groupsLock # None => at[groupsLock] = "lock"
<1>1. Init => MapInv
  BY DEF Init
<1>2. UidInv /\ PanicInv /\ MapInv /\ [Next]_vars => MapInv'
  <2> SUFFICES ASSUME UidInv, PanicInv, MapInv, [Next]_vars, groupsLock' # None
               PROVE  at'[groupsLock'] = "lock"
    OBVIOUS
  <2>0. groupsLock \in Measurers \cup {None} /\ at \in [Measurers -> MeasurerPcs]
    BY DEF UidInv, TypeOK
  \* A step that does not move the thread that has the map.
  <2>1. groupsLock' = groupsLock /\ (at[groupsLock] = "lock" => at'[groupsLock] = "lock")
          => at'[groupsLock'] = "lock"
    OBVIOUS
  <2>2. ASSUME NEW s \in Boxes, Create(s) \/ Drop(s) PROVE at'[groupsLock'] = "lock"
    <3>1. CASE Register(s)
      <4>1. at[Watchdog(s)] = "off" /\ at[User(s)] # "lock"
        BY <3>1 DEF Register, Step, PanicInv, InUse
      <4> QED
        BY <2>0, <2>1, <3>1, <4>1 DEF Register
    <3>2. CASE ~Register(s)
      <4>1. UNCHANGED <<groupsLock, at>>
        BY <2>2, <3>2 DEF Create, Drop, ChooseUid, CreateGroup, StartZygote, RejectItems,
             CreateGroupFails, StartZygoteFails, DropUid, DropKill, DropGroup, DropFields, driver
      <4> QED
        BY <2>1, <4>1
    <3> QED
      BY <3>1, <3>2
  <2>3. ASSUME NEW s \in Boxes, WatchdogStep(s) \/ ZygoteExit(s) \/ JobsExit(s)
        PROVE  at'[groupsLock'] = "lock"
    BY <2>0, <2>1, <2>3
       DEF WatchdogStep, WatchdogTick, WatchdogKill, ZygoteExit, JobsExit, Move, driver
  <2>4. ASSUME NEW s \in Users, UserStep(s) PROVE at'[groupsLock'] = "lock"
    BY <2>0, <2>1, <2>4
       DEF UserStep, UserMeasures, UserRequest, UserAnswered, UserKill, Move, driver
  <2>5. ASSUME NEW t \in Measurers, Measure(t) PROVE at'[groupsLock'] = "lock"
    <3>1. CASE ReadUsage(t) \/ Answer(t)
      BY <2>0, <2>1, <3>1 DEF ReadUsage, Answer, Measured, driver
    <3>2. CASE LookUpGroup(t)
      BY <2>0, <3>2 DEF LookUpGroup, Move
    <3>3. CASE LockZygote(t)
      BY <3>3 DEF LockZygote
    <3> QED
      BY <2>5, <3>1, <3>2, <3>3 DEF Measure
  <2>6. CASE UNCHANGED vars
    BY <2>1, <2>6 DEF vars, driver
  <2> QED
    BY <2>2, <2>3, <2>4, <2>5, <2>6 DEF Next, Quiescent
<1>3. MapInv /\ LockInv => LocksOrdered
  BY DEF LocksOrdered, LockInv, MutexInv
<1> HIDE DEF MapInv
<1> QED
  BY UidInvInit, UidInvNext, PanicInvInit, PanicInvNext, LockInvInit, LockInvNext,
     <1>1, <1>2, <1>3, PTL DEF Spec
=============================================================================
