---------------------------- MODULE JobFdsProofs ----------------------------
(***************************************************************************)
(* Theorems about JobFds, for every table, request and number of handles.  *)
(*                                                                         *)
(* The tables are built by recursive functions over sequences.  That such  *)
(* a function exists and what it computes is proved by induction; the      *)
(* induction principle is about sets, and follows from the order of the    *)
(* natural numbers being well-founded.                                     *)
(***************************************************************************)
EXTENDS JobFds, TLAPS, WellFoundedInduction, FiniteSetTheorems

-----------------------------------------------------------------------------
(* Induction.                                                              *)

\* A set of numbers that is not empty has a least member.
LEMMA LeastMember ==
  ASSUME NEW T, T \subseteq Nat, T # {}
  PROVE  \E m \in T : \A k \in T : m <= k
<1> DEFINE Less == {ss \in Nat \X Nat : ss[1] < ss[2]}
<1>1. IsWellFoundedOn(Less, Nat)
  BY NatLessThanWellFounded DEF OpToRel
<1>2. PICK m \in T : \A k \in T : <<k, m>> \notin Less
  <2> HIDE DEF Less
  <2> QED BY <1>1, WFMin
<1>3. ASSUME NEW k \in T PROVE m <= k
  <2>1. k \in Nat /\ m \in Nat
    OBVIOUS
  <2>2. ~ (k < m)
    <3>1. <<k, m>> \in Nat \X Nat => (k < m => <<k, m>> \in Less)
      OBVIOUS
    <3> QED BY <3>1, <2>1, <1>2
  <2> HIDE DEF Less
  <2> QED BY <2>1, <2>2
<1> QED BY <1>3

\* A set of numbers that holds 0, and n + 1 if it holds n, for n below some m,
\* holds all up to m.
LEMMA UpTo ==
  ASSUME NEW m \in Nat, NEW S, 0 \in S, \A n \in 0..(m - 1) : n \in S => n + 1 \in S
  PROVE  \A n \in 0..m : n \in S
<1> DEFINE T == (0..m) \ S
<1>1. SUFFICES ASSUME T # {} PROVE FALSE
  OBVIOUS
<1>2. PICK k \in T : \A i \in T : k <= i
  <2>1. T \subseteq Nat
    OBVIOUS
  <2> HIDE DEF T
  <2> QED BY <1>1, <2>1, LeastMember
<1>3. k \in 1..m /\ k - 1 \notin T
  BY <1>2
<1> QED BY <1>2, <1>3

-----------------------------------------------------------------------------
(* Folded exists and unfolds.                                              *)

\* acc is the recursive function of Folded(ReceiveOne, With(t, <<>>), files), up
\* to place m.
Receiving(acc, t, files, m) ==
  acc = [i \in 0..m |-> IF i = 0 THEN With(t, <<>>) ELSE ReceiveOne(acc[i - 1], files[i])]

Duplicating(acc, t, nums, m) ==
  acc = [i \in 0..m |-> IF i = 0 THEN With(t, <<>>) ELSE DuplicateOne(acc[i - 1], nums[i])]

Placing(acc, p, moves, m) ==
  acc = [i \in 0..m |-> IF i = 0 THEN p ELSE Dup2(acc[i - 1], moves[i])]

\* The recursion of Receive has a solution, which Receive takes the end of.
LEMMA ReceiveUnfolds ==
  ASSUME NEW t, NEW files, Len(files) \in Nat
  PROVE  \E acc : Receiving(acc, t, files, Len(files)) /\ Receive(t, files) = acc[Len(files)]
<1> DEFINE S == {m \in Nat : \E acc : Receiving(acc, t, files, m)}
<1>1. 0 \in S
  <2> DEFINE g == [i \in 0..0 |-> With(t, <<>>)]
  <2>1. Receiving(g, t, files, 0)
    BY DEF Receiving
  <2> QED BY <2>1
<1>2. ASSUME NEW m \in Nat, m \in S PROVE m + 1 \in S
  <2>1. PICK g : Receiving(g, t, files, m)
    BY <1>2
  <2> DEFINE h == [i \in 0..(m + 1) |-> IF i <= m THEN g[i] ELSE ReceiveOne(g[m], files[m + 1])]
  <2>2. \A i \in 0..m : g[i] = IF i = 0 THEN With(t, <<>>) ELSE ReceiveOne(g[i - 1], files[i])
    BY <2>1 DEF Receiving
  <2>3. \A i \in 0..(m + 1) :
          h[i] = IF i = 0 THEN With(t, <<>>) ELSE ReceiveOne(h[i - 1], files[i])
    BY <2>2
  <2>4. Receiving(h, t, files, m + 1)
    BY <2>3 DEF Receiving
  <2> QED BY <2>4
<1>3. Len(files) \in S
  <2> HIDE DEF S
  <2>1. \A m \in 0..(Len(files) - 1) : m \in S => m + 1 \in S
    BY <1>2
  <2>2. \A m \in 0..Len(files) : m \in S
    BY <1>1, <2>1, UpTo
  <2> QED BY <2>2
<1>4. \E acc : Receiving(acc, t, files, Len(files))
  BY <1>3
<1>5. Receive(t, files) = (CHOOSE acc : Receiving(acc, t, files, Len(files)))[Len(files)]
  BY Zenon DEF Receive, Folded, Receiving
<1> QED BY <1>4, <1>5

\* The same of Duplicate.
LEMMA DuplicateUnfolds ==
  ASSUME NEW t, NEW nums, Len(nums) \in Nat
  PROVE  \E acc : Duplicating(acc, t, nums, Len(nums)) /\ Duplicate(t, nums) = acc[Len(nums)]
<1> DEFINE S == {m \in Nat : \E acc : Duplicating(acc, t, nums, m)}
<1>1. 0 \in S
  <2> DEFINE g == [i \in 0..0 |-> With(t, <<>>)]
  <2>1. Duplicating(g, t, nums, 0)
    BY DEF Duplicating
  <2> QED BY <2>1
<1>2. ASSUME NEW m \in Nat, m \in S PROVE m + 1 \in S
  <2>1. PICK g : Duplicating(g, t, nums, m)
    BY <1>2
  <2> DEFINE h == [i \in 0..(m + 1) |-> IF i <= m THEN g[i] ELSE DuplicateOne(g[m], nums[m + 1])]
  <2>2. \A i \in 0..m : g[i] = IF i = 0 THEN With(t, <<>>) ELSE DuplicateOne(g[i - 1], nums[i])
    BY <2>1 DEF Duplicating
  <2>3. \A i \in 0..(m + 1) :
          h[i] = IF i = 0 THEN With(t, <<>>) ELSE DuplicateOne(h[i - 1], nums[i])
    BY <2>2
  <2>4. Duplicating(h, t, nums, m + 1)
    BY <2>3 DEF Duplicating
  <2> QED BY <2>4
<1>3. Len(nums) \in S
  <2> HIDE DEF S
  <2>1. \A m \in 0..(Len(nums) - 1) : m \in S => m + 1 \in S
    BY <1>2
  <2>2. \A m \in 0..Len(nums) : m \in S
    BY <1>1, <2>1, UpTo
  <2> QED BY <2>2
<1>4. \E acc : Duplicating(acc, t, nums, Len(nums))
  BY <1>3
<1>5. Duplicate(t, nums) = (CHOOSE acc : Duplicating(acc, t, nums, Len(nums)))[Len(nums)]
  BY Zenon DEF Duplicate, Folded, Duplicating
<1> QED BY <1>4, <1>5

\* What do_exec leaves behind is where the last move ends.
Placed(p, moves) == Folded(Dup2, p, moves)

\* The same of the moves of a child.
LEMMA PlacedUnfolds ==
  ASSUME NEW p, NEW moves, Len(moves) \in Nat
  PROVE  \E acc : Placing(acc, p, moves, Len(moves)) /\ Placed(p, moves) = acc[Len(moves)]
<1> DEFINE S == {m \in Nat : \E acc : Placing(acc, p, moves, m)}
<1>1. 0 \in S
  <2> DEFINE g == [i \in 0..0 |-> p]
  <2>1. Placing(g, p, moves, 0)
    BY DEF Placing
  <2> QED BY <2>1
<1>2. ASSUME NEW m \in Nat, m \in S PROVE m + 1 \in S
  <2>1. PICK g : Placing(g, p, moves, m)
    BY <1>2
  <2> DEFINE h == [i \in 0..(m + 1) |-> IF i <= m THEN g[i] ELSE Dup2(g[m], moves[m + 1])]
  <2>2. \A i \in 0..m : g[i] = IF i = 0 THEN p ELSE Dup2(g[i - 1], moves[i])
    BY <2>1 DEF Placing
  <2>3. \A i \in 0..(m + 1) : h[i] = IF i = 0 THEN p ELSE Dup2(h[i - 1], moves[i])
    BY <2>2
  <2>4. Placing(h, p, moves, m + 1)
    BY <2>3 DEF Placing
  <2> QED BY <2>4
<1>3. Len(moves) \in S
  <2> HIDE DEF S
  <2>1. \A m \in 0..(Len(moves) - 1) : m \in S => m + 1 \in S
    BY <1>2
  <2>2. \A m \in 0..Len(moves) : m \in S
    BY <1>1, <2>1, UpTo
  <2> QED BY <2>2
<1>4. \E acc : Placing(acc, p, moves, Len(moves))
  BY <1>3
<1>5. Placed(p, moves) = (CHOOSE acc : Placing(acc, p, moves, Len(moves)))[Len(moves)]
  BY Zenon DEF Placed, Folded, Placing
<1> QED BY <1>4, <1>5

-----------------------------------------------------------------------------
(* Tables of descriptors.                                                  *)

Table(t) == IsFiniteSet(DOMAIN t) /\ DOMAIN t \subseteq Nat

\* The kernel's choice is the least number that is not in the table.
LEMMA LowestFreeIsFree ==
  ASSUME NEW t, Table(t)
  PROVE  /\ LowestFree(t) \in Nat \ DOMAIN t
         /\ \A k \in Nat \ DOMAIN t : LowestFree(t) <= k
<1> DEFINE n == Cardinality(DOMAIN t)
           free == (0..n) \ DOMAIN t
<1>1. n \in Nat
  BY FS_CardinalityType DEF Table
<1>2. free # {}
  <2>1. SUFFICES ASSUME 0..n \subseteq DOMAIN t PROVE FALSE
    OBVIOUS
  <2>2. Cardinality(0..n) <= n
    BY <2>1, FS_Subset DEF Table
  <2>3. Cardinality(0..n) = n + 1
    <3> HIDE DEF n
    <3>1. 0 \in Int /\ n \in Int /\ ~ (0 > n) /\ n - 0 + 1 = n + 1
      BY <1>1
    <3> QED BY <3>1, FS_Interval
  <2> QED BY <1>1, <2>2, <2>3
<1>3. \E m \in free : \A k \in free : m <= k
  <2>1. free \subseteq Nat
    BY <1>1
  <2> HIDE DEF free
  <2> QED BY <1>2, <2>1, LeastMember
<1>4. LowestFree(t) \in free /\ \A k \in free : LowestFree(t) <= k
  BY <1>3, Zenon DEF LowestFree
<1>5. LowestFree(t) \in Nat /\ LowestFree(t) <= n /\ LowestFree(t) \notin DOMAIN t
  BY <1>1, <1>4
<1>6. ASSUME NEW k \in Nat \ DOMAIN t PROVE LowestFree(t) <= k
  <2>1. CASE k <= n
    <3>1. k \in free
      BY <1>1, <2>1
    <3> QED BY <1>4, <3>1
  <2>2. CASE ~ (k <= n)
    BY <1>1, <1>5, <2>2
  <2> QED BY <2>1, <2>2
<1> QED BY <1>5, <1>6

\* Tables stay tables.
LEMMA PutTable ==
  ASSUME NEW t, Table(t), NEW n \in Nat, NEW file
  PROVE  Table(Put(t, n, file)) /\ DOMAIN Put(t, n, file) = DOMAIN t \cup {n}
<1>1. IsFiniteSet(DOMAIN t \cup {n})
  BY FS_AddElement DEF Table
<1> QED BY <1>1 DEF Table, Put

\* Put changes one number.
LEMMA PutFile ==
  ASSUME NEW t, NEW n, NEW file
  PROVE  /\ Put(t, n, file)[n] = file
         /\ \A m \in DOMAIN t : m # n => Put(t, n, file)[m] = t[m]
  BY DEF Put

\* Close takes numbers away and leaves the other files alone.
LEMMA CloseTable ==
  ASSUME NEW t, Table(t), NEW S
  PROVE  /\ Table(Close(t, S)) /\ DOMAIN Close(t, S) = DOMAIN t \ S
         /\ \A m \in DOMAIN t \ S : Close(t, S)[m] = t[m]
<1>1. IsFiniteSet(DOMAIN t \ S)
  BY FS_Difference DEF Table
<1> QED BY <1>1 DEF Table, Close

\* t is the table base with n files more, under the numbers nums.
Extended(base, t, nums, files, n) ==
  /\ Table(t)
  /\ nums \in [1..n -> Nat]
  /\ \A i, k \in 1..n : nums[i] = nums[k] => i = k
  /\ DOMAIN t = DOMAIN base \cup {nums[i] : i \in 1..n}
  /\ \A i \in 1..n : nums[i] \notin DOMAIN base /\ t[nums[i]] = files[i]
  /\ \A m \in DOMAIN base : t[m] = base[m]

\* One more file, under the number the kernel chooses.
LEMMA AddOne ==
  ASSUME NEW base, NEW t, NEW nums, NEW files, NEW n \in Nat, nums \in Seq(Nat),
         Extended(base, t, nums, files, n)
  PROVE  LET d == LowestFree(t)
         IN  /\ Append(nums, d) \in Seq(Nat)
             /\ Extended(base, Put(t, d, files[n + 1]), Append(nums, d), files, n + 1)
<1> DEFINE d  == LowestFree(t)
           f  == files[n + 1]
           u  == Put(t, d, f)
           ns == Append(nums, d)
<1>0. Table(t) /\ nums \in [1..n -> Nat] /\ DOMAIN t = DOMAIN base \cup {nums[i] : i \in 1..n}
  BY DEF Extended
<1>1. d \in Nat /\ d \notin DOMAIN t
  BY <1>0, LowestFreeIsFree
<1> HIDE DEF d
<1>2. Table(u) /\ DOMAIN u = DOMAIN t \cup {d}
      /\ u[d] = f /\ \A m \in DOMAIN t : u[m] = t[m]
  <2> HIDE DEF f
  <2>1. Table(u) /\ DOMAIN u = DOMAIN t \cup {d}
    BY <1>0, <1>1, PutTable
  <2>2. u[d] = f /\ \A m \in DOMAIN t : m # d => u[m] = t[m]
    BY PutFile
  <2> HIDE DEF u
  <2> QED BY <2>1, <2>2, <1>1
<1> HIDE DEF u
<1>3. Len(nums) = n
  BY <1>0
<1>4. ns \in Seq(Nat) /\ Len(ns) = n + 1 /\ ns[n + 1] = d /\ \A i \in 1..n : ns[i] = nums[i]
  BY <1>1, <1>3
<1> HIDE DEF ns
<1>5. ns \in [1..(n + 1) -> Nat]
  BY <1>4
<1>6. \A i \in 1..n : nums[i] \in DOMAIN t /\ nums[i] # d
  BY <1>0, <1>1
<1>7. \A i, k \in 1..(n + 1) : ns[i] = ns[k] => i = k
  <2>1. \A i \in 1..(n + 1) : i \in 1..n \/ i = n + 1
    OBVIOUS
  <2>2. \A i, k \in 1..n : nums[i] = nums[k] => i = k
    BY DEF Extended
  <2>3. \A i \in 1..n : ns[i] = nums[i] /\ ns[i] # ns[n + 1]
    BY <1>4, <1>6
  <2> QED BY <2>1, <2>2, <2>3
<1>8. DOMAIN u = DOMAIN base \cup {ns[i] : i \in 1..(n + 1)}
  <2>1. {ns[i] : i \in 1..(n + 1)} = {nums[i] : i \in 1..n} \cup {d}
    <3>1. 1..(n + 1) = (1..n) \cup {n + 1}
      OBVIOUS
    <3> QED BY <3>1, <1>4
  <2> QED BY <2>1, <1>0, <1>2
<1>9. \A i \in 1..(n + 1) : ns[i] \notin DOMAIN base /\ u[ns[i]] = files[i]
  <2>1. ASSUME NEW i \in 1..n PROVE ns[i] \notin DOMAIN base /\ u[ns[i]] = files[i]
    <3>1. ns[i] = nums[i] /\ u[nums[i]] = t[nums[i]]
      BY <1>2, <1>4, <1>6
    <3> QED BY <3>1 DEF Extended
  <2>2. ns[n + 1] \notin DOMAIN base /\ u[ns[n + 1]] = files[n + 1]
    BY <1>0, <1>1, <1>2, <1>4
  <2> QED BY <2>1, <2>2
<1>10. \A m \in DOMAIN base : u[m] = base[m]
  BY <1>0, <1>1, <1>2 DEF Extended
<1>11. Extended(base, u, ns, files, n + 1)
  BY <1>2, <1>5, <1>7, <1>8, <1>9, <1>10 DEF Extended
<1> QED BY <1>4, <1>11 DEF u, ns, d

\* A file moves to another number.
LEMMA ReplaceOne ==
  ASSUME NEW base, NEW t, NEW nums, NEW files, NEW n \in Nat, NEW i \in 1..n,
         Extended(base, t, nums, files, n)
  PROVE  LET d == LowestFree(t)
         IN  /\ d \in Nat
             /\ Extended(base, Close(Put(t, d, t[nums[i]]), {nums[i]}),
                         [nums EXCEPT ![i] = d], files, n)
<1> DEFINE d  == LowestFree(t)
           f  == t[nums[i]]
           v  == Put(t, d, f)
           u  == Close(v, {nums[i]})
           ns == [nums EXCEPT ![i] = d]
<1>0. Table(t) /\ nums \in [1..n -> Nat] /\ DOMAIN t = DOMAIN base \cup {nums[k] : k \in 1..n}
  BY DEF Extended
<1>1. d \in Nat /\ d \notin DOMAIN t
  BY <1>0, LowestFreeIsFree
<1> HIDE DEF d
<1>2. Table(v) /\ DOMAIN v = DOMAIN t \cup {d}
      /\ v[d] = f /\ \A m \in DOMAIN t : v[m] = t[m]
  <2> HIDE DEF f
  <2>1. Table(v) /\ DOMAIN v = DOMAIN t \cup {d}
    BY <1>0, <1>1, PutTable
  <2>2. v[d] = f /\ \A m \in DOMAIN t : m # d => v[m] = t[m]
    BY PutFile
  <2> HIDE DEF v
  <2> QED BY <2>1, <2>2, <1>1
<1> HIDE DEF v
<1>3. Table(u) /\ DOMAIN u = DOMAIN v \ {nums[i]} /\ \A m \in DOMAIN v \ {nums[i]} : u[m] = v[m]
  BY <1>2, CloseTable
<1> HIDE DEF u
<1>4. ns \in [1..n -> Nat] /\ \A k \in 1..n : ns[k] = IF k = i THEN d ELSE nums[k]
  BY <1>0, <1>1
<1> HIDE DEF ns
<1>5. \A k \in 1..n : nums[k] \in DOMAIN t /\ nums[k] # d /\ (k # i => nums[k] # nums[i])
  BY <1>0, <1>1 DEF Extended
<1>6. \A k, l \in 1..n : ns[k] = ns[l] => k = l
  BY <1>4, <1>5 DEF Extended
<1>7. DOMAIN u = DOMAIN base \cup {ns[k] : k \in 1..n}
  <2>1. nums[i] \notin DOMAIN base
    BY DEF Extended
  <2>2. ASSUME NEW m \in DOMAIN u PROVE m \in DOMAIN base \cup {ns[k] : k \in 1..n}
    <3>1. m = d \/ m \in DOMAIN base \/ (\E k \in 1..n : k # i /\ m = nums[k])
      BY <2>2, <1>0, <1>2, <1>3
    <3> QED BY <3>1, <1>4
  <2>3. ASSUME NEW m \in DOMAIN base \cup {ns[k] : k \in 1..n} PROVE m \in DOMAIN u
    <3>1. m \in DOMAIN base \/ m = d \/ (\E k \in 1..n : k # i /\ m = nums[k])
      BY <2>3, <1>4
    <3> QED BY <3>1, <2>1, <1>0, <1>2, <1>3, <1>5
  <2> QED BY <2>2, <2>3
<1>8. \A k \in 1..n : ns[k] \notin DOMAIN base /\ u[ns[k]] = files[k]
  <2> TAKE k \in 1..n
  <2>1. CASE k = i
    <3>1. ns[k] = d /\ u[d] = t[nums[i]]
      BY <2>1, <1>2, <1>3, <1>4, <1>5
    <3> QED BY <3>1, <2>1, <1>0, <1>1 DEF Extended
  <2>2. CASE k # i
    <3>1. ns[k] = nums[k] /\ u[nums[k]] = t[nums[k]]
      BY <2>2, <1>2, <1>3, <1>4, <1>5
    <3> QED BY <3>1 DEF Extended
  <2> QED BY <2>1, <2>2
<1>9. \A m \in DOMAIN base : u[m] = base[m]
  <2> TAKE m \in DOMAIN base
  <2>1. m \in DOMAIN t /\ m # d /\ m # nums[i] /\ t[m] = base[m]
    BY <1>0, <1>1 DEF Extended
  <2> QED BY <2>1, <1>2, <1>3
<1>10. Extended(base, u, ns, files, n)
  BY <1>3, <1>4, <1>6, <1>7, <1>8, <1>9 DEF Extended
<1> QED BY <1>1, <1>10 DEF u, v, ns, d

-----------------------------------------------------------------------------
(* What recv_fds and the duplication do.                                   *)

\* recv_fds leaves the table as it was, but for the files it received, in order
\* and under numbers that were free.
LEMMA ReceiveExtends ==
  ASSUME NEW base, Table(base), NEW files, Len(files) \in Nat
  PROVE  LET got == Receive(base, files)
         IN  got.nums \in Seq(Nat) /\ Extended(base, got.t, got.nums, files, Len(files))
<1>1. PICK acc : /\ Receiving(acc, base, files, Len(files))
                 /\ Receive(base, files) = acc[Len(files)]
  BY ReceiveUnfolds
<1> DEFINE n == Len(files)
           S == {m \in 0..n : /\ acc[m].nums \in Seq(Nat)
                              /\ Extended(base, acc[m].t, acc[m].nums, files, m)}
<1> HIDE DEF n
<1>2. n \in Nat
  BY DEF n
<1>3. acc[0] = With(base, <<>>) /\ \A i \in 1..n : acc[i] = ReceiveOne(acc[i - 1], files[i])
  BY <1>1, <1>2 DEF Receiving, n
<1>4. 0 \in S
  <2>1. acc[0].t = base /\ acc[0].nums = <<>>
    BY <1>3 DEF With
  <2>2. 1..0 = {} /\ <<>> \in [1..0 -> Nat] /\ <<>> \in Seq(Nat)
    OBVIOUS
  <2>3. Extended(base, base, <<>>, files, 0)
    BY <2>2 DEF Extended
  <2>4. acc[0].nums \in Seq(Nat) /\ Extended(base, acc[0].t, acc[0].nums, files, 0)
    BY <2>1, <2>2, <2>3, Zenon
  <2>5. 0 \in 0..n
    BY <1>2
  <2> QED BY <2>4, <2>5
<1>5. ASSUME NEW m \in 0..(n - 1), m \in S PROVE m + 1 \in S
  <2> DEFINE a == acc[m]
             d == LowestFree(a.t)
             f == files[m + 1]
  <2>1. m \in Nat /\ m + 1 \in 1..n /\ m + 1 \in 0..n /\ (m + 1) - 1 = m
    BY <1>2
  <2>2. a.nums \in Seq(Nat) /\ Extended(base, a.t, a.nums, files, m)
    BY <1>5
  <2>3. acc[m + 1] = With(Put(a.t, d, f), Append(a.nums, d))
    BY <1>3, <2>1 DEF ReceiveOne
  <2>4. acc[m + 1].t = Put(a.t, d, f) /\ acc[m + 1].nums = Append(a.nums, d)
    BY <2>3 DEF With
  <2>5. /\ Append(a.nums, d) \in Seq(Nat)
        /\ Extended(base, Put(a.t, d, f), Append(a.nums, d), files, m + 1)
    BY <2>1, <2>2, AddOne
  <2> QED BY <2>1, <2>4, <2>5
<1>6. n \in S
  <2> HIDE DEF S
  <2>1. \A m \in 0..n : m \in S
    BY <1>2, <1>4, <1>5, UpTo
  <2> QED BY <1>2, <2>1
<1> QED BY <1>1, <1>6 DEF n

\* So does the duplication: the files are under other numbers, none of which is
\* in use for anything else, and the originals are closed.
LEMMA DuplicateExtends ==
  ASSUME NEW base, NEW t, NEW nums \in Seq(Nat), NEW files,
         Extended(base, t, nums, files, Len(nums))
  PROVE  LET dup == Duplicate(t, nums)
         IN  /\ dup.nums \in Seq(Nat) /\ Len(dup.nums) = Len(nums)
             /\ Extended(base, dup.t, dup.nums, files, Len(nums))
<1>1. PICK acc : /\ Duplicating(acc, t, nums, Len(nums))
                 /\ Duplicate(t, nums) = acc[Len(nums)]
  <2>1. Len(nums) \in Nat
    OBVIOUS
  <2> QED BY <2>1, DuplicateUnfolds, Zenon
\* The numbers the files have after m of them were duplicated.
<1> DEFINE n == Len(nums)
           Now(m) == [i \in 1..n |-> IF i <= m THEN acc[m].nums[i] ELSE nums[i]]
           S == {m \in 0..n : /\ acc[m].nums \in Seq(Nat) /\ Len(acc[m].nums) = m
                              /\ Extended(base, acc[m].t, Now(m), files, n)}
<1> HIDE DEF n
<1>2. n \in Nat /\ nums \in [1..n -> Nat]
  BY DEF n
<1>3. acc[0] = With(t, <<>>) /\ \A i \in 1..n : acc[i] = DuplicateOne(acc[i - 1], nums[i])
  BY <1>1, <1>2 DEF Duplicating, n
<1>4. 0 \in S
  <2>1. acc[0].t = t /\ acc[0].nums = <<>>
    BY <1>3 DEF With
  <2>2. Now(0) = nums
    BY <1>2
  <2>3. Extended(base, t, nums, files, n)
    BY DEF n
  <2> HIDE DEF Now
  <2>4. acc[0].nums \in Seq(Nat) /\ Len(acc[0].nums) = 0
    BY <2>1
  <2>5. Extended(base, acc[0].t, Now(0), files, n)
    BY <2>1, <2>2, <2>3, Zenon
  <2>6. 0 \in 0..n
    BY <1>2
  <2> QED BY <2>4, <2>5, <2>6
<1>5. ASSUME NEW m \in 0..(n - 1), m \in S PROVE m + 1 \in S
  <2> DEFINE a == acc[m]
             d == LowestFree(a.t)
             c == Now(m)
             i == m + 1
             u == Close(Put(a.t, d, a.t[nums[i]]), {nums[i]})
  <2>1. m \in Nat /\ i \in 1..n /\ i \in 0..n /\ i - 1 = m /\ ~ (i <= m)
    BY <1>2
  <2>2. a.nums \in Seq(Nat) /\ Len(a.nums) = m /\ Extended(base, a.t, c, files, n)
    BY <1>5
  <2>3. acc[i] = With(u, Append(a.nums, d))
    BY <1>3, <2>1 DEF DuplicateOne
  <2>4. acc[i].t = u /\ acc[i].nums = Append(a.nums, d)
    BY <2>3 DEF With
  <2>5. c[i] = nums[i]
    BY <2>1
  <2>6. d \in Nat /\ Extended(base, u, [c EXCEPT ![i] = d], files, n)
    <3> HIDE DEF Now, c, i
    <3>1. /\ d \in Nat
          /\ Extended(base, Close(Put(a.t, d, a.t[c[i]]), {c[i]}), [c EXCEPT ![i] = d], files, n)
      BY <1>2, <2>1, <2>2, ReplaceOne
    <3> QED BY <3>1, <2>5
  <2>7. Append(a.nums, d) \in Seq(Nat) /\ Len(Append(a.nums, d)) = i
    <3> HIDE DEF a, d
    <3> QED BY <2>1, <2>2, <2>6
  <2>8. Now(i) = [c EXCEPT ![i] = d]
    <3>1. \A k \in 1..m : Append(a.nums, d)[k] = a.nums[k]
      BY <2>2
    <3>2. Append(a.nums, d)[i] = d
      BY <2>2
    <3>3. ASSUME NEW k \in 1..n PROVE Now(i)[k] = [c EXCEPT ![i] = d][k]
      <4>1. k \in 1..m \/ k = i \/ (~ (k <= i) /\ ~ (k <= m))
        BY <1>2, <2>1
      <4>2. Now(i)[k] = IF k <= i THEN Append(a.nums, d)[k] ELSE nums[k]
        BY <2>4
      <4>3. [c EXCEPT ![i] = d][k] = IF k = i THEN d ELSE c[k]
        OBVIOUS
      <4>4. c[k] = IF k <= m THEN a.nums[k] ELSE nums[k]
        OBVIOUS
      <4> DEFINE nowk == Now(i)[k]
                 ck == [c EXCEPT ![i] = d][k]
                 ap == Append(a.nums, d)
      <4>5. nowk = (IF k <= i THEN ap[k] ELSE nums[k])
            /\ ck = (IF k = i THEN d ELSE c[k]) /\ c[k] = (IF k <= m THEN a.nums[k] ELSE nums[k])
        BY <4>2, <4>3, <4>4
      <4>6. k = i => ap[k] = d
        BY <3>2
      <4>7. k \in 1..m => ap[k] = a.nums[k]
        BY <3>1
      <4>8. nowk = ck
        <5> HIDE DEF nowk, ck, ap, c, a, d
        <5> QED BY <2>1, <4>1, <4>5, <4>6, <4>7
      <4> QED BY <4>8
    <3> QED BY <3>3
  <2> HIDE DEF Now, u, c, d, a, i
  <2>9. acc[i].nums \in Seq(Nat) /\ Len(acc[i].nums) = i /\ Extended(base, acc[i].t, Now(i), files, n)
    BY <2>4, <2>6, <2>7, <2>8
  <2>10. i \in S
    BY <2>1, <2>9
  <2> QED BY <2>10 DEF i
<1>6. n \in S
  <2> HIDE DEF S
  <2>1. \A m \in 0..n : m \in S
    BY <1>2, <1>4, <1>5, UpTo
  <2> QED BY <1>2, <2>1
<1>7. Now(n) = acc[n].nums
  <2>1. acc[n].nums \in Seq(Nat) /\ Len(acc[n].nums) = n
    BY <1>6
  <2> QED BY <1>2, <2>1
<1>8. acc[n].nums \in Seq(Nat) /\ Len(acc[n].nums) = n /\ Extended(base, acc[n].t, acc[n].nums, files, n)
  BY <1>6, <1>7
<1> QED BY <1>1, <1>8 DEF n

-----------------------------------------------------------------------------
(* What the child does.                                                    *)

OfJob(j, file) == \E i \in Nat : file = Passed(j, i)

\* The numbers in a table after Put.
LEMMA PutDomain ==
  ASSUME NEW t, NEW n, NEW file
  PROVE  DOMAIN Put(t, n, file) = DOMAIN t \cup {n}
  BY DEF Put

\* A move of dup2: either nothing happens, or the file is under both numbers and
\* survives execve under the new one.
LEMMA Dup2Moves ==
  ASSUME NEW p, NEW move
  PROVE  \/ /\ move.cur \notin DOMAIN p.t \/ move.cur = move.new
            /\ Dup2(p, move) = p
         \/ /\ move.cur \in DOMAIN p.t
            /\ Dup2(p, move).keep = p.keep \cup {move.new}
            /\ DOMAIN Dup2(p, move).t = DOMAIN p.t \cup {move.new}
            /\ Dup2(p, move).t[move.new] = p.t[move.cur]
            /\ \A m \in DOMAIN p.t : m # move.new => Dup2(p, move).t[m] = p.t[m]
<1>1. CASE move.cur \notin DOMAIN p.t \/ move.cur = move.new
  BY <1>1 DEF Dup2
<1>2. CASE ~ (move.cur \notin DOMAIN p.t \/ move.cur = move.new)
  <2> DEFINE q == Dup2(p, move)
             file == p.t[move.cur]
             new == move.new
  <2>1. q = [t |-> Put(p.t, new, file), keep |-> p.keep \cup {new}]
    BY <1>2 DEF Dup2
  <2>2. q.t = Put(p.t, new, file) /\ q.keep = p.keep \cup {new}
    BY <2>1
  <2> HIDE DEF q, file, new
  <2>3. DOMAIN q.t = DOMAIN p.t \cup {new}
    BY <2>2 DEF Put
  <2>4. q.t[new] = file /\ \A m \in DOMAIN p.t : m # new => q.t[m] = p.t[m]
    BY <2>2, PutFile
  <2> QED BY <1>2, <2>2, <2>3, <2>4 DEF q, file, new
<1> QED BY <1>1, <1>2

\* There is a move for every number.
LEMMA MovesLength ==
  ASSUME NEW nums \in Seq(Nat), NEW names
  PROVE  Len(Moves(nums, names)) = Len(nums) /\ Len(nums) \in Nat
<1> DEFINE moves == Moves(nums, names)
           n == Len(nums)
<1>1. n \in Nat
  OBVIOUS
<1> HIDE DEF n
<1>2. DOMAIN moves = 1..n
  BY DEF Moves, n
<1>3. moves \in Seq({moves[i] : i \in 1..n})
  BY <1>1 DEF Moves, n
<1>4. DOMAIN moves = 1..Len(moves) /\ Len(moves) \in Nat
  <2> HIDE DEF moves
  <2> QED BY <1>3
<1> QED BY <1>1, <1>2, <1>4 DEF n

\* Whatever the numbers, only files of the job survive execve.
LEMMA ExecExposesNothing ==
  ASSUME NEW z, NEW nums \in Seq(Nat), NEW names, NEW j,
         \A i \in 1..Len(nums) : nums[i] \in DOMAIN z => OfJob(j, z[nums[i]])
  PROVE  LET table == ExecTable(z, nums, names)
         IN  \A m \in DOMAIN table : OfJob(j, table[m])
<1>0. PICK p : p = CloseOnExec(z)
  OBVIOUS
<1> DEFINE moves == Moves(nums, names)
           n == Len(nums)
           Mine == {nums[i] : i \in 1..n}
           Safe(q) == /\ q.keep \subseteq DOMAIN q.t
                      /\ \A m \in DOMAIN q.t : m \in q.keep \cup Mine => OfJob(j, q.t[m])
<1>1. n \in Nat
  OBVIOUS
<1>2. PICK acc : Placing(acc, p, moves, n) /\ Placed(p, moves) = acc[n]
  <2>1. Len(moves) = n /\ n \in Nat
    BY MovesLength
  <2> HIDE DEF moves, n
  <2> QED BY <2>1, PlacedUnfolds
<1>2a. acc[0] = p /\ \A i \in 1..n : acc[i] = Dup2(acc[i - 1], moves[i])
  <2> HIDE DEF moves, n
  <2> QED BY <1>1, <1>2 DEF Placing
<1>3. Safe(p)
  <2>1. p.keep = {} /\ p.t = Close(z, ToSet(handles))
    BY <1>0 DEF CloseOnExec
  <2>2. DOMAIN p.t \subseteq DOMAIN z /\ \A m \in DOMAIN p.t : p.t[m] = z[m]
    BY <2>1 DEF Close
  <2> QED BY <2>1, <2>2
<1>4. ASSUME NEW i \in 1..n, NEW q, Safe(q) PROVE Safe(Dup2(q, moves[i]))
  <2> DEFINE r == Dup2(q, moves[i])
             new == Target(names, i)
  <2>1. moves[i].cur = nums[i] /\ moves[i].new = new
    BY <1>1 DEF Moves
  <2>2. \/ r = q
        \/ /\ nums[i] \in DOMAIN q.t /\ r.keep = q.keep \cup {new}
           /\ DOMAIN r.t = DOMAIN q.t \cup {new} /\ r.t[new] = q.t[nums[i]]
           /\ \A m \in DOMAIN q.t : m # new => r.t[m] = q.t[m]
    <3> HIDE DEF moves, new
    <3> QED BY <2>1, Dup2Moves
  <2>3. nums[i] \in Mine
    OBVIOUS
  <2> HIDE DEF r, new, Mine
  <2> QED BY <1>4, <2>2, <2>3 DEF r
<1> HIDE DEF moves, Safe
<1>5. Safe(acc[n])
  <2> DEFINE S == {m \in 0..n : Safe(acc[m])}
  <2>1. 0 \in S
    BY <1>1, <1>2a, <1>3
  <2>2. ASSUME NEW m \in 0..(n - 1), m \in S PROVE m + 1 \in S
    <3>1. m + 1 \in 1..n /\ m + 1 \in 0..n /\ (m + 1) - 1 = m
      BY <1>1
    <3>2. Safe(Dup2(acc[m], moves[m + 1]))
      BY <3>1, <2>2, <1>4
    <3> QED BY <3>1, <3>2, <1>2a
  <2>3. \A m \in 0..n : m \in S
    <3> HIDE DEF S, n
    <3> QED BY <1>1, <2>1, <2>2, UpTo
  <2> QED BY <1>1, <2>3
<1>6. ExecTable(z, nums, names) = [m \in acc[n].keep |-> acc[n].t[m]]
  BY <1>0, <1>2 DEF ExecTable, Placed, moves
<1> QED BY <1>5, <1>6 DEF Safe

\* The files are open under nums, which clash neither with the numbers the caller
\* wants nor with the handles.
Clear(z, nums, names, files) ==
  /\ \A i \in 1..Len(nums) :
       nums[i] \in DOMAIN z /\ z[nums[i]] = files[i] /\ nums[i] \notin ToSet(handles)
  /\ \A i, k \in 1..Len(nums) : Target(names, i) # nums[k]
  /\ \A i, k \in 1..Len(nums) : Target(names, i) = Target(names, k) => i = k

\* The table has the n files under the numbers the caller wants, and nothing else.
Delivered(table, n, names, files) ==
  /\ DOMAIN table = {Target(names, i) : i \in 1..n}
  /\ \A i \in 1..n : table[Target(names, i)] = files[i]

\* If the numbers are apart, every file is under the number its caller wants.
LEMMA ExecPlaces ==
  ASSUME NEW z, NEW nums \in Seq(Nat), NEW names, NEW files,
         Clear(z, nums, names, files)
  PROVE  Delivered(ExecTable(z, nums, names), Len(nums), names, files)
<1>0. PICK p : p = CloseOnExec(z)
  OBVIOUS
<1> DEFINE moves == Moves(nums, names)
           n == Len(nums)
           new(i) == Target(names, i)
           InPlace(q, m) ==
             /\ \A i \in 1..n : nums[i] \in DOMAIN q.t /\ q.t[nums[i]] = files[i]
             /\ \A i \in 1..m : new(i) \in DOMAIN q.t /\ q.t[new(i)] = files[i]
             /\ q.keep = {new(i) : i \in 1..m}
<1>1. n \in Nat
  OBVIOUS
<1>2. PICK acc : Placing(acc, p, moves, n) /\ Placed(p, moves) = acc[n]
  <2>1. Len(moves) = n /\ n \in Nat
    BY MovesLength
  <2> HIDE DEF moves, n
  <2> QED BY <2>1, PlacedUnfolds
<1>2a. acc[0] = p /\ \A i \in 1..n : acc[i] = Dup2(acc[i - 1], moves[i])
  <2> HIDE DEF moves, n
  <2> QED BY <1>1, <1>2 DEF Placing
<1>2b. /\ \A i \in 1..n : nums[i] \in DOMAIN z /\ z[nums[i]] = files[i] /\ nums[i] \notin ToSet(handles)
       /\ \A i, k \in 1..n : new(i) # nums[k]
       /\ \A i, k \in 1..n : new(i) = new(k) => i = k
  BY DEF Clear
<1>3. InPlace(p, 0)
  <2>1. p.keep = {} /\ p.t = Close(z, ToSet(handles))
    BY <1>0 DEF CloseOnExec
  <2>2. DOMAIN p.t = DOMAIN z \ ToSet(handles) /\ \A m \in DOMAIN p.t : p.t[m] = z[m]
    BY <2>1 DEF Close
  <2> QED BY <2>1, <2>2, <1>2b
<1>4. ASSUME NEW m \in 0..(n - 1), NEW q, InPlace(q, m)
      PROVE  InPlace(Dup2(q, moves[m + 1]), m + 1)
  <2> DEFINE i == m + 1
             r == Dup2(q, moves[i])
             w == new(i)
  <2>1. m \in Nat /\ i \in 1..n /\ 1..i = (1..m) \cup {i} /\ i \notin 1..m /\ 1..m \subseteq 1..n
    BY <1>1
  <2>2. moves[i].cur = nums[i] /\ moves[i].new = w
    BY <1>1, <2>1 DEF Moves
  <2>3. w # nums[i] /\ nums[i] \in DOMAIN q.t /\ q.t[nums[i]] = files[i]
    BY <2>1, <1>4, <1>2b
  <2>4. /\ r.keep = q.keep \cup {w}
        /\ DOMAIN r.t = DOMAIN q.t \cup {w} /\ r.t[w] = q.t[nums[i]]
        /\ \A k \in DOMAIN q.t : k # w => r.t[k] = q.t[k]
    <3> HIDE DEF moves, w, i
    <3> QED BY <2>2, <2>3, Dup2Moves
  <2>5. ASSUME NEW k \in 1..n PROVE nums[k] \in DOMAIN r.t /\ r.t[nums[k]] = files[k]
    <3>1. nums[k] # w /\ nums[k] \in DOMAIN q.t /\ q.t[nums[k]] = files[k]
      BY <2>1, <1>4, <1>2b
    <3> HIDE DEF r, w
    <3> QED BY <3>1, <2>4
  <2>6. ASSUME NEW k \in 1..i PROVE new(k) \in DOMAIN r.t /\ r.t[new(k)] = files[k]
    <3>1. CASE k = i
      <4> HIDE DEF r
      <4> QED BY <3>1, <2>3, <2>4
    <3>2. CASE k # i
      <4>1. k \in 1..m /\ k \in 1..n
        BY <3>2, <2>1
      <4>2. new(k) # w /\ new(k) \in DOMAIN q.t /\ q.t[new(k)] = files[k]
        BY <4>1, <3>2, <2>1, <1>4, <1>2b
      <4> HIDE DEF r, w, new
      <4> QED BY <4>2, <2>4
    <3> QED BY <3>1, <3>2
  <2>7. r.keep = {new(k) : k \in 1..i}
    <3>1. q.keep = {new(k) : k \in 1..m}
      BY <1>4
    <3> HIDE DEF r, new
    <3> QED BY <3>1, <2>1, <2>4
  <2> QED BY <2>5, <2>6, <2>7
<1> HIDE DEF moves, InPlace
<1>5. InPlace(acc[n], n)
  <2> DEFINE S == {m \in 0..n : InPlace(acc[m], m)}
  <2>1. 0 \in S
    BY <1>1, <1>2a, <1>3
  <2>2. ASSUME NEW m \in 0..(n - 1), m \in S PROVE m + 1 \in S
    <3>1. m + 1 \in 1..n /\ m + 1 \in 0..n /\ (m + 1) - 1 = m
      BY <1>1
    <3>2. InPlace(Dup2(acc[m], moves[m + 1]), m + 1)
      BY <2>2, <1>4
    <3> QED BY <3>1, <3>2, <1>2a
  <2>3. \A m \in 0..n : m \in S
    <3> HIDE DEF S, n
    <3> QED BY <1>1, <2>1, <2>2, UpTo
  <2> QED BY <1>1, <2>3
<1>6. ExecTable(z, nums, names) = [m \in acc[n].keep |-> acc[n].t[m]]
  BY <1>0, <1>2 DEF ExecTable, Placed, moves
<1> QED BY <1>5, <1>6 DEF InPlace, Delivered

\* The copy of stderr takes a free number, so what was passed is where it was.
LEMMA ChildTable ==
  ASSUME NEW base, NEW zyg, NEW nums, NEW files, NEW n \in Nat, NEW file,
         Extended(base, zyg, nums, files, n)
  PROVE  LET z == Put(zyg, LowestFree(zyg), file)
         IN  /\ \A i \in 1..n : nums[i] \in DOMAIN z /\ z[nums[i]] = files[i]
             /\ \A m \in DOMAIN base : m \in DOMAIN z /\ z[m] = base[m]
<1> DEFINE d == LowestFree(zyg)
           z == Put(zyg, d, file)
<1>1. Table(zyg) /\ DOMAIN zyg = DOMAIN base \cup {nums[i] : i \in 1..n}
  BY DEF Extended
<1>2. d \notin DOMAIN zyg
  BY <1>1, LowestFreeIsFree
<1> HIDE DEF d
<1>3. DOMAIN z = DOMAIN zyg \cup {d}
  BY PutDomain
<1>4. \A m \in DOMAIN zyg : m # d => z[m] = zyg[m]
  BY PutFile
<1> HIDE DEF z
<1>5. \A m \in DOMAIN zyg : m \in DOMAIN z /\ z[m] = zyg[m]
  BY <1>2, <1>3, <1>4
<1>6. \A i \in 1..n : nums[i] \in DOMAIN zyg /\ zyg[nums[i]] = files[i]
  BY <1>1 DEF Extended
<1>7. \A m \in DOMAIN base : m \in DOMAIN zyg /\ zyg[m] = base[m]
  BY <1>1 DEF Extended
<1> QED BY <1>5, <1>6, <1>7 DEF z, d

\* What was passed with a request of k extra descriptors.
Files(j, k) == [i \in 1..(3 + k) |-> Passed(j, i)]

\* The program sees files of its own request only.
LEMMA ChildExposesNothing ==
  ASSUME NEW base, NEW zyg, NEW nums \in Seq(Nat), NEW r \in Requests, NEW j,
         Len(nums) = 3 + Len(r.names),
         Extended(base, zyg, nums, Files(j, Len(r.names)), Len(nums))
  PROVE  LET job == Child(zyg, nums, r)
         IN  \A m \in DOMAIN job.table : OfJob(j, job.table[m])
<1> DEFINE z == Put(zyg, LowestFree(zyg), zyg[2])
           k == Len(r.names)
           job == Child(zyg, nums, r)
<1>1. \A i \in 1..Len(nums) : nums[i] \in DOMAIN z /\ z[nums[i]] = Files(j, k)[i]
  <2>1. Len(nums) \in Nat
    OBVIOUS
  <2> HIDE DEF z, k
  <2> QED BY <2>1, ChildTable DEF z, k
<1>2. \A i \in 1..Len(nums) : OfJob(j, Files(j, k)[i])
  <2>1. \A i \in 1..(3 + k) : i \in Nat /\ Files(j, k)[i] = Passed(j, i)
    BY DEF Files
  <2> QED BY <2>1 DEF OfJob
<1>3. \A i \in 1..Len(nums) : nums[i] \in DOMAIN z => OfJob(j, z[nums[i]])
  <2> HIDE DEF z, k
  <2> QED BY <1>1, <1>2
<1>4. \A m \in DOMAIN ExecTable(z, nums, r.names) : OfJob(j, ExecTable(z, nums, r.names)[m])
  <2> HIDE DEF z
  <2> QED BY <1>3, ExecExposesNothing
<1>5. job.table = ExecTable(z, nums, r.names) \/ job.table = <<>>
  BY DEF Child
<1>6. DOMAIN <<>> = {}
  OBVIOUS
<1> HIDE DEF job, z
<1> QED BY <1>4, <1>5, <1>6 DEF job

\* The program has what was passed, in its place, if the numbers are apart.
LEMMA ChildGetsItsFds ==
  ASSUME NEW base, NEW zyg, NEW nums \in Seq(Nat), NEW r \in Requests, NEW j,
         Len(nums) = 3 + Len(r.names), 0..2 \subseteq DOMAIN base,
         Extended(base, zyg, nums, Files(j, Len(r.names)), Len(nums))
  PROVE  GotItsFds(j, Child(zyg, nums, r))
<1> DEFINE z == Put(zyg, LowestFree(zyg), zyg[2])
           names == r.names
           k == Len(names)
           n == Len(nums)
           job == Child(zyg, nums, r)
           files == Files(j, k)
<1>1. names \in Seq(Nat) /\ k \in Nat /\ DOMAIN names = 1..k /\ n = 3 + k /\ DOMAIN nums = 1..n
  BY RequestsAssumption
<1>2. job.names = names /\ job.nums = nums
  BY DEF Child
<1>3. SUFFICES ASSUME job.ran, Apart(job)
               PROVE  /\ DOMAIN job.table = 0..2 \cup ToSet(names)
                      /\ \A i \in 1..3 : job.table[i - 1] = Passed(j, i)
                      /\ \A i \in 1..k : job.table[names[i]] = Passed(j, 3 + i)
  BY <1>1, <1>2 DEF GotItsFds
<1>4. job.table = ExecTable(z, nums, names)
  BY <1>3 DEF Child
<1>5. /\ \A a, b \in 1..k : names[a] = names[b] => a = b
      /\ \A a \in 1..k : names[a] \notin 0..2 /\ \A i \in 1..n : names[a] # nums[i]
      /\ \A i \in 1..n : nums[i] \notin ToSet(handles)
  <2>1. /\ IsInjective(names)
        /\ ToSet(names) \cap (0..2 \cup ToSet(nums)) = {}
        /\ ToSet(nums) \cap ToSet(handles) = {}
    BY <1>2, <1>3 DEF Apart
  <2>2. ToSet(names) = {names[a] : a \in 1..k} /\ ToSet(nums) = {nums[i] : i \in 1..n}
    BY <1>1 DEF ToSet
  <2> HIDE DEF names, k, n
  <2>3. \A a, b \in 1..k : names[a] = names[b] => a = b
    BY <1>1, <2>1 DEF IsInjective
  <2>4. ASSUME NEW a \in 1..k PROVE names[a] \notin 0..2 /\ names[a] \notin ToSet(nums)
    <3>1. names[a] \in ToSet(names)
      BY <2>2
    <3> QED BY <2>1, <3>1
  <2>5. \A i \in 1..n : nums[i] \in ToSet(nums)
    BY <2>2
  <2> QED BY <2>1, <2>3, <2>4, <2>5
<1> HIDE DEF job, k, n
<1>6. \A i \in 1..n : nums[i] \notin 0..2
  <2>1. \A i \in 1..n : nums[i] \notin DOMAIN base
    BY DEF Extended, n
  <2> QED BY <2>1
<1>7. \A i \in 1..n : nums[i] \in DOMAIN z /\ z[nums[i]] = files[i]
  <2>1. Extended(base, zyg, nums, files, n) /\ n \in Nat
    BY <1>1 DEF files, k, n, names
  <2> HIDE DEF files, k, n, names
  <2>2. \A i \in 1..n : nums[i] \in DOMAIN Put(zyg, LowestFree(zyg), zyg[2])
                         /\ Put(zyg, LowestFree(zyg), zyg[2])[nums[i]] = files[i]
    BY <2>1, ChildTable
  <2> QED BY <2>2
<1> HIDE DEF z
<1>8. \A i \in 1..n : IF i <= 3 THEN Target(names, i) = i - 1 /\ i - 1 \in 0..2
                      ELSE i - 3 \in 1..k /\ Target(names, i) = names[i - 3]
  <2> HIDE DEF names
  <2> QED BY <1>1 DEF Target
<1> HIDE DEF names
<1>9. \A i, l \in 1..n : Target(names, i) # nums[l]
  BY <1>5, <1>6, <1>8
<1>10. ASSUME NEW i \in 1..n, NEW l \in 1..n, Target(names, i) = Target(names, l) PROVE i = l
  <2>1. i \in Nat /\ l \in Nat
    BY <1>1
  <2>2. CASE i <= 3 /\ l <= 3
    BY <2>1, <2>2, <1>8, <1>10
  <2>3. CASE i <= 3 /\ ~ (l <= 3)
    BY <2>3, <1>5, <1>8, <1>10
  <2>4. CASE ~ (i <= 3) /\ l <= 3
    BY <2>4, <1>5, <1>8, <1>10
  <2>5. CASE ~ (i <= 3) /\ ~ (l <= 3)
    <3>1. i - 3 = l - 3
      BY <2>5, <1>5, <1>8, <1>10
    <3> QED BY <2>1, <3>1
  <2> QED BY <2>1, <2>2, <2>3, <2>4, <2>5
<1>11. /\ DOMAIN job.table = {Target(names, i) : i \in 1..n}
       /\ \A i \in 1..n : job.table[Target(names, i)] = files[i]
  <2> HIDE DEF files
  <2>1. \A i \in 1..n : nums[i] \in DOMAIN z /\ z[nums[i]] = files[i] /\ nums[i] \notin ToSet(handles)
    BY <1>5, <1>7
  <2>2. \A i, l \in 1..n : Target(names, i) = Target(names, l) => i = l
    BY <1>10
  <2>3. n = Len(nums)
    BY DEF n
  <2>4. Clear(z, nums, names, files)
    BY <2>1, <2>2, <2>3, <1>9 DEF Clear
  <2>5. Delivered(ExecTable(z, nums, names), Len(nums), names, files)
    BY <2>4, ExecPlaces
  <2> QED BY <2>3, <2>5, <1>4 DEF Delivered
<1>12. \A i \in 1..n : files[i] = Passed(j, i)
  BY <1>1 DEF Files, n, k
<1> HIDE DEF files
<1>13. ASSUME NEW i \in 1..3 PROVE Target(names, i) = i - 1 /\ i \in 1..n
  BY <1>1, <1>8
<1>14. ASSUME NEW i \in 1..k PROVE Target(names, 3 + i) = names[i] /\ 3 + i \in 1..n
  <2>1. 3 + i \in 1..n /\ ~ (3 + i <= 3) /\ (3 + i) - 3 = i
    BY <1>1
  <2> QED BY <2>1, <1>8
<1>15. {Target(names, i) : i \in 1..n} = 0..2 \cup ToSet(names)
  <2>1. ToSet(names) = {names[i] : i \in 1..k}
    BY <1>1 DEF ToSet
  <2>2. ASSUME NEW i \in 1..n PROVE Target(names, i) \in 0..2 \cup {names[a] : a \in 1..k}
    BY <1>8
  <2>3. ASSUME NEW m \in 0..2 PROVE m \in {Target(names, i) : i \in 1..n}
    <3>1. m + 1 \in 1..3 /\ (m + 1) - 1 = m
      OBVIOUS
    <3>2. Target(names, m + 1) = m /\ m + 1 \in 1..n
      BY <3>1, <1>13
    <3> QED BY <3>2
  <2>4. ASSUME NEW a \in 1..k PROVE names[a] \in {Target(names, i) : i \in 1..n}
    BY <1>14
  <2> QED BY <2>1, <2>2, <2>3, <2>4
<1>16. \A i \in 1..3 : job.table[i - 1] = Passed(j, i)
  BY <1>11, <1>12, <1>13
<1>17. \A i \in 1..k : job.table[names[i]] = Passed(j, 3 + i)
  BY <1>11, <1>12, <1>14
<1> QED BY <1>11, <1>15, <1>16, <1>17 DEF names

\* A child that finds every handle open on its tasks file is in every group.
LEMMA ChildConfined ==
  ASSUME NEW base, NEW zyg, NEW nums, NEW files, NEW n \in Nat, NEW r,
         Extended(base, zyg, nums, files, n),
         \A i \in DOMAIN handles : handles[i] \in DOMAIN base /\ base[handles[i]] = TasksFile(i)
  PROVE  Child(zyg, nums, r).ran => Child(zyg, nums, r).confined
<1> DEFINE z == Put(zyg, LowestFree(zyg), zyg[2])
<1>1. \A m \in DOMAIN base : m \in DOMAIN z /\ z[m] = base[m]
  <2> HIDE DEF z
  <2> QED BY ChildTable DEF z
<1>2. InGroups(z)
  <2> HIDE DEF z
  <2> QED BY <1>1 DEF InGroups
<1> QED BY <1>2 DEF Child

-----------------------------------------------------------------------------
(* The inductive invariant.                                                *)

\* The spawns were recorded one after the other.
JobsSeq == \E S : jobs \in Seq(S)

\* Until the first spawn every handle is open on its tasks file.
HandlesOpen ==
  jobs = <<>> =>
    \A i \in DOMAIN handles : handles[i] \in DOMAIN fds /\ fds[handles[i]] = TasksFile(i)

\* NothingExposed and JobGetsItsFds, job by job.
JobsInv ==
  \A j \in DOMAIN jobs :
    /\ \A m \in DOMAIN jobs[j].table : OfJob(j, jobs[j].table[m])
    /\ jobs[j].nums \in Seq(Nat)
    /\ GotItsFds(j, jobs[j])

FdsInv ==
  /\ handles \in Handles /\ alive \in BOOLEAN
  /\ Table(fds) /\ \A n \in DOMAIN fds : fds[n] \in File
  /\ JobsSeq /\ ZygoteKeepsItsFds /\ HandlesOpen /\ JobsInv /\ FirstJobConfined /\ PanicsOnlyLater

\* Every property of the runs is a part of it, or follows.
LEMMA FdsInvImplies == FdsInv => TypeOK /\ JobGetsItsFds /\ NothingExposed
<1> SUFFICES ASSUME FdsInv PROVE TypeOK /\ JobGetsItsFds /\ NothingExposed
  OBVIOUS
<1>1. ASSUME NEW j \in DOMAIN jobs, NEW m \in DOMAIN jobs[j].table
      PROVE  /\ jobs[j].table[m] \in File
             /\ jobs[j].table[m].of = "job" /\ jobs[j].table[m].job = j
  <2>1. j \in Nat
    <3>1. PICK S : jobs \in Seq(S)
      BY DEF FdsInv, JobsSeq
    <3> QED BY <3>1
  <2>2. PICK i \in Nat : jobs[j].table[m] = Passed(j, i)
    BY DEF FdsInv, JobsInv, OfJob
  <2> QED BY <2>1, <2>2 DEF Passed, File
<1>2. TypeOK
  BY <1>1 DEF FdsInv, TypeOK, Table, JobsInv
<1>3. JobGetsItsFds
  BY DEF FdsInv, JobsInv, JobGetsItsFds
<1>4. NothingExposed
  BY <1>1 DEF NothingExposed
<1> QED BY <1>2, <1>3, <1>4

\* It holds when the zygote starts: it inherited all the handles.
LEMMA InitFdsInv == Init => FdsInv
<1> SUFFICES ASSUME Init PROVE FdsInv
  OBVIOUS
<1>0. PICK hs \in Handles : handles = hs
  BY DEF Init
<1> DEFINE D == Inherited \cup ToSet(hs)
<1>1. DOMAIN fds = D /\ handles = hs /\ jobs = <<>> /\ alive = TRUE
  BY <1>0 DEF Init
<1>2. hs \in Seq(Nat) /\ ToSet(hs) = {hs[i] : i \in DOMAIN hs}
  BY NumbersAssumption DEF ToSet
<1>3. \A n \in Inherited : fds[n] = Own(n)
  BY DEF Init
<1>4. ASSUME NEW i \in DOMAIN hs PROVE fds[hs[i]] = TasksFile(i)
  <2>1. hs[i] \notin Inherited /\ hs[i] \in D
    BY <1>2, NumbersAssumption
  <2>2. fds[hs[i]] = TasksFile(CHOOSE k \in DOMAIN hs : hs[k] = hs[i])
    BY <2>1, <1>0 DEF Init
  <2>3. \A k \in DOMAIN hs : hs[k] = hs[i] => k = i
    BY NumbersAssumption DEF IsInjective
  <2> QED BY <2>2, <2>3
<1>5. Table(fds)
  <2>1. IsFiniteSet(ToSet(hs))
    <3>1. Len(hs) \in Nat /\ DOMAIN hs = 1..Len(hs)
      BY <1>2
    <3>2. IsFiniteSet(DOMAIN hs)
      BY <3>1, FS_Interval
    <3>3. hs \in Surjection(DOMAIN hs, ToSet(hs))
      BY <1>2 DEF Surjection
    <3> QED BY <3>2, <3>3, FS_Surjection
  <2>2. IsFiniteSet(D)
    BY <2>1, FS_Union, NumbersAssumption
  <2>3. D \subseteq Nat
    <3>1. \A i \in DOMAIN hs : hs[i] \in Nat
      BY <1>2
    <3> QED BY <3>1, <1>2, NumbersAssumption
  <2> HIDE DEF D
  <2> QED BY <1>1, <2>2, <2>3 DEF Table
<1>6. ASSUME NEW n \in DOMAIN fds PROVE fds[n] \in File /\ fds[n].of # "job"
  <2>1. CASE n \in Inherited
    <3>1. n \in Nat /\ fds[n] = Own(n)
      BY <2>1, <1>3, NumbersAssumption
    <3> QED BY <3>1 DEF Own, File
  <2>2. CASE n \notin Inherited
    <3>1. PICK i \in DOMAIN hs : n = hs[i]
      BY <2>2, <1>1, <1>2
    <3>2. i \in Nat /\ fds[n] = TasksFile(i)
      BY <3>1, <1>2, <1>4
    <3> QED BY <3>2 DEF TasksFile, File
  <2> QED BY <2>1, <2>2
<1>7. ZygoteKeepsItsFds
  BY <1>1, <1>6 DEF ZygoteKeepsItsFds
<1>8. HandlesOpen
  BY <1>1, <1>2, <1>4 DEF HandlesOpen
<1>9. jobs \in Seq({}) /\ DOMAIN jobs = {}
  BY <1>1
<1> QED BY <1>1, <1>5, <1>6, <1>7, <1>8, <1>9 DEF FdsInv, JobsSeq, JobsInv, FirstJobConfined, PanicsOnlyLater

\* A spawn keeps it, whether the program runs or not.
LEMMA SpawnFdsInv ==
  ASSUME FdsInv, NEW r \in Requests, Spawn(r)
  PROVE  FdsInv'
<1>1. PICK base, j, H, got, dup, job :
        /\ base = fds /\ j = Len(jobs) + 1 /\ H = ToSet(handles)
        /\ got = Receive(base, Files(j, Len(r.names)))
        /\ dup = Duplicate(got.t, got.nums)
        /\ job = Child(dup.t, dup.nums, r)
  OBVIOUS
<1> DEFINE k == Len(r.names)
           n == 3 + k
           files == Files(j, k)
<1>2. k \in Nat /\ n \in Nat /\ r.names \in Seq(Nat) /\ Len(files) = n
  <2>1. r.names \in Seq(Nat)
    BY RequestsAssumption
  <2>2. k \in Nat
    BY <2>1
  <2> HIDE DEF k
  <2>3. files \in Seq({Passed(j, i) : i \in 1..n}) /\ DOMAIN files = 1..n
    BY <2>2 DEF Files
  <2>4. Len(files) \in Nat /\ DOMAIN files = 1..Len(files)
    <3> HIDE DEF files
    <3> QED BY <2>3
  <2> QED BY <2>1, <2>2, <2>3, <2>4
<1>3. /\ jobs' = Append(jobs, job)
      /\ fds' = Close(dup.t, ToSet(dup.nums) \cup H)
      /\ handles' = handles /\ alive' \in BOOLEAN
  BY <1>1 DEF Spawn, Files
<1>4. Table(base) /\ 0..2 \subseteq DOMAIN base
  BY <1>1, NumbersAssumption DEF FdsInv, ZygoteKeepsItsFds
<1>5. got.nums \in Seq(Nat) /\ Extended(base, got.t, got.nums, files, n)
  <2> HIDE DEF files, n
  <2>1. Len(files) \in Nat /\ got = Receive(base, files)
    BY <1>1, <1>2 DEF files, k
  <2> QED BY <2>1, <1>2, <1>4, ReceiveExtends
<1> HIDE DEF files, n
<1>6. Len(got.nums) = n
  BY <1>2, <1>5 DEF Extended
<1>7. dup.nums \in Seq(Nat) /\ Len(dup.nums) = n /\ Extended(base, dup.t, dup.nums, files, n)
  BY <1>1, <1>5, <1>6, DuplicateExtends
<1>8. PICK S : jobs \in Seq(S)
  BY DEF FdsInv, JobsSeq
<1>9. /\ Len(jobs) \in Nat /\ j \in Nat \ {0} /\ DOMAIN jobs = 1..(j - 1)
      /\ DOMAIN (jobs') = (DOMAIN jobs) \cup {j}
      /\ jobs'[j] = job /\ \A i \in DOMAIN jobs : jobs'[i] = jobs[i] /\ i # j
      /\ jobs' \in Seq(S \cup {job})
  BY <1>1, <1>3, <1>8
<1>10. DOMAIN (fds') = DOMAIN base \ H /\ Table(fds)' /\ \A m \in DOMAIN (fds') : fds'[m] = base[m]
  <2> DEFINE C == ToSet(dup.nums) \cup H
  <2>1. Table(dup.t) /\ DOMAIN dup.t = DOMAIN base \cup {dup.nums[i] : i \in 1..n}
        /\ (\A i \in 1..n : dup.nums[i] \notin DOMAIN base)
        /\ \A m \in DOMAIN base : dup.t[m] = base[m]
    BY <1>7 DEF Extended
  <2>2. ToSet(dup.nums) = {dup.nums[i] : i \in 1..n}
    BY <1>7 DEF ToSet
  <2>3. fds' = Close(dup.t, C)
    BY <1>3
  <2>4. DOMAIN dup.t \ C = DOMAIN base \ H
    BY <2>1, <2>2
  <2> HIDE DEF C
  <2>5. PICK left : left = Close(dup.t, C)
    OBVIOUS
  <2>6. /\ Table(left) /\ DOMAIN left = DOMAIN dup.t \ C
        /\ \A m \in DOMAIN dup.t \ C : left[m] = dup.t[m]
    <3>1. Table(dup.t)
      BY <2>1
    <3>2. PICK u : u = dup.t
      OBVIOUS
    <3>3. PICK D : D = C
      OBVIOUS
    <3>4. Table(u)
      BY <3>1, <3>2
    <3>5. Table(Close(u, D))
      BY <3>4, CloseTable
    <3>6. DOMAIN Close(u, D) = DOMAIN u \ D
      BY DEF Close
    <3>7. \A m \in DOMAIN u \ D : Close(u, D)[m] = u[m]
      BY DEF Close
    <3>8. left = Close(u, D)
      BY <2>5, <3>2, <3>3
    <3>9. Table(left)
      BY <3>5, <3>8
    <3>10. DOMAIN left = DOMAIN dup.t \ C
      BY <3>6, <3>8, <3>2, <3>3
    <3>11. \A m \in DOMAIN dup.t \ C : left[m] = dup.t[m]
      BY <3>7, <3>8, <3>2, <3>3
    <3> QED BY <3>9, <3>10, <3>11
  <2>7. fds' = left
    BY <2>3, <2>5
  <2>8. Table(fds)'
    BY <2>6, <2>7 DEF Table
  <2> QED BY <2>1, <2>4, <2>6, <2>7, <2>8
<1>11. H \cap Inherited = {}
  BY <1>1, NumbersAssumption DEF FdsInv
<1>12. ZygoteKeepsItsFds'
  BY <1>1, <1>10, <1>11 DEF FdsInv, ZygoteKeepsItsFds
<1>13. HandlesOpen'
  BY <1>9 DEF HandlesOpen
<1>14. /\ \A m \in DOMAIN job.table : OfJob(j, job.table[m])
       /\ GotItsFds(j, job) /\ job.nums \in Seq(Nat)
  <2>1. dup.nums \in Seq(Nat) /\ Len(dup.nums) = 3 + Len(r.names)
        /\ Extended(base, dup.t, dup.nums, Files(j, Len(r.names)), Len(dup.nums))
    BY <1>7 DEF n, k, files
  <2>2. \A m \in DOMAIN job.table : OfJob(j, job.table[m])
    <3>1. \A m \in DOMAIN Child(dup.t, dup.nums, r).table :
            OfJob(j, Child(dup.t, dup.nums, r).table[m])
      BY <2>1, ChildExposesNothing
    <3> QED BY <3>1, <1>1
  <2>3. GotItsFds(j, job)
    BY <2>1, <1>1, <1>4, ChildGetsItsFds
  <2>4. job.nums = dup.nums
    BY <1>1 DEF Child
  <2> QED BY <2>1, <2>2, <2>3, <2>4
<1>15. JobsInv'
  <2>1. ASSUME NEW i \in DOMAIN (jobs')
        PROVE  /\ \A m \in DOMAIN jobs'[i].table : OfJob(i, jobs'[i].table[m])
               /\ jobs'[i].nums \in Seq(Nat) /\ GotItsFds(i, jobs'[i])
    <3>1. CASE i = j
      BY <3>1, <1>9, <1>14
    <3>2. CASE i \in DOMAIN jobs
      <4>1. jobs'[i] = jobs[i]
        BY <3>2, <1>9
      <4>2. /\ \A m \in DOMAIN jobs[i].table : OfJob(i, jobs[i].table[m])
            /\ jobs[i].nums \in Seq(Nat) /\ GotItsFds(i, jobs[i])
        BY <3>2 DEF FdsInv, JobsInv
      <4> QED BY <4>1, <4>2
    <3> QED BY <3>1, <3>2, <1>9
  <2>2. \A i \in DOMAIN (jobs') : GotItsFds(i, jobs[i])'
    BY <2>1, <1>3 DEF GotItsFds, Apart
  <2> QED BY <2>1, <2>2 DEF JobsInv, OfJob
<1>16. FirstJobConfined'
  <2>1. CASE jobs = <<>>
    <3>1. j = 1
      BY <2>1, <1>1
    <3>2. \A i \in DOMAIN handles : handles[i] \in DOMAIN base /\ base[handles[i]] = TasksFile(i)
      BY <2>1, <1>1 DEF FdsInv, HandlesOpen
    <3>3. job.ran => job.confined
      BY <3>2, <1>1, <1>2, <1>7, ChildConfined
    <3> QED BY <3>1, <3>3, <1>9 DEF FirstJobConfined
  <2>2. CASE jobs # <<>>
    <3>1. 1 \in DOMAIN jobs
      BY <2>2, <1>8
    <3> QED BY <2>2, <3>1, <1>9 DEF FdsInv, FirstJobConfined
  <2> QED BY <2>1, <2>2
<1>17. \A m \in DOMAIN (fds') : fds'[m] \in File
  BY <1>1, <1>10 DEF FdsInv
<1>18. JobsSeq'
  BY <1>9 DEF JobsSeq
<1>19. handles' \in Handles /\ alive' \in BOOLEAN
  BY <1>3 DEF FdsInv
<1>20. PanicsOnlyLater'
  <2>1. SUFFICES ASSUME ~ alive'
                 PROVE  handles' # <<>> /\ Len(jobs') > 1 /\ jobs'[Len(jobs')].names # <<>>
    BY DEF PanicsOnlyLater
  <2>2. PICK i \in DOMAIN dup.nums : i > 3 /\ dup.nums[i] \in H
    <3>1. alive' = \A i \in DOMAIN dup.nums : i > 3 => dup.nums[i] \notin H
      BY <1>1 DEF Spawn, Files
    <3> QED BY <2>1, <3>1
  <2>3. i \in 1..n /\ dup.nums[i] \notin DOMAIN base
    BY <1>7, <2>2 DEF Extended
  <2>4. r.names # <<>>
    BY <1>2, <2>2, <2>3 DEF n, k
  <2>5. PICK h \in DOMAIN handles : handles[h] = dup.nums[i]
    BY <2>2, <1>1 DEF ToSet
  <2>6. handles' # <<>>
    BY <2>5, <1>3
  <2>7. jobs # <<>>
    BY <2>3, <2>5, <1>1 DEF FdsInv, HandlesOpen
  <2>8. Len(jobs) # 0 /\ Len(jobs') = j /\ j = Len(jobs) + 1
    BY <2>7, <1>1, <1>3, <1>8
  <2>9. jobs'[j].names = r.names
    <3>1. jobs'[j] = Child(dup.t, dup.nums, r)
      BY <1>1, <1>9
    <3> QED BY <3>1 DEF Child
  <2> QED BY <2>4, <2>6, <2>8, <2>9, <1>9
<1> QED BY <1>10, <1>12, <1>13, <1>15, <1>16, <1>17, <1>18, <1>19, <1>20 DEF FdsInv

\* So does every step.
LEMMA NextFdsInv == FdsInv /\ [Next]_vars => FdsInv'
<1> SUFFICES ASSUME FdsInv, [Next]_vars PROVE FdsInv'
  OBVIOUS
<1>1. CASE \E r \in Requests : Spawn(r)
  BY <1>1, SpawnFdsInv
<1>2. CASE UNCHANGED vars
  BY <1>2 DEF FdsInv, Table, JobsSeq, ZygoteKeepsItsFds, HandlesOpen, JobsInv, GotItsFds, Apart,
              FirstJobConfined, PanicsOnlyLater, vars
<1> QED BY <1>1, <1>2 DEF Next, Enough

\* It always holds.
LEMMA AlwaysFdsInv == Spec => []FdsInv
<1> QED BY InitFdsInv, NextFdsInv, PTL DEF Spec

-----------------------------------------------------------------------------
(* The theorems.                                                           *)

\* Tables stay finite and hold open files under valid numbers.
THEOREM TypeCorrect == Spec => []TypeOK
<1> QED BY AlwaysFdsInv, FdsInvImplies, PTL

\* Whatever tables, numbers and handles there are: a program whose numbers are
\* apart has exactly the descriptors its caller gave it, where the caller wants
\* them.
THEOREM JobGetsItsFdsHolds == Spec => []JobGetsItsFds
<1> QED BY AlwaysFdsInv, FdsInvImplies, PTL

\* No descriptor of the zygote, of a cgroup or of another job survives execve,
\* whichever numbers the caller asks for.
THEOREM NothingExposedHolds == Spec => []NothingExposed
<1> QED BY AlwaysFdsInv, FdsInvImplies, PTL

\* A spawn neither leaves a descriptor in the zygote nor takes one from it.
THEOREM ZygoteKeepsItsFdsHolds == Spec => []ZygoteKeepsItsFds
<1>1. FdsInv => ZygoteKeepsItsFds
  BY DEF FdsInv
<1> QED BY <1>1, AlwaysFdsInv, PTL

\* The first program of a sandbox is confined by every cgroup hierarchy.  Under
\* prlimit, and as long as no job after the first has extra descriptors, the
\* zygote does not panic.
THEOREM FirstSpawnServedHolds == Spec => []FirstSpawnServed
<1>1. FdsInv => FirstSpawnServed
  BY DEF FdsInv, FirstSpawnServed
<1> QED BY <1>1, AlwaysFdsInv, PTL
=============================================================================
