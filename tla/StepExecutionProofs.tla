-------------------------- MODULE StepExecutionProofs --------------------------
(***************************************************************************)
(* Proofs about StepExecution, for any managers, steps, nodes, ramdisks    *)
(* and number of reboots: no step runs on disks that were not waited for,  *)
(* or on other managers than it was planned with; calls go down the list   *)
(* of managers; and the plan is the best there is.                         *)
(***************************************************************************)
EXTENDS StepExecution, TLAPS, FiniteSetTheorems, WellFoundedInduction

\* A node is stored before its disks were waited for, so the stored one alone
\* says nothing while its command still waits.
StoredInv ==
  /\ command.node \in Nodes
  /\ pc = "wait" => cached = command.node
  /\ pc \in {"list", "check", "dispatch"} => cached = command.node
  /\ cached # None /\ pc # "wait" => cached \in awaited \cup broken

-----------------------------------------------------------------------------
LEMMA Initial == Init => StoredInv
BY StepAssumption DEF Init, StoredInv

LEMMA ReceiveKeeps ==
  ASSUME StoredInv, GetSteps \/ ExecuteStep
  PROVE  StoredInv'
<1>1. PICK n \in Nodes : \E s, v : Receive(s, n, v)
  BY DEF GetSteps, ExecuteStep
<1> QED BY <1>1 DEF Receive, StoredInv, process

LEMMA WorkKeeps ==
  ASSUME StoredInv, Work
  PROVE  StoredInv'
<1> USE DEF StoredInv, Proceed, Answer, process
<1>1. CASE CacheNode
  BY <1>1, StepAssumption DEF CacheNode
<1>2. CASE WaitForDisks \/ WaitFails
  BY <1>2 DEF WaitForDisks, WaitFails
<1>3. CASE ListSteps \/ ListFails
  BY <1>3 DEF ListSteps, ListFails
<1>4. CASE CheckVersions \/ VersionMismatch
  BY <1>4 DEF CheckVersions, VersionMismatch
<1>5. CASE Lacking \/ Incompatible \/ Returns \/ Raises \/ MethodNotFound
  BY <1>5 DEF Lacking, Incompatible, Returns, Raises, MethodNotFound, Dispatching
<1> QED BY <1>1, <1>2, <1>3, <1>4, <1>5 DEF Work

LEMMA Inductive == StoredInv /\ [Next]_vars => StoredInv'
<1> SUFFICES ASSUME StoredInv, [Next]_vars
             PROVE  StoredInv'
  OBVIOUS
<1>1. CASE Reboot
  BY <1>1 DEF Reboot, StoredInv
<1>2. CASE UNCHANGED vars
  BY <1>2 DEF vars, process, StoredInv
<1> QED BY <1>1, <1>2, ReceiveKeeps, WorkKeeps DEF Next

\* A step, or the listing of steps, begins only when this process has waited for
\* the disks of the node it is for, or has failed to: also after a reboot, and when
\* Ironic goes back and forth between nodes (cache_node, wait_for_disks).
THEOREM DisksAwaited == Spec => []AwaitedUnlessBroken
<1>1. StoredInv => AwaitedUnlessBroken
  BY StepAssumption DEF StoredInv, AwaitedUnlessBroken
<1> QED BY <1>1, Initial, Inductive, PTL DEF Spec

-----------------------------------------------------------------------------
(* First elements and lists in order                                       *)

LEMMA LeastNat ==
  ASSUME NEW T \in SUBSET Nat, T # {} PROVE \E n \in T : \A m \in T : n <= m
<1> DEFINE R == OpToRel(<, Nat)
<1>1. IsWellFoundedOn(R, Nat)
  BY NatLessThanWellFounded
<1> HIDE DEF R
<1>2. PICK n \in T : \A m \in T : <<m, n>> \notin R
  BY <1>1, WFMin, Zenon
<1>3. \A m \in T : <<m, n>> \notin R => n <= m
  BY DEF R, OpToRel
<1> QED BY <1>2, <1>3

(* Induction over the natural numbers, for a set.                          *)
LEMMA UpFromZero ==
  ASSUME NEW T \in SUBSET Nat, 0 \in T, \A n \in T : n + 1 \in T
  PROVE  T = Nat
<1> DEFINE U == Nat \ T
<1>1. CASE U # {}
  <2> HIDE DEF U
  <2>1. U \in SUBSET Nat
    BY DEF U
  <2>2. PICK n \in U : \A m \in U : n <= m
    BY <1>1, <2>1, LeastNat
  <2>3. n # 0 /\ n - 1 \in Nat /\ n - 1 \notin U
    BY <2>2 DEF U
  <2> QED BY <2>2, <2>3 DEF U
<1> QED BY <1>1

(* R puts the members of S in an order.                                    *)
Orders(R, S) ==
  /\ \A a, b \in S : a # b => <<a, b>> \in R \/ <<b, a>> \in R
  /\ \A a, b, c \in S : <<a, b>> \in R /\ <<b, c>> \in R => <<a, c>> \in R

IsFirst(R, S, a) == a \in S /\ \A b \in S \ {a} : <<a, b>> \in R

LEMMA SmallerSet ==
  ASSUME NEW S, IsFiniteSet(S), NEW x \in S, NEW n \in Nat, Cardinality(S) = n + 1
  PROVE  IsFiniteSet(S \ {x}) /\ Cardinality(S \ {x}) = n
<1>1. IsFiniteSet(S \ {x}) /\ Cardinality(S \ {x}) = Cardinality(S) - 1
  BY FS_RemoveElement
<1> QED BY <1>1

LEMMA FirstExists ==
  ASSUME NEW S, NEW R, IsFiniteSet(S), S # {}, Orders(R, S)
  PROVE  \E a : IsFirst(R, S, a)
<1> DEFINE Good == {n \in Nat : \A T \in SUBSET S :
                      T # {} /\ Cardinality(T) = n => \E a : IsFirst(R, T, a)}
<1>0. \A T \in SUBSET S : IsFiniteSet(T) /\ Cardinality(T) \in Nat
  BY FS_Subset, FS_CardinalityType
<1>1. 0 \in Good
  <2>1. \A T \in SUBSET S : Cardinality(T) = 0 => T = {}
    BY <1>0, FS_EmptySet
  <2> QED BY <2>1
<1>2. ASSUME NEW n \in Good PROVE n + 1 \in Good
  <2> SUFFICES ASSUME NEW T \in SUBSET S, T # {}, Cardinality(T) = n + 1
               PROVE  \E a : IsFirst(R, T, a)
    OBVIOUS
  <2>1. PICK x \in T : TRUE
    OBVIOUS
  <2>2. n \in Nat /\ T \ {x} \in SUBSET S /\ Cardinality(T \ {x}) = n
    BY <1>0, SmallerSet
  <2>3. CASE T \ {x} = {}
    BY <2>1, <2>3 DEF IsFirst
  <2>4. CASE T \ {x} # {}
    <3>1. PICK y : IsFirst(R, T \ {x}, y)
      BY <2>2, <2>4
    <3>2. y \in T /\ y # x /\ \A b \in T \ {x} : b # y => <<y, b>> \in R
      BY <3>1 DEF IsFirst
    <3>3. CASE <<x, y>> \in R
      <4>1. \A b \in T \ {x} : <<x, b>> \in R
        BY <3>2, <3>3 DEF Orders
      <4> QED BY <4>1 DEF IsFirst
    <3>4. CASE <<y, x>> \in R
      BY <3>2, <3>4 DEF IsFirst
    <3> QED BY <3>2, <3>3, <3>4 DEF Orders
  <2> QED BY <2>3, <2>4
<1> HIDE DEF Good
<1>3. Good = Nat
  <2>1. Good \in SUBSET Nat
    BY DEF Good
  <2> QED BY <1>1, <1>2, <2>1, UpFromZero
<1> QED BY <1>0, <1>3 DEF Good

InOrder(R, S, s) ==
  /\ s \in [1 .. Cardinality(S) -> S]
  /\ \A k, l \in 1 .. Cardinality(S) : k < l => <<s[k], s[l]>> \in R
  /\ \A a \in S : \E k \in 1 .. Cardinality(S) : s[k] = a

(* A finite set can be listed in order: the last one is put behind the     *)
(* list of the others.                                                     *)
LEMMA ListExists ==
  ASSUME NEW S, NEW R, IsFiniteSet(S), Orders(R, S)
  PROVE  \E s : InOrder(R, S, s)
<1> DEFINE Good == {n \in Nat : \A T \in SUBSET S :
                      Cardinality(T) = n => \E s : InOrder(R, T, s)}
           Q == {p \in S \X S : <<p[2], p[1]>> \in R}
<1>0. \A T \in SUBSET S : IsFiniteSet(T) /\ Cardinality(T) \in Nat
  BY FS_Subset, FS_CardinalityType
<1>1. 0 \in Good
  <2> SUFFICES ASSUME NEW T \in SUBSET S, Cardinality(T) = 0
               PROVE  \E s : InOrder(R, T, s)
    OBVIOUS
  <2>1. T = {}
    BY <1>0, FS_EmptySet
  <2>2. InOrder(R, T, [k \in 1 .. 0 |-> k])
    BY <2>1 DEF InOrder
  <2> QED BY <2>2
<1>2. ASSUME NEW n \in Good PROVE n + 1 \in Good
  <2> SUFFICES ASSUME NEW T \in SUBSET S, Cardinality(T) = n + 1
               PROVE  \E s : InOrder(R, T, s)
    OBVIOUS
  <2>0. n \in Nat
    OBVIOUS
  <2>1. T # {}
    BY <2>0, FS_EmptySet
  <2>2. \A a, b \in S : <<a, b>> \in Q <=> <<b, a>> \in R
    OBVIOUS
  <2>3. Orders(Q, T)
    BY <2>2 DEF Orders
  <2> HIDE DEF Q
  <2>4. PICK x : IsFirst(Q, T, x)
    BY <1>0, <2>1, <2>3, FirstExists
  <2>5. x \in T /\ \A a \in T \ {x} : <<a, x>> \in R
    BY <2>2, <2>4 DEF IsFirst
  <2>6. T \ {x} \in SUBSET S /\ Cardinality(T \ {x}) = n
    BY <1>0, <2>0, <2>5, SmallerSet
  <2>7. PICK s : InOrder(R, T \ {x}, s)
    BY <2>6
  <2>8. /\ s \in [1 .. n -> T \ {x}]
        /\ \A k, l \in 1 .. n : k < l => <<s[k], s[l]>> \in R
        /\ \A a \in T \ {x} : \E k \in 1 .. n : s[k] = a
    BY <2>6, <2>7 DEF InOrder
  <2> DEFINE t == [k \in 1 .. n + 1 |-> IF k <= n THEN s[k] ELSE x]
  <2>9. t \in [1 .. n + 1 -> T]
    BY <2>0, <2>5, <2>8
  <2>10. ASSUME NEW k \in 1 .. n + 1, NEW l \in 1 .. n + 1, k < l
         PROVE  <<t[k], t[l]>> \in R
    <3>1. k \in 1 .. n /\ t[k] = s[k] /\ s[k] \in T \ {x}
      BY <2>0, <2>8, <2>10
    <3>2. CASE l <= n
      BY <2>0, <2>8, <2>10, <3>1, <3>2
    <3>3. CASE ~(l <= n)
      BY <2>5, <3>1, <3>3
    <3> QED BY <3>2, <3>3
  <2>11. \A a \in T : \E k \in 1 .. n + 1 : t[k] = a
    <3>1. n + 1 \in 1 .. n + 1 /\ t[n + 1] = x
      BY <2>0
    <3>2. \A k \in 1 .. n : k \in 1 .. n + 1 /\ t[k] = s[k]
      BY <2>0
    <3> QED BY <2>8, <3>1, <3>2
  <2> HIDE DEF t
  <2>12. InOrder(R, T, t)
    BY <2>9, <2>10, <2>11 DEF InOrder
  <2> QED BY <2>12
<1> HIDE DEF Good
<1>3. Good = Nat
  <2>1. Good \in SUBSET Nat
    BY DEF Good
  <2> QED BY <1>1, <1>2, <2>1, UpFromZero
<1> QED BY <1>0, <1>3 DEF Good

-----------------------------------------------------------------------------
(* The managers and steps of a ramdisk                                     *)

LEMMA Ramdisks ==
  ASSUME NEW i \in Images
  PROVE  /\ Loaded(i) \in SUBSET Managers /\ IsFiniteSet(Loaded(i))
         /\ \A m \in Managers : m \in Nat /\ i.support[m] \in Nat
         /\ \A m \in Managers, s \in Steps : i.priority[m][s] \in Nat
<1>1. i \in Image
  BY StepAssumption
<1>2. Loaded(i) \in SUBSET Managers /\ IsFiniteSet(Managers)
  BY StepAssumption DEF Loaded
<1>3. /\ i.support \in [Managers -> Nat]
      /\ i.priority \in [Managers -> [Steps -> Nat]]
  BY <1>1 DEF Image
<1> QED BY <1>2, <1>3, FS_Subset, StepAssumption

(* The managers' list is in order, and complete.                           *)
LEMMA ManagersListed ==
  ASSUME NEW i \in Images
  PROVE  LET l == ManagersOf(i) IN
         /\ Len(l) \in Nat
         /\ \A k \in 1 .. Len(l) : l[k] \in Loaded(i)
         /\ \A k, n \in 1 .. Len(l) : k < n => MoreSpecific(i, l[k], l[n])
         /\ \A m \in Loaded(i) : \E k \in 1 .. Len(l) : l[k] = m
<1> DEFINE S == Loaded(i)
           c == Cardinality(S)
           R == {p \in S \X S : MoreSpecific(i, p[1], p[2])}
<1>1. \A a, b \in S : <<a, b>> \in R <=> MoreSpecific(i, a, b)
  OBVIOUS
<1>2. \A m \in S : m \in Nat /\ i.support[m] \in Nat
  BY Ramdisks
<1>3. IsFiniteSet(S) /\ c \in Nat
  BY Ramdisks, FS_CardinalityType
<1> HIDE DEF R, S, c
<1>4. Orders(R, S)
  <2>1. \A a, b \in S : a # b => MoreSpecific(i, a, b) \/ MoreSpecific(i, b, a)
    BY <1>2 DEF MoreSpecific
  <2>2. \A a, b, d \in S : MoreSpecific(i, a, b) /\ MoreSpecific(i, b, d)
                             => MoreSpecific(i, a, d)
    BY <1>2 DEF MoreSpecific
  <2> QED BY <1>1, <2>1, <2>2 DEF Orders
<1>5. PICK s : InOrder(R, S, s)
  BY <1>3, <1>4, ListExists
<1>6. /\ s \in [1 .. c -> S]
      /\ \A k, n \in 1 .. c : k < n => MoreSpecific(i, s[k], s[n])
  BY <1>1, <1>5 DEF InOrder, c
<1> DEFINE l == ManagersOf(i)
<1>7. /\ l \in [1 .. c -> S]
      /\ \A k, n \in 1 .. c : k < n => MoreSpecific(i, l[k], l[n])
  BY <1>6 DEF ManagersOf, c, S
<1> HIDE DEF l
<1>8. Len(l) = c
  BY <1>3, <1>7
<1>9. l \in Injection(1 .. c, S)
  <2>1. \A k, n \in 1 .. c : k # n => l[k] # l[n]
    <3>1. \A a \in S : ~MoreSpecific(i, a, a)
      BY <1>2 DEF MoreSpecific
    <3>2. \A k, n \in 1 .. c : k # n => k < n \/ n < k
      BY <1>3
    <3> QED BY <1>7, <3>1, <3>2
  <2> QED BY <1>7, <2>1 DEF Injection, IsInjective
<1>10. l \in Surjection(1 .. c, S)
  <2>1. IsFiniteSet(1 .. c) /\ Cardinality(1 .. c) = c
    <3>1. c \in Int /\ 1 \in Int /\ (IF 1 > c THEN 0 ELSE c - 1 + 1) = c
      BY <1>3
    <3> QED BY <3>1, FS_Interval
  <2>2. Cardinality(1 .. c) = Cardinality(S)
    BY <2>1 DEF c
  <2> QED BY <1>3, <1>9, <2>1, <2>2, FS_Injection
<1>11. \A m \in S : \E k \in 1 .. c : l[k] = m
  BY <1>10 DEF Surjection
<1>12. \A k \in 1 .. c : l[k] \in S
  BY <1>7
<1>13. /\ Len(l) \in Nat
       /\ \A k \in 1 .. Len(l) : l[k] \in S
       /\ \A k, n \in 1 .. Len(l) : k < n => MoreSpecific(i, l[k], l[n])
       /\ \A m \in S : \E k \in 1 .. Len(l) : l[k] = m
  BY <1>3, <1>7, <1>8, <1>11, <1>12
<1> QED BY <1>13 DEF l, S

(* A manager with more support than another comes before it in the list.   *)
LEMMA MoreSupportFirst ==
  ASSUME NEW i \in Images, NEW n \in 1 .. Len(ManagersOf(i)), NEW m \in Loaded(i),
         i.support[m] > i.support[ManagersOf(i)[n]]
  PROVE  \E k \in 1 .. n - 1 : ManagersOf(i)[k] = m
<1> DEFINE l == ManagersOf(i)
<1>1. /\ Len(l) \in Nat
      /\ \A k \in 1 .. Len(l) : l[k] \in Loaded(i)
      /\ \A k, o \in 1 .. Len(l) : k < o => MoreSpecific(i, l[k], l[o])
      /\ \E k \in 1 .. Len(l) : l[k] = m
  BY ManagersListed
<1>2. n \in 1 .. Len(l) /\ i.support[m] > i.support[l[n]]
  OBVIOUS
<1> HIDE DEF l
<1>3. PICK k \in 1 .. Len(l) : l[k] = m
  BY <1>1
<1>4. i.support[m] \in Nat /\ i.support[l[n]] \in Nat
  BY <1>1, <1>2, Ramdisks
<1>5. k # n
  BY <1>2, <1>3, <1>4
<1>6. ~(n < k)
  <2>1. ~MoreSpecific(i, l[n], m)
    BY <1>2, <1>4 DEF MoreSpecific
  <2> QED BY <1>1, <1>2, <1>3, <2>1
<1>7. k \in 1 .. n - 1
  BY <1>1, <1>2, <1>5, <1>6
<1> QED BY <1>3, <1>7 DEF l

(* Of the steps of a name one is kept, which is the first.                 *)
LEMMA FirstOfName ==
  ASSUME NEW i \in Images, NEW s \in {c[2] : c \in Listed(i)}
  PROVE  \E c \in Listed(i) :
           c[2] = s /\ \A d \in Listed(i) \ {c} : d[2] = s => Before(i, c, d)
<1> DEFINE S == {c \in Listed(i) : c[2] = s}
           R == {p \in S \X S : Before(i, p[1], p[2])}
<1>1. S # {}
  OBVIOUS
<1>2. \A c \in S : c = <<c[1], s>> /\ c[1] \in Loaded(i) /\ s \in Steps
  BY DEF Listed
<1>3. IsFiniteSet(S)
  <2> DEFINE f == [m \in Loaded(i) |-> <<m, s>>]
             T == {<<m, s>> : m \in Loaded(i)}
  <2>1. f \in Surjection(Loaded(i), T)
    BY DEF Surjection
  <2>2. IsFiniteSet(T)
    BY <2>1, Ramdisks, FS_Surjection
  <2>3. S \in SUBSET T
    BY <1>2
  <2> QED BY <2>2, <2>3, FS_Subset
<1>4. \A c, d \in S : <<c, d>> \in R <=> Before(i, c, d)
  OBVIOUS
<1>5. \A c \in S : /\ c[1] \in Nat /\ i.support[c[1]] \in Nat
                   /\ i.priority[c[1]][c[2]] \in Nat
  BY <1>2, Ramdisks
<1>6. \A c, d \in S : c # d => c[1] # d[1]
  BY <1>2
<1> HIDE DEF S, R
<1>7. Orders(R, S)
  <2>1. \A c, d \in S : c # d => Before(i, c, d) \/ Before(i, d, c)
    BY <1>5, <1>6 DEF Before
  <2>2. \A c, d, e \in S : Before(i, c, d) /\ Before(i, d, e) => Before(i, c, e)
    BY <1>5 DEF Before
  <2> QED BY <1>4, <2>1, <2>2 DEF Orders
<1>8. PICK c : IsFirst(R, S, c)
  BY <1>1, <1>3, <1>7, FirstExists
<1>9. c \in S /\ \A d \in S \ {c} : Before(i, c, d)
  BY <1>4, <1>8 DEF IsFirst
<1> QED BY <1>9 DEF S

(* The plan has every step once, from the first manager in the order.      *)
LEMMA BestSteps ==
  ASSUME NEW i \in Images
  PROVE  /\ {c[2] : c \in DeduplicateSteps(i)} = {c[2] : c \in Listed(i)}
         /\ \A c, d \in DeduplicateSteps(i) : c[2] = d[2] => c = d
         /\ \A c \in DeduplicateSteps(i), d \in Listed(i) :
              d[2] = c[2] =>
                \/ i.support[c[1]] > i.support[d[1]]
                \/ /\ i.support[c[1]] = i.support[d[1]]
                   /\ i.priority[c[1]][c[2]] >= i.priority[d[1]][d[2]]
<1> DEFINE Kept(s, c) ==
             c[2] = s /\ \A d \in Listed(i) \ {c} : d[2] = s => Before(i, c, d)
           Best(s) == CHOOSE c \in Listed(i) : Kept(s, c)
           N == {c[2] : c \in Listed(i)}
<1>1. \A s \in N : Best(s) \in Listed(i) /\ Kept(s, Best(s))
  BY FirstOfName
<1>2. DeduplicateSteps(i) = {Best(s) : s \in N}
  BY DEF DeduplicateSteps
<1> HIDE DEF Best
<1>3. \A s \in N : Best(s)[2] = s
  BY <1>1
<1>4. {c[2] : c \in DeduplicateSteps(i)} = N
  BY <1>2, <1>3
<1>5. \A c, d \in DeduplicateSteps(i) : c[2] = d[2] => c = d
  BY <1>2, <1>3
<1>6. ASSUME NEW c \in DeduplicateSteps(i), NEW d \in Listed(i), d[2] = c[2]
      PROVE  \/ i.support[c[1]] > i.support[d[1]]
             \/ /\ i.support[c[1]] = i.support[d[1]]
                /\ i.priority[c[1]][c[2]] >= i.priority[d[1]][d[2]]
  <2>1. c \in Listed(i) /\ (d # c => Before(i, c, d))
    BY <1>1, <1>2, <1>6
  <2>2. /\ i.support[c[1]] \in Nat /\ i.priority[c[1]][c[2]] \in Nat
        /\ i.support[d[1]] \in Nat /\ i.priority[d[1]][d[2]] \in Nat
    BY <2>1, Ramdisks DEF Listed
  <2> QED BY <2>1, <2>2 DEF Before
<1> QED BY <1>4, <1>5, <1>6

-----------------------------------------------------------------------------
(* Commands and the plan                                                   *)

(* Every manager has a name of its own, as get_current_versions takes it.  *)
NamesAreDistinct == \A m, n \in Managers : Name[m] = Name[n] => m = n

(* What Ironic was told, and sends back, is what the image then had.       *)
PlanInv ==
  /\ image \in Images /\ planned \in Images
  /\ pc \in {"idle", "cache", "wait", "list", "check", "dispatch"}
  /\ plan \in {NoPlan, [steps |-> DeduplicateSteps(planned),
                        versions |-> CurrentVersions(planned)]}
  /\ pc # "idle" => command.version \in {NoVersions, CurrentVersions(planned)}
  /\ pc = "dispatch" => VersionsMatch(command.version)

(* A command goes down the list, past the managers that pass it on.        *)
CallInv ==
  /\ called \in Seq(Managers \X {"incompatible", "returned", "raised"})
  /\ pc \notin {"dispatch", "idle"} => called = <<>> /\ at = 1
  /\ pc = "dispatch" =>
       /\ at \in 1 .. Len(ManagersOf(image)) + 1
       /\ \A j \in 1 .. Len(called) : called[j][2] = "incompatible"
       /\ \A k \in 1 .. at - 1 :
            command.step \in image.has[ManagersOf(image)[k]] =>
              \E j \in 1 .. Len(called) : called[j][1] = ManagersOf(image)[k]

CallsInOrder ==
  \A k \in 1 .. Len(called) :
    /\ \A j \in 1 .. k - 1 : called[j][2] = "incompatible"
    /\ \A m \in Loaded(image) :
         /\ command.step \in image.has[m]
         /\ image.support[m] > image.support[called[k][1]]
         => \E j \in 1 .. k - 1 : called[j][1] = m

RunInv == PlanInv /\ CallInv /\ CallsInOrder

LEMMA RunInitial == Init => RunInv
<1> SUFFICES ASSUME Init
             PROVE  RunInv
  OBVIOUS
<1>1. image \in Images /\ planned = image /\ plan = NoPlan /\ pc = "idle" /\ called = <<>>
  BY DEF Init
<1>2. Len(called) = 0
  BY <1>1
<1> QED BY <1>1, <1>2 DEF RunInv, PlanInv, CallInv, CallsInOrder

LEMMA ReceiveRuns ==
  ASSUME RunInv, GetSteps \/ ExecuteStep
  PROVE  RunInv'
<1>1. plan.versions \in {NoVersions, CurrentVersions(planned)}
  BY DEF RunInv, PlanInv, NoPlan
<1>2. PICK v \in {NoVersions, plan.versions} : \E s, n : Receive(s, n, v)
  BY DEF GetSteps, ExecuteStep
<1>3. /\ command'.version \in {NoVersions, CurrentVersions(planned)}
      /\ pc' = "cache" /\ at' = 1 /\ called' = <<>>
      /\ UNCHANGED <<image, plan, planned>>
  BY <1>1, <1>2 DEF Receive, ironic
<1>4. Len(called') = 0
  BY <1>3
<1>5. PlanInv'
  BY <1>3 DEF RunInv, PlanInv
<1> QED BY <1>3, <1>4, <1>5 DEF RunInv, CallInv, CallsInOrder

LEMMA PreparationRuns ==
  ASSUME RunInv,
         \/ CacheNode \/ WaitForDisks \/ WaitFails \/ ListSteps \/ ListFails
         \/ CheckVersions \/ VersionMismatch \/ MethodNotFound
  PROVE  RunInv'
<1> USE DEF Answer, Proceed, process, ironic
<1>1. /\ UNCHANGED <<image, command, called, at>>
      /\ pc # "idle" /\ (pc = "dispatch" => pc' = "idle")
      /\ pc' = "dispatch" => VersionsMatch(command.version)
      /\ pc' \in {"idle", "wait", "list", "check", "dispatch"}
      /\ \/ UNCHANGED <<plan, planned>>
         \/ pc' = "idle" /\ plan' = NoPlan /\ planned' = planned
         \/ /\ pc' = "idle" /\ planned' = image
            /\ plan' = [steps |-> DeduplicateSteps(image),
                        versions |-> CurrentVersions(image)]
  BY DEF CacheNode, WaitForDisks, WaitFails, ListSteps, ListFails, CheckVersions,
     VersionMismatch, MethodNotFound
<1>2. PlanInv'
  BY <1>1 DEF RunInv, PlanInv, VersionsMatch
<1>3. CallInv'
  <2>1. pc' # "idle" => called = <<>> /\ at = 1
    BY <1>1 DEF RunInv, PlanInv, CallInv
  <2>2. called = <<>> => Len(called) = 0
    OBVIOUS
  <2>3. Len(ManagersOf(image)) \in Nat
    BY ManagersListed DEF RunInv, PlanInv
  <2> QED BY <1>1, <2>1, <2>2, <2>3 DEF RunInv, CallInv
<1>4. CallsInOrder'
  BY <1>1 DEF RunInv, CallsInOrder
<1> QED BY <1>2, <1>3, <1>4 DEF RunInv

(* The next manager is passed over, or called when all those with more     *)
(* support that have the method passed the call on.                        *)
LEMMA DispatchRuns ==
  ASSUME RunInv, Lacking \/ Incompatible \/ Returns \/ Raises
  PROVE  RunInv'
<1> DEFINE l == ManagersOf(image)
           c == Len(called)
<1>1. /\ pc = "dispatch" /\ at <= Len(l)
      /\ UNCHANGED <<image, command, plan, planned>>
  BY DEF Lacking, Incompatible, Returns, Raises, Dispatching, ironic
<1>2. /\ Len(l) \in Nat /\ c \in Nat /\ image \in Images
      /\ at \in 1 .. Len(l) /\ Candidate \in Loaded(image) /\ Candidate = l[at]
  BY <1>1, ManagersListed DEF RunInv, PlanInv, CallInv, Candidate
<1>3. pc' \in {"dispatch", "idle"}
  BY <1>1 DEF Lacking, Incompatible, Returns, Raises, Answer
<1>4. PlanInv'
  BY <1>1, <1>3 DEF RunInv, PlanInv, VersionsMatch
<1>5. \A j \in 1 .. c : called[j][2] = "incompatible"
  BY <1>1 DEF RunInv, CallInv
<1>6. \A k \in 1 .. at - 1 :
        command.step \in image.has[l[k]] => \E j \in 1 .. c : called[j][1] = l[k]
  BY <1>1 DEF RunInv, CallInv
<1>7. CASE Lacking
  <2>1. /\ called' = called /\ at' = at + 1 /\ pc' = "dispatch"
        /\ command.step \notin image.has[l[at]]
    BY <1>1, <1>2, <1>7 DEF Lacking, HasMethod
  <2>2. at' \in 1 .. Len(l) + 1 /\ \A k \in 1 .. at' - 1 : k \in 1 .. at - 1 \/ k = at
    BY <1>2, <2>1
  <2>3. CallInv'
    BY <1>1, <1>2, <1>5, <1>6, <2>1, <2>2 DEF RunInv, CallInv
  <2>4. CallsInOrder'
    BY <1>1, <2>1 DEF RunInv, CallsInOrder
  <2> QED BY <1>4, <2>3, <2>4 DEF RunInv
<1>8. ASSUME NEW e \in {"incompatible", "returned", "raised"}, Call(e),
             Incompatible \/ Returns \/ Raises,
             (e = "incompatible" /\ at' = at + 1 /\ pc' = pc) \/ pc' = "idle"
      PROVE  RunInv'
  <2> DEFINE T == Managers \X {"incompatible", "returned", "raised"}
             x == <<Candidate, e>>
  <2>1. called \in Seq(T) /\ x \in T /\ called' = Append(called, x)
    BY <1>2, <1>8, Ramdisks DEF Call, RunInv, CallInv
  <2>2. x[1] = l[at] /\ x[2] = e
    BY <1>2
  <2> HIDE DEF T, x
  <2>3. /\ called' \in Seq(T) /\ Len(called') = c + 1
        /\ called'[c + 1] = x /\ \A j \in 1 .. c : called'[j] = called[j]
    BY <2>1
  <2> HIDE DEF l, c
  <2>4. \A j \in 1 .. c + 1 : j \in 1 .. c \/ j = c + 1
    BY <1>2
  <2>5. \A j \in 1 .. c : j \in 1 .. c + 1
    BY <1>2
  <2>6. c + 1 \in 1 .. c + 1 /\ (c + 1) - 1 = c
    BY <1>2
  <2>7. CallInv'
    <3>1. CASE pc' = "idle"
      BY <2>3, <3>1 DEF CallInv, T
    <3>2. CASE e = "incompatible" /\ at' = at + 1 /\ pc' = pc
      <4>1. \A j \in 1 .. c + 1 : called'[j][2] = "incompatible"
        BY <1>5, <2>2, <2>3, <2>4, <3>2
      <4>2. at' \in 1 .. Len(l) + 1 /\ \A k \in 1 .. at' - 1 : k \in 1 .. at - 1 \/ k = at
        BY <1>2, <3>2
      <4>3. ASSUME NEW k \in 1 .. at' - 1, command.step \in image.has[l[k]]
            PROVE  \E j \in 1 .. c + 1 : called'[j][1] = l[k]
        <5>1. CASE k = at
          BY <2>2, <2>3, <2>6, <5>1
        <5>2. CASE k \in 1 .. at - 1
          BY <1>6, <2>3, <2>5, <4>3, <5>2
        <5> QED BY <4>2, <5>1, <5>2
      <4> QED BY <1>1, <2>3, <3>2, <4>1, <4>2, <4>3 DEF CallInv, T, l
    <3> QED BY <1>8, <3>1, <3>2
  <2>8. CallsInOrder'
    <3>1. ASSUME NEW k \in 1 .. c
          PROVE  /\ \A j \in 1 .. k - 1 : called'[j] = called[j]
                 /\ called'[k] = called[k]
      BY <1>2, <2>3
    <3>2. \A j \in 1 .. c : called'[j][2] = "incompatible"
      BY <1>5, <2>3
    <3>3. ASSUME NEW m \in Loaded(image), command.step \in image.has[m],
                 image.support[m] > image.support[called'[c + 1][1]]
          PROVE  \E j \in 1 .. c : called'[j][1] = m
      <4>1. PICK k \in 1 .. at - 1 : l[k] = m
        BY <1>2, <2>2, <2>3, <3>3, MoreSupportFirst DEF l
      <4> QED BY <1>6, <2>3, <3>3, <4>1
    <3>4. ASSUME NEW k \in 1 .. c + 1
          PROVE  /\ \A j \in 1 .. k - 1 : called'[j][2] = "incompatible"
                 /\ \A m \in Loaded(image) :
                      /\ command.step \in image.has[m]
                      /\ image.support[m] > image.support[called'[k][1]]
                      => \E j \in 1 .. k - 1 : called'[j][1] = m
      <4>1. CASE k \in 1 .. c
        <5>1. /\ \A j \in 1 .. k - 1 : called[j][2] = "incompatible"
              /\ \A m \in Loaded(image) :
                   /\ command.step \in image.has[m]
                   /\ image.support[m] > image.support[called[k][1]]
                   => \E j \in 1 .. k - 1 : called[j][1] = m
          BY <4>1 DEF RunInv, CallsInOrder, c
        <5> QED BY <3>1, <4>1, <5>1
      <4>2. CASE k = c + 1
        BY <2>6, <3>2, <3>3, <4>2
      <4> QED BY <2>4, <4>1, <4>2
    <3> QED BY <1>1, <2>3, <3>4 DEF CallsInOrder
  <2> QED BY <1>4, <2>7, <2>8 DEF RunInv
<1>9. CASE Incompatible
  BY <1>8, <1>9 DEF Incompatible
<1>10. CASE Returns \/ Raises
  BY <1>8, <1>10 DEF Returns, Raises, Answer
<1> QED BY <1>7, <1>9, <1>10

LEMMA RunInductive == RunInv /\ [Next]_vars => RunInv'
<1> SUFFICES ASSUME RunInv, [Next]_vars
             PROVE  RunInv'
  OBVIOUS
<1>1. CASE Reboot
  <2>1. image' \in Images /\ pc' = "idle" /\ called' = <<>> /\ UNCHANGED <<plan, planned>>
    BY <1>1 DEF Reboot, ironic
  <2>2. Len(called') = 0
    BY <2>1
  <2> QED BY <2>1, <2>2 DEF RunInv, PlanInv, CallInv, CallsInOrder
<1>2. CASE UNCHANGED vars
  BY <1>2
  DEF vars, ironic, process, RunInv, PlanInv, CallInv, CallsInOrder, VersionsMatch
<1> QED
  BY <1>1, <1>2, ReceiveRuns, PreparationRuns, DispatchRuns DEF Next, Work

(* Names tell managers apart, so equal versions are those of the same      *)
(* managers.                                                               *)
LEMMA VersionsTell ==
  ASSUME NamesAreDistinct, NEW i \in Images, NEW p \in Images,
         CurrentVersions(i) = CurrentVersions(p)
  PROVE  /\ Loaded(i) = Loaded(p)
         /\ \A m \in Loaded(i) : i.version[m] = p.version[m]
<1>1. Names(i) = Names(p)
  BY DEF CurrentVersions
<1>2. Loaded(i) \in SUBSET Managers /\ Loaded(p) \in SUBSET Managers
  BY Ramdisks
<1>3. Loaded(i) = Loaded(p)
  BY <1>1, <1>2 DEF Names, NamesAreDistinct
<1>4. ASSUME NEW j \in Images, NEW m \in Loaded(j)
      PROVE  CurrentVersions(j)[Name[m]] = j.version[m]
  <2>1. {o \in Loaded(j) : Name[o] = Name[m]} = {m}
    BY Ramdisks DEF NamesAreDistinct
  <2>2. Name[m] \in Names(j)
    BY DEF Names
  <2> QED BY <2>1, <2>2 DEF CurrentVersions
<1> QED BY <1>3, <1>4

-----------------------------------------------------------------------------
(* What follows                                                            *)

(* With a name for every manager, a planned step runs only on the managers *)
(* it was planned with, in the same versions, whatever was rebooted into   *)
(* in between (check_versions); and a call goes down the managers by       *)
(* support until one takes it, past none that has the method               *)
(* (dispatch_to_managers).                                                 *)
THEOREM PlannedRun == NamesAreDistinct /\ Spec => []RunAsPlanned
<1>1. NamesAreDistinct /\ RunInv => RunAsPlanned
  BY VersionsTell
  DEF RunInv, PlanInv, CallsInOrder, RunAsPlanned, VersionsMatch
<1>2. NamesAreDistinct /\ RunInv /\ [Next]_vars => (NamesAreDistinct /\ RunInv)'
  BY RunInductive DEF NamesAreDistinct
<1> QED BY <1>1, <1>2, RunInitial, PTL DEF Spec

(* Whatever ramdisk answers, Ironic is told each step once, from a manager *)
(* that no other one surpasses in support, or with the same support in the *)
(* step's priority (deduplicate_steps).                                    *)
THEOREM BestPlan == Spec => []PlanIsBest
<1>1. RunInv => PlanIsBest
  <2> SUFFICES ASSUME RunInv, plan # NoPlan
               PROVE  PlanIsBest
    BY DEF PlanIsBest
  <2>1. planned \in Images /\ plan.steps = DeduplicateSteps(planned)
    BY DEF RunInv, PlanInv
  <2> QED BY <2>1, BestSteps DEF PlanIsBest
<1> QED BY <1>1, RunInitial, RunInductive, PTL DEF Spec

=============================================================================
