-------------------------- MODULE SnapIdPoolProofs --------------------------
(***************************************************************************)
(* Proofs about SnapIdPool, for any number of ids, any rest, any width of  *)
(* m_Timeout and any length of time.                                       *)
(***************************************************************************)
EXTENDS SnapIdPool, FiniteSetTheorems, TLAPS

(* The timed list is in the order of its ids' times, which m_Timeout keeps *)
(* as far as an int can.                                                   *)
TimesKept ==
  /\ \A id \in InState("ID_TIMED") :
       /\ freedAt[id] \in Nat /\ freedAt[id] <= now
       /\ m_Timeout[id] = AsInt(freedAt[id] + Rest)
  /\ \A i, j \in 1 .. Len(timedList) :
       i < j => freedAt[timedList[i]] <= freedAt[timedList[j]]

(* A free id has had its rest, or one that no int could tell the end of.   *)
FreeRested ==
  \A id \in InState("ID_FREE") :
    freedAt[id] + Rest < now \/ freedAt[id] + Rest >= Half

(* What every step of the pool keeps.                                      *)
IInv == TypeOK /\ ListsWhole /\ UsageCounted /\ TimesKept /\ FreeRested

-----------------------------------------------------------------------------
(* An int and the time                                                     *)

(* An int is never ahead of the time it was made from, and is that time if *)
(* it can hold it.                                                         *)
LEMMA IntOfTime ==
  ASSUME NEW t \in Nat
  PROVE  /\ AsInt(t) \in -Half .. Half - 1 /\ AsInt(t) <= t
         /\ t < Half => AsInt(t) = t
<1>1. Half \in Nat \ {0}
  BY PoolAssumption
<1> DEFINE n == 2 * Half  r == t % n  q == t \div n
<1>2. n \in Nat \ {0} /\ n = 2 * Half
  BY <1>1
<1>3. AsInt(t) = IF r < Half THEN r ELSE r - n
  BY DEF AsInt
<1> HIDE DEF n
<1>4. t = n * q + r /\ r \in 0 .. n - 1 /\ q \in Nat
  BY <1>2
<1> HIDE DEF r, q
<1>5. n * q >= 0
  BY <1>2, <1>4
<1>6. r <= t
  BY <1>2, <1>4, <1>5
<1>7. t < n => q = 0
  <2> SUFFICES ASSUME t < n, q # 0 PROVE FALSE
    OBVIOUS
  <2>1. q >= 1
    BY <1>4
  <2>2. n * q >= n
    BY <1>2, <1>4, <2>1
  <2> QED
    BY <1>2, <1>4, <2>2
<1>8. t < n => r = t
  BY <1>2, <1>4, <1>7
<1> QED
  BY <1>1, <1>2, <1>3, <1>4, <1>6, <1>8

-----------------------------------------------------------------------------
(* Facts about the lists                                                   *)

(* A list loses its first element.                                         *)
LEMMA TailFacts ==
  ASSUME NEW q \in Seq(Ids), q # <<>>
  PROVE  /\ Tail(q) \in Seq(Ids) /\ Len(Tail(q)) = Len(q) - 1 /\ Len(q) \in Nat \ {0}
         /\ \A i \in 1 .. Len(q) - 1 : Tail(q)[i] = q[i + 1]
         /\ q[1] \in Ids /\ (Tail(q) = <<>> <=> Len(q) = 1)
         /\ Head(q) = q[1]
<1>1. Len(q) \in Nat \ {0}
  OBVIOUS
<1>2. q[1] \in Ids /\ Head(q) = q[1]
  BY <1>1
<1>3. Tail(q) \in Seq(Ids) /\ Len(Tail(q)) = Len(q) - 1
  OBVIOUS
<1>4. \A i \in 1 .. Len(q) - 1 : Tail(q)[i] = q[i + 1]
  BY <1>1
<1>5. Tail(q) = <<>> <=> Len(q) = 1
  <2>1. Tail(q) = <<>> <=> Len(Tail(q)) = 0
    BY <1>3
  <2> QED
    BY <1>1, <1>3, <2>1
<1> QED
  BY <1>1, <1>2, <1>3, <1>4, <1>5

(* A list gets a new first element.                                        *)
LEMMA ConsFacts ==
  ASSUME NEW q \in Seq(Ids), NEW x \in Ids
  PROVE  /\ <<x>> \o q \in Seq(Ids) /\ Len(<<x>> \o q) = Len(q) + 1 /\ Len(q) \in Nat
         /\ (<<x>> \o q)[1] = x
         /\ \A i \in 1 .. Len(q) : (<<x>> \o q)[i + 1] = q[i]
         /\ <<x>> \o q # <<>> /\ (q = <<>> <=> Len(q) = 0)
OBVIOUS

(* A list gets a new last element.                                         *)
LEMMA AppendFacts ==
  ASSUME NEW q \in Seq(Ids), NEW x \in Ids
  PROVE  /\ Append(q, x) \in Seq(Ids) /\ Len(Append(q, x)) = Len(q) + 1 /\ Len(q) \in Nat
         /\ Append(q, x)[Len(q) + 1] = x
         /\ \A i \in 1 .. Len(q) : Append(q, x)[i] = q[i]
         /\ Append(q, x) # <<>> /\ (q = <<>> <=> Len(q) = 0)
OBVIOUS

(* The ids are finitely many, and counted once more or less by one step.   *)
LEMMA Counted ==
  ASSUME NEW S \in SUBSET Ids, NEW x \in Ids
  PROVE  /\ IsFiniteSet(S) /\ Cardinality(S) \in Nat
         /\ x \notin S => Cardinality(S \cup {x}) = Cardinality(S) + 1
         /\ x \in S => Cardinality(S \ {x}) = Cardinality(S) - 1
<1>1. 0 \in Int /\ MaxIds - 1 \in Int
  BY PoolAssumption
<1>2. IsFiniteSet(Ids)
  BY <1>1, FS_Interval DEF Ids
<1>3. IsFiniteSet(S)
  BY <1>2, FS_Subset
<1>4. Cardinality(S) \in Nat
  BY <1>3, FS_CardinalityType
<1>5. x \notin S => Cardinality(S \cup {x}) = Cardinality(S) + 1
  BY <1>3, FS_AddElement
<1>6. x \in S => Cardinality(S \ {x}) = Cardinality(S) - 1
  BY <1>3, FS_RemoveElement
<1> QED
  BY <1>3, <1>4, <1>5, <1>6

(* None is no id.                                                          *)
LEMMA NoneIsNoId ==
  None \notin Ids /\ Ids \subseteq Nat
BY DEF None, Ids

-----------------------------------------------------------------------------
(* Lists threaded through an array                                         *)

(* Every id of a list is in its set, and the other way round.              *)
LEMMA Threads ==
  ASSUME NEW q \in Seq(Ids), NEW f, NEW S, NEW nx, Threaded(q, f, S, nx)
  PROVE  /\ \A i \in 1 .. Len(q) : q[i] \in S
         /\ \A x \in S : \E i \in 1 .. Len(q) : q[i] = x
         /\ S \subseteq Ids
BY DEF Threaded

(* A link of an id that is not in the list may change.                     *)
LEMMA LinkElsewhere ==
  ASSUME NEW q \in Seq(Ids), NEW f, NEW S, NEW nx \in [Ids -> Ids \cup {None}],
         Threaded(q, f, S, nx), NEW x \in Ids \ S, NEW v
  PROVE  Threaded(q, f, S, [nx EXCEPT ![x] = v])
<1>1. \A i \in 1 .. Len(q) : q[i] \in Ids /\ q[i] # x
  BY Threads
<1>2. \A i \in 1 .. Len(q) : [nx EXCEPT ![x] = v][q[i]] = nx[q[i]]
  BY <1>1
<1> QED
  BY <1>2 DEF Threaded

(* An id is put before the first of a list.                                *)
LEMMA PutFirst ==
  ASSUME NEW q \in Seq(Ids), NEW f, NEW S, NEW nx \in [Ids -> Ids \cup {None}],
         Threaded(q, f, S, nx), NEW x \in Ids \ S
  PROVE  Threaded(<<x>> \o q, x, S \cup {x}, [nx EXCEPT ![x] = f])
<1> DEFINE p == <<x>> \o q  ny == [nx EXCEPT ![x] = f]
<1>1. /\ p \in Seq(Ids) /\ Len(p) = Len(q) + 1 /\ Len(q) \in Nat /\ p[1] = x
      /\ \A i \in 1 .. Len(q) : p[i + 1] = q[i]
      /\ p # <<>> /\ (q = <<>> <=> Len(q) = 0)
  BY ConsFacts
<1>2. \A i \in 1 .. Len(q) : q[i] \in S /\ q[i] \in Ids /\ q[i] # x
  BY Threads
<1>3. \A i \in 1 .. Len(p) : i = 1 \/ (i - 1 \in 1 .. Len(q) /\ p[i] = q[i - 1])
  <2> SUFFICES ASSUME NEW i \in 1 .. Len(p), i # 1
               PROVE  i - 1 \in 1 .. Len(q) /\ p[i] = q[i - 1]
    OBVIOUS
  <2>1. i - 1 \in 1 .. Len(q)
    BY <1>1
  <2>2. p[(i - 1) + 1] = q[i - 1]
    BY <1>1, <2>1
  <2> QED
    BY <2>1, <2>2
<1>4. ny[x] = f /\ \A i \in 1 .. Len(q) : ny[q[i]] = nx[q[i]]
  BY <1>2
<1> HIDE DEF p, ny
<1>5. S \cup {x} = {p[i] : i \in 1 .. Len(p)}
  <2>1. \A y \in S \cup {x} : \E i \in 1 .. Len(p) : p[i] = y
    <3> TAKE y \in S \cup {x}
    <3>1. CASE y = x
      BY <1>1, <3>1
    <3>2. CASE y \in S
      <4>1. PICK i \in 1 .. Len(q) : q[i] = y
        BY <3>2, Threads
      <4>2. i + 1 \in 1 .. Len(p) /\ p[i + 1] = y
        BY <1>1, <4>1
      <4> QED
        BY <4>2
    <3> QED
      BY <3>1, <3>2
  <2>2. \A i \in 1 .. Len(p) : p[i] \in S \cup {x}
    BY <1>1, <1>2, <1>3
  <2> QED
    BY <2>1, <2>2
<1>6. \A i, j \in 1 .. Len(p) : p[i] = p[j] => i = j
  <2> SUFFICES ASSUME NEW i \in 1 .. Len(p), NEW j \in 1 .. Len(p), p[i] = p[j]
               PROVE  i = j
    OBVIOUS
  <2>1. CASE i = 1 \/ j = 1
    BY <1>1, <1>2, <1>3, <2>1
  <2>2. CASE i # 1 /\ j # 1
    <3>1. i - 1 \in 1 .. Len(q) /\ j - 1 \in 1 .. Len(q) /\ q[i - 1] = q[j - 1]
      BY <1>3, <2>2
    <3>2. i - 1 = j - 1
      BY <3>1 DEF Threaded
    <3> QED
      BY <3>2
  <2> QED
    BY <2>1, <2>2
<1>7. \A i \in 1 .. Len(p) : ny[p[i]] = IF i = Len(p) THEN None ELSE p[i + 1]
  <2> SUFFICES ASSUME NEW i \in 1 .. Len(p)
               PROVE  ny[p[i]] = IF i = Len(p) THEN None ELSE p[i + 1]
    OBVIOUS
  <2>1. CASE i = 1
    <3>1. ny[p[i]] = f
      BY <1>1, <1>4, <2>1
    <3>2. f = IF q = <<>> THEN None ELSE q[1]
      BY DEF Threaded
    <3>3. CASE q = <<>>
      BY <1>1, <2>1, <3>1, <3>2, <3>3
    <3>4. CASE q # <<>>
      <4>1. 1 \in 1 .. Len(q)
        BY <1>1, <3>4
      <4>2. p[1 + 1] = q[1] /\ 1 # Len(p)
        BY <1>1, <4>1
      <4> QED
        BY <2>1, <3>1, <3>2, <3>4, <4>2
    <3> QED
      BY <3>3, <3>4
  <2>2. CASE i # 1
    <3>1. i - 1 \in 1 .. Len(q) /\ p[i] = q[i - 1]
      BY <1>3, <2>2
    <3>2. ny[p[i]] = nx[q[i - 1]]
      BY <1>4, <3>1
    <3>3. nx[q[i - 1]] = IF i - 1 = Len(q) THEN None ELSE q[(i - 1) + 1]
      BY <3>1 DEF Threaded
    <3>4. CASE i = Len(p)
      BY <1>1, <3>1, <3>2, <3>3, <3>4
    <3>5. CASE i # Len(p)
      <4>1. i \in 1 .. Len(q) /\ i - 1 # Len(q) /\ (i - 1) + 1 = i
        BY <1>1, <3>1, <3>5
      <4>2. p[i + 1] = q[i]
        BY <1>1, <4>1
      <4> QED
        BY <3>2, <3>3, <3>5, <4>1, <4>2
    <3> QED
      BY <3>4, <3>5
  <2> QED
    BY <2>1, <2>2
<1>8. x = IF p = <<>> THEN None ELSE p[1]
  BY <1>1
<1>9. Threaded(p, x, S \cup {x}, ny)
  BY <1>5, <1>6, <1>7, <1>8 DEF Threaded
<1> QED
  BY <1>9 DEF p, ny

(* The first of a list is taken off it; its own link may change then.      *)
LEMMA TakeFirst ==
  ASSUME NEW q \in Seq(Ids), NEW f, NEW S, NEW nx \in [Ids -> Ids \cup {None}],
         Threaded(q, f, S, nx), f # None, NEW v
  PROVE  /\ f \in S /\ f = q[1] /\ q # <<>>
         /\ Threaded(Tail(q), nx[f], S \ {f}, [nx EXCEPT ![f] = v])
         /\ Threaded(Tail(q), nx[f], S \ {f}, nx)
<1> DEFINE p == Tail(q)
<1>1. q # <<>> /\ f = q[1]
  BY DEF Threaded
<1>2. /\ p \in Seq(Ids) /\ Len(p) = Len(q) - 1 /\ Len(q) \in Nat \ {0}
      /\ \A i \in 1 .. Len(q) - 1 : p[i] = q[i + 1]
      /\ q[1] \in Ids /\ (p = <<>> <=> Len(q) = 1)
  BY <1>1, TailFacts
<1>3. f \in S /\ f \in Ids /\ 1 \in 1 .. Len(q)
  BY <1>1, <1>2, Threads
<1> HIDE DEF p
<1>4. \A i \in 1 .. Len(p) : i + 1 \in 1 .. Len(q) /\ p[i] = q[i + 1] /\ i + 1 # 1
  BY <1>2
<1>5. \A i, j \in 1 .. Len(q) : q[i] = q[j] => i = j
  BY DEF Threaded
<1>6. S \ {f} = {p[i] : i \in 1 .. Len(p)}
  <2>1. \A y \in S \ {f} : \E i \in 1 .. Len(p) : p[i] = y
    <3> TAKE y \in S \ {f}
    <3>1. PICK i \in 1 .. Len(q) : q[i] = y
      BY Threads
    <3>2. i # 1
      BY <1>1, <3>1
    <3>3. i - 1 \in 1 .. Len(p) /\ (i - 1) + 1 = i
      BY <1>2, <3>1, <3>2
    <3>4. p[i - 1] = y
      BY <1>4, <3>1, <3>3
    <3> QED
      BY <3>3, <3>4
  <2>2. \A i \in 1 .. Len(p) : p[i] \in S \ {f}
    <3> TAKE i \in 1 .. Len(p)
    <3>1. q[i + 1] \in S
      BY <1>4, Threads
    <3>2. q[i + 1] # q[1]
      BY <1>3, <1>4, <1>5
    <3> QED
      BY <1>1, <1>4, <3>1, <3>2
  <2> QED
    BY <2>1, <2>2
<1>7. \A i, j \in 1 .. Len(p) : p[i] = p[j] => i = j
  <2> SUFFICES ASSUME NEW i \in 1 .. Len(p), NEW j \in 1 .. Len(p), p[i] = p[j]
               PROVE  i = j
    OBVIOUS
  <2>1. i + 1 = j + 1
    BY <1>4, <1>5
  <2> QED
    BY <2>1
<1>8. \A i \in 1 .. Len(q) : nx[q[i]] = IF i = Len(q) THEN None ELSE q[i + 1]
  BY DEF Threaded
<1>9. nx[f] = IF p = <<>> THEN None ELSE p[1]
  <2>1. CASE Len(q) = 1
    BY <1>1, <1>2, <1>3, <1>8, <2>1
  <2>2. CASE Len(q) # 1
    <3>1. 1 \in 1 .. Len(p)
      BY <1>2, <2>2
    <3>2. p[1] = q[1 + 1]
      BY <1>4, <3>1
    <3>3. nx[q[1]] = q[1 + 1]
      BY <1>3, <1>8, <2>2
    <3> QED
      BY <1>1, <1>2, <2>2, <3>2, <3>3
  <2> QED
    BY <2>1, <2>2
<1>10. \A i \in 1 .. Len(p) : nx[p[i]] = IF i = Len(p) THEN None ELSE p[i + 1]
  <2> SUFFICES ASSUME NEW i \in 1 .. Len(p)
               PROVE  nx[p[i]] = IF i = Len(p) THEN None ELSE p[i + 1]
    OBVIOUS
  <2>1. nx[p[i]] = IF i + 1 = Len(q) THEN None ELSE q[(i + 1) + 1]
    BY <1>4, <1>8
  <2>2. CASE i = Len(p)
    BY <1>2, <2>1, <2>2
  <2>3. CASE i # Len(p)
    <3>1. i + 1 \in 1 .. Len(p) /\ i + 1 # Len(q)
      BY <1>2, <2>3
    <3>2. p[i + 1] = q[(i + 1) + 1]
      BY <1>4, <3>1
    <3> QED
      BY <2>1, <2>3, <3>1, <3>2
  <2> QED
    BY <2>2, <2>3
<1>11. Threaded(p, nx[f], S \ {f}, nx)
  BY <1>6, <1>7, <1>9, <1>10 DEF Threaded
<1>12. Threaded(p, nx[f], S \ {f}, [nx EXCEPT ![f] = v])
  BY <1>2, <1>3, <1>11, LinkElsewhere
<1> QED
  BY <1>1, <1>3, <1>11, <1>12 DEF p

(* An id is put after the last of a list.                                  *)
LEMMA PutLast ==
  ASSUME NEW q \in Seq(Ids), NEW f, NEW S, NEW nx \in [Ids -> Ids \cup {None}],
         Threaded(q, f, S, nx), NEW x \in Ids \ S
  PROVE  LET last == IF q = <<>> THEN None ELSE q[Len(q)]
             ny == IF last = None THEN [nx EXCEPT ![x] = None]
                   ELSE [nx EXCEPT ![x] = None, ![last] = x] IN
         /\ last \in S \cup {None} /\ (last = None <=> q = <<>>)
         /\ Threaded(Append(q, x), IF last = None THEN x ELSE f, S \cup {x}, ny)
<1> DEFINE p == Append(q, x)  n == Len(q)
           last == IF q = <<>> THEN None ELSE q[n]
           ny == IF last = None THEN [nx EXCEPT ![x] = None]
                 ELSE [nx EXCEPT ![x] = None, ![last] = x]
<1>1. /\ p \in Seq(Ids) /\ Len(p) = n + 1 /\ n \in Nat /\ p[n + 1] = x
      /\ \A i \in 1 .. n : p[i] = q[i]
      /\ p # <<>> /\ (q = <<>> <=> n = 0)
  BY AppendFacts
<1>2. \A i \in 1 .. n : q[i] \in S /\ q[i] \in Ids /\ q[i] # x /\ q[i] # None
  BY Threads, NoneIsNoId
<1>3. last \in S \cup {None} /\ (last = None <=> q = <<>>)
  BY <1>1, <1>2
<1>4. ny[x] = None
  BY <1>1, <1>2
<1>5. \A i \in 1 .. n : i # n => ny[q[i]] = nx[q[i]]
  <2> TAKE i \in 1 .. n
  <2> HAVE i # n
  <2>1. n \in 1 .. n /\ q # <<>>
    BY <1>1
  <2>2. q[i] # q[n]
    BY <2>1 DEF Threaded
  <2>3. last = q[n] /\ last # None
    BY <1>2, <2>1
  <2> QED
    BY <1>2, <2>2, <2>3
<1>6. n # 0 => ny[q[n]] = x
  <2> HAVE n # 0
  <2>1. n \in 1 .. n /\ q # <<>>
    BY <1>1
  <2>2. last = q[n] /\ last # None /\ last \in Ids
    BY <1>2, <2>1
  <2> QED
    BY <2>2
<1> HIDE DEF p, ny, n
<1>7. \A i \in 1 .. Len(p) : i = n + 1 \/ i \in 1 .. n
  BY <1>1
<1>8. S \cup {x} = {p[i] : i \in 1 .. Len(p)}
  <2>1. \A y \in S \cup {x} : \E i \in 1 .. Len(p) : p[i] = y
    <3> TAKE y \in S \cup {x}
    <3>1. CASE y = x
      BY <1>1, <3>1
    <3>2. CASE y \in S
      <4>1. PICK i \in 1 .. n : q[i] = y
        BY <3>2, Threads DEF n
      <4>2. i \in 1 .. Len(p) /\ p[i] = y
        BY <1>1, <4>1
      <4> QED
        BY <4>2
    <3> QED
      BY <3>1, <3>2
  <2>2. \A i \in 1 .. Len(p) : p[i] \in S \cup {x}
    BY <1>1, <1>2, <1>7
  <2> QED
    BY <2>1, <2>2
<1>9. \A i, j \in 1 .. Len(p) : p[i] = p[j] => i = j
  <2>1. \A i, j \in 1 .. n : q[i] = q[j] => i = j
    BY DEF Threaded, n
  <2> QED
    BY <1>1, <1>2, <1>7, <2>1
<1>10. \A i \in 1 .. Len(p) : ny[p[i]] = IF i = Len(p) THEN None ELSE p[i + 1]
  <2> SUFFICES ASSUME NEW i \in 1 .. Len(p)
               PROVE  ny[p[i]] = IF i = Len(p) THEN None ELSE p[i + 1]
    OBVIOUS
  <2>1. CASE i = n + 1
    BY <1>1, <1>4, <2>1
  <2>2. CASE i = n /\ i \in 1 .. n
    BY <1>1, <1>6, <2>2
  <2>3. CASE i # n /\ i \in 1 .. n
    <3>1. i + 1 \in 1 .. n /\ i # Len(p)
      BY <1>1, <2>3
    <3>2. nx[q[i]] = q[i + 1]
      BY <2>3 DEF Threaded, n
    <3>3. p[i] = q[i] /\ p[i + 1] = q[i + 1]
      BY <1>1, <2>3, <3>1
    <3> QED
      BY <1>5, <2>3, <3>1, <3>2, <3>3
  <2> QED
    BY <1>7, <2>1, <2>2, <2>3
<1>11. (IF last = None THEN x ELSE f) = IF p = <<>> THEN None ELSE p[1]
  <2>1. f = IF q = <<>> THEN None ELSE q[1]
    BY DEF Threaded
  <2>2. CASE q = <<>>
    BY <1>1, <1>3, <2>2
  <2>3. CASE q # <<>>
    <3>1. 1 \in 1 .. n
      BY <1>1, <2>3
    <3> QED
      BY <1>1, <1>3, <2>1, <2>3, <3>1
  <2> QED
    BY <2>2, <2>3
<1> HIDE DEF last
<1>12. Threaded(p, IF last = None THEN x ELSE f, S \cup {x}, ny)
  BY <1>8, <1>9, <1>10, <1>11 DEF Threaded
<1> QED
  BY <1>3, <1>12 DEF p, ny, last, n

-----------------------------------------------------------------------------
(* One lemma for each kind of step                                         *)

(* A round of a loop moves an id from one list to the other, in one piece. *)
LEMMA RoundKeeps ==
  ASSUME IInv, m_FirstTimed # None, RemoveFirstTimeout
  PROVE  /\ ListsWhole' /\ UsageCounted'
         /\ m_FirstTimed \in InState("ID_TIMED") /\ m_FirstTimed = timedList[1]
         /\ timedList # <<>>
         /\ InState("ID_FREE")' = InState("ID_FREE") \cup {m_FirstTimed}
         /\ InState("ID_TIMED")' = InState("ID_TIMED") \ {m_FirstTimed}
         /\ InState("ID_ALLOCATED")' = InState("ID_ALLOCATED")
         /\ m_Next' \in [Ids -> Ids \cup {None}] /\ m_State' \in [Ids -> States]
         /\ m_FirstFree' \in Ids /\ {m_FirstTimed', m_LastTimed'} \subseteq Ids \cup {None}
         /\ m_Usage' \in Nat
         /\ freeList' \in Seq(Ids) /\ timedList' \in Seq(Ids)
<1> DEFINE id == m_FirstTimed
<1>1. timedList \in Seq(Ids) /\ freeList \in Seq(Ids) /\ m_Next \in [Ids -> Ids \cup {None}]
      /\ m_State \in [Ids -> States]
  BY DEF IInv, TypeOK
<1>2. /\ Threaded(freeList, m_FirstFree, InState("ID_FREE"), m_Next)
      /\ Threaded(timedList, id, InState("ID_TIMED"), m_Next)
  BY DEF IInv, ListsWhole
<1>3. id \in InState("ID_TIMED") /\ id = timedList[1] /\ timedList # <<>>
  BY <1>1, <1>2, TakeFirst
<1>4. id \in Ids /\ m_State[id] = "ID_TIMED"
  BY <1>3 DEF InState
<1>5. /\ m_Next' = [m_Next EXCEPT ![id] = m_FirstFree]
      /\ m_State' = [m_State EXCEPT ![id] = "ID_FREE"]
      /\ m_FirstFree' = id /\ m_FirstTimed' = m_Next[id]
      /\ m_LastTimed' = IF m_Next[id] = None THEN None ELSE m_LastTimed
      /\ m_Usage' = m_Usage - 1 /\ m_InUsage' = m_InUsage
      /\ freeList' = <<id>> \o freeList /\ timedList' = Tail(timedList)
  BY DEF RemoveFirstTimeout
<1>6. /\ InState("ID_FREE")' = InState("ID_FREE") \cup {id}
      /\ InState("ID_TIMED")' = InState("ID_TIMED") \ {id}
      /\ InState("ID_ALLOCATED")' = InState("ID_ALLOCATED")
  BY <1>1, <1>4, <1>5 DEF InState
<1>7. id \in Ids \ InState("ID_FREE")
  BY <1>4 DEF InState
<1>8. Threaded(freeList', m_FirstFree', InState("ID_FREE")', m_Next')
  <2>1. Threaded(<<id>> \o freeList, id, InState("ID_FREE") \cup {id},
                 [m_Next EXCEPT ![id] = m_FirstFree])
    BY <1>1, <1>2, <1>7, PutFirst
  <2> QED
    BY <1>5, <1>6, <2>1
<1>9. Threaded(timedList', m_FirstTimed', InState("ID_TIMED")', m_Next')
  <2>1. Threaded(Tail(timedList), m_Next[id], InState("ID_TIMED") \ {id},
                 [m_Next EXCEPT ![id] = m_FirstFree])
    BY <1>1, <1>2, TakeFirst
  <2> QED
    BY <1>5, <1>6, <2>1
<1>10. freeList' \in Seq(Ids)
  BY <1>1, <1>4, <1>5, ConsFacts
<1>11. /\ timedList' \in Seq(Ids) /\ Len(timedList') = Len(timedList) - 1
       /\ Len(timedList) \in Nat \ {0} /\ (timedList' = <<>> <=> Len(timedList) = 1)
       /\ \A i \in 1 .. Len(timedList) - 1 : timedList'[i] = timedList[i + 1]
  BY <1>1, <1>3, <1>5, TailFacts
<1>12. m_FirstTimed' = None <=> timedList' = <<>>
  <2>1. timedList' # <<>> => timedList'[1] \in Ids
    BY <1>11
  <2> QED
    BY <1>9, <2>1, NoneIsNoId DEF Threaded
<1>13. m_LastTimed' = IF timedList' = <<>> THEN None ELSE timedList'[Len(timedList')]
  <2>1. m_LastTimed = timedList[Len(timedList)]
    BY <1>3 DEF IInv, ListsWhole
  <2>2. CASE timedList' = <<>>
    BY <1>5, <1>12, <2>2
  <2>3. CASE timedList' # <<>>
    <3>1. Len(timedList) - 1 \in 1 .. Len(timedList) - 1
      BY <1>11, <2>3
    <3>2. timedList'[Len(timedList) - 1] = timedList[(Len(timedList) - 1) + 1]
      BY <1>11, <3>1
    <3>3. (Len(timedList) - 1) + 1 = Len(timedList)
      BY <1>11
    <3> QED
      BY <1>5, <1>11, <1>12, <2>1, <2>3, <3>2, <3>3
  <2> QED
    BY <2>2, <2>3
<1>14. ListsWhole'
  BY <1>8, <1>9, <1>13 DEF ListsWhole
<1>15. UsageCounted' /\ m_Usage' \in Nat
  <2>1. m_InUsage = Cardinality(InState("ID_ALLOCATED")) /\ m_Usage = m_InUsage + Len(timedList)
    BY DEF IInv, UsageCounted
  <2>2. m_InUsage \in Nat
    BY DEF IInv, TypeOK
  <2>3. m_InUsage' = Cardinality(InState("ID_ALLOCATED")')
    BY <1>5, <1>6, <2>1
  <2>4. m_Usage' = m_Usage - 1 /\ m_InUsage' = m_InUsage
    BY <1>5
  <2>5. Len(timedList') = Len(timedList) - 1 /\ Len(timedList) \in Nat \ {0}
    BY <1>11
  <2>6. m_Usage' = m_InUsage' + Len(timedList') /\ m_Usage' \in Nat
    BY <2>1, <2>2, <2>4, <2>5
  <2> QED
    BY <2>3, <2>6 DEF UsageCounted
<1>16. m_Next' \in [Ids -> Ids \cup {None}] /\ m_State' \in [Ids -> States]
  <2>1. m_FirstFree \in Ids \cup {None}
    BY DEF IInv, TypeOK
  <2> QED
    BY <1>1, <1>5, <2>1 DEF States
<1>17. m_FirstFree' \in Ids /\ {m_FirstTimed', m_LastTimed'} \subseteq Ids \cup {None}
  BY <1>1, <1>4, <1>5 DEF IInv, TypeOK
<1> QED
  BY <1>3, <1>6, <1>10, <1>11, <1>14, <1>15, <1>16, <1>17

(* What is left of the timed list is in order, and keeps its times.        *)
LEMMA RoundKeepsTimes ==
  ASSUME IInv, m_FirstTimed # None, RemoveFirstTimeout,
         \A id \in Ids : id # m_FirstTimed => freedAt'[id] = freedAt[id]
  PROVE  TimesKept'
<1>1. /\ InState("ID_TIMED")' = InState("ID_TIMED") \ {m_FirstTimed}
      /\ timedList # <<>> /\ timedList \in Seq(Ids)
  BY RoundKeeps DEF IInv, TypeOK
<1>2. UNCHANGED <<m_Timeout, now>> /\ timedList' = Tail(timedList)
  BY DEF RemoveFirstTimeout
<1>3. /\ Len(timedList') = Len(timedList) - 1 /\ Len(timedList) \in Nat
      /\ \A i \in 1 .. Len(timedList) - 1 : timedList'[i] = timedList[i + 1]
  BY <1>1, <1>2, TailFacts
<1>4. \A i \in 1 .. Len(timedList') : timedList'[i] \in InState("ID_TIMED")'
  BY RoundKeeps DEF ListsWhole, Threaded
<1>5. \A id \in InState("ID_TIMED")' : id \in InState("ID_TIMED") /\ freedAt'[id] = freedAt[id]
  BY <1>1 DEF InState
<1>6. \A i, j \in 1 .. Len(timedList') :
        i < j => freedAt'[timedList'[i]] <= freedAt'[timedList'[j]]
  <2> TAKE i, j \in 1 .. Len(timedList')
  <2> HAVE i < j
  <2>1. i + 1 \in 1 .. Len(timedList) /\ j + 1 \in 1 .. Len(timedList) /\ i + 1 < j + 1
    BY <1>3
  <2>2. freedAt[timedList[i + 1]] <= freedAt[timedList[j + 1]]
    BY <2>1 DEF IInv, TimesKept
  <2>3. timedList'[i] = timedList[i + 1] /\ timedList'[j] = timedList[j + 1]
    BY <1>3
  <2> QED
    BY <1>4, <1>5, <2>2, <2>3
<1>7. \A id \in InState("ID_TIMED")' :
        /\ freedAt'[id] \in Nat /\ freedAt'[id] <= now'
        /\ m_Timeout'[id] = AsInt(freedAt'[id] + Rest)
  BY <1>2, <1>5 DEF IInv, TimesKept
<1> QED
  BY <1>6, <1>7 DEF TimesKept

(* A round of NewId: the id that is freed has had its rest.                *)
LEMMA NewIdRoundKeeps ==
  ASSUME IInv, NewIdRound
  PROVE  IInv'
<1> DEFINE id == m_FirstTimed
<1>1. Expired /\ id # None /\ RemoveFirstTimeout /\ UNCHANGED <<call, freedAt>>
  BY DEF NewIdRound, Expired
<1>2. /\ ListsWhole' /\ UsageCounted' /\ id \in InState("ID_TIMED")
      /\ InState("ID_FREE")' = InState("ID_FREE") \cup {id}
  BY <1>1, RoundKeeps
<1>3. UNCHANGED <<m_Timeout, m_InUsage, now>>
  BY <1>1 DEF RemoveFirstTimeout
<1>4. TypeOK'
  BY <1>1, <1>3, RoundKeeps DEF IInv, TypeOK
<1>5. TimesKept'
  BY <1>1, RoundKeepsTimes
<1>6. freedAt[id] + Rest < now \/ freedAt[id] + Rest >= Half
  <2>1. freedAt[id] \in Nat /\ m_Timeout[id] = AsInt(freedAt[id] + Rest)
    BY <1>2 DEF IInv, TimesKept
  <2>2. freedAt[id] + Rest \in Nat
    BY <2>1, PoolAssumption
  <2>3. freedAt[id] + Rest < Half => m_Timeout[id] = freedAt[id] + Rest
    BY <2>1, <2>2, IntOfTime
  <2>4. m_Timeout[id] < now
    BY <1>1 DEF Expired
  <2>5. Half \in Nat
    BY PoolAssumption
  <2> QED
    BY <2>2, <2>3, <2>4, <2>5
<1>7. FreeRested'
  BY <1>1, <1>2, <1>3, <1>6 DEF IInv, FreeRested
<1> QED
  BY <1>2, <1>4, <1>5, <1>7 DEF IInv

(* A round of TimeoutIds: the id's rest is forgotten.                      *)
LEMMA TimeoutIdsRoundKeeps ==
  ASSUME IInv, TimeoutIdsRound
  PROVE  IInv'
<1> DEFINE id == m_FirstTimed
<1>1. /\ id # None /\ RemoveFirstTimeout /\ UNCHANGED call
      /\ freedAt' = [freedAt EXCEPT ![id] = Never]
  BY DEF TimeoutIdsRound
<1>2. /\ ListsWhole' /\ UsageCounted' /\ id \in InState("ID_TIMED")
      /\ InState("ID_FREE")' = InState("ID_FREE") \cup {id}
  BY <1>1, RoundKeeps
<1>3. UNCHANGED <<m_Timeout, m_InUsage, now>> /\ freedAt \in [Ids -> Nat \cup {Never}]
      /\ now \in Nat /\ id \in Ids
  BY <1>1, <1>2 DEF RemoveFirstTimeout, IInv, TypeOK, InState
<1>4. freedAt' \in [Ids -> Nat \cup {Never}]
  BY <1>1, <1>3
<1>5. TypeOK'
  BY <1>1, <1>3, <1>4, RoundKeeps DEF IInv, TypeOK
<1>6. TimesKept'
  BY <1>1, <1>3, RoundKeepsTimes
<1>7. Never + Rest < now
  BY <1>3, PoolAssumption DEF Never
<1>8. freedAt'[id] = Never /\ \A x \in Ids : x # id => freedAt'[x] = freedAt[x]
  BY <1>1, <1>3
<1>9. InState("ID_FREE") \subseteq Ids
  BY DEF InState
<1>10. FreeRested'
  BY <1>2, <1>3, <1>7, <1>8, <1>9 DEF IInv, FreeRested
<1> QED
  BY <1>2, <1>5, <1>6, <1>10 DEF IInv

(* Giving the first free id.                                               *)
LEMMA GiveKeeps ==
  ASSUME IInv, Give, UNCHANGED now, call' = "none"
  PROVE  /\ IInv'
         /\ m_FirstFree \in InState("ID_FREE")
         /\ InState("ID_FREE")' = InState("ID_FREE") \ {m_FirstFree}
         /\ InState("ID_ALLOCATED")' = InState("ID_ALLOCATED") \cup {m_FirstFree}
<1> DEFINE id == m_FirstFree
<1>1. timedList \in Seq(Ids) /\ freeList \in Seq(Ids) /\ m_Next \in [Ids -> Ids \cup {None}]
      /\ m_State \in [Ids -> States]
  BY DEF IInv, TypeOK
<1>2. /\ Threaded(freeList, id, InState("ID_FREE"), m_Next) /\ id # None
      /\ Threaded(timedList, m_FirstTimed, InState("ID_TIMED"), m_Next)
  BY DEF IInv, ListsWhole, Give
<1>3. /\ id \in InState("ID_FREE") /\ freeList # <<>>
      /\ Threaded(Tail(freeList), m_Next[id], InState("ID_FREE") \ {id}, m_Next)
  BY <1>1, <1>2, TakeFirst
<1>4. id \in Ids /\ m_State[id] = "ID_FREE"
  BY <1>3 DEF InState
<1>5. /\ m_FirstFree' = m_Next[id] /\ m_State' = [m_State EXCEPT ![id] = "ID_ALLOCATED"]
      /\ m_Usage' = m_Usage + 1 /\ m_InUsage' = m_InUsage + 1
      /\ freeList' = Tail(freeList)
      /\ UNCHANGED <<m_Next, m_Timeout, m_FirstTimed, m_LastTimed, timedList, freedAt>>
  BY DEF Give
<1>6. /\ InState("ID_FREE")' = InState("ID_FREE") \ {id}
      /\ InState("ID_TIMED")' = InState("ID_TIMED")
      /\ InState("ID_ALLOCATED")' = InState("ID_ALLOCATED") \cup {id}
  BY <1>1, <1>4, <1>5 DEF InState
<1>7. ListsWhole'
  BY <1>2, <1>3, <1>5, <1>6 DEF IInv, ListsWhole
<1>8. UsageCounted' /\ m_Usage' \in Nat /\ m_InUsage' \in Nat
  <2>1. /\ m_InUsage = Cardinality(InState("ID_ALLOCATED"))
        /\ m_Usage = m_InUsage + Len(timedList) /\ m_InUsage \in Nat
    BY DEF IInv, UsageCounted, TypeOK
  <2>2. id \notin InState("ID_ALLOCATED") /\ InState("ID_ALLOCATED") \in SUBSET Ids
    BY <1>4 DEF InState
  <2>3. Cardinality(InState("ID_ALLOCATED") \cup {id}) = Cardinality(InState("ID_ALLOCATED")) + 1
    BY <1>4, <2>2, Counted
  <2>4. Len(timedList) \in Nat
    BY <1>1
  <2>5. m_InUsage' = Cardinality(InState("ID_ALLOCATED")')
    BY <1>5, <1>6, <2>1, <2>3
  <2>6. m_Usage' = m_InUsage' + Len(timedList') /\ m_Usage' \in Nat /\ m_InUsage' \in Nat
    BY <1>5, <2>1, <2>4
  <2> QED
    BY <2>5, <2>6 DEF UsageCounted
<1>9. m_State' \in [Ids -> States] /\ m_FirstFree' \in Ids \cup {None} /\ freeList' \in Seq(Ids)
  <2>1. m_FirstFree' \in Ids \cup {None}
    BY <1>1, <1>4, <1>5
  <2>2. freeList' \in Seq(Ids)
    BY <1>1, <1>3, <1>5, TailFacts
  <2>3. m_State' \in [Ids -> States]
    BY <1>1, <1>5 DEF States
  <2> QED
    BY <2>1, <2>2, <2>3
<1>10. TypeOK'
  BY <1>5, <1>8, <1>9 DEF IInv, TypeOK
<1>11. TimesKept'
  BY <1>5, <1>6 DEF IInv, TimesKept
<1>12. FreeRested'
  BY <1>5, <1>6 DEF IInv, FreeRested
<1> QED
  BY <1>3, <1>6, <1>7, <1>8, <1>10, <1>11, <1>12 DEF IInv

(* Giving an id back.                                                      *)
LEMMA FreeIdKeeps ==
  ASSUME IInv, NEW id \in Ids, FreeId(id)
  PROVE  /\ IInv'
         /\ id \in InState("ID_ALLOCATED")
         /\ InState("ID_FREE")' = InState("ID_FREE")
         /\ InState("ID_ALLOCATED")' = InState("ID_ALLOCATED") \ {id}
<1>1. timedList \in Seq(Ids) /\ freeList \in Seq(Ids) /\ m_Next \in [Ids -> Ids \cup {None}]
      /\ m_State \in [Ids -> States] /\ now \in Nat /\ freedAt \in [Ids -> Nat \cup {Never}]
      /\ m_Timeout \in [Ids -> -Half .. Half - 1] /\ {m_FirstTimed, m_LastTimed} \subseteq Ids \cup {None}
  BY DEF IInv, TypeOK
<1>2. /\ Threaded(freeList, m_FirstFree, InState("ID_FREE"), m_Next)
      /\ Threaded(timedList, m_FirstTimed, InState("ID_TIMED"), m_Next)
      /\ m_LastTimed = IF timedList = <<>> THEN None ELSE timedList[Len(timedList)]
  BY DEF IInv, ListsWhole
<1>3. m_State[id] = "ID_ALLOCATED"
  BY DEF FreeId
<1>4. /\ m_InUsage' = m_InUsage - 1 /\ m_State' = [m_State EXCEPT ![id] = "ID_TIMED"]
      /\ m_Timeout' = [m_Timeout EXCEPT ![id] = AsInt(now + Rest)]
      /\ m_Next' = IF m_LastTimed = None THEN [m_Next EXCEPT ![id] = None]
                   ELSE [m_Next EXCEPT ![id] = None, ![m_LastTimed] = id]
      /\ m_FirstTimed' = IF m_LastTimed = None THEN id ELSE m_FirstTimed
      /\ m_LastTimed' = id
      /\ timedList' = Append(timedList, id) /\ freedAt' = [freedAt EXCEPT ![id] = now]
      /\ UNCHANGED <<m_FirstFree, m_Usage, now, call, freeList>>
  BY DEF FreeId
<1>5. /\ InState("ID_FREE")' = InState("ID_FREE")
      /\ InState("ID_TIMED")' = InState("ID_TIMED") \cup {id}
      /\ InState("ID_ALLOCATED")' = InState("ID_ALLOCATED") \ {id}
      /\ id \in InState("ID_ALLOCATED")
  BY <1>1, <1>3, <1>4 DEF InState
<1>6. id \in Ids \ InState("ID_TIMED") /\ id \in Ids \ InState("ID_FREE")
  BY <1>3 DEF InState
<1>7. /\ m_LastTimed \in InState("ID_TIMED") \cup {None}
      /\ Threaded(timedList', m_FirstTimed', InState("ID_TIMED")', m_Next')
  <2> DEFINE last == IF timedList = <<>> THEN None ELSE timedList[Len(timedList)]
             ny == IF last = None THEN [m_Next EXCEPT ![id] = None]
                   ELSE [m_Next EXCEPT ![id] = None, ![last] = id]
  <2>1. /\ last \in InState("ID_TIMED") \cup {None}
        /\ Threaded(Append(timedList, id), IF last = None THEN id ELSE m_FirstTimed,
                    InState("ID_TIMED") \cup {id}, ny)
    BY <1>1, <1>2, <1>6, PutLast
  <2>2. last = m_LastTimed
    BY <1>2
  <2>3. ny = m_Next' /\ m_FirstTimed' = IF last = None THEN id ELSE m_FirstTimed
    BY <1>4, <2>2
  <2>4. timedList' = Append(timedList, id) /\ InState("ID_TIMED")' = InState("ID_TIMED") \cup {id}
    BY <1>4, <1>5
  <2> HIDE DEF last, ny
  <2> QED
    BY <2>1, <2>2, <2>3, <2>4
<1>8. Threaded(freeList', m_FirstFree', InState("ID_FREE")', m_Next')
  <2> DEFINE nx == [m_Next EXCEPT ![id] = None]
  <2>1. nx \in [Ids -> Ids \cup {None}] /\ Threaded(freeList, m_FirstFree, InState("ID_FREE"), nx)
    BY <1>1, <1>2, <1>6, LinkElsewhere
  <2>2. CASE m_LastTimed = None
    BY <1>4, <1>5, <2>1, <2>2
  <2>3. CASE m_LastTimed # None
    <3>1. m_LastTimed \in Ids \ InState("ID_FREE")
      BY <1>7, <2>3 DEF InState
    <3>2. m_Next' = [nx EXCEPT ![m_LastTimed] = id]
      BY <1>4, <2>3
    <3> HIDE DEF nx
    <3>3. Threaded(freeList, m_FirstFree, InState("ID_FREE"), [nx EXCEPT ![m_LastTimed] = id])
      BY <1>1, <2>1, <3>1, LinkElsewhere
    <3> QED
      BY <1>4, <1>5, <3>2, <3>3
  <2> QED
    BY <2>2, <2>3
<1>9. /\ timedList' \in Seq(Ids) /\ Len(timedList') = Len(timedList) + 1
      /\ Len(timedList) \in Nat /\ timedList'[Len(timedList) + 1] = id
      /\ \A i \in 1 .. Len(timedList) : timedList'[i] = timedList[i]
      /\ timedList' # <<>>
  BY <1>1, <1>4, AppendFacts
<1>10. ListsWhole'
  BY <1>4, <1>7, <1>8, <1>9 DEF ListsWhole
<1>11. UsageCounted' /\ m_InUsage' \in Nat /\ m_Usage' \in Nat
  <2>1. /\ m_InUsage = Cardinality(InState("ID_ALLOCATED"))
        /\ m_Usage = m_InUsage + Len(timedList) /\ m_InUsage \in Nat /\ m_Usage \in Nat
    BY DEF IInv, UsageCounted, TypeOK
  <2>2. InState("ID_ALLOCATED") \in SUBSET Ids /\ InState("ID_ALLOCATED") \ {id} \in SUBSET Ids
    BY DEF InState
  <2>3. Cardinality(InState("ID_ALLOCATED") \ {id}) = Cardinality(InState("ID_ALLOCATED")) - 1
        /\ Cardinality(InState("ID_ALLOCATED") \ {id}) \in Nat
    BY <1>5, <2>2, Counted
  <2>4. m_InUsage' = Cardinality(InState("ID_ALLOCATED")') /\ m_InUsage' \in Nat
    BY <1>4, <1>5, <2>1, <2>3
  <2>5. m_Usage' = m_InUsage' + Len(timedList') /\ m_Usage' \in Nat
    BY <1>4, <1>9, <2>1
  <2> QED
    BY <2>4, <2>5 DEF UsageCounted
<1>12. now + Rest \in Nat /\ AsInt(now + Rest) \in -Half .. Half - 1
  BY <1>1, PoolAssumption, IntOfTime
<1>13. TypeOK'
  <2>1. m_Next' \in [Ids -> Ids \cup {None}]
    BY <1>1, <1>4
  <2>2. m_State' \in [Ids -> States] /\ freedAt' \in [Ids -> Nat \cup {Never}]
    BY <1>1, <1>4 DEF States
  <2>3. m_Timeout' \in [Ids -> -Half .. Half - 1]
    BY <1>1, <1>4, <1>12
  <2>4. m_FirstTimed' \in Ids \cup {None} /\ m_LastTimed' \in Ids \cup {None}
    BY <1>1, <1>4
  <2>5. call' = call /\ m_FirstFree' = m_FirstFree /\ now' = now /\ freeList' = freeList
    BY <1>4
  <2> QED
    BY <1>9, <1>11, <2>1, <2>2, <2>3, <2>4, <2>5 DEF IInv, TypeOK
<1>14. TimesKept'
  <2>1. freedAt'[id] = now /\ m_Timeout'[id] = AsInt(now + Rest) /\ now' = now
    BY <1>1, <1>4
  <2>2. \A x \in InState("ID_TIMED") :
          /\ freedAt'[x] = freedAt[x] /\ m_Timeout'[x] = m_Timeout[x]
          /\ freedAt[x] \in Nat /\ freedAt[x] <= now
          /\ m_Timeout[x] = AsInt(freedAt[x] + Rest)
    BY <1>1, <1>4, <1>6 DEF IInv, TimesKept, InState
  <2>3. \A x \in InState("ID_TIMED")' :
          /\ freedAt'[x] \in Nat /\ freedAt'[x] <= now'
          /\ m_Timeout'[x] = AsInt(freedAt'[x] + Rest)
    <3> TAKE x \in InState("ID_TIMED")'
    <3>1. CASE x = id
      BY <1>1, <2>1, <3>1
    <3>2. CASE x \in InState("ID_TIMED")
      BY <2>1, <2>2, <3>2
    <3> QED
      BY <1>5, <3>1, <3>2
  <2>4. \A i \in 1 .. Len(timedList) : timedList[i] \in InState("ID_TIMED")
    BY <1>2 DEF Threaded
  <2>5. \A i, j \in 1 .. Len(timedList') :
          i < j => freedAt'[timedList'[i]] <= freedAt'[timedList'[j]]
    <3> TAKE i, j \in 1 .. Len(timedList')
    <3> HAVE i < j
    <3>1. i \in 1 .. Len(timedList) /\ timedList'[i] = timedList[i]
      BY <1>9
    <3>2. CASE j = Len(timedList) + 1
      BY <1>9, <2>1, <2>2, <2>4, <3>1, <3>2
    <3>3. CASE j # Len(timedList) + 1
      <4>1. j \in 1 .. Len(timedList) /\ timedList'[j] = timedList[j]
        BY <1>9, <3>3
      <4>2. freedAt[timedList[i]] <= freedAt[timedList[j]]
        BY <3>1, <4>1 DEF IInv, TimesKept
      <4> QED
        BY <2>2, <2>4, <3>1, <4>1, <4>2
    <3> QED
      BY <3>2, <3>3
  <2> QED
    BY <2>3, <2>5 DEF TimesKept
<1>15. FreeRested'
  <2>1. \A x \in InState("ID_FREE") : freedAt'[x] = freedAt[x]
    BY <1>1, <1>4, <1>6 DEF InState
  <2> QED
    BY <1>4, <1>5, <2>1 DEF IInv, FreeRested
<1> QED
  BY <1>5, <1>10, <1>11, <1>13, <1>14, <1>15 DEF IInv

(* Steps that leave the array alone, while time may pass.                  *)
LEMMA ArrayLeftAlone ==
  ASSUME IInv, now' \in Nat, now <= now', call' \in {"none", "NewId", "TimeoutIds"},
         UNCHANGED <<m_Next, m_State, m_Timeout, heads, m_Usage, m_InUsage, auxVars>>
  PROVE  IInv'
<1>1. /\ UNCHANGED <<m_Next, m_State, m_Timeout, m_FirstFree, m_FirstTimed, m_LastTimed>>
      /\ UNCHANGED <<m_Usage, m_InUsage, freeList, timedList, freedAt>>
  BY DEF heads, auxVars
<1>2. TypeOK'
  BY <1>1 DEF IInv, TypeOK
<1>3. ListsWhole' /\ UsageCounted'
  BY <1>1 DEF IInv, ListsWhole, UsageCounted, InState
<1>4. now \in Nat /\ freedAt \in [Ids -> Nat \cup {Never}] /\ Rest \in Nat /\ Never \in Int
  BY PoolAssumption DEF IInv, TypeOK, Never
<1>5. \A st : InState(st)' = InState(st) /\ InState(st) \subseteq Ids
  BY <1>1 DEF InState
<1>6. TimesKept'
  BY <1>1, <1>4, <1>5 DEF IInv, TimesKept
<1>7. \A id \in InState("ID_FREE") : freedAt[id] + Rest < now => freedAt[id] + Rest < now'
  BY <1>4, <1>5
<1>8. FreeRested'
  BY <1>1, <1>5, <1>7 DEF IInv, FreeRested
<1> QED
  BY <1>2, <1>3, <1>6, <1>8 DEF IInv

-----------------------------------------------------------------------------
(* The theorems                                                            *)

(* Every step keeps the invariant.                                         *)
LEMMA NextKeeps ==
  ASSUME IInv, [Next]_vars
  PROVE  IInv'
<1>1. now \in Nat /\ now <= now /\ call \in {"none", "NewId", "TimeoutIds"}
  BY DEF IInv, TypeOK
<1>2. CASE UNCHANGED vars
  BY <1>1, <1>2, ArrayLeftAlone DEF vars
<1>3. ASSUME NEW f \in {"NewId", "TimeoutIds"}, Begin(f) PROVE IInv'
  BY <1>1, <1>3, ArrayLeftAlone DEF Begin
<1>4. CASE NewIdRound
  BY <1>4, NewIdRoundKeeps
<1>5. CASE NewIdReturn
  <2>1. UNCHANGED now /\ call' = "none"
    BY <1>5 DEF NewIdReturn
  <2>2. CASE Give
    BY <2>1, <2>2, GiveKeeps
  <2>3. CASE Refuse
    BY <1>1, <2>1, <2>3, ArrayLeftAlone DEF Refuse
  <2> QED
    BY <1>5, <2>2, <2>3 DEF NewIdReturn
<1>6. CASE TimeoutIdsRound
  BY <1>6, TimeoutIdsRoundKeeps
<1>7. CASE TimeoutIdsReturn
  BY <1>1, <1>7, ArrayLeftAlone DEF TimeoutIdsReturn
<1>8. ASSUME NEW id \in Ids, FreeId(id) PROVE IInv'
  BY <1>8, FreeIdKeeps
<1>9. CASE Tick
  <2>1. now' \in Nat /\ now <= now'
    BY <1>1, <1>9 DEF Tick
  <2> QED
    BY <1>1, <1>9, <2>1, ArrayLeftAlone DEF Tick
<1> QED
  BY <1>2, <1>3, <1>4, <1>5, <1>6, <1>7, <1>8, <1>9 DEF Next

(* At the beginning every id is on the free list.                          *)
LEMMA InitGood ==
  ASSUME Init
  PROVE  IInv
<1> USE PoolAssumption
<1>1. freeList \in Seq(Ids) /\ Len(freeList) = MaxIds /\ \A i \in 1 .. MaxIds : freeList[i] = i - 1
  BY DEF Init, Ids
<1>2. freeList # <<>> /\ MaxIds \in Nat \ {0}
  BY <1>1
<1>3. timedList = <<>> /\ timedList \in Seq(Ids) /\ Len(timedList) = 0
  BY DEF Init
<1>4. TypeOK
  <2>1. m_Next \in [Ids -> Ids \cup {None}]
    BY DEF Init, Ids, None
  <2>2. m_State \in [Ids -> States] /\ freedAt \in [Ids -> Nat \cup {Never}]
    BY DEF Init, States
  <2>3. m_Timeout \in [Ids -> -Half .. Half - 1]
    BY DEF Init
  <2>4. m_FirstFree \in Ids
    BY DEF Init, Ids
  <2> QED
    BY <1>1, <1>3, <2>1, <2>2, <2>3, <2>4 DEF Init, TypeOK
<1>5. /\ InState("ID_FREE") = Ids /\ InState("ID_TIMED") = {} /\ InState("ID_ALLOCATED") = {}
  BY DEF Init, InState
<1>6. Threaded(freeList, m_FirstFree, InState("ID_FREE"), m_Next)
  <2>1. Ids = {freeList[i] : i \in 1 .. Len(freeList)}
    <3>1. \A x \in Ids : x + 1 \in 1 .. Len(freeList) /\ freeList[x + 1] = x
      BY <1>1 DEF Ids
    <3>2. \A i \in 1 .. Len(freeList) : freeList[i] \in Ids
      BY <1>1 DEF Ids
    <3> QED
      BY <3>1, <3>2
  <2>2. \A i, j \in 1 .. Len(freeList) : freeList[i] = freeList[j] => i = j
    BY <1>1
  <2>3. m_FirstFree = freeList[1]
    BY <1>1 DEF Init
  <2>4. \A i \in 1 .. Len(freeList) :
          m_Next[freeList[i]] = IF i = Len(freeList) THEN None ELSE freeList[i + 1]
    <3> TAKE i \in 1 .. Len(freeList)
    <3>1. freeList[i] = i - 1 /\ i - 1 \in Ids
      BY <1>1 DEF Ids
    <3>2. m_Next[i - 1] = IF i - 1 = MaxIds - 1 THEN None ELSE (i - 1) + 1
      BY <3>1 DEF Init
    <3>3. i # MaxIds => freeList[i + 1] = i
      BY <1>1
    <3> QED
      BY <1>1, <3>1, <3>2, <3>3
  <2> QED
    BY <1>2, <1>5, <2>1, <2>2, <2>3, <2>4 DEF Threaded
<1>7. Threaded(timedList, m_FirstTimed, InState("ID_TIMED"), m_Next)
  BY <1>3, <1>5 DEF Init, Threaded
<1>8. ListsWhole
  BY <1>3, <1>6, <1>7 DEF Init, ListsWhole
<1>9. UsageCounted
  <2>1. Cardinality(InState("ID_ALLOCATED")) = 0
    BY <1>5, FS_EmptySet
  <2> QED
    BY <1>3, <2>1 DEF Init, UsageCounted
<1>10. TimesKept
  BY <1>3, <1>5 DEF TimesKept
<1>11. FreeRested
  <2>1. Never + Rest < now
    BY DEF Init, Never
  <2> QED
    BY <1>5, <2>1 DEF Init, FreeRested
<1> QED
  BY <1>4, <1>8, <1>9, <1>10, <1>11 DEF IInv

(* The invariant is inductive.                                             *)
THEOREM Inductive == Spec => []IInv
<1>1. Init => IInv
  BY InitGood
<1>2. IInv /\ [Next]_vars => IInv'
  BY NextKeeps
<1> QED
  BY <1>1, <1>2, PTL DEF Spec

(* Every field keeps its type.                                             *)
THEOREM TypeCorrect == Spec => []TypeOK
<1>1. IInv => TypeOK
  BY DEF IInv
<1> QED
  BY <1>1, Inductive, PTL

(* Both lists are whole through every round of every call.                 *)
THEOREM ListsStayWhole == Spec => []ListsWhole
<1>1. IInv => ListsWhole
  BY DEF IInv
<1> QED
  BY <1>1, Inductive, PTL

(* The counters tell the ids that are in use and those that rest.          *)
THEOREM CountersRight == Spec => []UsageCounted
<1>1. IInv => UsageCounted
  BY DEF IInv
<1> QED
  BY <1>1, Inductive, PTL

(* An id has its rest, as long as an int can tell its end.                 *)
THEOREM RestIsKept == Spec => RestKept
<1> DEFINE Step == \A id \in Ids :
                     m_State[id] = "ID_FREE" /\ m_State'[id] = "ID_ALLOCATED"
                       => freedAt[id] + Rest < now \/ freedAt[id] + Rest >= Half
<1>1. IInv /\ [Next]_vars => [Step]_vars
  BY DEF IInv, FreeRested, InState
<1> QED
  BY <1>1, Inductive, PTL DEF Spec, RestKept

(* Whoever is refused an id finds every one in use or resting.             *)
THEOREM RefusalIsRight == Spec => RefusedRightly
<1> DEFINE Step == call = "NewId" /\ call' = "none" /\ UNCHANGED m_State
                     => \A id \in Ids : \/ m_State[id] = "ID_ALLOCATED"
                                        \/ m_State[id] = "ID_TIMED" /\ freedAt[id] + Rest >= now
<1>1. IInv /\ [Next]_vars => [Step]_vars
  <2> SUFFICES ASSUME IInv, Next, call = "NewId", call' = "none", UNCHANGED m_State,
                      NEW id \in Ids, m_State[id] # "ID_ALLOCATED"
               PROVE  m_State[id] = "ID_TIMED" /\ freedAt[id] + Rest >= now
    OBVIOUS
  <2>1. NewIdReturn
    BY DEF Next, Begin, NewIdRound, TimeoutIdsRound, TimeoutIdsReturn, FreeId, Tick
  <2>2. ~Expired /\ (Give \/ Refuse) /\ UNCHANGED now
    BY <2>1 DEF NewIdReturn
  <2>3. Refuse
    <3> SUFFICES ASSUME Give PROVE FALSE
      BY <2>2
    <3>1. /\ m_FirstFree \in InState("ID_FREE")
          /\ InState("ID_FREE")' = InState("ID_FREE") \ {m_FirstFree}
      BY <2>2, GiveKeeps
    <3> QED
      BY <3>1 DEF InState
  <2>4. Threaded(freeList, m_FirstFree, InState("ID_FREE"), m_Next) /\ freeList \in Seq(Ids)
    BY DEF IInv, ListsWhole, TypeOK
  <2>5. freeList = <<>>
    <3> SUFFICES ASSUME freeList # <<>> PROVE FALSE
      OBVIOUS
    <3>1. freeList[1] \in Ids /\ m_FirstFree = freeList[1]
      BY <2>4, TailFacts DEF Threaded
    <3> QED
      BY <2>3, <3>1, NoneIsNoId DEF Refuse
  <2>6. InState("ID_FREE") = {}
    BY <2>4, <2>5 DEF Threaded
  <2>7. m_State[id] = "ID_TIMED"
    BY <2>6 DEF InState, IInv, TypeOK, States
  <2>8. /\ Threaded(timedList, m_FirstTimed, InState("ID_TIMED"), m_Next)
        /\ timedList \in Seq(Ids) /\ now \in Nat
    BY DEF IInv, ListsWhole, TypeOK
  <2>9. PICK i \in 1 .. Len(timedList) : timedList[i] = id
    BY <2>7, <2>8, Threads DEF InState
  <2>10. timedList # <<>> /\ timedList[1] \in Ids /\ m_FirstTimed = timedList[1]
         /\ 1 \in 1 .. Len(timedList)
    BY <2>8, <2>9, TailFacts DEF Threaded
  <2> DEFINE first == m_FirstTimed
  <2>11. first \in InState("ID_TIMED")
    BY <2>8, <2>10, Threads
  <2>12. /\ freedAt[first] \in Nat /\ m_Timeout[first] = AsInt(freedAt[first] + Rest)
         /\ freedAt[id] \in Nat
    BY <2>7, <2>11 DEF IInv, TimesKept, InState
  <2>13. freedAt[first] <= freedAt[id]
    <3>1. CASE i = 1
      BY <2>9, <2>10, <2>12, <3>1
    <3>2. CASE i # 1
      <4>1. 1 < i
        BY <2>8, <2>9, <3>2
      <4> QED
        BY <2>9, <2>10, <4>1 DEF IInv, TimesKept
    <3> QED
      BY <3>1, <3>2
  <2>14. m_Timeout[first] >= now
    <3>1. m_Timeout[first] \in Int /\ first # None
      <4>1. Half \in Nat /\ m_Timeout \in [Ids -> -Half .. Half - 1]
        BY PoolAssumption DEF IInv, TypeOK
      <4>2. m_Timeout[first] \in -Half .. Half - 1
        BY <2>10, <4>1
      <4> QED
        BY <2>10, <4>1, <4>2, NoneIsNoId
    <3> QED
      BY <2>2, <2>8, <3>1 DEF Expired
  <2>15. freedAt[first] + Rest \in Nat /\ Rest \in Nat
    BY <2>12, PoolAssumption
  <2>16. m_Timeout[first] <= freedAt[first] + Rest /\ m_Timeout[first] \in Int
    <3>1. Half \in Nat
      BY PoolAssumption
    <3> QED
      BY <2>12, <2>15, <3>1, IntOfTime
  <2>17. freedAt[id] + Rest >= now
    BY <2>8, <2>12, <2>13, <2>14, <2>15, <2>16
  <2> QED
    BY <2>7, <2>17
<1> QED
  BY <1>1, Inductive, PTL DEF Spec, RefusedRightly

(* The lists threaded through the array implement IdPool.                  *)
THEOREM ImplementsIdPool == Spec => PoolSpec
<1> DEFINE free == InState("ID_FREE")  used == InState("ID_ALLOCATED")
<1>1. Init => Pool!Init
  BY DEF Init, Pool!Init, InState
<1>2. IInv /\ [Next]_vars => [Pool!Next]_<<free, used, timedList>>
  <2> SUFFICES ASSUME IInv, [Next]_vars
               PROVE  Pool!Next \/ (free' = free /\ used' = used /\ timedList' = timedList)
    OBVIOUS
  <2>1. ASSUME UNCHANGED <<m_State, timedList>>
        PROVE  free' = free /\ used' = used /\ timedList' = timedList
    BY <2>1 DEF InState
  <2>2. CASE UNCHANGED vars
    BY <2>1, <2>2 DEF vars, auxVars
  <2>3. ASSUME NEW f \in {"NewId", "TimeoutIds"}, Begin(f)
        PROVE  free' = free /\ used' = used /\ timedList' = timedList
    BY <2>1, <2>3 DEF Begin, auxVars
  <2>4. CASE m_FirstTimed # None /\ RemoveFirstTimeout
    <3>1. /\ timedList # <<>> /\ m_FirstTimed = timedList[1] /\ timedList \in Seq(Ids)
          /\ free' = free \cup {m_FirstTimed} /\ used' = used
      BY <2>4, RoundKeeps DEF IInv, TypeOK
    <3>2. timedList' = Tail(timedList) /\ Head(timedList) = timedList[1]
      BY <2>4, <3>1, TailFacts DEF RemoveFirstTimeout
    <3>3. Pool!Wake
      BY <3>1, <3>2 DEF Pool!Wake
    <3> QED
      BY <3>3 DEF Pool!Next
  <2>5. CASE NewIdReturn
    <3>1. UNCHANGED now /\ call' = "none"
      BY <2>5 DEF NewIdReturn
    <3>2. CASE Give
      <4>1. /\ m_FirstFree \in free /\ free' = free \ {m_FirstFree}
            /\ used' = used \cup {m_FirstFree} /\ timedList' = timedList
        BY <3>1, <3>2, GiveKeeps DEF Give
      <4>2. Pool!Take(m_FirstFree) /\ m_FirstFree \in Ids
        BY <4>1 DEF Pool!Take, InState
      <4> QED
        BY <4>2 DEF Pool!Next
    <3>3. CASE Refuse
      BY <2>1, <3>3 DEF Refuse, auxVars
    <3> QED
      BY <2>5, <3>2, <3>3 DEF NewIdReturn
  <2>6. CASE TimeoutIdsReturn
    BY <2>1, <2>6 DEF TimeoutIdsReturn, auxVars
  <2>7. ASSUME NEW id \in Ids, FreeId(id) PROVE Pool!Next
    <3>1. /\ id \in used /\ free' = free /\ used' = used \ {id}
          /\ timedList' = Append(timedList, id)
      BY <2>7, FreeIdKeeps DEF FreeId
    <3>2. Pool!GiveBack(id)
      BY <3>1 DEF Pool!GiveBack
    <3> QED
      BY <3>2 DEF Pool!Next
  <2>8. CASE Tick
    BY <2>1, <2>8 DEF Tick, auxVars
  <2>9. NewIdRound \/ TimeoutIdsRound => m_FirstTimed # None /\ RemoveFirstTimeout
    BY DEF NewIdRound, TimeoutIdsRound, Expired
  <2> QED
    BY <2>2, <2>3, <2>4, <2>5, <2>6, <2>7, <2>8, <2>9 DEF Next
<1> QED
  BY <1>1, <1>2, Inductive, PTL DEF Spec, PoolSpec, Pool!Spec

=============================================================================
