----------------------------- MODULE DrLint_proof -----------------------------
(* The disaster-recovery lint: for every inventory, any rows and any         *)
(* options, the status of the run, the assessment and the statuses of the    *)
(* families say the same thing; a run that passes has passed over no item    *)
(* that stands for itself; and the comparison of windows, which takes the    *)
(* rows in another order, judges a window as the run did.                    *)
EXTENDS DrLint, FiniteSetTheorems, SequenceTheorems, NaturalsInduction, WellFoundedInduction, TLAPS

-----------------------------------------------------------------------------
(* A set of numbers that is not empty has a least element.                   *)
LEMMA LeastNat ==
  ASSUME NEW T \in SUBSET Nat, T # {}
  PROVE  \E n \in T : \A m \in T : n <= m
<1> DEFINE R == {ss \in Nat \X Nat : ss[1] < ss[2]}
<1>1. R = OpToRel(<, Nat)  BY Zenon DEF OpToRel
<1>2. IsWellFoundedOn(R, Nat)  BY Zenon, <1>1, NatLessThanWellFounded
<1> HIDE DEF R
<1>3. PICK n \in T : \A m \in T : <<m, n>> \notin R  BY <1>2, WFMin
<1>4. \A m \in T : ~(m < n)  BY <1>3 DEF R
<1> QED  BY <1>4

(* Induction up to a bound, over a set.                                      *)
LEMMA UpTo ==
  ASSUME NEW last \in Nat, NEW G, 0 \in G, \A n \in 1..last : n - 1 \in G => n \in G
  PROVE  \A n \in 0..last : n \in G
<1> DEFINE Out == {n \in 0..last : n \notin G}
<1> SUFFICES ASSUME Out # {} PROVE FALSE  OBVIOUS
<1>1. PICK n \in Out : \A m \in Out : n <= m
  <2>1. Out \in SUBSET Nat  OBVIOUS
  <2> HIDE DEF Out
  <2> QED  BY <2>1, LeastNat
<1>2. n \in 1..last /\ n - 1 \in 0..last /\ ~(n <= n - 1)  OBVIOUS
<1>3. n - 1 \in G  BY <1>1, <1>2
<1> QED  BY <1>2, <1>3

Follows(f, last, start, step) ==
  \A n \in 0..last : f[n] = IF n = 0 THEN start ELSE step[n][f[n - 1]]

(* A function defined by recursion on the numbers up to a bound exists.      *)
LEMMA Recursion ==
  ASSUME NEW S, NEW last \in Nat, NEW start \in S, NEW step \in [1..last -> [S -> S]]
  PROVE  \E f \in [0..last -> S] : Follows(f, last, start, step)
<1> DEFINE Defined(m) ==
             \E f \in [0..m -> S] : \A n \in 0..m : f[n] = IF n = 0 THEN start ELSE step[n][f[n - 1]]
           G == {m \in 0..last : Defined(m)}
<1>1. 0 \in G
  <2> DEFINE f == [n \in 0..0 |-> start]
  <2>1. f \in [0..0 -> S] /\ \A n \in 0..0 : f[n] = IF n = 0 THEN start ELSE step[n][f[n - 1]]  OBVIOUS
  <2> HIDE DEF f
  <2>2. Defined(0)  BY <2>1
  <2> QED  BY <2>2
<1>2. ASSUME NEW m \in 1..last, m - 1 \in G PROVE m \in G
  <2>1. PICK f \in [0..(m - 1) -> S] :
          \A n \in 0..(m - 1) : f[n] = IF n = 0 THEN start ELSE step[n][f[n - 1]]
    BY <1>2
  <2> DEFINE g == [n \in 0..m |-> IF n = m THEN step[m][f[m - 1]] ELSE f[n]]
  <2>2. f[m - 1] \in S /\ step[m][f[m - 1]] \in S  OBVIOUS
  <2>3. g \in [0..m -> S]  BY <2>2
  <2>4. ASSUME NEW n \in 0..m PROVE g[n] = IF n = 0 THEN start ELSE step[n][g[n - 1]]
    <3>1. CASE n = m
      <4>1. m # 0 /\ m - 1 \in 0..m /\ m - 1 # m  OBVIOUS
      <4> QED  BY <3>1, <4>1
    <3>2. CASE n # m
      <4>1. n \in 0..(m - 1) /\ (n # 0 => n - 1 \in 0..m /\ n - 1 # m)  BY <3>2
      <4>2. f[n] = IF n = 0 THEN start ELSE step[n][f[n - 1]]
        <5> HIDE DEF g
        <5> QED  BY <2>1, <4>1
      <4> QED  BY <3>2, <4>1, <4>2
    <3> QED  BY <3>1, <3>2
  <2> HIDE DEF g
  <2>5. Defined(m)  BY <2>3, <2>4
  <2> QED  BY <2>5
<1> HIDE DEF G
<1>3. \A m \in 0..last : m \in G  BY <1>1, <1>2, UpTo
<1>4. last \in G  BY <1>3
<1>5. Defined(last)  BY <1>4 DEF G
<1> QED  BY <1>5 DEF Follows

Obeys(c, S, last, start, step) ==
  c[0] = start /\ \A n \in 1..last : c[n - 1] \in S => c[n] = step[n][c[n - 1]]

(* What follows the same steps is the same function.                         *)
LEMMA SameSteps ==
  ASSUME NEW S, NEW last \in Nat, NEW start \in S, NEW step \in [1..last -> [S -> S]],
         NEW f \in [0..last -> S], Follows(f, last, start, step),
         NEW c, Obeys(c, S, last, start, step)
  PROVE  c[last] = f[last]
<1> DEFINE G == {n \in 0..last : c[n] = f[n]}
<1>1. 0 \in G  BY DEF Follows, Obeys
<1>2. ASSUME NEW n \in 1..last, n - 1 \in G PROVE n \in G
  <2>1. n \in 0..last /\ n # 0 /\ n - 1 \in 0..last  OBVIOUS
  <2>2. c[n - 1] = f[n - 1] /\ f[n - 1] \in S  BY <1>2, <2>1
  <2>3. c[n] = step[n][f[n - 1]]  BY <2>2 DEF Obeys
  <2>4. f[n] = step[n][f[n - 1]]
    <3> HIDE DEF G
    <3> QED  BY <2>1 DEF Follows
  <2> QED  BY <2>1, <2>3, <2>4
<1> HIDE DEF G
<1>3. \A n \in 0..last : n \in G  BY <1>1, <1>2, UpTo
<1>4. last \in G  BY <1>3
<1> QED  BY <1>4 DEF G

-----------------------------------------------------------------------------
(* What picking gives, step by step.                                         *)
LEMMA PickedUnfolds ==
  ASSUME NEW T, NEW s \in Seq(T), NEW at
  PROVE  \E f \in [0..Len(s) -> Seq(T)] :
           /\ Picked(s, at) = f[Len(s)] /\ f[0] = <<>>
           /\ \A n \in 1..Len(s) : f[n] = IF n \in at THEN Append(f[n - 1], s[n]) ELSE f[n - 1]
<1> DEFINE size == Len(s)
           step == [n \in 1..size |-> [x \in Seq(T) |-> IF n \in at THEN Append(x, s[n]) ELSE x]]
           c == CHOOSE g : g = [n \in 0..size |->
                  IF n = 0 THEN <<>> ELSE IF n \in at THEN Append(g[n - 1], s[n]) ELSE g[n - 1]]
           S == Seq(T)
           nil == <<>>
<1>1. size \in Nat /\ nil \in S /\ \A n \in 1..size : s[n] \in T  OBVIOUS
<1>2. step \in [1..size -> [S -> S]]  BY <1>1
<1>3. Picked(s, at) = c[size]  BY DEF Picked
<1>4. PICK f \in [0..size -> S] : Follows(f, size, nil, step)
  <2> HIDE DEF size, step, S, nil
  <2> QED  BY <1>1, <1>2, Recursion
<1>5. f[0] = <<>> /\ \A n \in 1..size : f[n - 1] \in S /\ f[n] = step[n][f[n - 1]]
  <2> HIDE DEF step, size, S
  <2>1. \A n \in 1..size : n \in 0..size /\ n # 0 /\ n - 1 \in 0..size  BY <1>1
  <2> QED  BY <1>1, <1>4, <2>1 DEF Follows
<1>6. ASSUME NEW n \in 1..size, NEW x \in S PROVE step[n][x] = IF n \in at THEN Append(x, s[n]) ELSE x
  OBVIOUS
<1>7. \A n \in 1..size : f[n] = IF n \in at THEN Append(f[n - 1], s[n]) ELSE f[n - 1]
  <2> HIDE DEF step, size, S
  <2> QED  BY <1>5, <1>6
<1>8. f = [n \in 0..size |-> IF n = 0 THEN <<>> ELSE IF n \in at THEN Append(f[n - 1], s[n]) ELSE f[n - 1]]
  <2> HIDE DEF step, size, S
  <2>1. f = [n \in 0..size |-> f[n]]  OBVIOUS
  <2>2. \A n \in 0..size : n # 0 => n \in 1..size  BY <1>1
  <2> QED  BY <2>1, <2>2, <1>5, <1>7
<1>9. c = [n \in 0..size |-> IF n = 0 THEN <<>> ELSE IF n \in at THEN Append(c[n - 1], s[n]) ELSE c[n - 1]]
  <2> HIDE DEF step, size, S
  <2> QED  BY <1>8
<1> HIDE DEF c
<1>10. c[size] = f[size]
  <2>1. c[0] = nil  BY <1>1, <1>9
  <2>2. ASSUME NEW n \in 1..size, c[n - 1] \in S PROVE c[n] = step[n][c[n - 1]]
    <3>1. n \in 0..size /\ n # 0  BY <1>1
    <3> HIDE DEF step, size, S
    <3>2. c[n] = IF n \in at THEN Append(c[n - 1], s[n]) ELSE c[n - 1]  BY <1>9, <3>1
    <3> QED  BY <2>2, <3>2, <1>6
  <2> HIDE DEF size, step, S, nil
  <2>3. Obeys(c, S, size, nil, step)  BY <2>1, <2>2 DEF Obeys
  <2> QED  BY <1>1, <1>2, <1>4, <2>3, SameSteps
<1> HIDE DEF step
<1> QED  BY <1>3, <1>5, <1>7, <1>10

(* Each picked element has a place of its own, and each place in the set is  *)
(* that of a picked element.                                                 *)
Places(p, s, at, n) ==
  \E place \in [1..Len(p) -> 1..n] :
    /\ \A k \in 1..Len(p) : p[k] = s[place[k]] /\ place[k] \in at
    /\ \A j, k \in 1..Len(p) : place[j] = place[k] => j = k
    /\ \A i \in 1..n : i \in at => \E k \in 1..Len(p) : place[k] = i

LEMMA PlacesAdvance ==
  ASSUME NEW T, NEW s \in Seq(T), NEW at, NEW n \in 1..Len(s), NEW p \in Seq(T), Places(p, s, at, n - 1)
  PROVE  Places(IF n \in at THEN Append(p, s[n]) ELSE p, s, at, n)
<1>1. PICK place \in [1..Len(p) -> 1..(n - 1)] :
        /\ \A k \in 1..Len(p) : p[k] = s[place[k]] /\ place[k] \in at
        /\ \A j, k \in 1..Len(p) : place[j] = place[k] => j = k
        /\ \A i \in 1..(n - 1) : i \in at => \E k \in 1..Len(p) : place[k] = i
  BY DEF Places
<1>2. n \in Nat /\ \A i \in 1..n : i \in 1..(n - 1) \/ i = n  OBVIOUS
<1>3. CASE n \notin at
  <2>1. place \in [1..Len(p) -> 1..n]  BY <1>2
  <2>2. \A i \in 1..n : i \in at => \E k \in 1..Len(p) : place[k] = i  BY <1>1, <1>2, <1>3
  <2>3. Places(p, s, at, n)  BY <1>1, <2>1, <2>2 DEF Places
  <2> QED  BY <1>3, <2>3
<1>4. CASE n \in at
  <2> DEFINE q == Append(p, s[n])
             size == Len(p) + 1
             next == [k \in 1..size |-> IF k = size THEN n ELSE place[k]]
  <2>1. size \in Nat /\ size \in 1..size /\ \A k \in 1..size : k = size \/ k \in 1..Len(p)  OBVIOUS
  <2>2. s[n] \in T  OBVIOUS
  <2>3. q \in Seq(T) /\ Len(q) = size /\ q[size] = s[n] /\ \A k \in 1..Len(p) : q[k] = p[k]
    BY <2>2, AppendProperties
  <2>4. \A k \in 1..Len(p) : k # size /\ k \in 1..size /\ place[k] \in 1..(n - 1) /\ place[k] # n /\ place[k] \in 1..n
    BY <1>2
  <2>5. next[size] = n /\ \A k \in 1..Len(p) : next[k] = place[k]  BY <2>1, <2>4
  <2>6. next \in [1..Len(q) -> 1..n]
    <3>1. n \in 1..n  BY <1>2
    <3>2. \A k \in 1..size : (IF k = size THEN n ELSE place[k]) \in 1..n  BY <2>1, <2>4, <3>1
    <3>3. next \in [1..size -> 1..n]  BY <3>2
    <3> HIDE DEF q, next, size
    <3> QED  BY <2>3, <3>3
  <2> HIDE DEF q, next, size
  <2>7. \A k \in 1..Len(q) : q[k] = s[next[k]] /\ next[k] \in at  BY <1>1, <1>4, <2>1, <2>3, <2>5
  <2>8. \A j, k \in 1..Len(q) : next[j] = next[k] => j = k  BY <1>1, <2>1, <2>3, <2>4, <2>5
  <2>9. \A i \in 1..n : i \in at => \E k \in 1..Len(q) : next[k] = i
    <3> SUFFICES ASSUME NEW i \in 1..n, i \in at PROVE \E k \in 1..Len(q) : next[k] = i  OBVIOUS
    <3>1. CASE i = n  BY <2>1, <2>3, <2>5, <3>1
    <3>2. CASE i # n
      <4>1. PICK k \in 1..Len(p) : place[k] = i  BY <1>1, <1>2, <3>2
      <4> QED  BY <2>3, <2>4, <2>5, <4>1
    <3> QED  BY <3>1, <3>2
  <2>10. Places(q, s, at, n)  BY <2>6, <2>7, <2>8, <2>9 DEF Places
  <2> QED  BY <1>4, <2>10 DEF q
<1> QED  BY <1>3, <1>4

LEMMA PickedHasPlaces ==
  ASSUME NEW T, NEW s \in Seq(T), NEW at
  PROVE  Picked(s, at) \in Seq(T) /\ Places(Picked(s, at), s, at, Len(s))
<1>1. PICK f \in [0..Len(s) -> Seq(T)] :
        /\ Picked(s, at) = f[Len(s)] /\ f[0] = <<>>
        /\ \A n \in 1..Len(s) : f[n] = IF n \in at THEN Append(f[n - 1], s[n]) ELSE f[n - 1]
  BY PickedUnfolds
<1> DEFINE G == {n \in 0..Len(s) : Places(f[n], s, at, n)}
<1>2. Len(s) \in Nat  OBVIOUS
<1>3. 0 \in G
  <2> DEFINE none == [k \in 1..0 |-> 0]
  <2>1. f[0] = <<>> /\ Len(f[0]) = 0 /\ none \in [1..0 -> 1..0]  BY <1>1
  <2>2. Places(f[0], s, at, 0)  BY <2>1 DEF Places
  <2> QED  BY <1>2, <2>2
<1>4. ASSUME NEW n \in 1..Len(s), n - 1 \in G PROVE n \in G
  <2>1. n - 1 \in 0..Len(s) /\ n \in 0..Len(s)  BY <1>2
  <2>2. f[n - 1] \in Seq(T) /\ Places(f[n - 1], s, at, n - 1)  BY <1>4, <2>1
  <2>3. Places(f[n], s, at, n)  BY <1>1, <2>2, PlacesAdvance
  <2> QED  BY <2>1, <2>3
<1> HIDE DEF G
<1>5. \A n \in 0..Len(s) : n \in G  BY <1>2, <1>3, <1>4, UpTo
<1>6. Len(s) \in 0..Len(s)  BY <1>2
<1> QED  BY <1>1, <1>5, <1>6 DEF G

LEMMA PickedIn ==
  ASSUME NEW T, NEW s \in Seq(T), NEW at
  PROVE  Picked(s, at) \in Seq(T)
BY PickedHasPlaces

(* Picking every element gives the sequence itself.                          *)
LEMMA PickedAll ==
  ASSUME NEW T, NEW s \in Seq(T)
  PROVE  Picked(s, DOMAIN s) = s
<1> DEFINE all == DOMAIN s
<1> HIDE DEF all
<1>1. PICK f \in [0..Len(s) -> Seq(T)] :
        /\ Picked(s, all) = f[Len(s)] /\ f[0] = <<>>
        /\ \A n \in 1..Len(s) : f[n] = IF n \in all THEN Append(f[n - 1], s[n]) ELSE f[n - 1]
  BY PickedUnfolds
<1> DEFINE G == {n \in 0..Len(s) : Len(f[n]) = n /\ \A k \in 1..n : f[n][k] = s[k]}
<1>2. Len(s) \in Nat /\ all = 1..Len(s)  BY DEF all
<1>3. 0 \in G  BY <1>1, <1>2
<1>4. ASSUME NEW n \in 1..Len(s), n - 1 \in G PROVE n \in G
  <2>1. n - 1 \in 0..Len(s) /\ n \in 0..Len(s) /\ s[n] \in T  BY <1>2
  <2>2. f[n - 1] \in Seq(T) /\ Len(f[n - 1]) = n - 1 /\ \A k \in 1..(n - 1) : f[n - 1][k] = s[k]  BY <1>4, <2>1
  <2>3. f[n] = Append(f[n - 1], s[n])
    <3> HIDE DEF G
    <3> QED  BY <1>1, <1>2
  <2> HIDE DEF G
  <2>4. /\ Len(f[n]) = n /\ f[n][n] = s[n]
        /\ \A k \in 1..(n - 1) : f[n][k] = s[k]
    BY <2>1, <2>2, <2>3, AppendProperties
  <2>5. \A k \in 1..n : k = n \/ k \in 1..(n - 1)  BY <2>1
  <2> QED  BY <2>1, <2>4, <2>5 DEF G
<1> HIDE DEF G
<1>5. \A n \in 0..Len(s) : n \in G  BY <1>2, <1>3, <1>4, UpTo
<1>6. Len(s) \in 0..Len(s)  BY <1>2
<1>7. /\ f[Len(s)] \in Seq(T) /\ Len(f[Len(s)]) = Len(s)
      /\ \A k \in 1..Len(s) : f[Len(s)][k] = s[k]
  BY <1>5, <1>6 DEF G
<1> DEFINE last == f[Len(s)]
<1>8. last = s
  <2>1. last \in Seq(T) /\ Len(last) = Len(s) /\ \A k \in 1..Len(s) : last[k] = s[k]  BY <1>7
  <2> HIDE DEF last
  <2> QED  BY <2>1, SeqEqual
<1> QED  BY <1>1, <1>8 DEF all

-----------------------------------------------------------------------------
(* The first value of a sequence that is not empty.                          *)
Leads(v, s) == v # None /\ \E i \in 1..Len(s) : s[i] = v /\ \A j \in 1..(i - 1) : s[j] = None

AllNone(s) == \A i \in 1..Len(s) : s[i] = None

UniqueUpTo(u, s, n) ==
  /\ \A j, k \in 1..Len(u) : u[j] = u[k] => j = k
  /\ \A k \in 1..Len(u) : u[k] # None /\ \E i \in 1..n : s[i] = u[k]
  /\ \A i \in 1..n : s[i] # None => \E k \in 1..Len(u) : u[k] = s[i]
  /\ Len(u) > 0 => \E i \in 1..n : s[i] = u[1] /\ \A j \in 1..(i - 1) : s[j] = None

LEMMA UniqueAdvances ==
  ASSUME NEW T, NEW s \in Seq(T), NEW n \in 1..Len(s), NEW u \in Seq(T), UniqueUpTo(u, s, n - 1)
  PROVE  UniqueUpTo(IF s[n] = None \/ Contains(u, s[n]) THEN u ELSE Append(u, s[n]), s, n)
<1>1. /\ n \in Nat /\ n \in 1..n /\ s[n] \in T /\ Len(u) \in Nat
      /\ \A i \in 1..n : i \in 1..(n - 1) \/ i = n
      /\ \A i \in 1..(n - 1) : i \in 1..n
  OBVIOUS
<1>2. CASE s[n] = None \/ Contains(u, s[n])
  <2>1. s[n] # None => \E k \in 1..Len(u) : u[k] = s[n]  BY <1>2 DEF Contains
  <2>2. \A i \in 1..n : s[i] # None => \E k \in 1..Len(u) : u[k] = s[i]  BY <1>1, <2>1 DEF UniqueUpTo
  <2>3. \A k \in 1..Len(u) : u[k] # None /\ \E i \in 1..n : s[i] = u[k]  BY <1>1 DEF UniqueUpTo
  <2>4. Len(u) > 0 => \E i \in 1..n : s[i] = u[1] /\ \A j \in 1..(i - 1) : s[j] = None
    BY <1>1 DEF UniqueUpTo
  <2>5. UniqueUpTo(u, s, n)  BY <2>2, <2>3, <2>4 DEF UniqueUpTo
  <2> QED  BY <1>2, <2>5
<1>3. CASE ~(s[n] = None \/ Contains(u, s[n]))
  <2> DEFINE w == Append(u, s[n])
             size == Len(u) + 1
  <2>1. size \in Nat /\ size \in 1..size /\ 1 \in 1..size /\ \A k \in 1..size : k = size \/ k \in 1..Len(u)  BY <1>1
  <2>2. \A k \in 1..Len(u) : k # size /\ k \in 1..size  BY <1>1
  <2>3. w \in Seq(T) /\ Len(w) = size /\ w[size] = s[n] /\ \A k \in 1..Len(u) : w[k] = u[k]
    BY <1>1, AppendProperties
  <2>4. \A k \in 1..Len(u) : u[k] # s[n]  BY <1>3 DEF Contains
  <2>5. s[n] # None  BY <1>3
  <2> HIDE DEF w
  <2>6. \A j, k \in 1..Len(w) : w[j] = w[k] => j = k
    <3> HIDE DEF size
    <3> SUFFICES ASSUME NEW j \in 1..size, NEW k \in 1..size, w[j] = w[k] PROVE j = k  BY <2>3
    <3>1. CASE j = size /\ k = size  BY <3>1
    <3>2. CASE j = size /\ k \in 1..Len(u)  BY <2>3, <2>4, <3>2
    <3>3. CASE k = size /\ j \in 1..Len(u)  BY <2>3, <2>4, <3>3
    <3>4. CASE j \in 1..Len(u) /\ k \in 1..Len(u)
      <4>1. u[j] = u[k]  BY <2>3, <3>4
      <4> QED  BY <3>4, <4>1 DEF UniqueUpTo
    <3> QED  BY <2>1, <3>1, <3>2, <3>3, <3>4
  <2>7. \A k \in 1..Len(w) : w[k] # None /\ \E i \in 1..n : s[i] = w[k]
    <3> HIDE DEF size
    <3>1. w[size] # None /\ s[n] = w[size]  BY <2>3, <2>5
    <3>2. ASSUME NEW k \in 1..Len(u) PROVE w[k] # None /\ \E i \in 1..n : s[i] = w[k]
      <4>1. PICK i \in 1..(n - 1) : s[i] = u[k]  BY DEF UniqueUpTo
      <4> QED  BY <1>1, <2>3, <4>1 DEF UniqueUpTo
    <3> QED  BY <1>1, <2>1, <2>3, <3>1, <3>2
  <2>8. \A i \in 1..n : s[i] # None => \E k \in 1..Len(w) : w[k] = s[i]
    <3> SUFFICES ASSUME NEW i \in 1..n, s[i] # None PROVE \E k \in 1..Len(w) : w[k] = s[i]  OBVIOUS
    <3> HIDE DEF size
    <3>1. CASE i = n  BY <2>1, <2>3, <3>1
    <3>2. CASE i # n
      <4>1. PICK k \in 1..Len(u) : u[k] = s[i]  BY <1>1, <3>2 DEF UniqueUpTo
      <4> QED  BY <2>2, <2>3, <4>1
    <3> QED  BY <3>1, <3>2
  <2>9. Len(w) > 0 => \E i \in 1..n : s[i] = w[1] /\ \A j \in 1..(i - 1) : s[j] = None
    <3>1. CASE Len(u) = 0
      <4>1. w[1] = s[n]  BY <2>3, <3>1
      <4>2. \A j \in 1..(n - 1) : s[j] = None
        <5> SUFFICES ASSUME NEW j \in 1..(n - 1), s[j] # None PROVE FALSE  OBVIOUS
        <5>1. PICK k \in 1..Len(u) : u[k] = s[j]  BY DEF UniqueUpTo
        <5> QED  BY <3>1, <5>1
      <4> QED  BY <1>1, <4>1, <4>2
    <3>2. CASE Len(u) # 0
      <4>1. 1 \in 1..Len(u) /\ Len(u) > 0  BY <1>1, <3>2
      <4>2. w[1] = u[1]  BY <2>3, <4>1
      <4> QED  BY <1>1, <4>1, <4>2 DEF UniqueUpTo
    <3> QED  BY <3>1, <3>2
  <2>10. UniqueUpTo(w, s, n)  BY <2>6, <2>7, <2>8, <2>9 DEF UniqueUpTo
  <2> QED  BY <1>3, <2>10 DEF w
<1> QED  BY <1>2, <1>3

LEMMA UniqueIsUpTo ==
  ASSUME NEW T, NEW s \in Seq(T)
  PROVE  Unique(s) \in Seq(T) /\ UniqueUpTo(Unique(s), s, Len(s))
<1> DEFINE size == Len(s)
           step == [n \in 1..size |-> [x \in Seq(T) |->
                      IF s[n] = None \/ Contains(x, s[n]) THEN x ELSE Append(x, s[n])]]
           c == CHOOSE g : g = [n \in 0..size |->
                  IF n = 0 THEN <<>>
                  ELSE LET done == g[n - 1]
                       IN  IF s[n] = None \/ Contains(done, s[n]) THEN done ELSE Append(done, s[n])]
           S == Seq(T)
           nil == <<>>
<1>1. size \in Nat /\ nil \in S /\ \A n \in 1..size : s[n] \in T  OBVIOUS
<1>2. step \in [1..size -> [S -> S]]  BY <1>1
<1>3. Unique(s) = c[size]  BY DEF Unique
<1>4. PICK f \in [0..size -> S] : Follows(f, size, nil, step)
  <2> HIDE DEF size, step, S, nil
  <2> QED  BY <1>1, <1>2, Recursion
<1>5. f[0] = <<>> /\ \A n \in 1..size : f[n - 1] \in S /\ f[n] = step[n][f[n - 1]]
  <2> HIDE DEF step, size, S
  <2>1. \A n \in 1..size : n \in 0..size /\ n # 0 /\ n - 1 \in 0..size  BY <1>1
  <2> QED  BY <1>1, <1>4, <2>1 DEF Follows
<1>6. ASSUME NEW n \in 1..size, NEW x \in S
      PROVE  step[n][x] = IF s[n] = None \/ Contains(x, s[n]) THEN x ELSE Append(x, s[n])
  OBVIOUS
<1>7. f = [n \in 0..size |->
             IF n = 0 THEN <<>>
             ELSE LET done == f[n - 1]
                  IN  IF s[n] = None \/ Contains(done, s[n]) THEN done ELSE Append(done, s[n])]
  <2> HIDE DEF step, size, S
  <2>1. f = [n \in 0..size |-> f[n]]  OBVIOUS
  <2>2. \A n \in 0..size : n # 0 => n \in 1..size  BY <1>1
  <2>3. \A n \in 1..size : f[n] = IF s[n] = None \/ Contains(f[n - 1], s[n]) THEN f[n - 1] ELSE Append(f[n - 1], s[n])
    BY <1>5, <1>6
  <2>4. f[0] = <<>>  BY <1>5
  <2> QED  BY <2>1, <2>2, <2>3, <2>4
<1>8. c = [n \in 0..size |->
             IF n = 0 THEN <<>>
             ELSE LET done == c[n - 1]
                  IN  IF s[n] = None \/ Contains(done, s[n]) THEN done ELSE Append(done, s[n])]
  <2> HIDE DEF step, size, S
  <2> QED  BY <1>7
<1> HIDE DEF c
<1>9. c[size] = f[size]
  <2>1. c[0] = nil  BY <1>1, <1>8
  <2>2. ASSUME NEW n \in 1..size, c[n - 1] \in S PROVE c[n] = step[n][c[n - 1]]
    <3>1. n \in 0..size /\ n # 0  BY <1>1
    <3> HIDE DEF step, size, S
    <3>2. c[n] = IF s[n] = None \/ Contains(c[n - 1], s[n]) THEN c[n - 1] ELSE Append(c[n - 1], s[n])  BY <1>8, <3>1
    <3> QED  BY <2>2, <3>2, <1>6
  <2> HIDE DEF size, step, S, nil
  <2>3. Obeys(c, S, size, nil, step)  BY <2>1, <2>2 DEF Obeys
  <2> QED  BY <1>1, <1>2, <1>4, <2>3, SameSteps
<1> DEFINE G == {n \in 0..size : UniqueUpTo(f[n], s, n)}
<1>10. 0 \in G
  <2>1. f[0] = <<>> /\ Len(f[0]) = 0  BY <1>5
  <2>2. UniqueUpTo(f[0], s, 0)  BY <2>1 DEF UniqueUpTo
  <2> QED  BY <1>1, <2>2
<1>11. ASSUME NEW n \in 1..size, n - 1 \in G PROVE n \in G
  <2>1. n \in 0..size  BY <1>1
  <2>2. f[n - 1] \in S /\ UniqueUpTo(f[n - 1], s, n - 1)  BY <1>5, <1>11
  <2> HIDE DEF step
  <2>3. f[n] = IF s[n] = None \/ Contains(f[n - 1], s[n]) THEN f[n - 1] ELSE Append(f[n - 1], s[n])
    BY <1>5, <1>6
  <2>4. UniqueUpTo(f[n], s, n)  BY <2>2, <2>3, UniqueAdvances
  <2> QED  BY <2>1, <2>4
<1>12. size \in G
  <2> HIDE DEF G, size
  <2>1. \A n \in 0..size : n \in G  BY <1>1, <1>10, <1>11, UpTo
  <2> QED  BY <1>1, <2>1
<1> HIDE DEF step
<1> QED  BY <1>1, <1>3, <1>4, <1>9, <1>12

(* The unique values of a sequence: each once, none empty, first the first.  *)
LEMMA UniqueIs ==
  ASSUME NEW T, NEW s \in Seq(T)
  PROVE  /\ Unique(s) \in Seq(T)
         /\ \A j, k \in 1..Len(Unique(s)) : Unique(s)[j] = Unique(s)[k] => j = k
         /\ \A k \in 1..Len(Unique(s)) : Unique(s)[k] # None /\ \E i \in 1..Len(s) : s[i] = Unique(s)[k]
         /\ Unique(s) # <<>> => Leads(Unique(s)[1], s)
         /\ Unique(s) = <<>> <=> AllNone(s)
<1> DEFINE u == Unique(s)
<1>1. u \in Seq(T) /\ UniqueUpTo(u, s, Len(s))  BY UniqueIsUpTo
<1> HIDE DEF u
<1>2. (u = <<>> <=> Len(u) = 0) /\ Len(u) \in Nat  BY <1>1
<1>3. u # <<>> => Leads(u[1], s)
  <2> SUFFICES ASSUME u # <<>> PROVE Leads(u[1], s)  OBVIOUS
  <2>1. Len(u) > 0 /\ 1 \in 1..Len(u)  BY <1>2
  <2> QED  BY <1>1, <2>1 DEF UniqueUpTo, Leads
<1>4. u = <<>> => AllNone(s)
  <2> SUFFICES ASSUME u = <<>>, NEW i \in 1..Len(s), s[i] # None PROVE FALSE  BY DEF AllNone
  <2>1. PICK k \in 1..Len(u) : u[k] = s[i]  BY <1>1 DEF UniqueUpTo
  <2> QED  BY <1>2, <2>1
<1>5. AllNone(s) => u = <<>>
  <2> SUFFICES ASSUME AllNone(s), u # <<>> PROVE FALSE  OBVIOUS
  <2>1. Leads(u[1], s)  BY <1>3
  <2> QED  BY <2>1 DEF Leads, AllNone
<1>6. \A j, k \in 1..Len(u) : u[j] = u[k] => j = k  BY <1>1 DEF UniqueUpTo
<1>7. \A k \in 1..Len(u) : u[k] # None /\ \E i \in 1..Len(s) : s[i] = u[k]  BY <1>1 DEF UniqueUpTo
<1> QED  BY <1>1, <1>3, <1>4, <1>5, <1>6, <1>7 DEF u

-----------------------------------------------------------------------------
(* Sequences put together.                                                   *)
LEMMA ConcatOf ==
  ASSUME NEW T, NEW a \in Seq(T), NEW b \in Seq(T)
  PROVE  /\ a \o b \in Seq(T) /\ Len(a \o b) = Len(a) + Len(b)
         /\ \A i \in 1..Len(a) : (a \o b)[i] = a[i]
         /\ \A i \in 1..Len(b) : (a \o b)[Len(a) + i] = b[i]
         /\ Len(a) \in Nat /\ Len(b) \in Nat
         /\ \A i \in 1..(Len(a) + Len(b)) : i \in 1..Len(a) \/ \E j \in 1..Len(b) : i = Len(a) + j
<1>1. Len(a) \in Nat /\ Len(b) \in Nat  OBVIOUS
<1>2. /\ a \o b \in Seq(T) /\ Len(a \o b) = Len(a) + Len(b)
      /\ \A i \in 1..(Len(a) + Len(b)) : (a \o b)[i] = IF i <= Len(a) THEN a[i] ELSE b[i - Len(a)]
  BY ConcatProperties
<1>3. \A i \in 1..Len(a) : i \in 1..(Len(a) + Len(b)) /\ i <= Len(a)  BY <1>1
<1>4. \A i \in 1..Len(b) : Len(a) + i \in 1..(Len(a) + Len(b)) /\ ~(Len(a) + i <= Len(a)) /\ Len(a) + i - Len(a) = i
  BY <1>1
<1>5. \A i \in 1..(Len(a) + Len(b)) : i \in 1..Len(a) \/ \E j \in 1..Len(b) : i = Len(a) + j
  <2> SUFFICES ASSUME NEW i \in 1..(Len(a) + Len(b)), i \notin 1..Len(a) PROVE \E j \in 1..Len(b) : i = Len(a) + j
    OBVIOUS
  <2>1. i - Len(a) \in 1..Len(b) /\ i = Len(a) + (i - Len(a))  BY <1>1
  <2> QED  BY <2>1
<1> QED  BY <1>1, <1>2, <1>3, <1>4, <1>5

(* c is a followed by b.                                                     *)
Adjoins(c, a, b, T) ==
  /\ c \in Seq(T) /\ Len(c) = Len(a) + Len(b)
  /\ \A i \in 1..Len(a) : c[i] = a[i]
  /\ \A i \in 1..Len(b) : c[Len(a) + i] = b[i]

LEMMA ConcatAdjoins ==
  ASSUME NEW T, NEW a \in Seq(T), NEW b \in Seq(T)
  PROVE  Adjoins(a \o b, a, b, T)
BY ConcatOf DEF Adjoins

LEMMA LeadsConcat ==
  ASSUME NEW T, NEW a \in Seq(T), NEW b \in Seq(T), NEW v
  PROVE  /\ Leads(v, a) => Leads(v, a \o b)
         /\ AllNone(a) /\ Leads(v, b) => Leads(v, a \o b)
         /\ Leads(v, a \o b) => Leads(v, a) \/ (AllNone(a) /\ Leads(v, b))
<1> DEFINE s == a \o b
<1>1. /\ s \in Seq(T) /\ Len(s) = Len(a) + Len(b)
      /\ \A i \in 1..Len(a) : s[i] = a[i]
      /\ \A i \in 1..Len(b) : s[Len(a) + i] = b[i]
      /\ Len(a) \in Nat /\ Len(b) \in Nat
      /\ \A i \in 1..(Len(a) + Len(b)) : i \in 1..Len(a) \/ \E j \in 1..Len(b) : i = Len(a) + j
  BY ConcatOf
<1> HIDE DEF s
<1>2. /\ \A i \in 1..Len(a) : i \in 1..Len(s) /\ \A j \in 1..(i - 1) : j \in 1..Len(a)
      /\ \A i \in 1..Len(b) : Len(a) + i \in 1..Len(s) /\ \A j \in 1..(Len(a) + i - 1) :
            j \in 1..Len(a) \/ \E k \in 1..(i - 1) : j = Len(a) + k
      /\ \A i \in 1..Len(b) : \A k \in 1..(i - 1) : k \in 1..Len(b) /\ Len(a) + k \in 1..(Len(a) + i - 1)
      /\ \A i \in 1..Len(b) : \A k \in 1..Len(a) : k \in 1..(Len(a) + i - 1)
  <2>1. \A i \in 1..Len(b) : \A j \in 1..(Len(a) + i - 1) : j \in 1..Len(a) \/ \E k \in 1..(i - 1) : j = Len(a) + k
    <3> SUFFICES ASSUME NEW i \in 1..Len(b), NEW j \in 1..(Len(a) + i - 1), j \notin 1..Len(a)
                 PROVE  \E k \in 1..(i - 1) : j = Len(a) + k
      OBVIOUS
    <3>1. j - Len(a) \in 1..(i - 1) /\ j = Len(a) + (j - Len(a))  BY <1>1
    <3> QED  BY <3>1
  <2>2. /\ \A i \in 1..Len(a) : i \in 1..Len(s) /\ \A j \in 1..(i - 1) : j \in 1..Len(a)
        /\ \A i \in 1..Len(b) : Len(a) + i \in 1..Len(s)
    BY <1>1
  <2>3. \A i \in 1..Len(b) : \A k \in 1..(i - 1) : k \in 1..Len(b) /\ Len(a) + k \in 1..(Len(a) + i - 1)  BY <1>1
  <2>4. \A i \in 1..Len(b) : \A k \in 1..Len(a) : k \in 1..(Len(a) + i - 1)  BY <1>1
  <2> QED  BY <2>1, <2>2, <2>3, <2>4
<1>3. ASSUME Leads(v, a) PROVE Leads(v, s)
  <2>1. PICK i \in 1..Len(a) : a[i] = v /\ \A j \in 1..(i - 1) : a[j] = None  BY <1>3 DEF Leads
  <2>2. \A j \in 1..(i - 1) : s[j] = None  BY <1>1, <1>2, <2>1
  <2> QED  BY <1>1, <1>2, <1>3, <2>1, <2>2 DEF Leads
<1>4. ASSUME AllNone(a), Leads(v, b) PROVE Leads(v, s)
  <2>1. PICK i \in 1..Len(b) : b[i] = v /\ \A j \in 1..(i - 1) : b[j] = None  BY <1>4 DEF Leads
  <2>2. ASSUME NEW j \in 1..(Len(a) + i - 1) PROVE s[j] = None
    <3>1. CASE j \in 1..Len(a)  BY <1>1, <1>4, <3>1 DEF AllNone
    <3>2. CASE j \notin 1..Len(a)
      <4>1. PICK k \in 1..(i - 1) : j = Len(a) + k  BY <1>2, <3>2
      <4> QED  BY <1>1, <1>2, <2>1, <4>1
    <3> QED  BY <3>1, <3>2
  <2>3. Len(a) + i \in 1..Len(s) /\ s[Len(a) + i] = v  BY <1>1, <1>2, <2>1
  <2> QED  BY <1>4, <2>2, <2>3 DEF Leads
<1>5. ASSUME Leads(v, s) PROVE Leads(v, a) \/ (AllNone(a) /\ Leads(v, b))
  <2>1. PICK i \in 1..Len(s) : s[i] = v /\ \A j \in 1..(i - 1) : s[j] = None  BY <1>5 DEF Leads
  <2>2. v # None  BY <1>5 DEF Leads
  <2>3. CASE i \in 1..Len(a)
    <3>1. a[i] = v /\ \A j \in 1..(i - 1) : a[j] = None  BY <1>1, <1>2, <2>1, <2>3
    <3> QED  BY <2>2, <2>3, <3>1 DEF Leads
  <2>4. CASE i \notin 1..Len(a)
    <3>1. PICK j \in 1..Len(b) : i = Len(a) + j  BY <1>1, <2>4
    <3>2. b[j] = v  BY <1>1, <2>1, <3>1
    <3>3. \A k \in 1..(j - 1) : b[k] = None
      <4> SUFFICES ASSUME NEW k \in 1..(j - 1) PROVE b[k] = None  OBVIOUS
      <4>1. k \in 1..Len(b) /\ Len(a) + k \in 1..(i - 1)  BY <1>2, <3>1
      <4> QED  BY <1>1, <2>1, <4>1
    <3>4. AllNone(a)
      <4> SUFFICES ASSUME NEW k \in 1..Len(a) PROVE a[k] = None  BY DEF AllNone
      <4>1. k \in 1..(i - 1)  BY <1>2, <3>1
      <4> QED  BY <1>1, <2>1, <4>1
    <3> QED  BY <2>2, <3>2, <3>3, <3>4 DEF Leads
  <2> QED  BY <2>3, <2>4
<1> QED  BY <1>3, <1>4, <1>5 DEF s

LEMMA BlankConcat ==
  ASSUME NEW T, NEW a \in Seq(T), NEW b \in Seq(T)
  PROVE  AllNone(a \o b) <=> AllNone(a) /\ AllNone(b)
<1>1. /\ a \o b \in Seq(T) /\ Len(a \o b) = Len(a) + Len(b)
      /\ \A i \in 1..Len(a) : (a \o b)[i] = a[i]
      /\ \A i \in 1..Len(b) : (a \o b)[Len(a) + i] = b[i]
      /\ Len(a) \in Nat /\ Len(b) \in Nat
      /\ \A i \in 1..(Len(a) + Len(b)) : i \in 1..Len(a) \/ \E j \in 1..Len(b) : i = Len(a) + j
  BY ConcatOf
<1> DEFINE s == a \o b
<1> HIDE DEF s
<1>2. /\ \A i \in 1..Len(a) : i \in 1..(Len(a) + Len(b))
      /\ \A i \in 1..Len(b) : Len(a) + i \in 1..(Len(a) + Len(b))
  BY <1>1
<1>3. ASSUME AllNone(s) PROVE AllNone(a) /\ AllNone(b)  BY <1>1, <1>2, <1>3 DEF AllNone, s
<1>4. ASSUME AllNone(a), AllNone(b) PROVE AllNone(s)
  <2> SUFFICES ASSUME NEW i \in 1..Len(s) PROVE s[i] = None  BY DEF AllNone
  <2> QED  BY <1>1, <1>4 DEF AllNone, s
<1> QED  BY <1>3, <1>4 DEF s

LEMMA LeadsOnce ==
  ASSUME NEW T, NEW s \in Seq(T), NEW v, NEW w, Leads(v, s), Leads(w, s)
  PROVE  v = w
<1>1. PICK i \in 1..Len(s) : s[i] = v /\ \A j \in 1..(i - 1) : s[j] = None  BY DEF Leads
<1>2. PICK k \in 1..Len(s) : s[k] = w /\ \A j \in 1..(k - 1) : s[j] = None  BY DEF Leads
<1>3. v # None /\ w # None  BY DEF Leads
<1>4. i \in Nat /\ k \in Nat /\ (i < k => i \in 1..(k - 1)) /\ (k < i => k \in 1..(i - 1))  OBVIOUS
<1> QED  BY <1>1, <1>2, <1>3, <1>4

LEMMA NotLedBlank ==
  ASSUME NEW T, NEW s \in Seq(T), NEW v, Leads(v, s)
  PROVE  ~AllNone(s)
BY DEF Leads, AllNone

LEMMA FlattenUnfolds ==
  ASSUME NEW T, NEW ss \in Seq(Seq(T))
  PROVE  \E f \in [0..Len(ss) -> Seq(T)] :
           /\ FlattenSeq(ss) = f[Len(ss)] /\ f[0] = <<>>
           /\ \A n \in 1..Len(ss) : f[n] = f[n - 1] \o ss[n]
<1> DEFINE size == Len(ss)
           S == Seq(T)
           nil == <<>>
           step == [n \in 1..size |-> [x \in S |-> IF n = 1 THEN ss[n] ELSE x \o ss[n]]]
           c == CHOOSE g : g = [i \in 1..size |-> IF i = 1 THEN ss[i] ELSE g[i - 1] \o ss[i]]
<1>1. size \in Nat /\ nil \in S /\ \A n \in 1..size : ss[n] \in S  OBVIOUS
<1>2. step \in [1..size -> [S -> S]]
  <2> SUFFICES ASSUME NEW n \in 1..size, NEW x \in S PROVE (IF n = 1 THEN ss[n] ELSE x \o ss[n]) \in S
    OBVIOUS
  <2> QED  BY <1>1
<1>3. FlattenSeq(ss) = IF size = 0 THEN ss ELSE c[size]  BY DEF FlattenSeq
<1>4. PICK f \in [0..size -> S] : Follows(f, size, nil, step)
  <2> HIDE DEF size, step, S, nil
  <2> QED  BY <1>1, <1>2, Recursion
<1>5. f[0] = <<>> /\ \A n \in 1..size : f[n - 1] \in S /\ f[n] = step[n][f[n - 1]]
  <2> HIDE DEF step, size, S
  <2>1. \A n \in 1..size : n \in 0..size /\ n # 0 /\ n - 1 \in 0..size  BY <1>1
  <2> QED  BY <1>1, <1>4, <2>1 DEF Follows
<1>6. ASSUME NEW n \in 1..size, NEW x \in S PROVE step[n][x] = IF n = 1 THEN ss[n] ELSE x \o ss[n]
  OBVIOUS
<1>7. \A n \in 1..size : f[n] = IF n = 1 THEN ss[n] ELSE f[n - 1] \o ss[n]
  <2> HIDE DEF step, size, S
  <2> QED  BY <1>5, <1>6
<1>8. \A n \in 1..size : f[n] = f[n - 1] \o ss[n]
  <2> SUFFICES ASSUME NEW n \in 1..size PROVE f[n] = f[n - 1] \o ss[n]  OBVIOUS
  <2>1. n = 1 => f[n - 1] = <<>>  BY <1>5
  <2>2. ss[n] \in Seq(T)  BY <1>1
  <2>3. <<>> \o ss[n] = ss[n]  BY <2>2, ConcatEmptySeq
  <2> QED  BY <1>7, <2>1, <2>3
<1>9. ASSUME size = 0 PROVE FlattenSeq(ss) = f[size]
  <2>1. ss = <<>>  BY <1>9
  <2> HIDE DEF size, c
  <2> QED  BY <1>3, <1>5, <1>9, <2>1
<1>10. ASSUME size # 0 PROVE FlattenSeq(ss) = f[size]
  <2> DEFINE rest == [i \in 1..size |-> f[i]]
  <2>1. \A i \in 1..size : i # 1 => i - 1 \in 1..size  BY <1>1
  <2>2. rest = [i \in 1..size |-> IF i = 1 THEN ss[i] ELSE rest[i - 1] \o ss[i]]
    <3> HIDE DEF size, step, S, c
    <3> QED  BY <1>7, <2>1
  <2> HIDE DEF rest
  <2>3. c = [i \in 1..size |-> IF i = 1 THEN ss[i] ELSE c[i - 1] \o ss[i]]
    <3> HIDE DEF size, step, S
    <3> QED  BY <2>2
  <2> HIDE DEF c
  <2> DEFINE d == [i \in 0..size |-> IF i = 0 THEN nil ELSE c[i]]
  <2>4. d[0] = nil /\ d[size] = c[size]  BY <1>1, <1>10
  <2>5. ASSUME NEW n \in 1..size, d[n - 1] \in S PROVE d[n] = step[n][d[n - 1]]
    <3>1. n \in 0..size /\ n # 0 /\ n - 1 \in 0..size /\ (n # 1 => n - 1 # 0)  BY <1>1
    <3>2. d[n] = c[n] /\ (n # 1 => d[n - 1] = c[n - 1])  BY <3>1
    <3> HIDE DEF step, size, S, d
    <3>3. c[n] = IF n = 1 THEN ss[n] ELSE c[n - 1] \o ss[n]  BY <2>3
    <3> QED  BY <2>5, <3>2, <3>3, <1>6
  <2> HIDE DEF d
  <2>6. d[size] = f[size]
    <3> HIDE DEF size, step, S, nil
    <3>1. Obeys(d, S, size, nil, step)  BY <2>4, <2>5 DEF Obeys
    <3>2. size \in Nat /\ nil \in S /\ step \in [1..size -> [S -> S]] /\ f \in [0..size -> S]  BY <1>1, <1>2
    <3> QED  BY <1>4, <3>1, <3>2, SameSteps
  <2> HIDE DEF size
  <2> QED  BY <1>3, <1>10, <2>4, <2>6
<1>11. FlattenSeq(ss) = f[Len(ss)] /\ f[0] = <<>>
  <2> HIDE DEF step, c
  <2> QED  BY <1>5, <1>9, <1>10
<1>12. f \in [0..Len(ss) -> Seq(T)]  OBVIOUS
<1>13. \A n \in 1..Len(ss) : f[n] = f[n - 1] \o ss[n]  BY <1>8
<1> HIDE DEF step, c
<1> QED  BY <1>11, <1>12, <1>13

(* What is put together is empty where all parts are, and led by a part.     *)
LEMMA FlattenIs ==
  ASSUME NEW T, NEW ss \in Seq(Seq(T))
  PROVE  /\ FlattenSeq(ss) \in Seq(T)
         /\ AllNone(FlattenSeq(ss)) => \A k \in 1..Len(ss) : AllNone(ss[k])
         /\ \A v : Leads(v, FlattenSeq(ss)) => \E k \in 1..Len(ss) : Leads(v, ss[k])
<1>1. PICK f \in [0..Len(ss) -> Seq(T)] :
        /\ FlattenSeq(ss) = f[Len(ss)] /\ f[0] = <<>>
        /\ \A n \in 1..Len(ss) : f[n] = f[n - 1] \o ss[n]
  BY FlattenUnfolds
<1> DEFINE size == Len(ss)
           G == {n \in 0..size : /\ AllNone(f[n]) => \A k \in 1..n : AllNone(ss[k])
                                 /\ \A v : Leads(v, f[n]) => \E k \in 1..n : Leads(v, ss[k])}
<1>2. size \in Nat /\ \A n \in 1..size : ss[n] \in Seq(T)  OBVIOUS
<1>3. 0 \in G
  <2>1. f[0] = <<>> /\ Len(f[0]) = 0  BY <1>1
  <2>2. \A v : ~Leads(v, f[0])  BY <2>1 DEF Leads
  <2> QED  BY <1>2, <2>2
<1>4. ASSUME NEW n \in 1..size, n - 1 \in G PROVE n \in G
  <2>1. n \in 0..size /\ n - 1 \in 0..size /\ n \in 1..n /\ \A k \in 1..n : k = n \/ k \in 1..(n - 1)  BY <1>2
  <2>2. \A k \in 1..(n - 1) : k \in 1..n  BY <1>2
  <2>3. f[n - 1] \in Seq(T) /\ ss[n] \in Seq(T) /\ f[n] = f[n - 1] \o ss[n]
    <3> HIDE DEF G
    <3> QED  BY <1>1, <1>2, <2>1
  <2>4. /\ AllNone(f[n - 1]) => \A k \in 1..(n - 1) : AllNone(ss[k])
        /\ \A v : Leads(v, f[n - 1]) => \E k \in 1..(n - 1) : Leads(v, ss[k])
    BY <1>4
  <2> HIDE DEF G, size
  <2>5. AllNone(f[n]) => \A k \in 1..n : AllNone(ss[k])  BY <2>1, <2>3, <2>4, BlankConcat
  <2>6. ASSUME NEW v, Leads(v, f[n]) PROVE \E k \in 1..n : Leads(v, ss[k])
    <3>1. Leads(v, f[n - 1]) \/ Leads(v, ss[n])  BY <2>3, <2>6, LeadsConcat
    <3> QED  BY <2>1, <2>2, <2>4, <3>1
  <2> QED  BY <2>1, <2>5, <2>6 DEF G
<1>5. size \in G
  <2> HIDE DEF G, size
  <2>1. \A n \in 0..size : n \in G  BY <1>2, <1>3, <1>4, UpTo
  <2> QED  BY <1>2, <2>1
<1>6. f[size] \in Seq(T)  BY <1>2
<1> QED  BY <1>1, <1>5, <1>6

-----------------------------------------------------------------------------
(* Sorting moves the observations and neither adds nor drops one.            *)
LEMMA InsertedIs ==
  ASSUME NEW T, NEW s \in Seq(T), NEW e \in T, NEW p \in 0..Len(s)
  PROVE  /\ InsertAt(s, p + 1, e) \in Seq(T)
         /\ Len(InsertAt(s, p + 1, e)) = Len(s) + 1
         /\ \A k \in 1..(Len(s) + 1) :
              InsertAt(s, p + 1, e)[k] = IF k <= p THEN s[k] ELSE IF k = p + 1 THEN e ELSE s[k - 1]
<1> DEFINE head == SubSeq(s, 1, p)
           tail == SubSeq(s, p + 1, Len(s))
           all == (head \o <<e>>) \o tail
<1>1. Len(s) \in Nat /\ p \in Nat /\ p <= Len(s)  OBVIOUS
<1>2. InsertAt(s, p + 1, e) = all
  <2>1. p + 1 - 1 = p  BY <1>1
  <2> DEFINE q == p + 1
  <2>2. q - 1 = p  BY <2>1
  <2>3. all = (SubSeq(s, 1, p) \o <<e>>) \o SubSeq(s, q, Len(s))  OBVIOUS
  <2> HIDE DEF q, all, head, tail
  <2>4. InsertAt(s, q, e) = all  BY Zenon, <2>2, <2>3 DEF InsertAt
  <2> QED  BY <2>4 DEF q
<1>3. head \in Seq(T) /\ Len(head) = p /\ \A k \in 1..p : head[k] = s[k]
  <2>1. \A k \in 1..p : s[k] \in T  BY <1>1
  <2>2. head \in Seq(T)  BY <1>1, <2>1
  <2>3. Len(head) = p  BY <1>1
  <2>4. \A k \in 1..p : head[k] = s[k]  BY <1>1
  <2> QED  BY <2>2, <2>3, <2>4
<1>4. tail \in Seq(T) /\ Len(tail) = Len(s) - p /\ \A k \in 1..(Len(s) - p) : tail[k] = s[p + k]
  <2>1. \A k \in (p + 1)..Len(s) : s[k] \in T  BY <1>1
  <2>2. tail \in Seq(T)  BY <1>1, <2>1
  <2>3. Len(tail) = Len(s) - p  BY <1>1
  <2>4. \A k \in 1..(Len(s) - p) : tail[k] = s[p + k]  BY <1>1
  <2> QED  BY <2>2, <2>3, <2>4
<1> HIDE DEF head, tail
<1>5. /\ head \o <<e>> \in Seq(T) /\ Len(head \o <<e>>) = p + 1 /\ (head \o <<e>>)[p + 1] = e
      /\ \A k \in 1..p : (head \o <<e>>)[k] = s[k]
  <2>1. <<e>> \in Seq(T) /\ Len(<<e>>) = 1 /\ <<e>>[1] = e /\ 1 \in 1..1  OBVIOUS
  <2> QED  BY <1>1, <1>3, <2>1, ConcatOf
<1> DEFINE front == head \o <<e>>
<1>6. front \in Seq(T) /\ Len(front) = p + 1 /\ front[p + 1] = e /\ \A k \in 1..p : front[k] = s[k]  BY <1>5
<1>7. all = front \o tail  OBVIOUS
<1> HIDE DEF front, all
<1>8. /\ all \in Seq(T) /\ Len(all) = Len(s) + 1
      /\ \A k \in 1..(p + 1) : all[k] = front[k]
      /\ \A k \in 1..(Len(s) - p) : all[p + 1 + k] = s[p + k]
  <2>1. Len(tail) = Len(s) - p /\ tail \in Seq(T)  BY <1>4
  <2>2. /\ all \in Seq(T) /\ Len(all) = Len(front) + Len(tail)
        /\ \A k \in 1..Len(front) : all[k] = front[k]
        /\ \A k \in 1..Len(tail) : all[Len(front) + k] = tail[k]
    <3>1. front \in Seq(T)  BY <1>6
    <3> HIDE DEF all, front, tail
    <3>2. Adjoins(front \o tail, front, tail, T)  BY <3>1, <2>1, ConcatAdjoins
    <3>3. Adjoins(all, front, tail, T)  BY <1>7, <3>2
    <3> QED  BY <3>3 DEF Adjoins
  <2>3. Len(all) = Len(s) + 1  BY <1>1, <1>6, <2>1, <2>2
  <2>4. \A k \in 1..(Len(s) - p) : all[p + 1 + k] = s[p + k]  BY <1>4, <1>6, <2>1, <2>2
  <2> QED  BY <1>6, <2>2, <2>3, <2>4
<1>9. ASSUME NEW k \in 1..(Len(s) + 1)
      PROVE  all[k] = IF k <= p THEN s[k] ELSE IF k = p + 1 THEN e ELSE s[k - 1]
  <2>1. CASE k <= p
    <3>1. k \in 1..p /\ k \in 1..(p + 1)  BY <1>1, <2>1
    <3> QED  BY <1>6, <1>8, <2>1, <3>1
  <2>2. CASE k = p + 1
    <3>1. k \in 1..(p + 1) /\ ~(k <= p)  BY <1>1, <2>2
    <3> QED  BY <1>6, <1>8, <2>2, <3>1
  <2>3. CASE k > p + 1
    <3>1. k - (p + 1) \in 1..(Len(s) - p) /\ p + 1 + (k - (p + 1)) = k /\ p + (k - (p + 1)) = k - 1  BY <1>1, <2>3
    <3>2. all[p + 1 + (k - (p + 1))] = s[p + (k - (p + 1))]  BY <1>8, <3>1
    <3>3. ~(k <= p) /\ k # p + 1  BY <1>1, <2>3
    <3> QED  BY <3>1, <3>2, <3>3
  <2>4. k <= p \/ k = p + 1 \/ k > p + 1  BY <1>1
  <2> QED  BY <2>1, <2>2, <2>3, <2>4
<1> QED  BY <1>2, <1>8, <1>9

Inserted(sorted, o) ==
  InsertAt(sorted, Cardinality({k \in DOMAIN sorted : ~Precedes(SortKey(o), SortKey(sorted[k]))}) + 1, o)

LEMMA InsertedSomewhere ==
  ASSUME NEW T, NEW s \in Seq(T), NEW e \in T
  PROVE  \E p \in 0..Len(s) : Inserted(s, e) = InsertAt(s, p + 1, e)
<1> DEFINE before == {k \in DOMAIN s : ~Precedes(SortKey(e), SortKey(s[k]))}
<1>1. Len(s) \in Nat /\ DOMAIN s = 1..Len(s)  OBVIOUS
<1>2. before \subseteq 1..Len(s)  BY <1>1
<1>3. Inserted(s, e) = InsertAt(s, Cardinality(before) + 1, e)  BY DEF Inserted
<1> HIDE DEF before
<1>4. IsFiniteSet(1..Len(s)) /\ Cardinality(1..Len(s)) = Len(s)
  <2> DEFINE m == Len(s)
  <2>1. 1 \in Int /\ m \in Int /\ m - 1 + 1 = m /\ m >= 0  BY <1>1
  <2> HIDE DEF m
  <2>2. IsFiniteSet(1..m) /\ Cardinality(1..m) = IF 1 > m THEN 0 ELSE m - 1 + 1  BY <2>1, FS_Interval
  <2>3. 1 > m => m = 0  BY <2>1
  <2>4. Cardinality(1..m) = m  BY <2>1, <2>2, <2>3
  <2> QED  BY <2>2, <2>4 DEF m
<1>5. Cardinality(before) \in Nat /\ Cardinality(before) <= Len(s)
  BY <1>2, <1>4, FS_Subset, FS_CardinalityType
<1> QED  BY <1>1, <1>3, <1>5

Arranged(r, s, n) ==
  /\ Len(r) = n
  /\ \E place \in [1..n -> 1..n] :
       /\ \A k \in 1..n : r[k] = s[place[k]]
       /\ \A j, k \in 1..n : place[j] = place[k] => j = k

(* Places that differ are all the places.                                    *)
LEMMA Permuted ==
  ASSUME NEW n \in Nat, NEW place \in [1..n -> 1..n], \A j, k \in 1..n : place[j] = place[k] => j = k
  PROVE  \A k \in 1..n : \E j \in 1..n : place[j] = k
<1> DEFINE S == 1..n
<1>1. place \in [S -> S] /\ \A j, k \in S : place[j] = place[k] => j = k  OBVIOUS
<1>2. IsFiniteSet(S)
  <2>1. 1 \in Int /\ n \in Int  OBVIOUS
  <2> QED  BY <2>1, FS_Interval
<1> HIDE DEF S
<1>3. place \in Injection(S, S)  BY <1>1 DEF Injection, IsInjective
<1>4. place \in Surjection(S, S)  BY <1>2, <1>3, FS_Injection
<1>5. \A k \in S : \E j \in S : place[j] = k  BY <1>4 DEF Surjection
<1> QED  BY <1>5 DEF S

LEMMA PlacesAreBelow ==
  ASSUME NEW n \in Nat, NEW place \in [1..(n - 1) -> 1..(n - 1)], NEW k \in 1..(n - 1)
  PROVE  place[k] \in 1..(n - 1) /\ place[k] \in 1..n /\ place[k] # n
OBVIOUS

LEMMA NextPlace ==
  ASSUME NEW n, NEW p, NEW place, NEW k \in 1..n
  PROVE  [j \in 1..n |-> IF j <= p THEN place[j] ELSE IF j = p + 1 THEN n ELSE place[j - 1]][k]
           = IF k <= p THEN place[k] ELSE IF k = p + 1 THEN n ELSE place[k - 1]
OBVIOUS

LEMMA ArrangedAdvances ==
  ASSUME NEW T, NEW s \in Seq(T), NEW n \in 1..Len(s), NEW r \in Seq(T), Arranged(r, s, n - 1)
  PROVE  Inserted(r, s[n]) \in Seq(T) /\ Arranged(Inserted(r, s[n]), s, n)
<1>1. s[n] \in T /\ n \in Nat /\ n - 1 \in Nat /\ Len(r) = n - 1  BY DEF Arranged
<1>2. PICK p \in 0..Len(r) : Inserted(r, s[n]) = InsertAt(r, p + 1, s[n])  BY <1>1, InsertedSomewhere
<1> DEFINE q == Inserted(r, s[n])
<1>3. /\ q \in Seq(T) /\ Len(q) = n
      /\ \A k \in 1..n : q[k] = IF k <= p THEN r[k] ELSE IF k = p + 1 THEN s[n] ELSE r[k - 1]
  <2>1. Len(r) + 1 = n  BY <1>1
  <2> DEFINE w == InsertAt(r, p + 1, s[n])
  <2>2. q = w  BY <1>2
  <2>3. /\ w \in Seq(T) /\ Len(w) = Len(r) + 1
        /\ \A k \in 1..(Len(r) + 1) : w[k] = IF k <= p THEN r[k] ELSE IF k = p + 1 THEN s[n] ELSE r[k - 1]
    <3> DEFINE e == s[n]
    <3>1. e \in T  BY <1>1
    <3> HIDE DEF e
    <3>2. /\ InsertAt(r, p + 1, e) \in Seq(T) /\ Len(InsertAt(r, p + 1, e)) = Len(r) + 1
          /\ \A k \in 1..(Len(r) + 1) :
               InsertAt(r, p + 1, e)[k] = IF k <= p THEN r[k] ELSE IF k = p + 1 THEN e ELSE r[k - 1]
      BY <3>1, InsertedIs
    <3> QED  BY <3>2 DEF e
  <2> HIDE DEF w, q
  <2> QED  BY <2>1, <2>2, <2>3
<1> HIDE DEF q
<1>4. PICK place \in [1..(n - 1) -> 1..(n - 1)] :
        /\ \A k \in 1..(n - 1) : r[k] = s[place[k]]
        /\ \A j, k \in 1..(n - 1) : place[j] = place[k] => j = k
  BY DEF Arranged
<1> DEFINE next == [k \in 1..n |-> IF k <= p THEN place[k] ELSE IF k = p + 1 THEN n ELSE place[k - 1]]
<1>5. p \in Nat /\ p <= n - 1  BY <1>1
<1>6. \A k \in 1..n : \/ k <= p /\ k \in 1..(n - 1)
                      \/ ~(k <= p) /\ k = p + 1
                      \/ ~(k <= p) /\ k # p + 1 /\ k - 1 \in 1..(n - 1) /\ ~(k - 1 <= p)
  <2> SUFFICES ASSUME NEW k \in 1..n
               PROVE  \/ k <= p /\ k \in 1..(n - 1)
                      \/ ~(k <= p) /\ k = p + 1
                      \/ ~(k <= p) /\ k # p + 1 /\ k - 1 \in 1..(n - 1) /\ ~(k - 1 <= p)
    OBVIOUS
  <2>1. CASE k <= p  BY <1>1, <1>5, <2>1
  <2>2. CASE k = p + 1  BY <1>1, <1>5, <2>2
  <2>3. CASE k > p + 1  BY <1>1, <1>5, <2>3
  <2>4. k <= p \/ k = p + 1 \/ k > p + 1  BY <1>5
  <2> QED  BY <2>1, <2>2, <2>3, <2>4
<1>7. \A k \in 1..(n - 1) : place[k] \in 1..(n - 1) /\ place[k] \in 1..n /\ place[k] # n
  BY <1>1, PlacesAreBelow
<1>8. \A k \in 1..n : next[k] = IF k <= p THEN place[k] ELSE IF k = p + 1 THEN n ELSE place[k - 1]
  BY NextPlace
<1>9. next \in [1..n -> 1..n]
  <2>1. n \in 1..n  BY <1>1
  <2> QED  BY <1>6, <1>7, <2>1
<1> HIDE DEF next
<1>10. ASSUME NEW k \in 1..n PROVE q[k] = s[next[k]]
  <2>1. CASE k <= p /\ k \in 1..(n - 1)  BY <1>3, <1>4, <1>8, <2>1
  <2>2. CASE ~(k <= p) /\ k = p + 1  BY <1>3, <1>8, <2>2
  <2>3. CASE ~(k <= p) /\ k # p + 1 /\ k - 1 \in 1..(n - 1)
    <3>1. r[k - 1] = s[place[k - 1]]  BY <1>4, <2>3
    <3>2. q[k] = r[k - 1]  BY <1>3, <2>3
    <3>3. next[k] = place[k - 1]  BY <1>8, <2>3
    <3> QED  BY <3>1, <3>2, <3>3
  <2> QED  BY <1>6, <2>1, <2>2, <2>3
<1>11. ASSUME NEW j \in 1..n, NEW k \in 1..n, next[j] = next[k] PROVE j = k
  <2>1. j \in Int /\ k \in Int  OBVIOUS
  <2>2. CASE j = p + 1
    <3>1. next[j] = n  BY <1>5, <1>8, <2>2
    <3> QED  BY <1>6, <1>7, <1>8, <1>11, <2>2, <3>1
  <2>3. CASE k = p + 1
    <3>1. next[k] = n  BY <1>5, <1>8, <2>3
    <3> QED  BY <1>6, <1>7, <1>8, <1>11, <2>3, <3>1
  <2>4. CASE j # p + 1 /\ k # p + 1
    <3> DEFINE from(i) == IF i <= p THEN i ELSE i - 1
    <3>1. from(j) \in 1..(n - 1) /\ next[j] = place[from(j)]  BY <1>6, <1>8, <2>4
    <3>2. from(k) \in 1..(n - 1) /\ next[k] = place[from(k)]  BY <1>6, <1>8, <2>4
    <3>3. from(j) = from(k)
      <4> HIDE DEF from
      <4> QED  BY <1>4, <1>11, <3>1, <3>2
    <3>4. CASE j <= p /\ k <= p  BY <3>3, <3>4
    <3>5. CASE ~(j <= p) /\ ~(k <= p)
      <4>1. j - 1 = k - 1  BY <3>3, <3>5
      <4> QED  BY <2>1, <4>1
    <3>6. CASE j <= p /\ ~(k <= p)
      <4>1. j = k - 1  BY <3>3, <3>6
      <4>2. ~(k - 1 <= p)  BY <1>6, <2>4, <3>6
      <4> QED  BY <3>6, <4>1, <4>2
    <3>7. CASE ~(j <= p) /\ k <= p
      <4>1. k = j - 1  BY <3>3, <3>7
      <4>2. ~(j - 1 <= p)  BY <1>6, <2>4, <3>7
      <4> QED  BY <3>7, <4>1, <4>2
    <3> QED  BY <3>4, <3>5, <3>6, <3>7
  <2> QED  BY <2>2, <2>3, <2>4
<1>12. Arranged(q, s, n)  BY <1>3, <1>9, <1>10, <1>11 DEF Arranged
<1> QED  BY <1>3, <1>12 DEF q

LEMMA InsertedIn ==
  ASSUME NEW T, NEW s \in Seq(T), NEW e \in T
  PROVE  Inserted(s, e) \in Seq(T)
<1>1. PICK p \in 0..Len(s) : Inserted(s, e) = InsertAt(s, p + 1, e)  BY InsertedSomewhere
<1>2. InsertAt(s, p + 1, e) \in Seq(T)  BY InsertedIs
<1> QED  BY <1>1, <1>2

LEMMA SortedUnfolds ==
  ASSUME NEW T, NEW s \in Seq(T)
  PROVE  \E f \in [0..Len(s) -> Seq(T)] :
           /\ Sorted(s) = f[Len(s)] /\ f[0] = <<>>
           /\ \A n \in 1..Len(s) : f[n] = Inserted(f[n - 1], s[n])
           /\ \A n \in 0..Len(s) : Arranged(f[n], s, n)
<1> DEFINE size == Len(s)
           S == Seq(T)
           nil == <<>>
           step == [n \in 1..size |-> [x \in S |-> Inserted(x, s[n])]]
           c == CHOOSE g : g = [n \in 0..size |-> IF n = 0 THEN <<>> ELSE Inserted(g[n - 1], s[n])]
<1>1. size \in Nat /\ nil \in S /\ \A n \in 1..size : s[n] \in T  OBVIOUS
<1>2. step \in [1..size -> [S -> S]]
  <2>1. \A n \in 1..size : \A x \in S : Inserted(x, s[n]) \in S  BY <1>1, InsertedIn
  <2> QED  BY <2>1
<1>3. Sorted(s) = c[size]  BY DEF Sorted, Inserted
<1>4. PICK f \in [0..size -> S] : Follows(f, size, nil, step)
  <2> HIDE DEF size, step, S, nil
  <2> QED  BY <1>1, <1>2, Recursion
<1>5. f[0] = <<>> /\ \A n \in 1..size : f[n - 1] \in S /\ f[n] = step[n][f[n - 1]]
  <2> HIDE DEF step, size, S
  <2>1. \A n \in 1..size : n \in 0..size /\ n # 0 /\ n - 1 \in 0..size  BY <1>1
  <2> QED  BY <1>1, <1>4, <2>1 DEF Follows
<1>6. ASSUME NEW n \in 1..size, NEW x \in S PROVE step[n][x] = Inserted(x, s[n])
  OBVIOUS
<1>7. f = [n \in 0..size |-> IF n = 0 THEN <<>> ELSE Inserted(f[n - 1], s[n])]
  <2> HIDE DEF step, size, S
  <2>1. f = [n \in 0..size |-> f[n]]  OBVIOUS
  <2>2. \A n \in 0..size : n # 0 => n \in 1..size  BY <1>1
  <2>3. \A n \in 1..size : f[n] = Inserted(f[n - 1], s[n])  BY <1>5, <1>6
  <2>4. \A n \in 0..size : f[n] = IF n = 0 THEN <<>> ELSE Inserted(f[n - 1], s[n])  BY <1>5, <2>2, <2>3
  <2> QED  BY <2>1, <2>4
<1>9. c = [n \in 0..size |-> IF n = 0 THEN <<>> ELSE Inserted(c[n - 1], s[n])]
  <2> HIDE DEF step, size, S
  <2> QED  BY <1>7
<1> HIDE DEF c
<1>10. c[size] = f[size]
  <2>1. c[0] = nil  BY <1>1, <1>9
  <2>2. ASSUME NEW n \in 1..size, c[n - 1] \in S PROVE c[n] = step[n][c[n - 1]]
    <3>1. n \in 0..size /\ n # 0  BY <1>1
    <3> HIDE DEF step, size, S
    <3>2. c[n] = Inserted(c[n - 1], s[n])  BY <1>9, <3>1
    <3> QED  BY <2>2, <3>2, <1>6
  <2> HIDE DEF size, step, S, nil
  <2>3. Obeys(c, S, size, nil, step)  BY <2>1, <2>2 DEF Obeys
  <2> QED  BY <1>1, <1>2, <1>4, <2>3, SameSteps
<1> DEFINE G == {n \in 0..size : Arranged(f[n], s, n)}
<1>11. 0 \in G
  <2> DEFINE none == [k \in 1..0 |-> 0]
  <2>1. f[0] = <<>> /\ Len(f[0]) = 0 /\ none \in [1..0 -> 1..0]  BY <1>5
  <2>2. Arranged(f[0], s, 0)  BY <2>1 DEF Arranged
  <2> QED  BY <1>1, <2>2
<1>12. ASSUME NEW n \in 1..size, n - 1 \in G PROVE n \in G
  <2>1. n \in 0..size  BY <1>1
  <2>2. f[n - 1] \in S /\ Arranged(f[n - 1], s, n - 1)  BY <1>5, <1>12
  <2> HIDE DEF step
  <2>3. f[n] = Inserted(f[n - 1], s[n])  BY <1>5, <1>6
  <2>4. Arranged(f[n], s, n)  BY <2>2, <2>3, ArrangedAdvances
  <2> QED  BY <2>1, <2>4
<1>13. \A n \in 0..size : n \in G
  <2> HIDE DEF G, size
  <2> QED  BY <1>1, <1>11, <1>12, UpTo
<1>14. \A n \in 0..size : Arranged(f[n], s, n)  BY <1>13
<1>15. \A n \in 1..size : f[n] = Inserted(f[n - 1], s[n])
  <2> HIDE DEF step
  <2> QED  BY <1>5, <1>6
<1> HIDE DEF step, G
<1> QED  BY <1>3, <1>4, <1>5, <1>10, <1>14, <1>15

LEMMA SortedIs ==
  ASSUME NEW T, NEW s \in Seq(T)
  PROVE  Sorted(s) \in Seq(T) /\ Arranged(Sorted(s), s, Len(s))
<1>1. PICK f \in [0..Len(s) -> Seq(T)] :
        Sorted(s) = f[Len(s)] /\ \A n \in 0..Len(s) : Arranged(f[n], s, n)
  BY SortedUnfolds
<1>2. Len(s) \in 0..Len(s)  OBVIOUS
<1> QED  BY <1>1, <1>2

-----------------------------------------------------------------------------
(* The groups: each holds items of its own key at places of their own, and   *)
(* no two groups have one key.                                               *)
Gathered(q, items, keys, key) ==
  /\ q # <<>>
  /\ \E place \in [1..Len(q) -> 1..Len(items)] :
       /\ \A k \in 1..Len(q) : q[k] = items[place[k]] /\ keys[place[k]] = key
       /\ \A j, k \in 1..Len(q) : place[j] = place[k] => j = k

HasItem(q, e) == \E k \in 1..Len(q) : q[k] = e

LEMMA PickedGathers ==
  ASSUME NEW T, NEW items \in Seq(T), NEW K, NEW keys \in Seq(K), Len(keys) = Len(items),
         NEW i \in 1..Len(keys)
  PROVE  LET q == Picked(items, {k \in DOMAIN keys : keys[k] = keys[i]})
         IN  q \in Seq(T) /\ Gathered(q, items, keys, keys[i]) /\ HasItem(q, items[i])
<1> DEFINE at == {k \in DOMAIN keys : keys[k] = keys[i]}
           q == Picked(items, at)
<1>1. i \in at /\ i \in 1..Len(items) /\ \A k \in at : keys[k] = keys[i]  OBVIOUS
<1> HIDE DEF at
<1>2. q \in Seq(T) /\ Places(q, items, at, Len(items))  BY PickedHasPlaces
<1> HIDE DEF q
<1>3. PICK place \in [1..Len(q) -> 1..Len(items)] :
        /\ \A k \in 1..Len(q) : q[k] = items[place[k]] /\ place[k] \in at
        /\ \A j, k \in 1..Len(q) : place[j] = place[k] => j = k
        /\ \A n \in 1..Len(items) : n \in at => \E k \in 1..Len(q) : place[k] = n
  BY <1>2 DEF Places
<1>4. q # <<>>
  <2>1. PICK k \in 1..Len(q) : place[k] = i  BY <1>1, <1>3
  <2> QED  BY <2>1
<1>5. Gathered(q, items, keys, keys[i])
  <2> DEFINE key == keys[i]
  <2>1. \A k \in 1..Len(q) : q[k] = items[place[k]] /\ keys[place[k]] = key  BY <1>1, <1>3
  <2> HIDE DEF key
  <2>2. Gathered(q, items, keys, key)  BY <1>3, <1>4, <2>1 DEF Gathered
  <2> QED  BY <2>2 DEF key
<1>6. HasItem(q, items[i])  BY <1>1, <1>3 DEF HasItem
<1> QED  BY <1>2, <1>5, <1>6 DEF q, at

(* No item is left out whose key is not empty.                               *)
Grouped(g, T, items, keys, K) ==
  /\ g \in Seq(Seq(T))
  /\ \E of \in [1..Len(g) -> K] :
       /\ \A k \in 1..Len(g) : Gathered(g[k], items, keys, of[k])
       /\ \A j, k \in 1..Len(g) : of[j] = of[k] => j = k
  /\ \A i \in 1..Len(items) : keys[i] # None => \E n \in 1..Len(g) : HasItem(g[n], items[i])

LEMMA GroupsIs ==
  ASSUME NEW T, NEW items \in Seq(T), NEW K, NEW keys \in Seq(K), Len(keys) = Len(items)
  PROVE  Grouped(Groups(items, keys), T, items, keys, K)
<1> DEFINE u == Unique(keys)
           g == [n \in DOMAIN u |-> Picked(items, {k \in DOMAIN keys : keys[k] = u[n]})]
<1>1. /\ u \in Seq(K)
      /\ \A j, k \in 1..Len(u) : u[j] = u[k] => j = k
      /\ \A k \in 1..Len(u) : \E i \in 1..Len(keys) : keys[i] = u[k]
      /\ \A i \in 1..Len(keys) : keys[i] # None => \E k \in 1..Len(u) : u[k] = keys[i]
  BY UniqueIsUpTo DEF UniqueUpTo
<1>2. Groups(items, keys) = Picked(g, DOMAIN u)  BY DEF Groups, Mapped
<1> HIDE DEF u
<1>3. Len(u) \in Nat /\ DOMAIN u = 1..Len(u) /\ \A k \in 1..Len(u) : u[k] \in K  BY <1>1
<1>4. ASSUME NEW n \in 1..Len(u) PROVE g[n] \in Seq(T) /\ Gathered(g[n], items, keys, u[n])
  <2>1. PICK i \in 1..Len(keys) : keys[i] = u[n]  BY <1>1
  <2>2. g[n] = Picked(items, {k \in DOMAIN keys : keys[k] = keys[i]})  BY <1>3, <2>1
  <2> HIDE DEF g
  <2> QED  BY <2>1, <2>2, PickedGathers
<1>5. DOMAIN g = 1..Len(u) /\ g = [n \in 1..Len(u) |-> g[n]]  BY <1>3
<1>11. \A n \in 1..Len(u) : g[n] = Picked(items, {k \in DOMAIN keys : keys[k] = u[n]})  BY <1>3
<1> HIDE DEF g
<1>6. g \in Seq(Seq(T)) /\ Len(g) = Len(u) /\ DOMAIN g = DOMAIN u
  <2>1. g \in [1..Len(u) -> Seq(T)]  BY <1>4, <1>5
  <2> QED  BY <1>3, <2>1, SeqDef
<1>7. Groups(items, keys) = g  BY <1>2, <1>6, PickedAll
<1>8. u \in [1..Len(g) -> K]  BY <1>1, <1>6
<1>10. ASSUME NEW i \in 1..Len(items), keys[i] # None
       PROVE  \E n \in 1..Len(g) : HasItem(g[n], items[i])
  <2>1. PICK n \in 1..Len(u) : u[n] = keys[i]  BY <1>1, <1>10
  <2> DEFINE q == Picked(items, {k \in DOMAIN keys : keys[k] = keys[i]})
  <2>2. g[n] = q  BY <1>11, <2>1
  <2>3. HasItem(q, items[i])  BY <1>10, PickedGathers
  <2> HIDE DEF q
  <2> QED  BY <1>6, <2>2, <2>3
<1>9. Grouped(g, T, items, keys, K)
  <2>1. \A k \in 1..Len(g) : Gathered(g[k], items, keys, u[k])  BY <1>4, <1>6
  <2>2. \A j, k \in 1..Len(g) : u[j] = u[k] => j = k  BY <1>1, <1>6
  <2>3. \A i \in 1..Len(items) : keys[i] # None => \E n \in 1..Len(g) : HasItem(g[n], items[i])  BY <1>10
  <2> QED  BY <1>6, <1>8, <2>1, <2>2, <2>3 DEF Grouped
<1> QED  BY <1>7, <1>9

-----------------------------------------------------------------------------
(* The best of a group is one of it.                                         *)
LEMMA ScoreIs ==
  ASSUME NEW o
  PROVE  BaseScore(o) \in 0..15
<1> DEFINE a == IF o.known THEN 8 ELSE 0
           b == IF o.target # None THEN 4 ELSE 0
           c == IF o.target_ip # None THEN 2 ELSE 0
           d == IF o.name \in Dotted THEN 1 ELSE 0
<1>1. BaseScore(o) = a + b + c + d  BY DEF BaseScore
<1>2. a \in {0, 8} /\ b \in {0, 4} /\ c \in {0, 2} /\ d \in {0, 1}  OBVIOUS
<1> HIDE DEF a, b, c, d
<1> QED  BY <1>1, <1>2

LEMMA BaseIs ==
  ASSUME NEW T, NEW items \in Seq(T), items # <<>>
  PROVE  \E b \in 1..Len(items) : Base(items) = items[b]
<1> DEFINE score(k) == BaseScore(items[k])
           Short == {n \in Nat : \E k \in 1..Len(items) : n = 15 - score(k)}
<1>1. Len(items) \in Nat /\ 1 \in 1..Len(items) /\ DOMAIN items = 1..Len(items)  OBVIOUS
<1>2. \A k \in 1..Len(items) : score(k) \in 0..15 /\ score(k) \in Nat /\ 15 - score(k) \in Nat
  <2>1. \A k \in 1..Len(items) : score(k) \in 0..15  BY ScoreIs
  <2>2. \A x \in 0..15 : x \in Nat /\ 15 - x \in Nat  OBVIOUS
  <2> HIDE DEF score
  <2> QED  BY Zenon, <2>1, <2>2
<1> HIDE DEF score
<1>3. Short \in SUBSET Nat /\ Short # {}
  <2>1. 15 - score(1) \in Short  BY <1>1, <1>2
  <2> QED  BY <2>1
<1>4. PICK n \in Short : \A m \in Short : n <= m
  <2> HIDE DEF Short
  <2> QED  BY <1>3, LeastNat
<1>5. PICK i \in 1..Len(items) : n = 15 - score(i)  BY <1>4
<1>6. \A k \in 1..Len(items) : score(k) <= score(i)
  <2> SUFFICES ASSUME NEW k \in 1..Len(items) PROVE score(k) <= score(i)  OBVIOUS
  <2>1. 15 - score(k) \in Short  BY <1>2
  <2>2. 15 - score(i) <= 15 - score(k)  BY <1>4, <1>5, <2>1
  <2>3. \A x, y \in 0..15 : 15 - x <= 15 - y => y <= x  OBVIOUS
  <2> QED  BY Zenon, <1>2, <2>2, <2>3
<1> HIDE DEF Short
<1> DEFINE Best == {k \in 1..Len(items) : score(k) = score(i)}
<1>7. PICK b \in Best : \A k \in Best : b <= k
  <2>1. Best \in SUBSET Nat /\ i \in Best  BY <1>1
  <2>2. Best # {}  BY <2>1
  <2> HIDE DEF Best
  <2> QED  BY <2>1, <2>2, LeastNat
<1>8. \A j \in 1..Len(items) : score(j) < score(b) \/ (score(j) = score(b) /\ b <= j)
  <2> SUFFICES ASSUME NEW j \in 1..Len(items)
               PROVE  score(j) < score(b) \/ (score(j) = score(b) /\ b <= j)
    OBVIOUS
  <2>1. score(j) <= score(i) /\ score(b) = score(i)  BY <1>6, <1>7
  <2>2. \A x, y \in 0..15 : x <= y => x < y \/ x = y  OBVIOUS
  <2>3. score(j) <= score(b)  BY Zenon, <2>1
  <2>4. b \in 1..Len(items)  BY <1>7
  <2>5. score(j) < score(b) \/ score(j) = score(b)  BY Zenon, <1>2, <2>2, <2>3, <2>4
  <2>6. score(j) = score(b) => j \in Best  BY Zenon, <2>1
  <2>7. score(j) = score(b) => b <= j  BY Zenon, <1>7, <2>6
  <2> QED  BY Zenon, <2>5, <2>7
<1> DEFINE best == CHOOSE k \in DOMAIN items : \A j \in DOMAIN items :
                     \/ BaseScore(items[j]) < BaseScore(items[k])
                     \/ BaseScore(items[j]) = BaseScore(items[k]) /\ k <= j
<1>9. best \in DOMAIN items
  <2>1. \A j \in DOMAIN items : \/ BaseScore(items[j]) < BaseScore(items[b])
                                \/ BaseScore(items[j]) = BaseScore(items[b]) /\ b <= j
    BY <1>1, <1>8 DEF score
  <2>2. b \in DOMAIN items  BY <1>1, <1>7
  <2> QED  BY <2>1, <2>2
<1>10. Base(items) = items[best]  BY DEF Base
<1> HIDE DEF best
<1> QED  BY <1>1, <1>9, <1>10

(* The first value given of a field.                                         *)
LEMMA FirstOfIs ==
  ASSUME NEW T, NEW items \in Seq(T), NEW field
  PROVE  \/ FirstOf(items, field) = None /\ \A k \in 1..Len(items) : items[k][field] = None
         \/ FirstOf(items, field) # None /\ \E k \in 1..Len(items) : items[k][field] = FirstOf(items, field)
<1> DEFINE at == {k \in DOMAIN items : items[k][field] # None}
           given == Picked(items, at)
<1>1. given \in Seq(T) /\ Places(given, items, at, Len(items))  BY PickedHasPlaces
<1>2. FirstOf(items, field) = IF given = <<>> THEN None ELSE given[1][field]  BY DEF FirstOf
<1>3. \A k \in 1..Len(items) : k \in at <=> items[k][field] # None  OBVIOUS
<1> HIDE DEF at, given
<1>4. PICK place \in [1..Len(given) -> 1..Len(items)] :
        /\ \A k \in 1..Len(given) : given[k] = items[place[k]] /\ place[k] \in at
        /\ \A i \in 1..Len(items) : i \in at => \E k \in 1..Len(given) : place[k] = i
  BY <1>1 DEF Places
<1>5. CASE given = <<>>
  <2>1. \A i \in 1..Len(items) : i \notin at  BY <1>4, <1>5
  <2> QED  BY <1>2, <1>3, <1>5, <2>1
<1>6. CASE given # <<>>
  <2>1. 1 \in 1..Len(given)  BY <1>1, <1>6
  <2>2. given[1] = items[place[1]] /\ place[1] \in at /\ place[1] \in 1..Len(items)  BY <1>4, <2>1
  <2> QED  BY <1>2, <1>3, <1>6, <2>2
<1> QED  BY <1>5, <1>6

LEMMA UniqueLeads ==
  ASSUME NEW T, NEW s \in Seq(T)
  PROVE  /\ Unique(s) \in Seq(T)
         /\ AllNone(Unique(s)) <=> AllNone(s)
         /\ \A v : Leads(v, Unique(s)) <=> Leads(v, s)
         /\ ~AllNone(s) => Unique(s) # <<>> /\ Leads(Unique(s)[1], s)
<1> DEFINE u == Unique(s)
<1>1. /\ u \in Seq(T)
      /\ \A k \in 1..Len(u) : u[k] # None
      /\ u # <<>> => Leads(u[1], s)
      /\ u = <<>> <=> AllNone(s)
  BY UniqueIs
<1> HIDE DEF u
<1>2. u # <<>> => 1 \in 1..Len(u)  BY <1>1
<1>3. (u = <<>> => Len(u) = 0) /\ \A j \in 1..(1 - 1) : u[j] = None  OBVIOUS
<1>4. AllNone(u) <=> AllNone(s)  BY <1>1, <1>2, <1>3 DEF AllNone
<1>5. u # <<>> => Leads(u[1], u)
  <2> SUFFICES ASSUME u # <<>> PROVE Leads(u[1], u)  OBVIOUS
  <2>1. 1 \in 1..Len(u) /\ u[1] # None  BY <1>1, <1>2
  <2> QED  BY <1>3, <2>1 DEF Leads
<1>6. ASSUME NEW v, Leads(v, u) PROVE Leads(v, s)
  <2>1. u # <<>>  BY <1>3, <1>6 DEF Leads
  <2>2. v = u[1]  BY <1>1, <1>5, <1>6, <2>1, LeadsOnce
  <2> QED  BY <1>1, <2>1, <2>2
<1>7. ASSUME NEW v, Leads(v, s) PROVE Leads(v, u)
  <2>1. u # <<>>  BY <1>1, <1>7, NotLedBlank
  <2>2. v = u[1]  BY <1>1, <1>7, <2>1, LeadsOnce
  <2> QED  BY <1>5, <2>1, <2>2
<1> QED  BY <1>1, <1>4, <1>6, <1>7 DEF u

(* A field of several items, put together.                                   *)
LEMMA JoinedIs ==
  ASSUME NEW T, NEW items \in Seq(T), NEW U, NEW field, \A k \in 1..Len(items) : items[k][field] \in Seq(U)
  PROVE  /\ Joined(items, field) \in Seq(U)
         /\ AllNone(Joined(items, field)) <=> \A k \in 1..Len(items) : AllNone(items[k][field])
         /\ \A v : Leads(v, Joined(items, field)) => \E k \in 1..Len(items) : Leads(v, items[k][field])
         /\ ~AllNone(Joined(items, field)) => \E v : Leads(v, Joined(items, field))
<1> DEFINE parts == [k \in DOMAIN items |-> items[k][field]]
           all == FlattenSeq(parts)
<1>1. Len(items) \in Nat /\ DOMAIN items = 1..Len(items)  OBVIOUS
<1>2. parts \in Seq(Seq(U)) /\ Len(parts) = Len(items) /\ \A k \in 1..Len(items) : parts[k] = items[k][field]
  <2>1. parts \in [1..Len(items) -> Seq(U)]  BY <1>1
  <2>2. \A k \in 1..Len(items) : parts[k] = items[k][field]  BY <1>1
  <2> HIDE DEF parts
  <2> QED  BY <1>1, <2>1, <2>2, SeqDef
<1>3. Joined(items, field) = Unique(all)  BY DEF Joined
<1> HIDE DEF parts
<1>4. /\ all \in Seq(U)
      /\ AllNone(all) => \A k \in 1..Len(parts) : AllNone(parts[k])
      /\ \A v : Leads(v, all) => \E k \in 1..Len(parts) : Leads(v, parts[k])
  BY <1>2, FlattenIs
<1> HIDE DEF all
<1>5. /\ Unique(all) \in Seq(U)
      /\ AllNone(Unique(all)) <=> AllNone(all)
      /\ \A v : Leads(v, Unique(all)) <=> Leads(v, all)
      /\ ~AllNone(all) => \E v : Leads(v, all)
  BY <1>4, UniqueLeads
<1>6. (\A k \in 1..Len(items) : AllNone(items[k][field])) => AllNone(all)
  <2> SUFFICES ASSUME \A k \in 1..Len(items) : AllNone(items[k][field]), ~AllNone(all) PROVE FALSE  OBVIOUS
  <2>1. PICK v : Leads(v, all)  BY <1>5
  <2>2. PICK k \in 1..Len(items) : Leads(v, items[k][field])  BY <1>2, <1>4, <2>1
  <2> QED  BY <2>2, NotLedBlank
<1>7. AllNone(all) => \A k \in 1..Len(items) : AllNone(items[k][field])  BY <1>2, <1>4
<1>8. \A v : Leads(v, all) => \E k \in 1..Len(items) : Leads(v, items[k][field])  BY <1>2, <1>4
<1> HIDE DEF all
<1> QED  BY <1>3, <1>5, <1>6, <1>7, <1>8

-----------------------------------------------------------------------------
(* What an observation is known by.                                          *)
ObsFields ==
  {"category", "name", "target", "target_ip", "confidence", "queries", "systems", "qnames", "names", "ips",
   "unanswered", "role_level", "known", "required", "basis", "present", "accepted", "optional"}

IsObs(o) == DOMAIN o = ObsFields

Lettered(o) ==
  /\ o.name \in Text /\ o.target \in Text /\ o.target_ip \in Text
  /\ o.qnames \in Seq(Text) /\ o.names \in Seq(Text) /\ o.ips \in Seq(Text)

IpsOf(o) == <<o.target_ip>> \o o.ips

NamesOf(o) == <<o.target>> \o o.names \o o.qnames \o <<o.name>>

FirstIn(v, s) == Leads(v, s) \/ (AllNone(s) /\ v = <<>>[1])

Keyed(o, c, kind, v) ==
  /\ o.category = c
  /\ \/ kind = "ip" /\ Leads(v, IpsOf(o))
     \/ kind = "role" /\ v = None /\ AllNone(IpsOf(o)) /\ o.role_level /\ o.target = None
     \/ kind = "name" /\ AllNone(IpsOf(o)) /\ ~(o.role_level /\ o.target = None) /\ FirstIn(v, NamesOf(o))

LEMMA OneLeads ==
  ASSUME NEW T, NEW t \in T
  PROVE  /\ <<t>> \in Seq(T)
         /\ AllNone(<<t>>) <=> t = None
         /\ \A v : Leads(v, <<t>>) <=> (v = t /\ t # None)
<1> DEFINE s == <<t>>
<1>1. s \in Seq(T) /\ Len(s) = 1 /\ s[1] = t  OBVIOUS
<1>2. 1 \in 1..1 /\ (\A i \in 1..1 : i = 1) /\ \A v : \A j \in 1..(1 - 1) : s[j] = v  OBVIOUS
<1> HIDE DEF s
<1>3. AllNone(s) <=> t = None  BY <1>1, <1>2 DEF AllNone
<1>4. ASSUME NEW v, Leads(v, s) PROVE v = t /\ t # None  BY <1>1, <1>2, <1>4 DEF Leads
<1>5. t # None => Leads(t, s)  BY <1>1, <1>2 DEF Leads
<1> QED  BY <1>1, <1>3, <1>4, <1>5 DEF s

LEMMA IpsLead ==
  ASSUME NEW o, Lettered(o)
  PROVE  /\ IpsOf(o) \in Seq(Text)
         /\ AllNone(IpsOf(o)) <=> (o.target_ip = None /\ AllNone(o.ips))
         /\ \A v : Leads(v, IpsOf(o)) <=> \/ v = o.target_ip /\ o.target_ip # None
                                          \/ o.target_ip = None /\ Leads(v, o.ips)
<1> DEFINE one == <<o.target_ip>>
           ips == o.ips
<1>1. one \in Seq(Text) /\ ips \in Seq(Text)  BY OneLeads DEF Lettered
<1>2. /\ AllNone(one) <=> o.target_ip = None
      /\ \A v : Leads(v, one) <=> (v = o.target_ip /\ o.target_ip # None)
  BY OneLeads DEF Lettered
<1>3. IpsOf(o) = one \o ips  BY DEF IpsOf
<1> HIDE DEF one, ips
<1>4. one \o ips \in Seq(Text) /\ (AllNone(one \o ips) <=> (AllNone(one) /\ AllNone(ips)))
  BY <1>1, ConcatOf, BlankConcat
<1>5. \A v : /\ Leads(v, one) => Leads(v, one \o ips)
             /\ AllNone(one) /\ Leads(v, ips) => Leads(v, one \o ips)
             /\ Leads(v, one \o ips) => Leads(v, one) \/ (AllNone(one) /\ Leads(v, ips))
  BY <1>1, LeadsConcat
<1> QED  BY <1>2, <1>3, <1>4, <1>5 DEF ips

LEMMA NamesLead ==
  ASSUME NEW o, Lettered(o)
  PROVE  /\ NamesOf(o) \in Seq(Text)
         /\ AllNone(NamesOf(o)) <=> (o.target = None /\ AllNone(o.names) /\ AllNone(o.qnames) /\ o.name = None)
         /\ \A v : Leads(v, NamesOf(o)) <=>
              \/ v = o.target /\ o.target # None
              \/ o.target = None /\ Leads(v, o.names)
              \/ o.target = None /\ AllNone(o.names) /\ Leads(v, o.qnames)
              \/ o.target = None /\ AllNone(o.names) /\ AllNone(o.qnames) /\ v = o.name /\ o.name # None
<1> DEFINE a == <<o.target>>
           b == o.names
           c == o.qnames
           d == <<o.name>>
           ab == a \o b
           abc == ab \o c
<1>1. a \in Seq(Text) /\ b \in Seq(Text) /\ c \in Seq(Text) /\ d \in Seq(Text)  BY OneLeads DEF Lettered
<1>2. /\ AllNone(a) <=> o.target = None
      /\ \A v : Leads(v, a) <=> (v = o.target /\ o.target # None)
      /\ AllNone(d) <=> o.name = None
      /\ \A v : Leads(v, d) <=> (v = o.name /\ o.name # None)
  BY OneLeads DEF Lettered
<1>3. NamesOf(o) = abc \o d  BY DEF NamesOf
<1> HIDE DEF a, b, c, d
<1>4. ab \in Seq(Text) /\ (AllNone(ab) <=> (AllNone(a) /\ AllNone(b)))  BY <1>1, ConcatOf, BlankConcat
<1>5. \A v : Leads(v, ab) <=> (Leads(v, a) \/ (AllNone(a) /\ Leads(v, b)))  BY <1>1, LeadsConcat
<1> HIDE DEF ab
<1>6. abc \in Seq(Text) /\ (AllNone(abc) <=> (AllNone(ab) /\ AllNone(c)))  BY <1>1, <1>4, ConcatOf, BlankConcat
<1>7. \A v : Leads(v, abc) <=> (Leads(v, ab) \/ (AllNone(ab) /\ Leads(v, c)))  BY <1>1, <1>4, LeadsConcat
<1> HIDE DEF abc
<1>8. abc \o d \in Seq(Text) /\ (AllNone(abc \o d) <=> (AllNone(abc) /\ AllNone(d)))
  BY <1>1, <1>6, ConcatOf, BlankConcat
<1>9. \A v : Leads(v, abc \o d) <=> (Leads(v, abc) \/ (AllNone(abc) /\ Leads(v, d)))  BY <1>1, <1>6, LeadsConcat
<1>10. AllNone(NamesOf(o)) <=> (o.target = None /\ AllNone(b) /\ AllNone(c) /\ o.name = None)
  BY <1>2, <1>3, <1>4, <1>6, <1>8
<1>11. ASSUME NEW v
       PROVE  Leads(v, NamesOf(o)) <=>
                \/ v = o.target /\ o.target # None
                \/ o.target = None /\ Leads(v, b)
                \/ o.target = None /\ AllNone(b) /\ Leads(v, c)
                \/ o.target = None /\ AllNone(b) /\ AllNone(c) /\ v = o.name /\ o.name # None
  <2>1. Leads(v, NamesOf(o)) <=> (Leads(v, abc) \/ (AllNone(abc) /\ Leads(v, d)))  BY <1>3, <1>9
  <2>2. Leads(v, abc) <=> (Leads(v, a) \/ (AllNone(a) /\ Leads(v, b)) \/ (AllNone(a) /\ AllNone(b) /\ Leads(v, c)))
    BY <1>4, <1>5, <1>7
  <2>3. AllNone(abc) <=> (AllNone(a) /\ AllNone(b) /\ AllNone(c))  BY <1>4, <1>6
  <2> QED  BY <1>2, <2>1, <2>2, <2>3
<1> QED  BY <1>3, <1>8, <1>10, <1>11 DEF b, c

(* The key is told by the kind and the first address or name.                *)
LEMMA KeyOfKeyed ==
  ASSUME NEW o, Lettered(o), NEW c, NEW kind, NEW v, Keyed(o, c, kind, v)
  PROVE  DedupeKey(o) = <<c, kind, v>>
<1> DEFINE ips == Unique(IpsOf(o))
           names == Unique(NamesOf(o))
<1>1. /\ IpsOf(o) \in Seq(Text) /\ NamesOf(o) \in Seq(Text)
  BY IpsLead, NamesLead
<1>2. /\ ips = <<>> <=> AllNone(IpsOf(o))
      /\ ips # <<>> => Leads(ips[1], IpsOf(o))
      /\ names = <<>> <=> AllNone(NamesOf(o))
      /\ names # <<>> => Leads(names[1], NamesOf(o))
  BY <1>1, UniqueIs
<1>3. DedupeKey(o) = CASE ips # <<>> -> <<o.category, "ip", ips[1]>>
                       [] ips = <<>> /\ o.role_level /\ o.target = None -> <<o.category, "role", None>>
                       [] OTHER -> <<o.category, "name", names[1]>>
  BY DEF DedupeKey, IpsOf, NamesOf
<1> HIDE DEF ips, names
<1>4. CASE kind = "ip" /\ Leads(v, IpsOf(o))
  <2>1. ips # <<>>  BY <1>1, <1>2, <1>4, NotLedBlank
  <2>2. ips[1] = v  BY <1>1, <1>2, <1>4, <2>1, LeadsOnce
  <2> QED  BY <1>3, <1>4, <2>1, <2>2 DEF Keyed
<1>5. CASE kind = "role" /\ v = None /\ AllNone(IpsOf(o)) /\ o.role_level /\ o.target = None
  BY <1>2, <1>3, <1>5 DEF Keyed
<1>6. CASE kind = "name" /\ AllNone(IpsOf(o)) /\ ~(o.role_level /\ o.target = None) /\ FirstIn(v, NamesOf(o))
  <2>1. names[1] = v
    <3>1. CASE Leads(v, NamesOf(o))
      <4>1. names # <<>>  BY <1>1, <1>2, <3>1, NotLedBlank
      <4> QED  BY <1>1, <1>2, <3>1, <4>1, LeadsOnce
    <3>2. CASE AllNone(NamesOf(o)) /\ v = <<>>[1]  BY <1>2, <3>2
    <3> QED  BY <1>6, <3>1, <3>2 DEF FirstIn
  <2> QED  BY <1>2, <1>3, <1>6, <2>1 DEF Keyed
<1> QED  BY <1>4, <1>5, <1>6 DEF Keyed

LEMMA KeyedSomehow ==
  ASSUME NEW o, Lettered(o)
  PROVE  \E kind \in {"ip", "role", "name"} : \E v : Keyed(o, o.category, kind, v)
<1>1. /\ IpsOf(o) \in Seq(Text) /\ NamesOf(o) \in Seq(Text)
  BY IpsLead, NamesLead
<1>2. CASE ~AllNone(IpsOf(o))
  <2>1. \E v : Leads(v, IpsOf(o))  BY <1>1, <1>2, UniqueLeads
  <2> QED  BY <2>1 DEF Keyed
<1>3. CASE AllNone(IpsOf(o)) /\ o.role_level /\ o.target = None  BY <1>3 DEF Keyed
<1>4. CASE AllNone(IpsOf(o)) /\ ~(o.role_level /\ o.target = None)
  <2>1. \E v : FirstIn(v, NamesOf(o))  BY <1>1, UniqueLeads DEF FirstIn
  <2> QED  BY <1>4, <2>1 DEF Keyed
<1> QED  BY <1>2, <1>3, <1>4

-----------------------------------------------------------------------------
(* Merging, field by field.                                                  *)
LEMMA MergedIs ==
  ASSUME NEW items, DOMAIN items = 1..Len(items), NEW base, Base(items) = base, IsObs(base)
  PROVE  /\ IsObs(Merged(items))
         /\ Merged(items).category = base.category /\ Merged(items).name = base.name
         /\ Merged(items).target = Or(base.target, FirstOf(items, "target"))
         /\ Merged(items).target_ip = Or(base.target_ip, FirstOf(items, "target_ip"))
         /\ Merged(items).qnames = Joined(items, "qnames")
         /\ Merged(items).names = Joined(items, "names")
         /\ Merged(items).ips = Joined(items, "ips")
         /\ Merged(items).role_level <=> \A k \in 1..Len(items) : items[k].role_level
         /\ Merged(items).required <=> \E k \in 1..Len(items) : items[k].required
         /\ Merged(items).present <=> \E k \in 1..Len(items) : items[k].present
         /\ Merged(items).accepted <=> \E k \in 1..Len(items) : items[k].accepted
         /\ Merged(items).optional <=> \E k \in 1..Len(items) : items[k].optional
<1> DEFINE target == FirstOf(items, "target")
           target_ip == FirstOf(items, "target_ip")
           confidence == MaxOf({items[k].confidence : k \in DOMAIN items})
           queries == QueryCount(items)
           systems == UNION {items[k].systems : k \in DOMAIN items}
           qnames == Joined(items, "qnames")
           names == Joined(items, "names")
           ips == Joined(items, "ips")
           unanswered == AnyHas(items, "unanswered")
           role_level == \A k \in DOMAIN items : items[k].role_level
           known == AnyHas(items, "known")
           required == AnyHas(items, "required")
           present == AnyHas(items, "present")
           accepted == AnyHas(items, "accepted")
           optional == AnyHas(items, "optional")
           basis == BestBasis(items)
           m == Merged(items)
<1>1. m = [base EXCEPT !.target = Or(@, target), !.target_ip = Or(@, target_ip), !.confidence = confidence,
                       !.queries = queries, !.systems = systems, !.qnames = qnames, !.names = names, !.ips = ips,
                       !.unanswered = unanswered, !.role_level = role_level, !.known = known,
                       !.required = required, !.present = present, !.accepted = accepted,
                       !.optional = optional, !.basis = basis]
  <2>1. m = [Base(items) EXCEPT
               !.target = Or(@, target), !.target_ip = Or(@, target_ip), !.confidence = confidence,
               !.queries = queries, !.systems = systems, !.qnames = qnames, !.names = names, !.ips = ips,
               !.unanswered = unanswered, !.role_level = role_level, !.known = known,
               !.required = required, !.present = present, !.accepted = accepted,
               !.optional = optional, !.basis = basis]
    BY DEF Merged
  <2> HIDE DEF target, target_ip, confidence, queries, systems, qnames, names, ips, unanswered, role_level, known,
               required, present, accepted, optional, basis, m
  <2> QED  BY Zenon, <2>1
<1>2. /\ role_level <=> \A k \in 1..Len(items) : items[k].role_level
      /\ required <=> \E k \in 1..Len(items) : items[k].required
      /\ present <=> \E k \in 1..Len(items) : items[k].present
      /\ accepted <=> \E k \in 1..Len(items) : items[k].accepted
      /\ optional <=> \E k \in 1..Len(items) : items[k].optional
  BY DEF AnyHas
<1> HIDE DEF target, target_ip, confidence, queries, systems, qnames, names, ips, unanswered, role_level, known,
             required, present, accepted, optional, basis, m
<1>3. DOMAIN base = ObsFields  BY DEF IsObs
<1>4. DOMAIN m = ObsFields
  <2> DEFINE m1 == [base EXCEPT !.target = Or(@, target), !.target_ip = Or(@, target_ip),
                                !.confidence = confidence, !.queries = queries]
             m2 == [m1 EXCEPT !.systems = systems, !.qnames = qnames, !.names = names, !.ips = ips]
             m3 == [m2 EXCEPT !.unanswered = unanswered, !.role_level = role_level, !.known = known,
                              !.required = required]
             m4 == [m3 EXCEPT !.present = present, !.accepted = accepted, !.optional = optional, !.basis = basis]
  <2>1. m = m4  BY <1>1
  <2>2. DOMAIN m1 = ObsFields  BY <1>3
  <2> HIDE DEF m1
  <2>3. DOMAIN m2 = ObsFields  BY <2>2
  <2> HIDE DEF m2
  <2>4. DOMAIN m3 = ObsFields  BY <2>3
  <2> HIDE DEF m3
  <2>5. DOMAIN m4 = ObsFields  BY <2>4
  <2> HIDE DEF m4
  <2> QED  BY <2>1, <2>5
<1>5. m.category = base.category /\ m.name = base.name  BY <1>1, <1>3 DEF ObsFields
<1>6. m.target = Or(base.target, target) /\ m.target_ip = Or(base.target_ip, target_ip)  BY <1>1, <1>3 DEF ObsFields
<1>7. m.qnames = qnames /\ m.names = names /\ m.ips = ips  BY <1>1, <1>3 DEF ObsFields
<1>8. m.role_level = role_level /\ m.required = required /\ m.present = present  BY <1>1, <1>3 DEF ObsFields
<1>9. m.accepted = accepted /\ m.optional = optional  BY <1>1, <1>3 DEF ObsFields
<1>10. IsObs(m)  BY <1>4 DEF IsObs
<1> QED  BY <1>2, <1>5, <1>6, <1>7, <1>8, <1>9, <1>10 DEF target, target_ip, qnames, names, ips, m

LEMMA FirstIsLed ==
  ASSUME NEW T, NEW s \in Seq(T), NEW v, NEW w, FirstIn(v, s), Leads(w, s)
  PROVE  v = w
<1>1. ~AllNone(s)  BY NotLedBlank
<1>2. Leads(v, s)  BY <1>1 DEF FirstIn
<1> QED  BY <1>2, LeadsOnce

(* A field of the merged observation that is filled, is filled from one of   *)
(* the group.                                                                *)
GivenBy(x, items, field) ==
  \/ x = None /\ \A k \in 1..Len(items) : items[k][field] = None
  \/ x # None /\ \E k \in 1..Len(items) : items[k][field] = x

LEMMA OrIsGiven ==
  ASSUME NEW T, NEW items \in Seq(T), NEW field, NEW b \in 1..Len(items)
  PROVE  GivenBy(Or(items[b][field], FirstOf(items, field)), items, field)
BY FirstOfIs DEF GivenBy, Or

LEMMA MergedTells ==
  ASSUME NEW T, NEW items \in Seq(T), items # <<>>,
         \A k \in 1..Len(items) : Lettered(items[k]) /\ IsObs(items[k])
  PROVE  /\ IsObs(Merged(items)) /\ Lettered(Merged(items))
         /\ \E b \in 1..Len(items) :
              Merged(items).category = items[b].category /\ Merged(items).name = items[b].name
         /\ Merged(items).role_level <=> \A k \in 1..Len(items) : items[k].role_level
         /\ GivenBy(Merged(items).target, items, "target")
         /\ GivenBy(Merged(items).target_ip, items, "target_ip")
<1> DEFINE m == Merged(items)
<1>1. PICK b \in 1..Len(items) : Base(items) = items[b]  BY BaseIs
<1>2. DOMAIN items = 1..Len(items)  OBVIOUS
<1>3. /\ IsObs(m)
      /\ m.category = items[b].category /\ m.name = items[b].name
      /\ m.target = Or(items[b].target, FirstOf(items, "target"))
      /\ m.target_ip = Or(items[b].target_ip, FirstOf(items, "target_ip"))
      /\ m.qnames = Joined(items, "qnames")
      /\ m.names = Joined(items, "names")
      /\ m.ips = Joined(items, "ips")
      /\ m.role_level <=> \A k \in 1..Len(items) : items[k].role_level
  <2> DEFINE base == items[b]
  <2>1. Base(items) = base /\ IsObs(base)  BY <1>1
  <2> HIDE DEF base
  <2>2. /\ IsObs(m)
        /\ m.category = base.category /\ m.name = base.name
        /\ m.target = Or(base.target, FirstOf(items, "target"))
        /\ m.target_ip = Or(base.target_ip, FirstOf(items, "target_ip"))
        /\ m.qnames = Joined(items, "qnames")
        /\ m.names = Joined(items, "names")
        /\ m.ips = Joined(items, "ips")
        /\ m.role_level <=> \A k \in 1..Len(items) : items[k].role_level
    BY <1>2, <2>1, MergedIs
  <2> QED  BY <2>2 DEF base
<1> HIDE DEF m
<1>4. GivenBy(m.target, items, "target")  BY <1>3, OrIsGiven
<1>5. GivenBy(m.target_ip, items, "target_ip")  BY <1>3, OrIsGiven
<1>6. m.target \in Text /\ m.target_ip \in Text
  BY <1>4, <1>5, InputsAssumption DEF GivenBy, Lettered
<1>7. m.name \in Text  BY <1>3 DEF Lettered
<1>8. m.qnames \in Seq(Text) /\ m.names \in Seq(Text) /\ m.ips \in Seq(Text)
  <2>1. /\ \A k \in 1..Len(items) : items[k]["qnames"] \in Seq(Text)
        /\ \A k \in 1..Len(items) : items[k]["names"] \in Seq(Text)
        /\ \A k \in 1..Len(items) : items[k]["ips"] \in Seq(Text)
    BY DEF Lettered
  <2>2. Joined(items, "qnames") \in Seq(Text)  BY <2>1, JoinedIs
  <2>3. Joined(items, "names") \in Seq(Text)  BY <2>1, JoinedIs
  <2>4. Joined(items, "ips") \in Seq(Text)  BY <2>1, JoinedIs
  <2> QED  BY <1>3, <2>2, <2>3, <2>4
<1>9. Lettered(m)  BY <1>6, <1>7, <1>8 DEF Lettered
<1> QED  BY <1>3, <1>4, <1>5, <1>9 DEF m

(* A joined field is led by what leads a part, and blank where all are.      *)
JoinedFrom(x, items, field) ==
  /\ AllNone(x) <=> \A k \in 1..Len(items) : AllNone(items[k][field])
  /\ ~AllNone(x) => \E v : Leads(v, x) /\ \E k \in 1..Len(items) : Leads(v, items[k][field])

LEMMA MergedJoins ==
  ASSUME NEW T, NEW items \in Seq(T), items # <<>>,
         \A k \in 1..Len(items) : Lettered(items[k]) /\ IsObs(items[k])
  PROVE  /\ JoinedFrom(Merged(items).qnames, items, "qnames")
         /\ JoinedFrom(Merged(items).names, items, "names")
         /\ JoinedFrom(Merged(items).ips, items, "ips")
<1> DEFINE m == Merged(items)
<1>1. PICK b \in 1..Len(items) : Base(items) = items[b]  BY BaseIs
<1>2. DOMAIN items = 1..Len(items)  OBVIOUS
<1>3. m.qnames = Joined(items, "qnames") /\ m.names = Joined(items, "names") /\ m.ips = Joined(items, "ips")
  <2> DEFINE base == items[b]
  <2>1. Base(items) = base /\ IsObs(base)  BY <1>1
  <2> HIDE DEF base
  <2> QED  BY <1>2, <2>1, MergedIs
<1> HIDE DEF m
<1>4. /\ \A k \in 1..Len(items) : items[k]["qnames"] \in Seq(Text)
      /\ \A k \in 1..Len(items) : items[k]["names"] \in Seq(Text)
      /\ \A k \in 1..Len(items) : items[k]["ips"] \in Seq(Text)
  BY DEF Lettered
<1>5. JoinedFrom(Joined(items, "qnames"), items, "qnames")
  <2>1. /\ AllNone(Joined(items, "qnames")) <=> \A k \in 1..Len(items) : AllNone(items[k]["qnames"])
        /\ \A v : Leads(v, Joined(items, "qnames")) => \E k \in 1..Len(items) : Leads(v, items[k]["qnames"])
        /\ ~AllNone(Joined(items, "qnames")) => \E v : Leads(v, Joined(items, "qnames"))
    BY <1>4, JoinedIs
  <2> QED  BY <2>1 DEF JoinedFrom
<1>6. JoinedFrom(Joined(items, "names"), items, "names")
  <2>1. /\ AllNone(Joined(items, "names")) <=> \A k \in 1..Len(items) : AllNone(items[k]["names"])
        /\ \A v : Leads(v, Joined(items, "names")) => \E k \in 1..Len(items) : Leads(v, items[k]["names"])
        /\ ~AllNone(Joined(items, "names")) => \E v : Leads(v, Joined(items, "names"))
    BY <1>4, JoinedIs
  <2> QED  BY <2>1 DEF JoinedFrom
<1>7. JoinedFrom(Joined(items, "ips"), items, "ips")
  <2>1. /\ AllNone(Joined(items, "ips")) <=> \A k \in 1..Len(items) : AllNone(items[k]["ips"])
        /\ \A v : Leads(v, Joined(items, "ips")) => \E k \in 1..Len(items) : Leads(v, items[k]["ips"])
        /\ ~AllNone(Joined(items, "ips")) => \E v : Leads(v, Joined(items, "ips"))
    BY <1>4, JoinedIs
  <2> QED  BY <2>1 DEF JoinedFrom
<1> QED  BY <1>3, <1>5, <1>6, <1>7 DEF m

(* Observations of one key make one of that key.                             *)
LEMMA MergedKeepsKey ==
  ASSUME NEW T, NEW items \in Seq(T), items # <<>>,
         \A k \in 1..Len(items) : Lettered(items[k]) /\ IsObs(items[k]),
         NEW key, \A k \in 1..Len(items) : DedupeKey(items[k]) = key
  PROVE  DedupeKey(Merged(items)) = key
<1> DEFINE m == Merged(items)
           size == Len(items)
<1>1. size \in Nat /\ 1 \in 1..size  OBVIOUS
<1>2. PICK kind \in {"ip", "role", "name"} : \E v : Keyed(items[1], items[1].category, kind, v)
  BY <1>1, KeyedSomehow
<1> DEFINE c == items[1].category
<1>3. PICK v : Keyed(items[1], c, kind, v)  BY <1>2
<1> HIDE DEF c
<1>4. key = <<c, kind, v>>
  <2>1. DedupeKey(items[1]) = <<c, kind, v>>  BY <1>1, <1>3, KeyOfKeyed
  <2> QED  BY <1>1, <2>1
<1>5. ASSUME NEW k \in 1..size PROVE Keyed(items[k], c, kind, v)
  <2>1. PICK kind1 \in {"ip", "role", "name"} : \E w : Keyed(items[k], items[k].category, kind1, w)
    BY KeyedSomehow
  <2>2. PICK w : Keyed(items[k], items[k].category, kind1, w)  BY <2>1
  <2>3. DedupeKey(items[k]) = <<items[k].category, kind1, w>>  BY <2>2, KeyOfKeyed
  <2>4. items[k].category = c /\ kind1 = kind /\ w = v  BY <1>4, <2>3
  <2> QED  BY <2>2, <2>4
<1>6. /\ Lettered(m)
      /\ \E b \in 1..size : m.category = items[b].category /\ m.name = items[b].name
      /\ m.role_level <=> \A k \in 1..size : items[k].role_level
      /\ GivenBy(m.target, items, "target")
      /\ GivenBy(m.target_ip, items, "target_ip")
  BY MergedTells
<1>7. /\ JoinedFrom(m.qnames, items, "qnames")
      /\ JoinedFrom(m.names, items, "names")
      /\ JoinedFrom(m.ips, items, "ips")
  BY MergedJoins
<1> HIDE DEF m
<1>8. PICK b \in 1..size : m.category = items[b].category /\ m.name = items[b].name  BY <1>6
<1>9. m.category = c  BY <1>5, <1>8 DEF Keyed
<1>10. \A k \in 1..size : Lettered(items[k])  OBVIOUS
<1>11. \A k \in 1..size : IpsOf(items[k]) \in Seq(Text) /\ NamesOf(items[k]) \in Seq(Text)
  BY <1>10, IpsLead, NamesLead
<1>12. CASE kind = "ip"
  <2>1. \A k \in 1..size : Leads(v, IpsOf(items[k]))  BY <1>5, <1>12 DEF Keyed
  <2>2. ASSUME m.target_ip # None PROVE Leads(v, IpsOf(m))
    <3>1. PICK k \in 1..size : items[k].target_ip = m.target_ip  BY <1>6, <2>2 DEF GivenBy
    <3>2. v = m.target_ip  BY <1>10, <2>1, <2>2, <3>1, IpsLead
    <3>3. Leads(v, IpsOf(m))  BY <1>6, <2>2, <3>2, IpsLead
    <3> QED  BY <3>3
  <2>3. ASSUME m.target_ip = None PROVE Leads(v, IpsOf(m))
    <3>1. \A k \in 1..size : items[k].target_ip = None  BY <1>6, <2>3 DEF GivenBy
    <3>2. \A k \in 1..size : Leads(v, items[k].ips)  BY <1>10, <2>1, <3>1, IpsLead
    <3>3. items[1].ips \in Seq(Text) /\ Leads(v, items[1].ips)  BY <1>1, <1>10, <3>2 DEF Lettered
    <3>4. ~AllNone(items[1]["ips"])  BY <3>3, NotLedBlank
    <3>5. ~AllNone(m.ips)  BY <1>1, <1>7, <3>4 DEF JoinedFrom
    <3>6. PICK w : Leads(w, m.ips) /\ \E k \in 1..size : Leads(w, items[k]["ips"])  BY <1>7, <3>5 DEF JoinedFrom
    <3>7. PICK k \in 1..size : Leads(w, items[k].ips)  BY <3>6
    <3>8. items[k].ips \in Seq(Text) /\ Leads(v, items[k].ips)  BY <1>10, <3>2 DEF Lettered
    <3>9. w = v  BY <3>7, <3>8, LeadsOnce
    <3>10. Leads(v, IpsOf(m))  BY <1>6, <2>3, <3>6, <3>9, IpsLead
    <3> QED  BY <3>10
  <2>4. Leads(v, IpsOf(m))  BY <2>2, <2>3
  <2>5. Keyed(m, c, kind, v)  BY <1>9, <1>12, <2>4 DEF Keyed
  <2> QED  BY <1>4, <1>6, <2>5, KeyOfKeyed DEF m
<1>13. CASE kind # "ip"
  <2>1. \A k \in 1..size : AllNone(IpsOf(items[k]))  BY <1>5, <1>13 DEF Keyed
  <2>2. \A k \in 1..size : items[k].target_ip = None /\ AllNone(items[k]["ips"])  BY <1>10, <2>1, IpsLead
  <2>3. m.target_ip = None  BY <1>6, <2>2 DEF GivenBy
  <2>4. AllNone(m.ips)  BY <1>7, <2>2 DEF JoinedFrom
  <2>5. AllNone(IpsOf(m))  BY <1>6, <2>3, <2>4, IpsLead
  <2>6. CASE kind = "role"
    <3>1. \A k \in 1..size : items[k].role_level /\ items[k].target = None /\ v = None  BY <1>5, <2>6 DEF Keyed
    <3>2. m.role_level  BY <1>6, <3>1
    <3>3. m.target = None  BY <1>6, <3>1 DEF GivenBy
    <3>4. Keyed(m, c, kind, v)  BY <1>1, <1>9, <2>5, <2>6, <3>1, <3>2, <3>3 DEF Keyed
    <3> QED  BY <1>4, <1>6, <3>4, KeyOfKeyed DEF m
  <2>7. CASE kind = "name"
    <3>1. \A k \in 1..size : ~(items[k].role_level /\ items[k].target = None) /\ FirstIn(v, NamesOf(items[k]))
      BY <1>5, <2>7 DEF Keyed
    <3>2. ~(m.role_level /\ m.target = None)
      <4> SUFFICES ASSUME m.role_level, m.target = None PROVE FALSE  OBVIOUS
      <4>1. items[1].role_level  BY <1>1, <1>6
      <4>2. items[1].target = None  BY <1>1, <1>6 DEF GivenBy
      <4> QED  BY <1>1, <3>1, <4>1, <4>2
    <3>3. ASSUME NEW w, NEW k \in 1..size, Leads(w, NamesOf(items[k])) PROVE v = w
      BY <1>11, <3>1, <3>3, FirstIsLed
    <3>4. ASSUME m.target # None PROVE FirstIn(v, NamesOf(m))
      <4>1. PICK k \in 1..size : items[k].target = m.target  BY <1>6, <3>4 DEF GivenBy
      <4>2. Leads(m.target, NamesOf(items[k]))  BY <1>10, <3>4, <4>1, NamesLead
      <4>3. v = m.target  BY <3>3, <4>2
      <4>4. Leads(v, NamesOf(m))  BY <1>6, <3>4, <4>3, NamesLead
      <4> QED  BY <4>4 DEF FirstIn
    <3>5. ASSUME m.target = None PROVE FirstIn(v, NamesOf(m))
      <4>1. \A k \in 1..size : items[k].target = None  BY <1>6, <3>5 DEF GivenBy
      <4>2. CASE ~AllNone(m.names)
        <5>1. PICK w : Leads(w, m.names) /\ \E k \in 1..size : Leads(w, items[k]["names"])
          BY <1>7, <4>2 DEF JoinedFrom
        <5>2. PICK k \in 1..size : Leads(w, items[k].names)  BY <5>1
        <5>3. Leads(w, NamesOf(items[k]))  BY <1>10, <4>1, <5>2, NamesLead
        <5>4. Leads(v, NamesOf(m))  BY <1>6, <3>3, <3>5, <5>1, <5>3, NamesLead
        <5> QED  BY <5>4 DEF FirstIn
      <4>3. CASE AllNone(m.names) /\ ~AllNone(m.qnames)
        <5>1. PICK w : Leads(w, m.qnames) /\ \E k \in 1..size : Leads(w, items[k]["qnames"])
          BY <1>7, <4>3 DEF JoinedFrom
        <5>2. PICK k \in 1..size : Leads(w, items[k].qnames)  BY <5>1
        <5>3. AllNone(items[k].names)  BY <1>7, <4>3 DEF JoinedFrom
        <5>4. Leads(w, NamesOf(items[k]))  BY <1>10, <4>1, <5>2, <5>3, NamesLead
        <5>5. v = w  BY <3>3, <5>4
        <5>6. Leads(v, m.qnames) /\ AllNone(m.names)  BY <4>3, <5>1, <5>5
        <5>7. Leads(v, NamesOf(m))  BY <1>6, <3>5, <5>6, NamesLead
        <5> QED  BY <5>7 DEF FirstIn
      <4>4. CASE AllNone(m.names) /\ AllNone(m.qnames)
        <5>1. AllNone(items[b].names) /\ AllNone(items[b].qnames)  BY <1>7, <4>4 DEF JoinedFrom
        <5>2. CASE m.name # None
          <6>1. Leads(m.name, NamesOf(items[b]))  BY <1>8, <1>10, <4>1, <5>1, <5>2, NamesLead
          <6>2. v = m.name  BY <3>3, <6>1
          <6>3. Leads(v, NamesOf(m))  BY <1>6, <3>5, <4>4, <5>2, <6>2, NamesLead
          <6> QED  BY <6>3 DEF FirstIn
        <5>3. CASE m.name = None
          <6>1. AllNone(NamesOf(items[b]))  BY <1>8, <1>10, <4>1, <5>1, <5>3, NamesLead
          <6>2. ~Leads(v, NamesOf(items[b]))  BY <1>11, <6>1, NotLedBlank
          <6>3. v = <<>>[1]  BY <3>1, <6>2 DEF FirstIn
          <6>4. AllNone(NamesOf(m))  BY <1>6, <3>5, <4>4, <5>3, NamesLead
          <6> QED  BY <6>3, <6>4 DEF FirstIn
        <5> QED  BY <5>2, <5>3
      <4> QED  BY <4>2, <4>3, <4>4
    <3>6. FirstIn(v, NamesOf(m))  BY <3>4, <3>5
    <3>7. Keyed(m, c, kind, v)  BY <1>9, <2>5, <2>7, <3>2, <3>6 DEF Keyed
    <3> QED  BY <1>4, <1>6, <3>7, KeyOfKeyed DEF m
  <2> QED  BY <1>13, <2>6, <2>7
<1> QED  BY <1>12, <1>13

-----------------------------------------------------------------------------
(* Deduplication: each observation merges a group, in an order of their own. *)
KeysOf(obs) == [k \in 1..Len(obs) |-> DedupeKey(obs[k])]

OncePerKey(d, T, obs) ==
  /\ \E U : d \in Seq(U)
  /\ \E of, group :
       /\ \A i \in 1..Len(d) :
            group[i] \in Seq(T) /\ d[i] = Merged(group[i]) /\ Gathered(group[i], obs, KeysOf(obs), of[i])
       /\ \A i, j \in 1..Len(d) : of[i] = of[j] => i = j
       /\ \A n \in 1..Len(obs) : KeysOf(obs)[n] # None => \E i \in 1..Len(d) : HasItem(group[i], obs[n])

LEMMA MappedIs ==
  ASSUME NEW size \in Nat, NEW V, NEW f \in [1..size -> V]
  PROVE  f \in Seq(V) /\ Len(f) = size /\ Picked(f, 1..size) = f
<1>1. f \in Seq(V) /\ Len(f) = size /\ DOMAIN f = 1..size  BY SeqDef
<1> QED  BY <1>1, PickedAll

LEMMA DeduplicateIs ==
  ASSUME NEW T, NEW obs \in Seq(T)
  PROVE  OncePerKey(Deduplicate(obs), T, obs)
<1> DEFINE keys == KeysOf(obs)
           K == {DedupeKey(obs[k]) : k \in 1..Len(obs)}
           g == Groups(obs, keys)
           merged == [n \in 1..Len(g) |-> Merged(g[n])]
           V == {Merged(g[n]) : n \in 1..Len(g)}
           d == Sorted(merged)
<1>1. Len(obs) \in Nat /\ DOMAIN obs = 1..Len(obs)  OBVIOUS
<1>2. keys \in [1..Len(obs) -> K]  BY DEF KeysOf
<1>3. keys \in Seq(K) /\ Len(keys) = Len(obs) /\ Mapped(obs, DedupeKey) = keys
  <2>1. Mapped(obs, DedupeKey) = Picked(keys, 1..Len(obs))  BY <1>1 DEF Mapped, KeysOf
  <2> HIDE DEF keys, K
  <2> QED  BY <1>1, <1>2, <2>1, MappedIs
<1> HIDE DEF keys, K
<1>4. Grouped(g, T, obs, keys, K)  BY <1>3, GroupsIs
<1>5. PICK of \in [1..Len(g) -> K] :
        /\ g \in Seq(Seq(T))
        /\ \A n \in 1..Len(g) : Gathered(g[n], obs, keys, of[n])
        /\ \A j, k \in 1..Len(g) : of[j] = of[k] => j = k
        /\ \A i \in 1..Len(obs) : keys[i] # None => \E n \in 1..Len(g) : HasItem(g[n], obs[i])
  <2> HIDE DEF g
  <2> QED  BY <1>4 DEF Grouped
<1>6. Deduplicate(obs) = Sorted(Mapped(g, Merged))  BY <1>3 DEF Deduplicate, g
<1> HIDE DEF g
<1>7. Len(g) \in Nat /\ DOMAIN g = 1..Len(g)  BY <1>5
<1>8. merged \in [1..Len(g) -> V]  OBVIOUS
<1>9. Mapped(g, Merged) = Picked(merged, 1..Len(g))  BY <1>7 DEF Mapped
<1>10. \A n \in 1..Len(g) : merged[n] = Merged(g[n])  OBVIOUS
<1> HIDE DEF merged, V
<1>11. merged \in Seq(V) /\ Len(merged) = Len(g) /\ Mapped(g, Merged) = merged  BY <1>7, <1>8, <1>9, MappedIs
<1>12. d \in Seq(V) /\ Arranged(d, merged, Len(g))  BY <1>11, SortedIs
<1> HIDE DEF d
<1>13. PICK place \in [1..Len(g) -> 1..Len(g)] :
         /\ \A k \in 1..Len(g) : d[k] = merged[place[k]]
         /\ \A j, k \in 1..Len(g) : place[j] = place[k] => j = k
  BY <1>12 DEF Arranged
<1>14. Len(d) = Len(g)  BY <1>12 DEF Arranged
<1> DEFINE of1 == [k \in 1..Len(g) |-> of[place[k]]]
           group == [k \in 1..Len(g) |-> g[place[k]]]
<1>15. \A i \in 1..Len(d) :
         group[i] \in Seq(T) /\ d[i] = Merged(group[i]) /\ Gathered(group[i], obs, KeysOf(obs), of1[i])
  <2> SUFFICES ASSUME NEW i \in 1..Len(g)
               PROVE  group[i] \in Seq(T) /\ d[i] = Merged(group[i]) /\ Gathered(group[i], obs, KeysOf(obs), of1[i])
    BY <1>14
  <2>1. place[i] \in 1..Len(g) /\ group[i] = g[place[i]] /\ of1[i] = of[place[i]]  OBVIOUS
  <2> HIDE DEF group, of1
  <2>2. g[place[i]] \in Seq(T)  BY <1>5, <2>1
  <2>3. Gathered(g[place[i]], obs, KeysOf(obs), of[place[i]])  BY <1>5, <2>1 DEF keys
  <2>4. d[i] = Merged(g[place[i]])  BY <1>10, <1>13, <2>1
  <2> QED  BY <2>1, <2>2, <2>3, <2>4
<1>16. \A i, j \in 1..Len(d) : of1[i] = of1[j] => i = j
  <2> SUFFICES ASSUME NEW i \in 1..Len(g), NEW j \in 1..Len(g), of1[i] = of1[j] PROVE i = j
    BY <1>14
  <2>1. of[place[i]] = of[place[j]] /\ place[i] \in 1..Len(g) /\ place[j] \in 1..Len(g)  OBVIOUS
  <2>2. place[i] = place[j]  BY <1>5, <2>1
  <2> QED  BY <1>13, <2>2
<1> HIDE DEF of1, group
<1>17. Deduplicate(obs) = d  BY <1>6, <1>11 DEF d
<1>19. ASSUME NEW n \in 1..Len(obs), KeysOf(obs)[n] # None PROVE \E i \in 1..Len(d) : HasItem(group[i], obs[n])
  <2>1. PICK m \in 1..Len(g) : HasItem(g[m], obs[n])  BY <1>5, <1>19 DEF keys
  <2>2. PICK i \in 1..Len(g) : place[i] = m
    <3> DEFINE size == Len(g)
    <3>1. /\ size \in Nat /\ place \in [1..size -> 1..size]
          /\ \A j, k \in 1..size : place[j] = place[k] => j = k
      BY <1>7, <1>13
    <3> HIDE DEF size
    <3>2. \A k \in 1..size : \E j \in 1..size : place[j] = k  BY <3>1, Permuted
    <3> QED  BY <3>2 DEF size
  <2>3. group[i] = g[m]  BY <2>2 DEF group
  <2> QED  BY <1>14, <2>1, <2>3
<1>18. OncePerKey(d, T, obs)  BY <1>12, <1>15, <1>16, <1>19 DEF OncePerKey
<1> QED  BY <1>17, <1>18

KeysApart(obs) == \A i, j \in 1..Len(obs) : DedupeKey(obs[i]) = DedupeKey(obs[j]) => i = j

Sound(obs) == \A i \in 1..Len(obs) : Lettered(obs[i]) /\ IsObs(obs[i])

LEMMA DeduplicateParts ==
  ASSUME NEW T, NEW obs \in Seq(T), Sound(obs)
  PROVE  Sound(Deduplicate(obs)) /\ KeysApart(Deduplicate(obs))
<1> DEFINE d == Deduplicate(obs)
<1>1. OncePerKey(d, T, obs)  BY DeduplicateIs
<1> HIDE DEF d
<1>2. PICK of, group :
        /\ \A i \in 1..Len(d) :
             group[i] \in Seq(T) /\ d[i] = Merged(group[i]) /\ Gathered(group[i], obs, KeysOf(obs), of[i])
        /\ \A i, j \in 1..Len(d) : of[i] = of[j] => i = j
  BY <1>1 DEF OncePerKey
<1>3. ASSUME NEW i \in 1..Len(d) PROVE Lettered(d[i]) /\ IsObs(d[i]) /\ DedupeKey(d[i]) = of[i]
  <2> DEFINE q == group[i]
             key == of[i]
  <2>1. q \in Seq(T) /\ d[i] = Merged(q) /\ Gathered(q, obs, KeysOf(obs), key)  BY <1>2
  <2> HIDE DEF q, key
  <2>2. q # <<>>  BY <2>1 DEF Gathered
  <2>3. PICK place \in [1..Len(q) -> 1..Len(obs)] :
          \A k \in 1..Len(q) : q[k] = obs[place[k]] /\ KeysOf(obs)[place[k]] = key
    BY <2>1 DEF Gathered
  <2>4. \A k \in 1..Len(q) : Lettered(q[k]) /\ IsObs(q[k])  BY <2>3 DEF Sound
  <2>5. \A k \in 1..Len(q) : DedupeKey(q[k]) = key
    <3> SUFFICES ASSUME NEW k \in 1..Len(q) PROVE DedupeKey(q[k]) = key  OBVIOUS
    <3>1. place[k] \in 1..Len(obs)  OBVIOUS
    <3>2. KeysOf(obs)[place[k]] = DedupeKey(obs[place[k]])  BY <3>1 DEF KeysOf
    <3> QED  BY <2>3, <3>2
  <2>6. DedupeKey(Merged(q)) = key  BY <2>1, <2>2, <2>4, <2>5, MergedKeepsKey
  <2>7. IsObs(Merged(q)) /\ Lettered(Merged(q))  BY <2>1, <2>2, <2>4, MergedTells
  <2> QED  BY <2>1, <2>6, <2>7 DEF key
<1>4. Sound(d)  BY <1>3 DEF Sound
<1>5. KeysApart(d)  BY <1>2, <1>3 DEF KeysApart
<1> QED  BY <1>4, <1>5 DEF d

-----------------------------------------------------------------------------
(* The lookup: what is absent stays as it was, and what is absent, required  *)
(* and not excused counts in full.                                           *)
InFull(o) == ~o.present /\ o.required => ~o.accepted /\ ~o.optional

LEMMA AbsentHasNoSystem ==
  ASSUME NEW o, NEW systems, Match(o, systems).basis = "NO_RECOVERY_SET_MATCH"
  PROVE  Match(o, systems).at = NoSystem
<1> DEFINE found == Match(o, systems)
           names == CandidateNames(o)
           byIp == ByIp(CandidateIps(o), systems)
           byName == ByName(names, systems)
           byShort == ByShortName(names, systems)
           byAlias == ByAlias(names, systems)
           byRole == /\ o.role_level /\ o.category \in DOMAIN RoleTags
                     /\ \E k \in DOMAIN systems : systems[k].roles \cap RoleTags[o.category] # {}
           role == IF byRole THEN "ROLE_TAG_MATCH" ELSE "NO_RECOVERY_SET_MATCH"
<1>1. found = CASE byIp # NoSystem -> [basis |-> "IP_MATCH", at |-> byIp]
                [] byIp = NoSystem /\ byName # NoSystem -> [basis |-> "HOSTNAME_MATCH", at |-> byName]
                [] byIp = NoSystem /\ byName = NoSystem /\ byShort # NoSystem ->
                     [basis |-> "HOSTNAME_MATCH", at |-> byShort]
                [] byIp = NoSystem /\ byName = NoSystem /\ byShort = NoSystem /\ byAlias # NoSystem ->
                     [basis |-> "ALIAS_MATCH", at |-> byAlias]
                [] OTHER -> [basis |-> role, at |-> NoSystem]
  BY DEF Match
<1> HIDE DEF byIp, byName, byShort, byAlias, role, found
<1>2. found.basis \in {"IP_MATCH", "HOSTNAME_MATCH", "ALIAS_MATCH"} \/ found.at = NoSystem  BY <1>1
<1> QED  BY <1>2 DEF found

LEMMA MatchKeepsAbsent ==
  ASSUME NEW o, IsObs(o), NEW systems, NEW risks
  PROVE  LET t == MatchObservation(o, systems, risks)
         IN  IsObs(t) /\ InFull(t) /\ (~t.present => DedupeKey(t) = DedupeKey(o))
<1> DEFINE found == Match(o, systems)
           rich == EnrichObservation(o, systems, found.at)
           told == Told(o, systems, found)
           excused == ~told.present /\ Excused(told, risks)
           t == MatchObservation(o, systems, risks)
<1>1. t = Settled(told, excused)  BY DEF MatchObservation
<1>2. found.basis = "NO_RECOVERY_SET_MATCH" => found.at = NoSystem  BY AbsentHasNoSystem
<1> HIDE DEF found
<1>3. DOMAIN rich = ObsFields  BY DEF EnrichObservation, IsObs
<1>4. found.at = NoSystem => rich = o  BY DEF EnrichObservation
<1>5. told = [rich EXCEPT !.basis = found.basis, !.present = found.basis # "NO_RECOVERY_SET_MATCH"]  BY DEF Told
<1> HIDE DEF rich, told, excused, t
<1>6. DOMAIN told = ObsFields  BY <1>3, <1>5
<1>7. told.present <=> found.basis # "NO_RECOVERY_SET_MATCH"  BY <1>3, <1>5 DEF ObsFields
<1>8. t = [told EXCEPT !.required = told.required /\ ~excused, !.accepted = excused,
                       !.optional = ~told.required \/ excused]
  BY <1>1 DEF Settled
<1>9. IsObs(t)  BY <1>6, <1>8 DEF IsObs
<1>10. /\ t.required <=> (told.required /\ ~excused)
       /\ t.accepted <=> excused
       /\ t.optional <=> (~told.required \/ excused)
       /\ t.present = told.present
  BY <1>6, <1>8 DEF ObsFields
<1>11. InFull(t)  BY <1>10 DEF InFull
<1>12. ASSUME ~t.present PROVE DedupeKey(t) = DedupeKey(o)
  <2>1. rich = o  BY <1>2, <1>4, <1>7, <1>10, <1>12
  <2>2. /\ told.category = o.category /\ told.name = o.name /\ told.target = o.target
        /\ told.target_ip = o.target_ip
        /\ told.qnames = o.qnames /\ told.names = o.names /\ told.ips = o.ips /\ told.role_level = o.role_level
    BY <1>3, <1>5, <2>1 DEF ObsFields
  <2>3. /\ t.category = told.category /\ t.name = told.name /\ t.target = told.target
        /\ t.target_ip = told.target_ip
        /\ t.qnames = told.qnames /\ t.names = told.names /\ t.ips = told.ips /\ t.role_level = told.role_level
    BY <1>6, <1>8 DEF ObsFields
  <2> QED  BY <2>2, <2>3 DEF DedupeKey
<1> QED  BY <1>9, <1>11, <1>12 DEF t

-----------------------------------------------------------------------------
(* What the run observes: what is absent and required counts in full,        *)
(* unless a present observation was merged with it.                          *)
LEMMA ObservationIs ==
  ASSUME NEW T, NEW items \in Seq(T), items # <<>>, \A k \in 1..Len(items) : Lettered(items[k])
  PROVE  IsObs(Observation(items)) /\ Lettered(Observation(items))
<1> DEFINE o == Observation(items)
           systems == {items[k].system : k \in DOMAIN items} \ {None}
           confidence == AggregatedConfidence(items, systems)
           queries == Len(items)
           qnames == Joined(items, "qnames")
           names == Joined(items, "names")
           ips == Joined(items, "ips")
           unanswered == AnyHas(items, "unanswered")
           role_level == AnyHas(items, "role_level")
           known == AnyHas(items, "known")
           required == AnyHas(items, "required")
<1>1. o = [category |-> items[1].category, name |-> items[1].name, target |-> items[1].target,
           target_ip |-> items[1].target_ip, confidence |-> confidence, queries |-> queries, systems |-> systems,
           qnames |-> qnames, names |-> names, ips |-> ips,
           unanswered |-> unanswered, role_level |-> role_level, known |-> known, required |-> required,
           basis |-> None, present |-> FALSE, accepted |-> FALSE, optional |-> FALSE]
  BY DEF Observation
<1>2. Lettered(items[1])  OBVIOUS
<1>3. qnames \in Seq(Text) /\ names \in Seq(Text) /\ ips \in Seq(Text)
  <2>1. /\ \A k \in 1..Len(items) : items[k]["qnames"] \in Seq(Text)
        /\ \A k \in 1..Len(items) : items[k]["names"] \in Seq(Text)
        /\ \A k \in 1..Len(items) : items[k]["ips"] \in Seq(Text)
    BY DEF Lettered
  <2>2. Joined(items, "qnames") \in Seq(Text)  BY <2>1, JoinedIs
  <2>3. Joined(items, "names") \in Seq(Text)  BY <2>1, JoinedIs
  <2>4. Joined(items, "ips") \in Seq(Text)  BY <2>1, JoinedIs
  <2> QED  BY <2>2, <2>3, <2>4
<1> HIDE DEF o, systems, confidence, queries, qnames, names, ips, unanswered, role_level, known, required
<1>4. DOMAIN o = ObsFields  BY <1>1 DEF ObsFields
<1>5. /\ o.name = items[1].name /\ o.target = items[1].target /\ o.target_ip = items[1].target_ip
      /\ o.qnames = qnames /\ o.names = names /\ o.ips = ips
  BY <1>1
<1> QED  BY <1>2, <1>3, <1>4, <1>5 DEF Lettered, IsObs, o

Named(items) == \A k \in 1..Len(items) : Lettered(items[k])

KeysOfItems(items) == [k \in 1..Len(items) |-> AggregateKey(items[k])]

OncePerThing(d, T, items) ==
  /\ \E U : d \in Seq(U)
  /\ \E of, group :
       /\ \A i \in 1..Len(d) :
            group[i] \in Seq(T) /\ d[i] = Observation(group[i]) /\ Gathered(group[i], items, KeysOfItems(items), of[i])
       /\ \A i, j \in 1..Len(d) : of[i] = of[j] => i = j
       /\ \A n \in 1..Len(items) : KeysOfItems(items)[n] # None => \E i \in 1..Len(d) : HasItem(group[i], items[n])

LEMMA AggregateParts ==
  ASSUME NEW T, NEW items \in Seq(T)
  PROVE  OncePerThing(Aggregate(items), T, items)
<1> DEFINE keys == KeysOfItems(items)
           K == {AggregateKey(items[k]) : k \in 1..Len(items)}
           g == Groups(items, keys)
           made == [n \in 1..Len(g) |-> Observation(g[n])]
           V == {Observation(g[n]) : n \in 1..Len(g)}
           d == Sorted(made)
<1>1. Len(items) \in Nat /\ DOMAIN items = 1..Len(items)  OBVIOUS
<1>2. keys \in [1..Len(items) -> K]  BY DEF KeysOfItems
<1>3. keys \in Seq(K) /\ Len(keys) = Len(items) /\ Mapped(items, AggregateKey) = keys
  <2>1. Mapped(items, AggregateKey) = Picked(keys, 1..Len(items))  BY <1>1 DEF Mapped, KeysOfItems
  <2> HIDE DEF keys, K
  <2> QED  BY <1>1, <1>2, <2>1, MappedIs
<1> HIDE DEF keys, K
<1>4. Grouped(g, T, items, keys, K)  BY <1>3, GroupsIs
<1>5. PICK of \in [1..Len(g) -> K] :
        /\ g \in Seq(Seq(T))
        /\ \A n \in 1..Len(g) : Gathered(g[n], items, keys, of[n])
        /\ \A j, k \in 1..Len(g) : of[j] = of[k] => j = k
        /\ \A i \in 1..Len(items) : keys[i] # None => \E n \in 1..Len(g) : HasItem(g[n], items[i])
  <2> HIDE DEF g
  <2> QED  BY <1>4 DEF Grouped
<1>6. Aggregate(items) = Sorted(Mapped(g, Observation))  BY <1>3 DEF Aggregate, g
<1> HIDE DEF g
<1>7. Len(g) \in Nat /\ DOMAIN g = 1..Len(g)  BY <1>5
<1>8. made \in [1..Len(g) -> V]  OBVIOUS
<1>9. Mapped(g, Observation) = Picked(made, 1..Len(g))  BY <1>7 DEF Mapped
<1>10. \A n \in 1..Len(g) : made[n] = Observation(g[n])  OBVIOUS
<1> HIDE DEF made, V
<1>11. made \in Seq(V) /\ Len(made) = Len(g) /\ Mapped(g, Observation) = made  BY <1>7, <1>8, <1>9, MappedIs
<1>12. d \in Seq(V) /\ Arranged(d, made, Len(g))  BY <1>11, SortedIs
<1> HIDE DEF d
<1>13. PICK place \in [1..Len(g) -> 1..Len(g)] :
         /\ \A k \in 1..Len(g) : d[k] = made[place[k]]
         /\ \A j, k \in 1..Len(g) : place[j] = place[k] => j = k
  BY <1>12 DEF Arranged
<1>14. Len(d) = Len(g)  BY <1>12 DEF Arranged
<1> DEFINE of1 == [k \in 1..Len(g) |-> of[place[k]]]
           group == [k \in 1..Len(g) |-> g[place[k]]]
<1>15. \A i \in 1..Len(d) :
         group[i] \in Seq(T) /\ d[i] = Observation(group[i]) /\ Gathered(group[i], items, KeysOfItems(items), of1[i])
  <2> SUFFICES ASSUME NEW i \in 1..Len(g)
               PROVE  group[i] \in Seq(T) /\ d[i] = Observation(group[i]) /\ Gathered(group[i], items, KeysOfItems(items), of1[i])
    BY <1>14
  <2>1. place[i] \in 1..Len(g) /\ group[i] = g[place[i]] /\ of1[i] = of[place[i]]  OBVIOUS
  <2> HIDE DEF group, of1
  <2>2. g[place[i]] \in Seq(T)  BY <1>5, <2>1
  <2>3. Gathered(g[place[i]], items, KeysOfItems(items), of[place[i]])  BY <1>5, <2>1 DEF keys
  <2>4. d[i] = Observation(g[place[i]])  BY <1>10, <1>13, <2>1
  <2> QED  BY <2>1, <2>2, <2>3, <2>4
<1>16. \A i, j \in 1..Len(d) : of1[i] = of1[j] => i = j
  <2> SUFFICES ASSUME NEW i \in 1..Len(g), NEW j \in 1..Len(g), of1[i] = of1[j] PROVE i = j
    BY <1>14
  <2>1. of[place[i]] = of[place[j]] /\ place[i] \in 1..Len(g) /\ place[j] \in 1..Len(g)  OBVIOUS
  <2>2. place[i] = place[j]  BY <1>5, <2>1
  <2> QED  BY <1>13, <2>2
<1> HIDE DEF of1, group
<1>17. Aggregate(items) = d  BY <1>6, <1>11 DEF d
<1>19. ASSUME NEW n \in 1..Len(items), KeysOfItems(items)[n] # None PROVE \E i \in 1..Len(d) : HasItem(group[i], items[n])
  <2>1. PICK m \in 1..Len(g) : HasItem(g[m], items[n])  BY <1>5, <1>19 DEF keys
  <2>2. PICK i \in 1..Len(g) : place[i] = m
    <3> DEFINE size == Len(g)
    <3>1. /\ size \in Nat /\ place \in [1..size -> 1..size]
          /\ \A j, k \in 1..size : place[j] = place[k] => j = k
      BY <1>7, <1>13
    <3> HIDE DEF size
    <3>2. \A k \in 1..size : \E j \in 1..size : place[j] = k  BY <3>1, Permuted
    <3> QED  BY <3>2 DEF size
  <2>3. group[i] = g[m]  BY <2>2 DEF group
  <2> QED  BY <1>14, <2>1, <2>3
<1>18. OncePerThing(d, T, items)  BY <1>12, <1>15, <1>16, <1>19 DEF OncePerThing
<1> QED  BY <1>17, <1>18

LEMMA AggregateIs ==
  ASSUME NEW T, NEW items \in Seq(T), Named(items)
  PROVE  \E U : Aggregate(items) \in Seq(U) /\ Sound(Aggregate(items))
<1> DEFINE d == Aggregate(items)
<1>1. OncePerThing(d, T, items)  BY AggregateParts
<1> HIDE DEF d
<1>2. PICK of, group :
        \A i \in 1..Len(d) :
          group[i] \in Seq(T) /\ d[i] = Observation(group[i]) /\ Gathered(group[i], items, KeysOfItems(items), of[i])
  BY <1>1 DEF OncePerThing
<1>3. ASSUME NEW i \in 1..Len(d) PROVE IsObs(d[i]) /\ Lettered(d[i])
  <2> DEFINE q == group[i]
             key == of[i]
  <2>1. q \in Seq(T) /\ d[i] = Observation(q) /\ Gathered(q, items, KeysOfItems(items), key)  BY <1>2
  <2> HIDE DEF q, key
  <2>2. q # <<>>  BY <2>1 DEF Gathered
  <2>3. PICK place \in [1..Len(q) -> 1..Len(items)] : \A k \in 1..Len(q) : q[k] = items[place[k]]
    BY <2>1 DEF Gathered
  <2>4. \A k \in 1..Len(q) : Lettered(q[k])  BY <2>3 DEF Named
  <2> QED  BY <2>1, <2>2, <2>4, ObservationIs
<1>4. Sound(d)  BY <1>3 DEF Sound
<1>5. PICK U : d \in Seq(U)  BY <1>1 DEF OncePerThing
<1> QED  BY <1>4, <1>5 DEF d

AllInFull(obs) == \A i \in 1..Len(obs) : InFull(obs[i])

LEMMA MergedLateIsInFull ==
  ASSUME NEW T, NEW d \in Seq(T), Sound(d), KeysApart(d), NEW systems, NEW risks
  PROVE  LET final == Deduplicate(LookedUp(d, systems, risks))
         IN  (\E U : final \in Seq(U)) /\ AllInFull(final)
<1> DEFINE told == [k \in 1..Len(d) |-> MatchObservation(d[k], systems, risks)]
           V == {MatchObservation(d[k], systems, risks) : k \in 1..Len(d)}
           final == Deduplicate(told)
<1>1. Len(d) \in Nat /\ DOMAIN d = 1..Len(d)  OBVIOUS
<1>2. told \in [1..Len(d) -> V]  OBVIOUS
<1>3. LookedUp(d, systems, risks) = Picked(told, 1..Len(d))  BY <1>1 DEF LookedUp, Mapped
<1>4. ASSUME NEW k \in 1..Len(d)
      PROVE  IsObs(told[k]) /\ InFull(told[k]) /\ (~told[k].present => DedupeKey(told[k]) = DedupeKey(d[k]))
  <2>1. told[k] = MatchObservation(d[k], systems, risks)  OBVIOUS
  <2> DEFINE o == d[k]
  <2>2. IsObs(o)  BY DEF Sound
  <2> HIDE DEF o
  <2>3. /\ IsObs(MatchObservation(o, systems, risks)) /\ InFull(MatchObservation(o, systems, risks))
        /\ ~MatchObservation(o, systems, risks).present => DedupeKey(MatchObservation(o, systems, risks)) = DedupeKey(o)
    BY <2>2, MatchKeepsAbsent
  <2> QED  BY <2>1, <2>3 DEF o
<1> HIDE DEF told, V
<1>5. told \in Seq(V) /\ Len(told) = Len(d)
      /\ LookedUp(d, systems, risks) = told
  BY <1>1, <1>2, <1>3, MappedIs
<1>6. OncePerKey(final, V, told)  BY <1>5, DeduplicateIs
<1> HIDE DEF final
<1>7. PICK of, group :
        /\ \A i \in 1..Len(final) :
             /\ group[i] \in Seq(V) /\ final[i] = Merged(group[i])
             /\ Gathered(group[i], told, KeysOf(told), of[i])
        /\ \A i, j \in 1..Len(final) : of[i] = of[j] => i = j
  BY <1>6 DEF OncePerKey
<1>8. ASSUME NEW i \in 1..Len(final), ~final[i].present, final[i].required
      PROVE  ~final[i].accepted /\ ~final[i].optional
  <2> DEFINE q == group[i]
             key == of[i]
             f == final[i]
  <2>1. q \in Seq(V) /\ f = Merged(q) /\ Gathered(q, told, KeysOf(told), key)  BY <1>7
  <2> HIDE DEF q, key
  <2>2. q # <<>>  BY <2>1 DEF Gathered
  <2>3. PICK place \in [1..Len(q) -> 1..Len(d)] :
          /\ \A k \in 1..Len(q) : q[k] = told[place[k]] /\ KeysOf(told)[place[k]] = key
          /\ \A j, k \in 1..Len(q) : place[j] = place[k] => j = k
    BY <1>5, <2>1 DEF Gathered
  <2>4. 1 \in 1..Len(q) /\ DOMAIN q = 1..Len(q)  BY <2>1, <2>2
  <2>5. /\ f.required <=> \E k \in 1..Len(q) : q[k].required
        /\ f.present <=> \E k \in 1..Len(q) : q[k].present
        /\ f.accepted <=> \E k \in 1..Len(q) : q[k].accepted
        /\ f.optional <=> \E k \in 1..Len(q) : q[k].optional
    <3>1. PICK b \in 1..Len(q) : Base(q) = q[b]  BY <2>1, <2>2, BaseIs
    <3> DEFINE base == q[b]
    <3>2. IsObs(base)  BY <1>4, <2>3
    <3> HIDE DEF base
    <3>3. Base(q) = base  BY <3>1 DEF base
    <3> QED  BY <2>1, <2>4, <3>2, <3>3, MergedIs
  <2>6. \A k \in 1..Len(q) : ~q[k].present  BY <1>8, <2>5
  <2>7. ASSUME NEW k \in 1..Len(q) PROVE DedupeKey(d[place[k]]) = key
    <3>1. place[k] \in 1..Len(d)  OBVIOUS
    <3>2. KeysOf(told)[place[k]] = DedupeKey(told[place[k]])  BY <1>5, <3>1 DEF KeysOf
    <3>3. ~told[place[k]].present  BY <2>3, <2>6
    <3> QED  BY <1>4, <2>3, <3>1, <3>2, <3>3
  <2>8. \A k \in 1..Len(q) : k = 1
    <3> SUFFICES ASSUME NEW k \in 1..Len(q) PROVE k = 1  OBVIOUS
    <3>1. DedupeKey(d[place[k]]) = DedupeKey(d[place[1]])  BY <2>4, <2>7
    <3>2. place[k] = place[1]  BY <2>4, <3>1 DEF KeysApart
    <3> QED  BY <2>3, <2>4, <3>2
  <2>9. q[1].required /\ ~q[1].present  BY <1>8, <2>4, <2>5, <2>6, <2>8
  <2>10. InFull(q[1])  BY <1>4, <2>3, <2>4
  <2>11. ~q[1].accepted /\ ~q[1].optional  BY <2>9, <2>10 DEF InFull
  <2> QED  BY <2>5, <2>8, <2>11
<1>9. AllInFull(final)  BY <1>8 DEF AllInFull, InFull
<1>10. \E U : final \in Seq(U)  BY <1>6 DEF OncePerKey
<1> QED  BY <1>5, <1>9, <1>10 DEF final

LEMMA ObservedIsInFull ==
  ASSUME NEW T, NEW items \in Seq(T), Named(items), NEW systems, NEW risks
  PROVE  (\E U : Observed(items, systems, risks) \in Seq(U)) /\ AllInFull(Observed(items, systems, risks))
<1>1. PICK U : Aggregate(items) \in Seq(U) /\ Sound(Aggregate(items))  BY AggregateIs
<1> DEFINE d == Deduplicate(Aggregate(items))
<1>2. Sound(d) /\ KeysApart(d)  BY <1>1, DeduplicateParts
<1>3. PICK W : d \in Seq(W)  BY <1>1, DeduplicateIs DEF OncePerKey
<1> HIDE DEF d
<1> DEFINE final == Deduplicate(LookedUp(d, systems, risks))
<1>4. (\E X : final \in Seq(X)) /\ AllInFull(final)  BY <1>2, <1>3, MergedLateIsInFull
<1>5. Observed(items, systems, risks) = final  BY DEF Observed, d
<1> QED  BY <1>4, <1>5

-----------------------------------------------------------------------------
(* The evidence names things by texts, each by one at least, and a role by    *)
(* that of its category.                                                     *)
LEMMA GivenIsText == Seq(Given) \subseteq Seq(Text)
BY DEF Given

RoleName(category) == CHOOSE kind \in DOMAIN ServiceCategory : ServiceCategory[kind] = category

LEMMA RolesApart ==
  ASSUME NEW kind \in DOMAIN ServiceCategory
  PROVE  RoleName(ServiceCategory[kind]) = kind /\ ServiceCategory[kind] # "dns_resolver"
<1>1. \A other \in DOMAIN ServiceCategory : ServiceCategory[other] = ServiceCategory[kind] => other = kind
  BY DEF ServiceCategory
<1>2. ServiceCategory[kind] # "dns_resolver"  BY DEF ServiceCategory
<1> QED  BY <1>1, <1>2 DEF RoleName

Readable(e) ==
  /\ Lettered(e) /\ e.category \in Text /\ e.role_level \in BOOLEAN
  /\ e.target # None \/ e.name # None
  /\ e.role_level => e.target = None /\ e.name = RoleName(e.category) /\ e.category # "dns_resolver"

Plain(s) == \E U : s \in Seq(U) /\ \A e \in U : Readable(e)

LEMMA PlainFunction ==
  ASSUME NEW size \in Nat, NEW f, DOMAIN f = 1..size, f = [k \in 1..size |-> f[k]],
         \A k \in 1..size : Readable(f[k])
  PROVE  Plain(f)
<1> DEFINE U == {f[k] : k \in 1..size}
<1>1. f \in [1..size -> U]  OBVIOUS
<1>2. \A e \in U : Readable(e)  OBVIOUS
<1> HIDE DEF U
<1>3. f \in Seq(U)  BY <1>1, SeqDef
<1> QED  BY <1>2, <1>3 DEF Plain

LEMMA PlainEmpty ==
  Plain(<<>>)
<1> DEFINE U == {}
<1>1. <<>> \in Seq(U) /\ \A e \in U : Readable(e)  OBVIOUS
<1> HIDE DEF U
<1> QED  BY <1>1 DEF Plain

LEMMA PlainOne ==
  ASSUME NEW i, Readable(i)
  PROVE  Plain(<<i>>)
<1> DEFINE U == {i}
<1>1. <<i>> \in Seq(U) /\ \A e \in U : Readable(e)  OBVIOUS
<1> HIDE DEF U
<1> QED  BY <1>1 DEF Plain

LEMMA PlainConcat ==
  ASSUME NEW a, NEW b, Plain(a), Plain(b)
  PROVE  Plain(a \o b)
<1>1. PICK A : a \in Seq(A) /\ \A e \in A : Readable(e)  BY DEF Plain
<1>2. PICK B : b \in Seq(B) /\ \A e \in B : Readable(e)  BY DEF Plain
<1> DEFINE U == A \cup B
<1>3. a \in Seq(U) /\ b \in Seq(U)
  <2>1. a \in [1..Len(a) -> A] /\ Len(a) \in Nat /\ b \in [1..Len(b) -> B] /\ Len(b) \in Nat  BY <1>1, <1>2
  <2>2. a \in [1..Len(a) -> U] /\ b \in [1..Len(b) -> U]  BY <2>1
  <2> HIDE DEF U
  <2> QED  BY <2>1, <2>2, SeqDef
<1>4. \A e \in U : Readable(e)  BY <1>1, <1>2
<1> HIDE DEF U
<1>5. a \o b \in Seq(U)  BY <1>3, ConcatOf
<1> QED  BY <1>4, <1>5 DEF Plain

LEMMA PlainFlatten ==
  ASSUME NEW size \in Nat, NEW ss, ss = [k \in 1..size |-> ss[k]], \A k \in 1..size : Plain(ss[k])
  PROVE  Plain(FlattenSeq(ss))
<1> DEFINE U == UNION {{ss[k][i] : i \in 1..Len(ss[k])} : k \in 1..size}
<1>1. ASSUME NEW k \in 1..size PROVE ss[k] \in Seq(U) /\ \A i \in 1..Len(ss[k]) : Readable(ss[k][i])
  <2> DEFINE s == ss[k]
  <2>1. PICK A : s \in Seq(A) /\ \A e \in A : Readable(e)  BY DEF Plain
  <2>2. \A i \in 1..Len(s) : s[i] \in U  OBVIOUS
  <2> HIDE DEF s, U
  <2>3. s \in [1..Len(s) -> A] /\ Len(s) \in Nat  BY <2>1
  <2>4. s \in [1..Len(s) -> U]  BY <2>2, <2>3
  <2>5. s \in Seq(U)  BY <2>3, <2>4, SeqDef
  <2>6. \A i \in 1..Len(s) : Readable(s[i])  BY <2>1, <2>3
  <2> QED  BY <2>5, <2>6 DEF s
<1>2. \A e \in U : Readable(e)  BY <1>1
<1> HIDE DEF U
<1>3. ss \in [1..size -> Seq(U)]  BY <1>1
<1>4. ss \in Seq(Seq(U))  BY <1>3, SeqDef
<1>5. FlattenSeq(ss) \in Seq(U)  BY <1>4, FlattenIs
<1> QED  BY <1>2, <1>5 DEF Plain

LEMMA PlainIsNamed ==
  ASSUME NEW s, Plain(s)
  PROVE  \E U : s \in Seq(U) /\ Named(s)
<1>1. PICK U : s \in Seq(U) /\ \A e \in U : Readable(e)  BY DEF Plain
<1>2. Named(s)  BY <1>1 DEF Named, Readable
<1> QED  BY <1>1, <1>2

ItemFields ==
  {"category", "name", "target", "target_ip", "confidence", "source", "system", "qnames", "names", "ips",
   "unanswered", "role_level", "known", "required", "weak"}

ItemOf(i, category, name, target) ==
  /\ Readable(i) /\ DOMAIN i = ItemFields /\ i.role_level = FALSE
  /\ i.category = category /\ i.name = name /\ i.target = target

LEMMA ItemIs ==
  ASSUME NEW q \in QueryRow, NEW system, NEW category \in Text, NEW name \in Text, NEW target \in Text, NEW ip \in Text,
         NEW confidence, target # None \/ name # None
  PROVE  ItemOf(Item(q, system, category, name, target, ip, confidence), category, name, target)
<1> DEFINE i == Item(q, system, category, name, target, ip, confidence)
<1>1. DOMAIN i = ItemFields  BY DEF Item, ItemFields
<1>2. i.name = name /\ i.target = target /\ i.target_ip = ip /\ i.category = category /\ i.role_level = FALSE  BY DEF Item
<1>3. i.qnames = <<q.qname>> /\ i.names = q.names /\ i.ips = q.ips  BY DEF Item
<1>4. <<q.qname>> \in Seq(Text) /\ q.names \in Seq(Text) /\ q.ips \in Seq(Text)
  BY InputsAssumption, GivenIsText DEF QueryRow, Given
<1> HIDE DEF i
<1> QED  BY <1>1, <1>2, <1>3, <1>4 DEF Lettered, Readable, ItemOf, i

(* A query row names what it asks for.                                       *)
LEMMA RowIs ==
  ASSUME NEW q \in QueryRow
  PROVE  /\ q.qname \in Text /\ q.qname # None /\ None \in Text
         /\ q.names \in Seq(Given) /\ q.ips \in Seq(Given)
         /\ HostKind[q.qname] \in Text
         /\ SrvKind[q.qname] # None => /\ SrvKind[q.qname] \in Text /\ SrvKind[q.qname] \in DOMAIN ServiceCategory
                                       /\ ServiceCategory[SrvKind[q.qname]] \in Text
         /\ q.resolver_name \in Text /\ q.resolver_ip \in Text
BY InputsAssumption DEF QueryRow, Given

LEMMA KnownItemsPlain ==
  ASSUME NEW q \in QueryRow, NEW system, NEW rules \in Seq(KnownRule)
  PROVE  Plain(KnownItems(q, system, rules))
<1> DEFINE f == KnownItems(q, system, rules)
<1>1. Len(rules) \in Nat /\ DOMAIN rules = 1..Len(rules)  OBVIOUS
<1>2. ASSUME NEW k \in 1..Len(rules) PROVE Readable(f[k])
  <2> DEFINE i == Item(q, system, rules[k].category, rules[k].name, q.qname, None, IF system = None THEN Low ELSE High)
  <2>1. rules[k] \in KnownRule  OBVIOUS
  <2>2. rules[k].name \in Text /\ rules[k].category \in Text /\ q.qname \in Text /\ q.qname # None /\ None \in Text
    BY <2>1, RowIs DEF KnownRule
  <2>3. ItemOf(i, rules[k].category, rules[k].name, q.qname)  BY <2>2, ItemIs
  <2>4. f[k] = [i EXCEPT !.known = TRUE, !.required = rules[k].required, !.unanswered = ~Answered(q)]
    BY <1>1 DEF KnownItems
  <2> HIDE DEF i, f
  <2>6. Readable(i) /\ DOMAIN i = ItemFields /\ i.role_level = FALSE  BY <2>3 DEF ItemOf
  <2>5. /\ f[k].name = i.name /\ f[k].target = i.target /\ f[k].target_ip = i.target_ip
        /\ f[k].qnames = i.qnames /\ f[k].names = i.names /\ f[k].ips = i.ips
        /\ f[k].category = i.category /\ f[k].role_level = FALSE
    BY <2>4, <2>6 DEF ItemFields
  <2> QED  BY <2>5, <2>6 DEF Lettered, Readable
<1>3. DOMAIN f = 1..Len(rules) /\ f = [k \in 1..Len(rules) |-> f[k]]  BY <1>1 DEF KnownItems
<1> HIDE DEF f
<1>4. Plain(f)  BY <1>1, <1>2, <1>3, PlainFunction
<1> QED  BY <1>4 DEF f

LEMMA NthIn ==
  ASSUME NEW s \in Seq(Given), NEW k \in Nat \ {0}
  PROVE  Nth(s, k) \in Text /\ (k <= Len(s) => Nth(s, k) # None)
BY InputsAssumption DEF Nth, Given

LEMMA SrvItemsPlain ==
  ASSUME NEW q \in QueryRow, NEW system, SrvKind[q.qname] # None
  PROVE  Plain(SrvItems(q, system))
<1> DEFINE kind == SrvKind[q.qname]
           category == ServiceCategory[kind]
           pairs == IF Len(q.names) > Len(q.ips) THEN Len(q.names) ELSE Len(q.ips)
           name(k) == IF Nth(q.names, k) # None THEN Nth(q.names, k) ELSE Nth(q.ips, k)
           target(k) == Item(q, system, category, name(k), Nth(q.names, k), Nth(q.ips, k),
                             IF system = None THEN Low ELSE High)
           i == Item(q, system, category, kind, None, None, IF system = None THEN Low ELSE Medium)
           role == [i EXCEPT !.role_level = TRUE, !.unanswered = TRUE]
           all == [k \in 1..pairs |-> target(k)]
<1>1. q.names \in Seq(Given) /\ q.ips \in Seq(Given)  BY RowIs
<1>2. pairs \in Nat  BY <1>1
<1>3. SrvItems(q, system) = IF Answered(q) THEN all ELSE <<role>>  BY DEF SrvItems
<1>4. kind \in Text /\ kind # None /\ None \in Text /\ category \in Text /\ kind \in DOMAIN ServiceCategory  BY RowIs
<1>5. RoleName(category) = kind /\ category # "dns_resolver"  BY <1>4, RolesApart
<1> HIDE DEF kind, category
<1>6. Plain(all)
  <2>1. ASSUME NEW k \in 1..pairs PROVE Readable(all[k])
    <3>1. all[k] = target(k)  OBVIOUS
    <3>2. Nth(q.names, k) \in Text /\ Nth(q.ips, k) \in Text  BY <1>1, NthIn
    <3>3. k <= Len(q.names) \/ k <= Len(q.ips)  BY <1>1
    <3>4. name(k) \in Text /\ name(k) # None  BY <1>1, <3>2, <3>3, NthIn
    <3>5. Readable(target(k))  BY <1>4, <3>2, <3>4, ItemIs DEF ItemOf
    <3> HIDE DEF all, target
    <3> QED  BY <3>1, <3>5
  <2>2. DOMAIN all = 1..pairs /\ all = [k \in 1..pairs |-> all[k]]  OBVIOUS
  <2> HIDE DEF all, pairs
  <2> QED  BY <1>2, <2>1, <2>2, PlainFunction
<1>7. Plain(<<role>>)
  <2>4. ItemOf(i, category, kind, None)  BY <1>4, ItemIs
  <2> HIDE DEF i
  <2>1. Readable(i) /\ DOMAIN i = ItemFields /\ i.category = category /\ i.name = kind /\ i.target = None  BY <2>4 DEF ItemOf
  <2>2. /\ role.name = i.name /\ role.target = i.target /\ role.target_ip = i.target_ip
        /\ role.qnames = i.qnames /\ role.names = i.names /\ role.ips = i.ips
        /\ role.category = i.category /\ role.role_level = TRUE
    BY <2>1 DEF ItemFields
  <2> HIDE DEF role
  <2>3. Readable(role)  BY <1>5, <2>1, <2>2 DEF Lettered, Readable
  <2> QED  BY <2>3, PlainOne
<1> HIDE DEF all, role
<1> QED  BY <1>3, <1>6, <1>7

LEMMA HostItemsPlain ==
  ASSUME NEW q \in QueryRow, NEW system
  PROVE  Plain(HostItems(q, system))
<1> DEFINE i == Item(q, system, HostKind[q.qname], q.qname, q.qname, None, HostConfidence(q, system))
           host == [i EXCEPT !.weak = q.qname \in WeakNames \/ HostKind[q.qname] = "time_service",
                             !.unanswered = ~Answered(q)]
<1>1. None \in Text /\ q.qname \in Text /\ q.qname # None /\ HostKind[q.qname] \in Text  BY RowIs
<1>6. ItemOf(i, HostKind[q.qname], q.qname, q.qname)  BY <1>1, ItemIs
<1>3. HostItems(q, system) = <<host>>  BY DEF HostItems
<1> HIDE DEF i
<1>2. Readable(i) /\ DOMAIN i = ItemFields  BY <1>6 DEF ItemOf
<1>4. /\ host.name = i.name /\ host.target = i.target /\ host.target_ip = i.target_ip
      /\ host.qnames = i.qnames /\ host.names = i.names /\ host.ips = i.ips
      /\ host.category = i.category /\ host.role_level = i.role_level
  BY <1>2 DEF ItemFields
<1> HIDE DEF host
<1>5. Readable(host)  BY <1>2, <1>4 DEF Lettered, Readable
<1> QED  BY <1>3, <1>5, PlainOne

LEMMA ClassifyPlain ==
  ASSUME NEW q \in QueryRow, NEW system, NEW known \in Seq(KnownRule), NEW include_external
  PROVE  Plain(Classify(q, system, known, include_external))
<1> DEFINE rules == Matches(known, q)
           service == /\ rules = <<>> /\ q.qtype = "SRV" /\ SrvKind[q.qname] # None
           guess == /\ rules = <<>> /\ q.qtype \in {"A", "AAAA", "CNAME", "UNKNOWN"} /\ HostKind[q.qname] # None
                    /\ IsInternal(q) \/ include_external
           c == Classify(q, system, known, include_external)
<1>1. rules \in Seq(KnownRule)  BY PickedIn DEF Matches
<1>2. c = CASE rules # <<>> -> KnownItems(q, system, rules)
            [] service -> SrvItems(q, system)
            [] guess -> HostItems(q, system)
            [] OTHER -> <<>>
  BY DEF Classify
<1> HIDE DEF rules, guess, c
<1>3. \/ c = KnownItems(q, system, rules)
      \/ SrvKind[q.qname] # None /\ c = SrvItems(q, system)
      \/ c = HostItems(q, system)
      \/ c = <<>>
  BY <1>2
<1>4. Plain(c)  BY <1>1, <1>3, KnownItemsPlain, SrvItemsPlain, HostItemsPlain, PlainEmpty
<1> QED  BY <1>4 DEF c

LEMMA RowEvidencePlain ==
  ASSUME NEW q \in QueryRow, NEW inventory, NEW given, given.known \in Seq(KnownRule)
  PROVE  Plain(RowEvidence(inventory, q, given))
<1> DEFINE systems == Protected(inventory)
           at == MapClient(systems, q).at
           name == DisplayName(systems[at])
           e == RowEvidence(inventory, q, given)
<1>1. e = CASE at # NoSystem -> Classify(q, name, given.known, given.include_external)
            [] at = NoSystem /\ given.include_unmapped -> Classify(q, None, given.known, given.include_external)
            [] OTHER -> <<>>
  BY DEF RowEvidence
<1> HIDE DEF at, name, e
<1>2. \/ e = Classify(q, name, given.known, given.include_external)
      \/ e = Classify(q, None, given.known, given.include_external)
      \/ e = <<>>
  BY <1>1
<1>3. Plain(e)  BY <1>2, ClassifyPlain, PlainEmpty
<1> QED  BY <1>3 DEF e

LEMMA ResolverItemIs ==
  ASSUME NEW qnames \in Seq(Text), NEW source, NEW confidence, NEW name \in Text, NEW ip \in Text,
         name # None \/ ip # None
  PROVE  Readable(ResolverItem(qnames, source, confidence, name, ip))
<1> DEFINE i == ResolverItem(qnames, source, confidence, name, ip)
<1>1. /\ i.name = (IF name # None THEN name ELSE ip) /\ i.target = name /\ i.target_ip = ip
      /\ i.qnames = qnames /\ i.names = <<>> /\ i.ips = <<>>
      /\ i.category = "dns_resolver" /\ i.role_level = FALSE
  BY DEF ResolverItem
<1>2. i.name \in Text /\ i.name # None /\ i.category \in Text  BY <1>1, InputsAssumption
<1>3. <<>> \in Seq(Text)  OBVIOUS
<1> HIDE DEF i
<1> QED  BY <1>1, <1>2, <1>3 DEF Lettered, Readable, i

LEMMA HintItemsPlain ==
  ASSUME NEW hint \in ResolverHint
  PROVE  Plain(HintItems(hint))
<1> DEFINE ips == IF hint.ips = <<>> THEN <<None>> ELSE hint.ips
           f == HintItems(hint)
<1>1. /\ hint.ips \in Seq(Given) /\ hint.name \in Text /\ None \in Text
      /\ hint.name # None \/ hint.ips # <<>>
  BY InputsAssumption DEF ResolverHint
<1>2. Len(ips) \in Nat /\ DOMAIN ips = 1..Len(ips)
      /\ \A k \in 1..Len(ips) : ips[k] \in Text /\ (hint.name # None \/ ips[k] # None)
  <2>1. CASE hint.ips = <<>>
    <3>1. ips = <<None>> /\ hint.name # None  BY <1>1, <2>1
    <3> HIDE DEF ips
    <3> QED  BY <1>1, <3>1
  <2>2. CASE hint.ips # <<>>
    <3>1. ips = hint.ips  BY <2>2
    <3>2. \A k \in 1..Len(hint.ips) : hint.ips[k] \in Given  BY <1>1
    <3>3. Len(hint.ips) \in Nat /\ DOMAIN hint.ips = 1..Len(hint.ips)  BY <1>1
    <3> HIDE DEF ips
    <3> QED  BY <1>1, <3>1, <3>2, <3>3 DEF Given
  <2> QED  BY <2>1, <2>2
<1>3. f = [k \in DOMAIN ips |-> ResolverItem(<<>>, "resolver_hints", High, hint.name, ips[k])]
  BY DEF HintItems
<1> HIDE DEF ips, f
<1>4. <<>> \in Seq(Text)  OBVIOUS
<1>5. \A k \in 1..Len(ips) : Readable(f[k])  BY <1>1, <1>2, <1>3, <1>4, ResolverItemIs
<1>6. DOMAIN f = 1..Len(ips) /\ f = [k \in 1..Len(ips) |-> f[k]]  BY <1>2, <1>3
<1>7. Plain(f)  BY <1>2, <1>5, <1>6, PlainFunction
<1> QED  BY <1>7 DEF f

LEMMA ResolverEvidencePlain ==
  ASSUME NEW hints \in Seq(ResolverHint), NEW rows \in Seq(QueryRow)
  PROVE  Plain(ResolverEvidence(hints, rows))
<1>1. CASE hints # <<>>
  <2> DEFINE ss == [k \in DOMAIN hints |-> IF hints[k].required THEN HintItems(hints[k]) ELSE <<>>]
  <2>1. Len(hints) \in Nat /\ DOMAIN hints = 1..Len(hints)  OBVIOUS
  <2>2. ASSUME NEW k \in 1..Len(hints) PROVE Plain(ss[k])
    <3>1. hints[k] \in ResolverHint  OBVIOUS
    <3>2. Plain(HintItems(hints[k])) /\ Plain(<<>>)  BY <3>1, HintItemsPlain, PlainEmpty
    <3>3. ss[k] = IF hints[k].required THEN HintItems(hints[k]) ELSE <<>>  BY <2>1
    <3> HIDE DEF ss
    <3> QED  BY <3>2, <3>3
  <2>3. ss = [k \in 1..Len(hints) |-> ss[k]]  BY <2>1
  <2>4. ResolverEvidence(hints, rows) = FlattenSeq(ss)  BY <1>1 DEF ResolverEvidence
  <2> HIDE DEF ss
  <2>5. Plain(FlattenSeq(ss))  BY <2>1, <2>2, <2>3, PlainFlatten
  <2> QED  BY <2>4, <2>5
<1>2. CASE hints = <<>>
  <2> DEFINE named == ResolverRows(rows)
             f == [k \in DOMAIN named |-> ResolverItem(<<named[k].qname>>, "dns_log_resolver_identity", Medium,
                                                       named[k].resolver_name, named[k].resolver_ip)]
  <2>1. named \in Seq(QueryRow) /\ \A k \in 1..Len(named) : named[k].resolver_name # None \/ named[k].resolver_ip # None
    <3> DEFINE at == {k \in DOMAIN rows : rows[k].resolver_name # None \/ rows[k].resolver_ip # None}
    <3>1. \A k \in at : rows[k].resolver_name # None \/ rows[k].resolver_ip # None  OBVIOUS
    <3> HIDE DEF at
    <3>2. Picked(rows, at) \in Seq(QueryRow) /\ Places(Picked(rows, at), rows, at, Len(rows))  BY PickedHasPlaces
    <3>3. named = Picked(rows, at)  BY DEF ResolverRows, at
    <3> HIDE DEF named
    <3> QED  BY <3>1, <3>2, <3>3 DEF Places
  <2>2. ResolverEvidence(hints, rows) = f  BY <1>2 DEF ResolverEvidence
  <2> HIDE DEF named
  <2>3. Len(named) \in Nat /\ DOMAIN named = 1..Len(named) /\ \A k \in 1..Len(named) : named[k] \in QueryRow  BY <2>1
  <2>4. ASSUME NEW k \in 1..Len(named) PROVE Readable(f[k])
    <3>1. named[k].resolver_name \in Text /\ named[k].resolver_ip \in Text /\ named[k].qname \in Text
      BY <2>3, RowIs
    <3>2. <<named[k].qname>> \in Seq(Text)  BY <3>1
    <3>3. f[k] = ResolverItem(<<named[k].qname>>, "dns_log_resolver_identity", Medium,
                              named[k].resolver_name, named[k].resolver_ip)
      BY <2>3
    <3> HIDE DEF f
    <3> QED  BY <2>1, <2>3, <3>1, <3>2, <3>3, ResolverItemIs
  <2>5. DOMAIN f = 1..Len(named) /\ f = [k \in 1..Len(named) |-> f[k]]  BY <2>3
  <2> HIDE DEF f
  <2>6. Plain(f)  BY <2>3, <2>4, <2>5, PlainFunction
  <2> QED  BY <2>2, <2>6
<1> QED  BY <1>1, <1>2

LEMMA EnrichRowIs ==
  ASSUME NEW q \in QueryRow, NEW entries \in Seq(AnswerMapEntry)
  PROVE  EnrichRow(q, entries) \in QueryRow
<1> DEFINE of == {k \in DOMAIN entries : entries[k].qname = q.qname}
           exact == {k \in of : entries[k].qtype = q.qtype}
           named == Picked(entries, exact) \o Picked(entries, of)
           r == EnrichRow(q, entries)
<1>1. named \in Seq(AnswerMapEntry)
  <2>1. Picked(entries, exact) \in Seq(AnswerMapEntry)  BY PickedIn
  <2>2. Picked(entries, of) \in Seq(AnswerMapEntry)  BY PickedIn
  <2> HIDE DEF of, exact
  <2> QED  BY <2>1, <2>2, ConcatOf
<1>2. r = IF named = <<>> THEN q
          ELSE [q EXCEPT !.names = IF @ = <<>> THEN named[1].names ELSE @,
                         !.ips = IF @ = <<>> THEN named[1].ips ELSE @]
  BY DEF EnrichRow
<1> HIDE DEF named, r
<1>3. CASE named = <<>>  BY <1>2, <1>3 DEF r
<1>4. CASE named # <<>>
  <2>1. named[1] \in AnswerMapEntry  BY <1>1, <1>4
  <2>2. named[1].names \in Seq(Given) /\ named[1].ips \in Seq(Given)  BY <2>1 DEF AnswerMapEntry
  <2>3. q.names \in Seq(Given) /\ q.ips \in Seq(Given)  BY DEF QueryRow
  <2> DEFINE names == IF q.names = <<>> THEN named[1].names ELSE q.names
             ips == IF q.ips = <<>> THEN named[1].ips ELSE q.ips
  <2>4. names \in Seq(Given) /\ ips \in Seq(Given)  BY <2>2, <2>3
  <2>5. r = [q EXCEPT !.names = names, !.ips = ips]  BY <1>2, <1>4
  <2> HIDE DEF names, ips
  <2>6. r \in QueryRow  BY <2>4, <2>5 DEF QueryRow
  <2> QED  BY <2>6 DEF r
<1> QED  BY <1>3, <1>4

LEMMA EnrichedIs ==
  ASSUME NEW rows \in Seq(QueryRow), NEW entries \in Seq(AnswerMapEntry)
  PROVE  Enriched(rows, entries) \in Seq(QueryRow)
<1> DEFINE f == [k \in 1..Len(rows) |-> EnrichRow(rows[k], entries)]
<1>1. Len(rows) \in Nat /\ DOMAIN rows = 1..Len(rows) /\ \A k \in 1..Len(rows) : rows[k] \in QueryRow  OBVIOUS
<1>2. f \in [1..Len(rows) -> QueryRow]  BY <1>1, EnrichRowIs
<1>3. Enriched(rows, entries) = Picked(f, 1..Len(rows))  BY <1>1 DEF Enriched, Mapped
<1> HIDE DEF f
<1>4. Picked(f, 1..Len(rows)) = f /\ f \in Seq(QueryRow)  BY <1>1, <1>2, MappedIs
<1> QED  BY <1>3, <1>4

InputRead ==
  /\ input.rows \in Seq(QueryRow)
  /\ input.options.known \in Seq(KnownRule)
  /\ input.options.hints \in Seq(ResolverHint)
  /\ input.options.answer_map \in Seq(AnswerMapEntry)
  /\ input.inventory \in Seq(SystemRow)
  /\ input.options.hours \in Nat

LEMMA WindowRowsIs ==
  ASSUME InputRead
  PROVE  WindowRows \in Seq(QueryRow)
<1> DEFINE rows == Rows
<1>1. rows \in Seq(QueryRow)  BY EnrichedIs DEF Rows, InputRead
<1> HIDE DEF rows
<1>2. InWindow(rows, input.options.hours) \in Seq(QueryRow)  BY <1>1, PickedIn DEF InWindow
<1> QED  BY <1>2 DEF WindowRows, rows

LEMMA EvidencePlain ==
  ASSUME InputRead, NEW rows \in Seq(QueryRow)
  PROVE  Plain(Evidence(rows))
<1> DEFINE ss == [k \in 1..Len(rows) |-> RowEvidence(input.inventory, rows[k], input.options)]
           V == {RowEvidence(input.inventory, rows[k], input.options) : k \in 1..Len(rows)}
<1>1. Len(rows) \in Nat /\ DOMAIN rows = 1..Len(rows) /\ \A k \in 1..Len(rows) : rows[k] \in QueryRow  OBVIOUS
<1>2. ss \in [1..Len(rows) -> V]  OBVIOUS
<1>3. Mapped(rows, RowItems) = Picked(ss, 1..Len(rows))  BY <1>1 DEF Mapped, RowItems
<1>4. ASSUME NEW k \in 1..Len(rows) PROVE Plain(ss[k])
  <2>1. Plain(RowEvidence(input.inventory, rows[k], input.options))
    BY <1>1, RowEvidencePlain DEF InputRead
  <2> QED  BY <2>1
<1>5. ss = [k \in 1..Len(rows) |-> ss[k]]  OBVIOUS
<1> HIDE DEF ss, V
<1>6. Mapped(rows, RowItems) = ss  BY <1>1, <1>2, <1>3, MappedIs
<1>7. Plain(FlattenSeq(ss))  BY <1>1, <1>4, <1>5, PlainFlatten
<1> QED  BY <1>6, <1>7 DEF Evidence

-----------------------------------------------------------------------------
(* From what is observed to the statuses.                                    *)
Agreement(obs, r) ==
  LET failing == {f \in DOMAIN r.families : r.families[f] = "FAIL"}
      doubtful == {f \in DOMAIN r.families : r.families[f] = "REVIEW"}
  IN  /\ (r.lint_status = "FAIL") <=> failing # {}
      /\ (r.decision = "FAIL") <=> failing # {}
      /\ r.lint_status = "PASS" =>
           \A f \in doubtful : \E k \in DOMAIN obs : Family(obs[k].category) = f /\ obs[k].accepted

LEMMA CriticalBlocks ==
  ASSUME NEW o, InFull(o)
  PROVE  Severity(o) = "CRITICAL" <=> Blocks(o)
<1>1. Blocks(o) => Severity(o) = "CRITICAL"  BY DEF Blocks
<1>2. ASSUME Severity(o) = "CRITICAL" PROVE Blocks(o)
  <2>1. o.required /\ ~o.present  BY <1>2 DEF Severity
  <2>2. ~o.accepted /\ ~o.optional  BY <2>1 DEF InFull
  <2>3. DecisionStatus(o) = "missing"  BY <1>2, <2>1, <2>2 DEF DecisionStatus
  <2> QED  BY <1>2, <2>3 DEF Blocks
<1> QED  BY <1>1, <1>2

LEMMA SeverityIs ==
  ASSUME NEW o
  PROVE  /\ Severity(o) \in {"INFO", "REVIEW", "WARNING", "CRITICAL"}
         /\ Severity(o) = "INFO" /\ ~o.accepted => DecisionStatus(o) \in {"present", "optional"}
<1>1. Severity(o) \in {"INFO", "REVIEW", "WARNING", "CRITICAL"}  BY DEF Severity
<1>2. Severity(o) = "INFO" => ~o.required \/ o.present  BY DEF Severity
<1>3. ~o.accepted /\ (~o.required \/ o.present) => DecisionStatus(o) \in {"present", "optional"}
  BY DEF DecisionStatus
<1> QED  BY <1>1, <1>2, <1>3

LEMMA JudgedAgrees ==
  ASSUME NEW U, NEW obs \in Seq(U), AllInFull(obs), NEW resolver_known, NEW mapped_clients
  PROVE  LET lint == LintStatus(obs, resolver_known, mapped_clients)
             families == FamilyStatus(obs)
         IN  Agreement(obs, [lint_status |-> lint, families |-> families, decision |-> OverallDecision(lint, families)])
<1> DEFINE lint == LintStatus(obs, resolver_known, mapped_clients)
           families == FamilyStatus(obs)
           decision == OverallDecision(lint, families)
           severities == {Severity(obs[k]) : k \in DOMAIN obs}
           failing == {f \in DOMAIN families : families[f] = "FAIL"}
           of(f) == {k \in DOMAIN obs : Family(obs[k].category) = f}
<1>1. DOMAIN obs = 1..Len(obs)  OBVIOUS
<1>2. /\ DOMAIN families = {Family(obs[k].category) : k \in DOMAIN obs}
      /\ \A f \in DOMAIN families :
           families[f] = CASE \E k \in of(f) : Blocks(obs[k]) -> "FAIL"
                           [] \A k \in of(f) : DecisionStatus(obs[k]) \in {"present", "optional"} -> "PASS"
                           [] OTHER -> "REVIEW"
  BY DEF FamilyStatus
<1>3. lint = CASE "CRITICAL" \in severities -> "FAIL"
               [] "CRITICAL" \notin severities /\
                    (severities \cap {"WARNING", "REVIEW"} # {} \/ ~resolver_known \/ mapped_clients = {}) -> "REVIEW"
               [] OTHER -> "PASS"
  BY DEF LintStatus
<1>4. lint = "FAIL" <=> \E k \in DOMAIN obs : Severity(obs[k]) = "CRITICAL"
  <2>1. lint = "FAIL" <=> "CRITICAL" \in severities
    <3> HIDE DEF severities, lint
    <3> QED  BY <1>3
  <2> QED  BY <2>1
<1>5. \A k \in DOMAIN obs : InFull(obs[k])  BY <1>1 DEF AllInFull
<1>6. \A k \in DOMAIN obs : Severity(obs[k]) = "CRITICAL" <=> Blocks(obs[k])  BY <1>5, CriticalBlocks
<1> HIDE DEF families, lint
<1>7. ASSUME NEW f \in DOMAIN families PROVE families[f] = "FAIL" <=> \E k \in of(f) : Blocks(obs[k])
  <2> DEFINE blocked == \E k \in of(f) : Blocks(obs[k])
             passed == \A k \in of(f) : DecisionStatus(obs[k]) \in {"present", "optional"}
  <2>1. families[f] = CASE blocked -> "FAIL" [] passed -> "PASS" [] OTHER -> "REVIEW"  BY <1>2
  <2>2. blocked => ~passed
    <3> SUFFICES ASSUME NEW k \in of(f), Blocks(obs[k]), DecisionStatus(obs[k]) \in {"present", "optional"}
                 PROVE  FALSE
      OBVIOUS
    <3> QED  BY DEF Blocks
  <2> HIDE DEF blocked, passed
  <2>3. families[f] = "FAIL" <=> blocked  BY <2>1, <2>2
  <2> QED  BY <2>3 DEF blocked
<1>8. failing # {} <=> \E k \in DOMAIN obs : Blocks(obs[k])
  <2>1. ASSUME NEW f \in failing PROVE \E k \in DOMAIN obs : Blocks(obs[k])  BY <1>7
  <2>2. ASSUME NEW k \in DOMAIN obs, Blocks(obs[k]) PROVE Family(obs[k].category) \in failing
    <3>1. Family(obs[k].category) \in DOMAIN families /\ k \in of(Family(obs[k].category))  BY <1>2
    <3> QED  BY <1>7, <2>2, <3>1
  <2> QED  BY <2>1, <2>2
<1>9. lint = "FAIL" <=> failing # {}  BY <1>4, <1>6, <1>8
<1>10. decision = "FAIL" <=> failing # {}
  <2> DEFINE statuses == {lint} \cup {families[f] : f \in DOMAIN families}
  <2>1. decision = CASE "FAIL" \in statuses -> "FAIL"
                     [] "FAIL" \notin statuses /\ "REVIEW" \in statuses -> "REVIEW"
                     [] OTHER -> "PASS"
    BY DEF OverallDecision
  <2>2. decision = "FAIL" <=> "FAIL" \in statuses
    <3> HIDE DEF statuses, decision
    <3> QED  BY <2>1
  <2>3. "FAIL" \in statuses <=> (lint = "FAIL" \/ failing # {})  OBVIOUS
  <2> QED  BY <1>9, <2>2, <2>3
<1>11. ASSUME lint = "PASS", NEW f \in DOMAIN families, families[f] = "REVIEW"
       PROVE  \E k \in DOMAIN obs : Family(obs[k].category) = f /\ obs[k].accepted
  <2>1. "CRITICAL" \notin severities /\ severities \cap {"WARNING", "REVIEW"} = {}
    <3> HIDE DEF severities
    <3> QED  BY <1>3, <1>11
  <2>2. \A k \in DOMAIN obs : Severity(obs[k]) = "INFO"
    <3> SUFFICES ASSUME NEW k \in DOMAIN obs PROVE Severity(obs[k]) = "INFO"  OBVIOUS
    <3>1. Severity(obs[k]) \in {"INFO", "REVIEW", "WARNING", "CRITICAL"}  BY SeverityIs
    <3>2. Severity(obs[k]) \in severities  OBVIOUS
    <3> HIDE DEF severities
    <3> QED  BY <2>1, <3>1, <3>2
  <2>3. ~\A k \in of(f) : DecisionStatus(obs[k]) \in {"present", "optional"}
    <3> DEFINE blocked == \E k \in of(f) : Blocks(obs[k])
               passed == \A k \in of(f) : DecisionStatus(obs[k]) \in {"present", "optional"}
    <3>1. families[f] = CASE blocked -> "FAIL" [] passed -> "PASS" [] OTHER -> "REVIEW"  BY <1>2
    <3>2. ~blocked  BY <1>7, <1>11
    <3> HIDE DEF blocked, passed
    <3>3. ~passed  BY <1>11, <3>1, <3>2
    <3> QED  BY <3>3 DEF passed
  <2>4. PICK k \in of(f) : DecisionStatus(obs[k]) \notin {"present", "optional"}  BY <2>3
  <2>5. obs[k].accepted  BY <2>2, <2>4, SeverityIs
  <2> QED  BY <2>5
<1> DEFINE r == [lint_status |-> lint, families |-> families, decision |-> decision]
<1>12. r.lint_status = lint /\ r.families = families /\ r.decision = decision  OBVIOUS
<1> HIDE DEF r, decision
<1>13. Agreement(obs, r)  BY <1>9, <1>10, <1>11, <1>12 DEF Agreement
<1> QED  BY <1>13 DEF r, decision, lint, families

-----------------------------------------------------------------------------
(* What holds between the steps of a run: the input is what the readers     *)
(* hand over, the evidence names things by texts, what was observed counts  *)
(* in full, and what was reported agrees.                                   *)
Linted ==
  /\ InputRead
  /\ phase = "observe" => Plain(evidence)
  /\ phase = "judge" => (\E U : observed \in Seq(U)) /\ AllInFull(observed)
  /\ Judged => Agreement(observed, report)

LEMMA LintStarts ==
  ASSUME LintInit
  PROVE  Linted
<1>1. PICK f \in Inputs : input \in [inventory: f.inventory, rows: f.rows, options: f.options]  BY DEF LintInit
<1>2. input.rows \in f.rows /\ input.options \in f.options /\ input.inventory \in f.inventory  BY <1>1
<1>3. InputRead  BY <1>2, InputsAssumption DEF InputRead
<1>4. phase = "collect"  BY DEF LintInit
<1> QED  BY <1>3, <1>4 DEF Linted, Judged

LEMMA LintSteps ==
  ASSUME Linted, [LintNext]_lintVars
  PROVE  Linted'
<1>1. CASE Collect
  <2>1. input' = input /\ phase' = "observe"
        /\ evidence' = Evidence(WindowRows) \o ResolverEvidence(input.options.hints, WindowRows)
    BY <1>1 DEF Collect
  <2>2. InputRead /\ InputRead'  BY <2>1 DEF Linted, InputRead
  <2> DEFINE rows == WindowRows
             a == Evidence(rows)
             b == ResolverEvidence(input.options.hints, rows)
  <2>3. rows \in Seq(QueryRow)  BY <2>2, WindowRowsIs
  <2> HIDE DEF rows
  <2>4. Plain(a)  BY <2>2, <2>3, EvidencePlain
  <2>5. input.options.hints \in Seq(ResolverHint)  BY <2>2 DEF InputRead
  <2>6. Plain(b)  BY <2>3, <2>5, ResolverEvidencePlain
  <2> HIDE DEF a, b
  <2>7. Plain(a \o b)  BY <2>4, <2>6, PlainConcat
  <2>8. evidence' = a \o b  BY <2>1 DEF a, b, rows
  <2>9. Plain(evidence')  BY <2>7, <2>8
  <2>10. phase' # "judge" /\ ~Judged'  BY <2>1 DEF Judged
  <2> QED  BY <2>2, <2>9, <2>10 DEF Linted
<1>2. CASE Observe
  <2>1. input' = input /\ phase' = "judge" /\ phase = "observe"
        /\ observed' = Observed(evidence, Systems, input.options.risks)
    BY <1>2 DEF Observe
  <2>2. InputRead'  BY <2>1 DEF Linted, InputRead
  <2>3. Plain(evidence)  BY <2>1 DEF Linted
  <2>4. PICK U : evidence \in Seq(U) /\ Named(evidence)  BY <2>3, PlainIsNamed
  <2>5. /\ \E W : Observed(evidence, Systems, input.options.risks) \in Seq(W)
        /\ AllInFull(Observed(evidence, Systems, input.options.risks))
    BY <2>4, ObservedIsInFull
  <2>6. (\E W : observed' \in Seq(W)) /\ AllInFull(observed')  BY <2>1, <2>5
  <2>7. phase' # "observe" /\ ~Judged'  BY <2>1 DEF Judged
  <2> QED  BY <2>2, <2>6, <2>7 DEF Linted
<1>3. CASE Judge
  <2> DEFINE resolver_known == ResolverKnown(input.options.hints, WindowRows)
             mapped_clients == MappedClients(WindowRows)
             lint == LintStatus(observed, resolver_known, mapped_clients)
             families == FamilyStatus(observed)
             told == [lint_status |-> lint, families |-> families, decision |-> OverallDecision(lint, families)]
  <2>1. input' = input /\ phase' = "compare" /\ phase = "judge" /\ observed' = observed /\ report' = told
    BY <1>3 DEF Judge
  <2>2. InputRead'  BY <2>1 DEF Linted, InputRead
  <2>3. PICK U : observed \in Seq(U) /\ AllInFull(observed)  BY <2>1 DEF Linted
  <2> HIDE DEF resolver_known, mapped_clients
  <2>4. Agreement(observed, told)  BY <2>3, JudgedAgrees
  <2> HIDE DEF told
  <2>5. Agreement(observed', report')  BY <2>1, <2>4
  <2>6. phase' # "observe" /\ phase' # "judge"  BY <2>1
  <2> QED  BY <2>2, <2>5, <2>6 DEF Linted
<1>4. ASSUME NEW hours \in input.options.windows, CompareWindow(hours) PROVE Linted'
  <2>1. /\ input' = input /\ observed' = observed /\ report' = report
        /\ phase = "compare" /\ phase' \in {"compare", "done"}
    BY <1>4 DEF CompareWindow
  <2>2. InputRead'  BY <2>1 DEF Linted, InputRead
  <2>3. Agreement(observed', report')  BY <2>1 DEF Linted, Judged
  <2>4. phase' # "observe" /\ phase' # "judge"  BY <2>1
  <2> QED  BY <2>2, <2>3, <2>4 DEF Linted
<1>5. CASE UNCHANGED lintVars
  <2>1. input' = input /\ phase' = phase /\ evidence' = evidence /\ observed' = observed /\ report' = report
    BY <1>5 DEF lintVars
  <2> QED  BY <2>1 DEF Linted, InputRead, Judged
<1> QED  BY <1>1, <1>2, <1>3, <1>4, <1>5 DEF LintNext

(* The status of the run fails with the assessment and with a family, and a  *)
(* status of PASS leaves a family to review only for an accepted risk.       *)
THEOREM StatusesHold == LintSpec => []StatusesAgree
<1>1. LintInit => Linted  BY LintStarts
<1>2. Linted /\ [LintNext]_lintVars => Linted'  BY LintSteps
<1>3. Linted => StatusesAgree  BY DEF Linted, Agreement, StatusesAgree
<1> QED  BY <1>1, <1>2, <1>3, PTL DEF LintSpec
-----------------------------------------------------------------------------
(* What a sequence has.                                                      *)
LEMMA ConcatHas ==
  ASSUME NEW T, NEW a \in Seq(T), NEW b \in Seq(T), NEW v
  PROVE  HasItem(a \o b, v) <=> HasItem(a, v) \/ HasItem(b, v)
<1> DEFINE s == a \o b
<1>1. /\ s \in Seq(T) /\ Len(s) = Len(a) + Len(b)
      /\ \A i \in 1..Len(a) : s[i] = a[i]
      /\ \A i \in 1..Len(b) : s[Len(a) + i] = b[i]
      /\ Len(a) \in Nat /\ Len(b) \in Nat
      /\ \A i \in 1..(Len(a) + Len(b)) : i \in 1..Len(a) \/ \E j \in 1..Len(b) : i = Len(a) + j
  BY ConcatOf
<1> HIDE DEF s
<1>2. /\ \A i \in 1..Len(a) : i \in 1..Len(s)
      /\ \A i \in 1..Len(b) : Len(a) + i \in 1..Len(s)
  BY <1>1
<1>3. ASSUME HasItem(s, v) PROVE HasItem(a, v) \/ HasItem(b, v)
  <2>1. PICK i \in 1..Len(s) : s[i] = v  BY <1>3 DEF HasItem
  <2>2. CASE i \in 1..Len(a)  BY <1>1, <2>1, <2>2 DEF HasItem
  <2>3. CASE i \notin 1..Len(a)
    <3>1. PICK j \in 1..Len(b) : i = Len(a) + j  BY <1>1, <2>3
    <3> QED  BY <1>1, <2>1, <3>1 DEF HasItem
  <2> QED  BY <2>2, <2>3
<1>4. HasItem(a, v) => HasItem(s, v)  BY <1>1, <1>2 DEF HasItem
<1>5. HasItem(b, v) => HasItem(s, v)  BY <1>1, <1>2 DEF HasItem
<1> QED  BY <1>3, <1>4, <1>5 DEF s

LEMMA OneHas ==
  ASSUME NEW t, NEW v
  PROVE  HasItem(<<t>>, v) <=> v = t
<1> DEFINE s == <<t>>
<1>1. Len(s) = 1 /\ s[1] = t /\ 1 \in 1..1 /\ \A i \in 1..1 : i = 1  OBVIOUS
<1> HIDE DEF s
<1>2. HasItem(s, v) <=> v = t  BY <1>1 DEF HasItem
<1> QED  BY <1>2 DEF s

LEMMA UniqueHas ==
  ASSUME NEW T, NEW s \in Seq(T), NEW v
  PROVE  HasItem(Unique(s), v) <=> v # None /\ HasItem(s, v)
<1> DEFINE u == Unique(s)
<1>1. UniqueUpTo(u, s, Len(s))  BY UniqueIsUpTo
<1> HIDE DEF u
<1>2. HasItem(u, v) <=> v # None /\ HasItem(s, v)  BY <1>1 DEF UniqueUpTo, HasItem
<1> QED  BY <1>2 DEF u

LEMMA FlattenHasItem ==
  ASSUME NEW T, NEW ss \in Seq(Seq(T)), NEW v
  PROVE  HasItem(FlattenSeq(ss), v) <=> \E k \in 1..Len(ss) : HasItem(ss[k], v)
<1>1. PICK f \in [0..Len(ss) -> Seq(T)] :
        /\ FlattenSeq(ss) = f[Len(ss)] /\ f[0] = <<>>
        /\ \A n \in 1..Len(ss) : f[n] = f[n - 1] \o ss[n]
  BY FlattenUnfolds
<1> DEFINE size == Len(ss)
           Right(n) == HasItem(f[n], v) <=> \E k \in 1..n : HasItem(ss[k], v)
           G == {n \in 0..size : Right(n)}
<1>2. size \in Nat /\ \A n \in 1..size : ss[n] \in Seq(T)  OBVIOUS
<1>3. 0 \in G
  <2>1. f[0] = <<>> /\ Len(f[0]) = 0  BY <1>1
  <2>2. ~HasItem(f[0], v)  BY <2>1 DEF HasItem
  <2> QED  BY <1>2, <2>2
<1>4. ASSUME NEW n \in 1..size, n - 1 \in G PROVE n \in G
  <2>1. n \in 0..size /\ n - 1 \in 0..size /\ n \in 1..n
        /\ (\A k \in 1..n : k = n \/ k \in 1..(n - 1)) /\ \A k \in 1..(n - 1) : k \in 1..n
    BY <1>2
  <2>2. Right(n - 1)  BY <1>4
  <2> HIDE DEF G, size
  <2>3. f[n - 1] \in Seq(T) /\ ss[n] \in Seq(T) /\ f[n] = f[n - 1] \o ss[n]  BY <1>1, <1>2, <2>1 DEF size
  <2>4. HasItem(f[n], v) <=> HasItem(f[n - 1], v) \/ HasItem(ss[n], v)  BY <2>3, ConcatHas
  <2>5. Right(n)  BY <2>1, <2>2, <2>4
  <2> QED  BY <2>1, <2>5 DEF G
<1>5. size \in G
  <2> HIDE DEF G, size
  <2>1. \A n \in 0..size : n \in G  BY <1>2, <1>3, <1>4, UpTo
  <2> QED  BY <1>2, <2>1
<1> QED  BY <1>1, <1>5

LEMMA JoinedHas ==
  ASSUME NEW T, NEW items \in Seq(T), NEW U, NEW field, \A k \in 1..Len(items) : items[k][field] \in Seq(U), NEW v
  PROVE  HasItem(Joined(items, field), v) <=> v # None /\ \E k \in 1..Len(items) : HasItem(items[k][field], v)
<1> DEFINE parts == [k \in DOMAIN items |-> items[k][field]]
           all == FlattenSeq(parts)
<1>1. Len(items) \in Nat /\ DOMAIN items = 1..Len(items)  OBVIOUS
<1>2. parts \in Seq(Seq(U)) /\ Len(parts) = Len(items) /\ \A k \in 1..Len(items) : parts[k] = items[k][field]
  <2>1. parts \in [1..Len(items) -> Seq(U)]  BY <1>1
  <2>2. \A k \in 1..Len(items) : parts[k] = items[k][field]  BY <1>1
  <2> HIDE DEF parts
  <2> QED  BY <1>1, <2>1, <2>2, SeqDef
<1>3. Joined(items, field) = Unique(all)  BY DEF Joined
<1> HIDE DEF parts
<1>4. all \in Seq(U)  BY <1>2, FlattenIs
<1>5. HasItem(all, v) <=> \E k \in 1..Len(parts) : HasItem(parts[k], v)  BY <1>2, FlattenHasItem
<1> HIDE DEF all
<1>6. HasItem(Unique(all), v) <=> v # None /\ HasItem(all, v)  BY <1>4, UniqueHas
<1> QED  BY <1>2, <1>3, <1>5, <1>6

(* The elements picked are those at the places.                              *)
LEMMA PickedSome ==
  ASSUME NEW T, NEW s \in Seq(T), NEW at
  PROVE  /\ Picked(s, at) \in Seq(T)
         /\ \A k \in 1..Len(Picked(s, at)) : \E n \in 1..Len(s) : n \in at /\ Picked(s, at)[k] = s[n]
         /\ \A n \in 1..Len(s) : n \in at => HasItem(Picked(s, at), s[n])
         /\ Picked(s, at) # <<>> <=> \E n \in 1..Len(s) : n \in at
<1> DEFINE p == Picked(s, at)
<1>1. p \in Seq(T) /\ Places(p, s, at, Len(s))  BY PickedHasPlaces
<1> HIDE DEF p
<1>2. PICK place \in [1..Len(p) -> 1..Len(s)] :
        /\ \A k \in 1..Len(p) : p[k] = s[place[k]] /\ place[k] \in at
        /\ \A i \in 1..Len(s) : i \in at => \E k \in 1..Len(p) : place[k] = i
  BY <1>1 DEF Places
<1>3. \A k \in 1..Len(p) : \E n \in 1..Len(s) : n \in at /\ p[k] = s[n]  BY <1>2
<1>4. \A n \in 1..Len(s) : n \in at => HasItem(p, s[n])  BY <1>2 DEF HasItem
<1>5. p # <<>> => 1 \in 1..Len(p)  BY <1>1
<1>6. p # <<>> <=> \E n \in 1..Len(s) : n \in at
  <2>1. p # <<>> => \E n \in 1..Len(s) : n \in at  BY <1>3, <1>5
  <2>2. ASSUME NEW n \in 1..Len(s), n \in at PROVE p # <<>>
    <3>1. PICK k \in 1..Len(p) : place[k] = n  BY <1>2, <2>2
    <3> QED  BY <3>1
  <2> QED  BY <2>1, <2>2
<1> QED  BY <1>1, <1>3, <1>4, <1>6 DEF p

-----------------------------------------------------------------------------
(* The marks of an item or an observation: the addresses and the names it is *)
(* known by.                                                                 *)
IpMark(o, v) == v # None /\ (v = o.target_ip \/ HasItem(o.ips, v))

NameMark(o, v) == v # None /\ (v = o.target \/ v = o.name \/ HasItem(o.names, v) \/ HasItem(o.qnames, v))

LEMMA CandidatesAre ==
  ASSUME NEW o, Lettered(o)
  PROVE  /\ CandidateIps(o) \in Seq(Text) /\ CandidateNames(o) \in Seq(Text)
         /\ \A v : HasItem(CandidateIps(o), v) <=> IpMark(o, v)
         /\ \A v : HasItem(CandidateNames(o), v) <=> NameMark(o, v)
<1> DEFINE a == <<o.target_ip>>
           b == o.ips
           c == <<o.target, o.name>>
           d == o.names
           e == o.qnames
<1>1. a \in Seq(Text) /\ b \in Seq(Text) /\ c \in Seq(Text) /\ d \in Seq(Text) /\ e \in Seq(Text)
  BY DEF Lettered
<1>2. CandidateIps(o) = Unique(a \o b) /\ CandidateNames(o) = Unique((c \o d) \o e)
  BY DEF CandidateIps, CandidateNames
<1>3. \A v : HasItem(a, v) <=> v = o.target_ip  BY OneHas
<1>4. \A v : HasItem(c, v) <=> v = o.target \/ v = o.name
  <2>1. Len(c) = 2 /\ c[1] = o.target /\ c[2] = o.name /\ 1 \in 1..2 /\ 2 \in 1..2 /\ \A i \in 1..2 : i = 1 \/ i = 2
    OBVIOUS
  <2> HIDE DEF c
  <2> QED  BY <2>1 DEF HasItem
<1> HIDE DEF a, c
<1>5. a \o b \in Seq(Text) /\ \A v : HasItem(a \o b, v) <=> HasItem(a, v) \/ HasItem(b, v)
  BY <1>1, ConcatHas, ConcatProperties
<1> HIDE DEF b, d, e
<1> DEFINE cd == c \o d
<1>6. cd \in Seq(Text) /\ \A v : HasItem(cd, v) <=> HasItem(c, v) \/ HasItem(d, v)
  BY <1>1, ConcatHas, ConcatProperties
<1>7. CandidateNames(o) = Unique(cd \o e)  BY <1>2
<1> HIDE DEF cd
<1>8. cd \o e \in Seq(Text) /\ \A v : HasItem(cd \o e, v) <=> HasItem(cd, v) \/ HasItem(e, v)
  BY <1>1, <1>6, ConcatHas, ConcatProperties
<1>9. /\ Unique(a \o b) \in Seq(Text)
      /\ \A v : HasItem(Unique(a \o b), v) <=> v # None /\ HasItem(a \o b, v)
  BY <1>5, UniqueIs, UniqueHas
<1>10. /\ Unique(cd \o e) \in Seq(Text)
       /\ \A v : HasItem(Unique(cd \o e), v) <=> v # None /\ HasItem(cd \o e, v)
  BY <1>8, UniqueIs, UniqueHas
<1>11. ASSUME NEW v PROVE HasItem(CandidateIps(o), v) <=> IpMark(o, v)
  BY <1>2, <1>3, <1>5, <1>9 DEF IpMark, b
<1>12. ASSUME NEW v PROVE HasItem(CandidateNames(o), v) <=> NameMark(o, v)
  BY <1>7, <1>4, <1>6, <1>8, <1>10 DEF NameMark, d, e
<1> QED  BY <1>2, <1>7, <1>9, <1>10, <1>11, <1>12

LEMMA MarksAre ==
  ASSUME NEW o, Lettered(o), NEW v
  PROVE  v \in MarksOf(o) <=> IpMark(o, v) \/ NameMark(o, v)
<1> DEFINE ips == CandidateIps(o)
           names == CandidateNames(o)
<1>1. ips \in Seq(Text) /\ names \in Seq(Text)  BY CandidatesAre
<1>2. (HasItem(ips, v) <=> IpMark(o, v)) /\ (HasItem(names, v) <=> NameMark(o, v))  BY CandidatesAre
<1>3. v \in MarksOf(o) <=> v \in ToSet(ips) \/ v \in ToSet(names)  BY DEF MarksOf
<1> HIDE DEF ips, names
<1>4. (v \in ToSet(ips) <=> HasItem(ips, v)) /\ (v \in ToSet(names) <=> HasItem(names, v))
  BY <1>1 DEF ToSet, HasItem
<1> QED  BY <1>2, <1>3, <1>4
-----------------------------------------------------------------------------
(* The lookup finds a system exactly if a mark of the observation is one of  *)
(* a system, or its role is.                                                 *)
LEMMA FirstPlaced ==
  ASSUME NEW at \in SUBSET Nat
  PROVE  (IF at = {} THEN NoSystem ELSE CHOOSE k \in at : \A j \in at : k <= j) # NoSystem <=> at # {}
<1>1. CASE at = {}  BY <1>1
<1>2. CASE at # {}
  <2>1. \E k \in at : \A j \in at : k <= j  BY <1>2, LeastNat
  <2>2. (CHOOSE k \in at : \A j \in at : k <= j) \in at  BY <2>1
  <2> QED  BY <1>2, <2>2, InputsAssumption
<1> QED  BY <1>1, <1>2

IpFits(ips, systems) == \E n \in 1..Len(ips) : \E k \in DOMAIN systems : \E j \in DOMAIN systems[k].ips : systems[k].ips[j] = ips[n]
NameFits(names, systems) == \E n \in 1..Len(names) : \E k \in DOMAIN systems : systems[k].fqdn = names[n]
ShortFits(names, systems) == \E n \in 1..Len(names) : \E k \in DOMAIN systems : ShortOf(systems[k]) = ShortName[names[n]]
AliasFits(names, systems) == \E n \in 1..Len(names) : \E k \in DOMAIN systems : names[n] \in AliasesOf(systems[k])

LEMMA IpFound ==
  ASSUME NEW T, NEW ips \in Seq(T), NEW U, NEW systems \in Seq(U)
  PROVE  ByIp(ips, systems) # NoSystem <=> IpFits(ips, systems)
<1> DEFINE fit == {n \in DOMAIN ips : \E k \in DOMAIN systems : \E j \in DOMAIN systems[k].ips : systems[k].ips[j] = ips[n]}
           hits == Picked(ips, fit)
           at == {k \in DOMAIN systems : \E j \in DOMAIN systems[k].ips : systems[k].ips[j] = hits[1]}
           found == IF at = {} THEN NoSystem ELSE CHOOSE k \in at : \A j \in at : k <= j
<1>1. ByIp(ips, systems) = IF hits = <<>> THEN NoSystem ELSE found  BY DEF ByIp, Found, FirstWhere
<1>2. /\ hits \in Seq(T)
      /\ \A k \in 1..Len(hits) : \E n \in 1..Len(ips) : n \in fit /\ hits[k] = ips[n]
      /\ hits # <<>> <=> \E n \in 1..Len(ips) : n \in fit
  <2> HIDE DEF fit
  <2> QED  BY PickedSome
<1>3. DOMAIN ips = 1..Len(ips) /\ DOMAIN systems = 1..Len(systems) /\ Len(systems) \in Nat  OBVIOUS
<1>4. hits # <<>> <=> IpFits(ips, systems)
  <2> HIDE DEF hits
  <2> QED  BY <1>2, <1>3 DEF IpFits
<1>5. hits # <<>> => at # {}
  <2> SUFFICES ASSUME hits # <<>> PROVE at # {}  OBVIOUS
  <2>1. PICK n \in 1..Len(ips) : n \in fit /\ hits[1] = ips[n]
    <3> HIDE DEF hits, fit
    <3>1. 1 \in 1..Len(hits)  BY <1>2
    <3> QED  BY <1>2, <3>1
  <2> HIDE DEF hits
  <2> QED  BY <2>1
<1>6. found # NoSystem <=> at # {}
  <2>1. at \in SUBSET Nat  BY <1>3
  <2> HIDE DEF at
  <2> QED  BY <2>1, FirstPlaced
<1> HIDE DEF hits, at, found
<1> QED  BY <1>1, <1>4, <1>5, <1>6, InputsAssumption

LEMMA NameFound ==
  ASSUME NEW T, NEW names \in Seq(T), NEW U, NEW systems \in Seq(U)
  PROVE  ByName(names, systems) # NoSystem <=> NameFits(names, systems)
<1> DEFINE fit == {n \in DOMAIN names : \E k \in DOMAIN systems : systems[k].fqdn = names[n]}
           hits == Picked(names, fit)
           at == {k \in DOMAIN systems : systems[k].fqdn = hits[1]}
           found == IF at = {} THEN NoSystem ELSE CHOOSE k \in at : \A j \in at : k <= j
<1>1. ByName(names, systems) = IF hits = <<>> THEN NoSystem ELSE found  BY DEF ByName, Found, FirstWhere
<1>2. /\ hits \in Seq(T)
      /\ \A k \in 1..Len(hits) : \E n \in 1..Len(names) : n \in fit /\ hits[k] = names[n]
      /\ hits # <<>> <=> \E n \in 1..Len(names) : n \in fit
  <2> HIDE DEF fit
  <2> QED  BY PickedSome
<1>3. DOMAIN names = 1..Len(names) /\ DOMAIN systems = 1..Len(systems) /\ Len(systems) \in Nat  OBVIOUS
<1>4. hits # <<>> <=> NameFits(names, systems)
  <2> HIDE DEF hits
  <2> QED  BY <1>2, <1>3 DEF NameFits
<1>5. hits # <<>> => at # {}
  <2> SUFFICES ASSUME hits # <<>> PROVE at # {}  OBVIOUS
  <2>1. PICK n \in 1..Len(names) : n \in fit /\ hits[1] = names[n]
    <3> HIDE DEF hits, fit
    <3>1. 1 \in 1..Len(hits)  BY <1>2
    <3> QED  BY <1>2, <3>1
  <2> HIDE DEF hits
  <2> QED  BY <2>1
<1>6. found # NoSystem <=> at # {}
  <2>1. at \in SUBSET Nat  BY <1>3
  <2> HIDE DEF at
  <2> QED  BY <2>1, FirstPlaced
<1> HIDE DEF hits, at, found
<1> QED  BY <1>1, <1>4, <1>5, <1>6, InputsAssumption

LEMMA ShortFound ==
  ASSUME NEW T, NEW names \in Seq(T), NEW U, NEW systems \in Seq(U)
  PROVE  ByShortName(names, systems) # NoSystem <=> ShortFits(names, systems)
<1> DEFINE fit == {n \in DOMAIN names : \E k \in DOMAIN systems : ShortOf(systems[k]) = ShortName[names[n]]}
           hits == Picked(names, fit)
           at == {k \in DOMAIN systems : ShortOf(systems[k]) = ShortName[hits[1]]}
           found == IF at = {} THEN NoSystem ELSE CHOOSE k \in at : \A j \in at : k <= j
<1>1. ByShortName(names, systems) = IF hits = <<>> THEN NoSystem ELSE found  BY DEF ByShortName, Found, FirstWhere
<1>2. /\ hits \in Seq(T)
      /\ \A k \in 1..Len(hits) : \E n \in 1..Len(names) : n \in fit /\ hits[k] = names[n]
      /\ hits # <<>> <=> \E n \in 1..Len(names) : n \in fit
  <2> HIDE DEF fit
  <2> QED  BY PickedSome
<1>3. DOMAIN names = 1..Len(names) /\ DOMAIN systems = 1..Len(systems) /\ Len(systems) \in Nat  OBVIOUS
<1>4. hits # <<>> <=> ShortFits(names, systems)
  <2> HIDE DEF hits
  <2> QED  BY <1>2, <1>3 DEF ShortFits
<1>5. hits # <<>> => at # {}
  <2> SUFFICES ASSUME hits # <<>> PROVE at # {}  OBVIOUS
  <2>1. PICK n \in 1..Len(names) : n \in fit /\ hits[1] = names[n]
    <3> HIDE DEF hits, fit
    <3>1. 1 \in 1..Len(hits)  BY <1>2
    <3> QED  BY <1>2, <3>1
  <2> HIDE DEF hits
  <2> QED  BY <2>1
<1>6. found # NoSystem <=> at # {}
  <2>1. at \in SUBSET Nat  BY <1>3
  <2> HIDE DEF at
  <2> QED  BY <2>1, FirstPlaced
<1> HIDE DEF hits, at, found
<1> QED  BY <1>1, <1>4, <1>5, <1>6, InputsAssumption

LEMMA AliasFound ==
  ASSUME NEW T, NEW names \in Seq(T), NEW U, NEW systems \in Seq(U)
  PROVE  ByAlias(names, systems) # NoSystem <=> AliasFits(names, systems)
<1> DEFINE fit == {n \in DOMAIN names : \E k \in DOMAIN systems : names[n] \in AliasesOf(systems[k])}
           hits == Picked(names, fit)
           at == {k \in DOMAIN systems : hits[1] \in AliasesOf(systems[k])}
           found == IF at = {} THEN NoSystem ELSE CHOOSE k \in at : \A j \in at : k <= j
<1>1. ByAlias(names, systems) = IF hits = <<>> THEN NoSystem ELSE found  BY DEF ByAlias, Found, FirstWhere
<1>2. /\ hits \in Seq(T)
      /\ \A k \in 1..Len(hits) : \E n \in 1..Len(names) : n \in fit /\ hits[k] = names[n]
      /\ hits # <<>> <=> \E n \in 1..Len(names) : n \in fit
  <2> HIDE DEF fit
  <2> QED  BY PickedSome
<1>3. DOMAIN names = 1..Len(names) /\ DOMAIN systems = 1..Len(systems) /\ Len(systems) \in Nat  OBVIOUS
<1>4. hits # <<>> <=> AliasFits(names, systems)
  <2> HIDE DEF hits
  <2> QED  BY <1>2, <1>3 DEF AliasFits
<1>5. hits # <<>> => at # {}
  <2> SUFFICES ASSUME hits # <<>> PROVE at # {}  OBVIOUS
  <2>1. PICK n \in 1..Len(names) : n \in fit /\ hits[1] = names[n]
    <3> HIDE DEF hits, fit
    <3>1. 1 \in 1..Len(hits)  BY <1>2
    <3> QED  BY <1>2, <3>1
  <2> HIDE DEF hits
  <2> QED  BY <2>1
<1>6. found # NoSystem <=> at # {}
  <2>1. at \in SUBSET Nat  BY <1>3
  <2> HIDE DEF at
  <2> QED  BY <2>1, FirstPlaced
<1> HIDE DEF hits, at, found
<1> QED  BY <1>1, <1>4, <1>5, <1>6, InputsAssumption

RoleFits(o, systems) ==
  /\ o.role_level /\ o.category \in DOMAIN RoleTags
  /\ \E k \in DOMAIN systems : systems[k].roles \cap RoleTags[o.category] # {}

LEMMA MatchIsFound ==
  ASSUME NEW o, Lettered(o), NEW U, NEW systems \in Seq(U)
  PROVE  Match(o, systems).basis # "NO_RECOVERY_SET_MATCH" <=>
           \/ IpFits(CandidateIps(o), systems)
           \/ NameFits(CandidateNames(o), systems) \/ ShortFits(CandidateNames(o), systems)
           \/ AliasFits(CandidateNames(o), systems) \/ RoleFits(o, systems)
<1> DEFINE ips == CandidateIps(o)
           names == CandidateNames(o)
           byIp == ByIp(ips, systems)
           byName == ByName(names, systems)
           byShort == ByShortName(names, systems)
           byAlias == ByAlias(names, systems)
           byRole == RoleFits(o, systems)
           found == Match(o, systems)
<1>1. found = CASE byIp # NoSystem -> [basis |-> "IP_MATCH", at |-> byIp]
                [] byIp = NoSystem /\ byName # NoSystem -> [basis |-> "HOSTNAME_MATCH", at |-> byName]
                [] byIp = NoSystem /\ byName = NoSystem /\ byShort # NoSystem ->
                     [basis |-> "HOSTNAME_MATCH", at |-> byShort]
                [] byIp = NoSystem /\ byName = NoSystem /\ byShort = NoSystem /\ byAlias # NoSystem ->
                     [basis |-> "ALIAS_MATCH", at |-> byAlias]
                [] OTHER -> [basis |-> IF byRole THEN "ROLE_TAG_MATCH" ELSE "NO_RECOVERY_SET_MATCH", at |-> NoSystem]
  BY DEF Match, RoleFits
<1>2. ips \in Seq(Text) /\ names \in Seq(Text)  BY CandidatesAre
<1> HIDE DEF ips, names
<1>3. /\ byIp # NoSystem <=> IpFits(ips, systems)
      /\ byName # NoSystem <=> NameFits(names, systems)
      /\ byShort # NoSystem <=> ShortFits(names, systems)
      /\ byAlias # NoSystem <=> AliasFits(names, systems)
  BY <1>2, IpFound, NameFound, ShortFound, AliasFound
<1> HIDE DEF byIp, byName, byShort, byAlias, byRole, found
<1>4. found.basis # "NO_RECOVERY_SET_MATCH" <=>
        byIp # NoSystem \/ byName # NoSystem \/ byShort # NoSystem \/ byAlias # NoSystem \/ byRole
  BY <1>1
<1> QED  BY <1>3, <1>4 DEF ips, names, byRole, found

IpKnown(v, systems) == \E k \in DOMAIN systems : \E j \in DOMAIN systems[k].ips : systems[k].ips[j] = v

NameKnown(v, systems) ==
  \E k \in DOMAIN systems : systems[k].fqdn = v \/ ShortOf(systems[k]) = ShortName[v] \/ v \in AliasesOf(systems[k])

LEMMA MatchFinds ==
  ASSUME NEW o, Lettered(o), NEW U, NEW systems \in Seq(U)
  PROVE  Match(o, systems).basis # "NO_RECOVERY_SET_MATCH" <=>
           \/ \E v : IpMark(o, v) /\ IpKnown(v, systems)
           \/ \E v : NameMark(o, v) /\ NameKnown(v, systems)
           \/ RoleFits(o, systems)
<1> DEFINE ips == CandidateIps(o)
           names == CandidateNames(o)
<1>1. /\ \A v : HasItem(ips, v) <=> IpMark(o, v)
      /\ \A v : HasItem(names, v) <=> NameMark(o, v)
  BY CandidatesAre
<1>2. Match(o, systems).basis # "NO_RECOVERY_SET_MATCH" <=>
        \/ IpFits(ips, systems)
        \/ NameFits(names, systems) \/ ShortFits(names, systems) \/ AliasFits(names, systems) \/ RoleFits(o, systems)
  BY MatchIsFound
<1> HIDE DEF ips, names
<1>3. IpFits(ips, systems) <=> \E v : HasItem(ips, v) /\ IpKnown(v, systems)  BY DEF IpFits, IpKnown, HasItem
<1>4. NameFits(names, systems) \/ ShortFits(names, systems) \/ AliasFits(names, systems) <=>
        \E v : HasItem(names, v) /\ NameKnown(v, systems)
  BY DEF NameFits, ShortFits, AliasFits, NameKnown, HasItem
<1> QED  BY <1>1, <1>2, <1>3, <1>4
-----------------------------------------------------------------------------
(* An observation that can be told from others: it has a name, and a role    *)
(* has that of its category.                                                 *)
Called(o) ==
  /\ Lettered(o) /\ IsObs(o) /\ o.category \in Text
  /\ o.target # None \/ o.name # None
  /\ o.role_level => o.name = RoleName(o.category) /\ o.name # None

(* What is known by marks of some items only, and what shares none with them.*)
Inside(o, S, c) ==
  /\ o.category = c
  /\ \A v : IpMark(o, v) => \E e \in S : IpMark(e, v)
  /\ \A v : NameMark(o, v) => \E e \in S : NameMark(e, v)
  /\ o.role_level => \E e \in S : e.role_level

Outside(o, S, c) ==
  o.category = c => \A e \in S : \A v : ~(IpMark(o, v) /\ IpMark(e, v)) /\ ~(NameMark(o, v) /\ NameMark(e, v))

Sided(o, S, c) == Inside(o, S, c) \/ Outside(o, S, c)

LEMMA LeadIsIpMark ==
  ASSUME NEW o, Lettered(o), NEW v, Leads(v, IpsOf(o))
  PROVE  IpMark(o, v) /\ v \in Text
<1>1. v # None  BY DEF Leads
<1>2. \/ v = o.target_ip
      \/ Leads(v, o.ips)
  BY IpsLead
<1>3. Leads(v, o.ips) => HasItem(o.ips, v)  BY DEF Leads, HasItem
<1>4. HasItem(o.ips, v) => v \in Text  BY DEF HasItem, Lettered
<1>5. o.target_ip \in Text  BY DEF Lettered
<1> QED  BY <1>1, <1>2, <1>3, <1>4, <1>5 DEF IpMark

LEMMA LeadIsNameMark ==
  ASSUME NEW o, Called(o), NEW v, FirstIn(v, NamesOf(o))
  PROVE  NameMark(o, v) /\ v \in Text
<1>1. Lettered(o) /\ (o.target # None \/ o.name # None)  BY DEF Called
<1>2. ~AllNone(NamesOf(o))  BY <1>1, NamesLead
<1>3. Leads(v, NamesOf(o))  BY <1>2 DEF FirstIn
<1>4. v # None  BY <1>3 DEF Leads
<1>5. v = o.target \/ Leads(v, o.names) \/ Leads(v, o.qnames) \/ v = o.name  BY <1>1, <1>3, NamesLead
<1>6. (Leads(v, o.names) => HasItem(o.names, v)) /\ (Leads(v, o.qnames) => HasItem(o.qnames, v))
  BY DEF Leads, HasItem
<1>7. (HasItem(o.names, v) => v \in Text) /\ (HasItem(o.qnames, v) => v \in Text)  BY <1>1 DEF HasItem, Lettered
<1>8. o.target \in Text /\ o.name \in Text  BY <1>1 DEF Lettered
<1> QED  BY <1>4, <1>5, <1>6, <1>7, <1>8 DEF NameMark

(* A key is that of a mark, of the category at least.                        *)
LEMMA KeyIs ==
  ASSUME NEW o, Called(o)
  PROVE  \E kind \in {"ip", "role", "name"} : \E v \in Text :
           Keyed(o, o.category, kind, v) /\ DedupeKey(o) = <<o.category, kind, v>>
<1>1. Lettered(o)  BY DEF Called
<1>2. PICK kind \in {"ip", "role", "name"} : \E v : Keyed(o, o.category, kind, v)  BY <1>1, KeyedSomehow
<1>3. PICK v : Keyed(o, o.category, kind, v)  BY <1>2
<1>4. DedupeKey(o) = <<o.category, kind, v>>  BY <1>1, <1>3, KeyOfKeyed
<1>5. v \in Text
  <2>1. CASE Leads(v, IpsOf(o))  BY <1>1, <2>1, LeadIsIpMark
  <2>2. CASE v = None  BY <2>2, InputsAssumption
  <2>3. CASE FirstIn(v, NamesOf(o))  BY <2>3, LeadIsNameMark
  <2> QED  BY <1>3, <2>1, <2>2, <2>3 DEF Keyed
<1> QED  BY <1>3, <1>4, <1>5

LEMMA KeyIsGiven ==
  ASSUME NEW o, Called(o)
  PROVE  DedupeKey(o) # None
<1>1. PICK kind \in {"ip", "role", "name"} : \E v \in Text : DedupeKey(o) = <<o.category, kind, v>>  BY KeyIs
<1>2. PICK v \in Text : DedupeKey(o) = <<o.category, kind, v>>  BY <1>1
<1>3. o.category \in Text  BY DEF Called
<1>4. <<o.category, kind, v>> \in Text \X {"ip", "role", "name"} \X Text  BY <1>3
<1> QED  BY <1>2, <1>4, InputsAssumption

(* Observations of one key share a mark, so they are all of the items or     *)
(* none is.                                                                  *)
LEMMA KeysShare ==
  ASSUME NEW o, NEW p, Called(o), Called(p), DedupeKey(o) = DedupeKey(p), NEW S, NEW c,
         Inside(o, S, c), Sided(p, S, c)
  PROVE  Inside(p, S, c)
<1>1. PICK kind \in {"ip", "role", "name"}, v \in Text :
        Keyed(o, o.category, kind, v) /\ DedupeKey(o) = <<o.category, kind, v>>
  BY KeyIs
<1>2. PICK kind1 \in {"ip", "role", "name"}, w \in Text :
        Keyed(p, p.category, kind1, w) /\ DedupeKey(p) = <<p.category, kind1, w>>
  BY KeyIs
<1>3. o.category = p.category /\ kind = kind1 /\ v = w
  <2> DEFINE a == <<o.category, kind, v>>
             b == <<p.category, kind1, w>>
  <2>1. a = b  BY <1>1, <1>2
  <2>2. a[1] = b[1] /\ a[2] = b[2] /\ a[3] = b[3]  BY <2>1
  <2> QED  BY <2>2
<1>4. p.category = c  BY <1>3 DEF Inside
<1>5. Lettered(o) /\ Lettered(p)  BY DEF Called
<1>6. \E u : (IpMark(o, u) /\ IpMark(p, u)) \/ (NameMark(o, u) /\ NameMark(p, u))
  <2>1. CASE kind = "ip"
    <3>1. Leads(v, IpsOf(o)) /\ Leads(v, IpsOf(p))  BY <1>1, <1>2, <1>3, <2>1 DEF Keyed
    <3> QED  BY <1>5, <3>1, LeadIsIpMark
  <2>2. CASE kind = "name"
    <3>1. FirstIn(v, NamesOf(o)) /\ FirstIn(v, NamesOf(p))  BY <1>1, <1>2, <1>3, <2>2 DEF Keyed
    <3> QED  BY <3>1, LeadIsNameMark
  <2>3. CASE kind = "role"
    <3>1. o.role_level /\ p.role_level  BY <1>1, <1>2, <1>3, <2>3 DEF Keyed
    <3>2. o.name = p.name /\ o.name # None  BY <1>3, <3>1 DEF Called
    <3> QED  BY <3>2 DEF NameMark
  <2> QED  BY <2>1, <2>2, <2>3
<1>7. ~Outside(p, S, c)
  <2>1. PICK u : (IpMark(o, u) /\ IpMark(p, u)) \/ (NameMark(o, u) /\ NameMark(p, u))  BY <1>6
  <2>2. CASE IpMark(o, u) /\ IpMark(p, u)
    <3>1. PICK e \in S : IpMark(e, u)  BY <2>2 DEF Inside
    <3> QED  BY <1>4, <2>2, <3>1 DEF Outside
  <2>3. CASE NameMark(o, u) /\ NameMark(p, u)
    <3>1. PICK e \in S : NameMark(e, u)  BY <2>3 DEF Inside
    <3> QED  BY <1>4, <2>3, <3>1 DEF Outside
  <2> QED  BY <2>1, <2>2, <2>3
<1> QED  BY <1>7 DEF Sided

(* The marks of a merged observation are those of its parts.                 *)
LEMMA MergedMarks ==
  ASSUME NEW T, NEW q \in Seq(T), q # <<>>, \A k \in 1..Len(q) : Called(q[k])
  PROVE  /\ Called(Merged(q))
         /\ \E b \in 1..Len(q) : Merged(q).category = q[b].category
         /\ \A v : IpMark(Merged(q), v) => \E k \in 1..Len(q) : IpMark(q[k], v)
         /\ \A v : NameMark(Merged(q), v) => \E k \in 1..Len(q) : NameMark(q[k], v)
         /\ Merged(q).role_level => \A k \in 1..Len(q) : q[k].role_level
<1> DEFINE m == Merged(q)
<1>1. \A k \in 1..Len(q) : Lettered(q[k]) /\ IsObs(q[k])  BY DEF Called
<1>2. /\ IsObs(m) /\ Lettered(m)
      /\ \E b \in 1..Len(q) : m.category = q[b].category /\ m.name = q[b].name
      /\ m.role_level <=> \A k \in 1..Len(q) : q[k].role_level
      /\ GivenBy(m.target, q, "target")
      /\ GivenBy(m.target_ip, q, "target_ip")
  BY <1>1, MergedTells
<1>3. PICK b \in 1..Len(q) : m.category = q[b].category /\ m.name = q[b].name  BY <1>2
<1>4. m.qnames = Joined(q, "qnames") /\ m.names = Joined(q, "names") /\ m.ips = Joined(q, "ips")
  <2>1. PICK i \in 1..Len(q) : Base(q) = q[i]  BY BaseIs
  <2> DEFINE base == q[i]
  <2>2. Base(q) = base /\ IsObs(base) /\ DOMAIN q = 1..Len(q)  BY <1>1, <2>1
  <2> HIDE DEF base
  <2> QED  BY <2>2, MergedIs
<1> HIDE DEF m
<1>5. /\ \A k \in 1..Len(q) : q[k]["qnames"] \in Seq(Text)
      /\ \A k \in 1..Len(q) : q[k]["names"] \in Seq(Text)
      /\ \A k \in 1..Len(q) : q[k]["ips"] \in Seq(Text)
  BY <1>1 DEF Lettered
<1>6. \A v : HasItem(m.qnames, v) => \E k \in 1..Len(q) : HasItem(q[k]["qnames"], v)  BY <1>4, <1>5, JoinedHas
<1>7. \A v : HasItem(m.names, v) => \E k \in 1..Len(q) : HasItem(q[k]["names"], v)  BY <1>4, <1>5, JoinedHas
<1>8. \A v : HasItem(m.ips, v) => \E k \in 1..Len(q) : HasItem(q[k]["ips"], v)  BY <1>4, <1>5, JoinedHas
<1>9. ASSUME NEW v, IpMark(m, v) PROVE \E k \in 1..Len(q) : IpMark(q[k], v)
  BY <1>2, <1>8, <1>9 DEF IpMark, GivenBy
<1>10. ASSUME NEW v, NameMark(m, v) PROVE \E k \in 1..Len(q) : NameMark(q[k], v)
  <2>1. v # None /\ (v = m.target \/ v = m.name \/ HasItem(m.names, v) \/ HasItem(m.qnames, v))
    BY <1>10 DEF NameMark
  <2>2. CASE v = m.target  BY <1>2, <2>1, <2>2 DEF NameMark, GivenBy
  <2>3. CASE v = m.name  BY <1>3, <2>1, <2>3 DEF NameMark
  <2>4. CASE HasItem(m.names, v)  BY <1>7, <2>1, <2>4 DEF NameMark
  <2>5. CASE HasItem(m.qnames, v)  BY <1>6, <2>1, <2>5 DEF NameMark
  <2> QED  BY <2>1, <2>2, <2>3, <2>4, <2>5
<1>11. Called(m)
  <2>1. m.category \in Text  BY <1>3 DEF Called
  <2>2. m.target # None \/ m.name # None
    <3> SUFFICES ASSUME m.target = None PROVE m.name # None  OBVIOUS
    <3>1. q[b].target = None  BY <1>2 DEF GivenBy
    <3> QED  BY <1>3, <3>1 DEF Called
  <2>3. m.role_level => m.name = RoleName(m.category) /\ m.name # None  BY <1>2, <1>3 DEF Called
  <2> QED  BY <1>2, <2>1, <2>2, <2>3 DEF Called
<1> QED  BY <1>2, <1>3, <1>9, <1>10, <1>11 DEF m

(* What a merged observation of the items has taken up.                      *)
Absorbs(m, obs, n, S, c) ==
  /\ Inside(m, S, c)
  /\ obs[n].required => m.required
  /\ obs[n].accepted => m.accepted
  /\ m.accepted => \E j \in 1..Len(obs) : Inside(obs[j], S, c) /\ obs[j].accepted
  /\ m.present => \E j \in 1..Len(obs) : Inside(obs[j], S, c) /\ obs[j].present

AllSided(obs, S, c) == \A k \in 1..Len(obs) : Called(obs[k]) /\ Sided(obs[k], S, c)

LEMMA MergedSide ==
  ASSUME NEW T, NEW obs \in Seq(T), NEW S, NEW c, AllSided(obs, S, c),
         NEW q \in Seq(T), NEW key, Gathered(q, obs, KeysOf(obs), key)
  PROVE  /\ Called(Merged(q)) /\ Sided(Merged(q), S, c)
         /\ \A n \in 1..Len(obs) : HasItem(q, obs[n]) /\ Inside(obs[n], S, c) => Absorbs(Merged(q), obs, n, S, c)
<1> DEFINE m == Merged(q)
<1>1. q # <<>>  BY DEF Gathered
<1>2. PICK place \in [1..Len(q) -> 1..Len(obs)] :
        \A k \in 1..Len(q) : q[k] = obs[place[k]] /\ KeysOf(obs)[place[k]] = key
  BY DEF Gathered
<1>3. \A k \in 1..Len(q) : place[k] \in 1..Len(obs) /\ q[k] = obs[place[k]] /\ DedupeKey(q[k]) = key  BY <1>2 DEF KeysOf
<1>4. \A k \in 1..Len(q) : Called(q[k]) /\ Sided(q[k], S, c)  BY <1>3 DEF AllSided
<1>5. /\ Called(m)
      /\ \E b \in 1..Len(q) : m.category = q[b].category
      /\ \A v : IpMark(m, v) => \E k \in 1..Len(q) : IpMark(q[k], v)
      /\ \A v : NameMark(m, v) => \E k \in 1..Len(q) : NameMark(q[k], v)
      /\ m.role_level => \A k \in 1..Len(q) : q[k].role_level
  BY <1>1, <1>4, MergedMarks
<1>6. /\ m.required <=> \E k \in 1..Len(q) : q[k].required
      /\ m.present <=> \E k \in 1..Len(q) : q[k].present
      /\ m.accepted <=> \E k \in 1..Len(q) : q[k].accepted
  <2>1. PICK i \in 1..Len(q) : Base(q) = q[i]  BY <1>1, BaseIs
  <2> DEFINE base == q[i]
  <2>2. Base(q) = base /\ IsObs(base) /\ DOMAIN q = 1..Len(q)  BY <1>4, <2>1 DEF Called
  <2> HIDE DEF base
  <2> QED  BY <2>2, MergedIs
<1>7. 1 \in 1..Len(q)  BY <1>1
<1> HIDE DEF m
<1>8. \A j, k \in 1..Len(q) : Inside(q[j], S, c) => Inside(q[k], S, c)  BY <1>3, <1>4, KeysShare
<1>9. CASE Inside(q[1], S, c)
  <2>1. \A k \in 1..Len(q) : Inside(q[k], S, c)  BY <1>7, <1>8, <1>9
  <2>2. m.category = c  BY <1>5, <2>1 DEF Inside
  <2>3. \A v : IpMark(m, v) => \E e \in S : IpMark(e, v)  BY <1>5, <2>1 DEF Inside
  <2>4. \A v : NameMark(m, v) => \E e \in S : NameMark(e, v)  BY <1>5, <2>1 DEF Inside
  <2>5. m.role_level => \E e \in S : e.role_level  BY <1>5, <1>7, <2>1 DEF Inside
  <2>6. Inside(m, S, c)  BY <2>2, <2>3, <2>4, <2>5 DEF Inside
  <2>7. m.accepted => \E j \in 1..Len(obs) : Inside(obs[j], S, c) /\ obs[j].accepted  BY <1>3, <1>6, <2>1
  <2>8. m.present => \E j \in 1..Len(obs) : Inside(obs[j], S, c) /\ obs[j].present  BY <1>3, <1>6, <2>1
  <2>9. ASSUME NEW n \in 1..Len(obs), HasItem(q, obs[n]) PROVE Absorbs(m, obs, n, S, c)
    <3>1. PICK k \in 1..Len(q) : q[k] = obs[n]  BY <2>9 DEF HasItem
    <3>2. (obs[n].required => m.required) /\ (obs[n].accepted => m.accepted)  BY <1>6, <3>1
    <3> QED  BY <2>6, <2>7, <2>8, <3>2 DEF Absorbs
  <2> QED  BY <1>5, <2>6, <2>9 DEF Sided, m
<1>10. CASE ~Inside(q[1], S, c)
  <2>1. \A k \in 1..Len(q) : ~Inside(q[k], S, c) /\ Outside(q[k], S, c)  BY <1>4, <1>7, <1>8, <1>10 DEF Sided
  <2>2. \A k \in 1..Len(q) : \E kind \in {"ip", "role", "name"} : \E v \in Text : DedupeKey(q[k]) = <<q[k].category, kind, v>>
    BY <1>4, KeyIs
  <2>3. \A j, k \in 1..Len(q) : q[j].category = q[k].category  BY <1>3, <2>2
  <2>4. Outside(m, S, c)
    <3> SUFFICES ASSUME m.category = c, NEW e \in S, NEW v
                 PROVE  ~(IpMark(m, v) /\ IpMark(e, v)) /\ ~(NameMark(m, v) /\ NameMark(e, v))
      BY DEF Outside
    <3>1. \A k \in 1..Len(q) : q[k].category = c  BY <1>5, <2>3
    <3>2. \A k \in 1..Len(q) : ~(IpMark(q[k], v) /\ IpMark(e, v)) /\ ~(NameMark(q[k], v) /\ NameMark(e, v))
      BY <2>1, <3>1 DEF Outside
    <3> QED  BY <1>5, <3>2
  <2>5. \A n \in 1..Len(obs) : HasItem(q, obs[n]) => ~Inside(obs[n], S, c)  BY <2>1 DEF HasItem
  <2> QED  BY <1>5, <2>4, <2>5 DEF Sided, m
<1> QED  BY <1>9, <1>10

LEMMA DeduplicateSides ==
  ASSUME NEW T, NEW obs \in Seq(T), NEW S, NEW c, AllSided(obs, S, c)
  PROVE  /\ \E U : Deduplicate(obs) \in Seq(U)
         /\ AllSided(Deduplicate(obs), S, c)
         /\ \A n \in 1..Len(obs) : Inside(obs[n], S, c) =>
              \E i \in 1..Len(Deduplicate(obs)) : Absorbs(Deduplicate(obs)[i], obs, n, S, c)
<1> DEFINE d == Deduplicate(obs)
<1>1. OncePerKey(d, T, obs)  BY DeduplicateIs
<1> HIDE DEF d
<1>2. PICK of, group :
        /\ \A i \in 1..Len(d) :
             group[i] \in Seq(T) /\ d[i] = Merged(group[i]) /\ Gathered(group[i], obs, KeysOf(obs), of[i])
        /\ \A n \in 1..Len(obs) : KeysOf(obs)[n] # None => \E i \in 1..Len(d) : HasItem(group[i], obs[n])
  BY <1>1 DEF OncePerKey
<1>3. ASSUME NEW i \in 1..Len(d)
      PROVE  /\ Called(d[i]) /\ Sided(d[i], S, c)
             /\ \A n \in 1..Len(obs) : HasItem(group[i], obs[n]) /\ Inside(obs[n], S, c) => Absorbs(d[i], obs, n, S, c)
  <2> DEFINE q == group[i]
             key == of[i]
  <2>1. q \in Seq(T) /\ d[i] = Merged(q) /\ Gathered(q, obs, KeysOf(obs), key)  BY <1>2
  <2> HIDE DEF q, key
  <2>2. /\ Called(Merged(q)) /\ Sided(Merged(q), S, c)
        /\ \A n \in 1..Len(obs) : HasItem(q, obs[n]) /\ Inside(obs[n], S, c) => Absorbs(Merged(q), obs, n, S, c)
    BY <2>1, MergedSide
  <2> QED  BY <2>1, <2>2 DEF q
<1>4. AllSided(d, S, c)  BY <1>3 DEF AllSided
<1>5. ASSUME NEW n \in 1..Len(obs), Inside(obs[n], S, c) PROVE \E i \in 1..Len(d) : Absorbs(d[i], obs, n, S, c)
  <2>1. DedupeKey(obs[n]) # None  BY KeyIsGiven DEF AllSided
  <2>2. KeysOf(obs)[n] # None  BY <2>1 DEF KeysOf
  <2>3. PICK i \in 1..Len(d) : HasItem(group[i], obs[n])  BY <1>2, <2>2
  <2> QED  BY <1>3, <1>5, <2>3
<1>6. \E U : d \in Seq(U)  BY <1>1 DEF OncePerKey
<1> QED  BY <1>4, <1>5, <1>6 DEF d
-----------------------------------------------------------------------------
(* Aggregation: the items of one thing make an observation of their marks.   *)
LEMMA ObservationTells ==
  ASSUME NEW q, DOMAIN q = 1..Len(q)
  PROVE  /\ Observation(q).category = q[1].category /\ Observation(q).name = q[1].name
         /\ Observation(q).target = q[1].target /\ Observation(q).target_ip = q[1].target_ip
         /\ Observation(q).qnames = Joined(q, "qnames") /\ Observation(q).names = Joined(q, "names")
         /\ Observation(q).ips = Joined(q, "ips")
         /\ Observation(q).role_level <=> \E k \in 1..Len(q) : q[k].role_level
         /\ Observation(q).required <=> \E k \in 1..Len(q) : q[k].required
<1> DEFINE o == Observation(q)
           systems == {q[k].system : k \in DOMAIN q} \ {None}
           confidence == AggregatedConfidence(q, systems)
           queries == Len(q)
           qnames == Joined(q, "qnames")
           names == Joined(q, "names")
           ips == Joined(q, "ips")
           unanswered == AnyHas(q, "unanswered")
           role_level == AnyHas(q, "role_level")
           known == AnyHas(q, "known")
           required == AnyHas(q, "required")
<1>1. o = [category |-> q[1].category, name |-> q[1].name, target |-> q[1].target,
           target_ip |-> q[1].target_ip, confidence |-> confidence, queries |-> queries, systems |-> systems,
           qnames |-> qnames, names |-> names, ips |-> ips,
           unanswered |-> unanswered, role_level |-> role_level, known |-> known, required |-> required,
           basis |-> None, present |-> FALSE, accepted |-> FALSE, optional |-> FALSE]
  BY DEF Observation
<1>2. /\ role_level <=> \E k \in 1..Len(q) : q[k].role_level
      /\ required <=> \E k \in 1..Len(q) : q[k].required
  BY DEF AnyHas
<1> HIDE DEF o, systems, confidence, queries, qnames, names, ips, unanswered, role_level, known, required
<1>3. /\ o.category = q[1].category /\ o.name = q[1].name /\ o.target = q[1].target /\ o.target_ip = q[1].target_ip
      /\ o.qnames = qnames /\ o.names = names /\ o.ips = ips /\ o.role_level = role_level /\ o.required = required
  BY <1>1
<1> QED  BY <1>2, <1>3 DEF o, qnames, names, ips

(* The items of a group are of one category and share what they are called.  *)
LEMMA OneThing ==
  ASSUME NEW e, NEW w, Readable(e), Readable(w), AggregateKey(e) = AggregateKey(w)
  PROVE  /\ e.category = w.category /\ (e.role_level <=> w.role_level)
         /\ \E v : NameMark(e, v) /\ NameMark(w, v)
<1>1. /\ e.category = w.category /\ Or(e.target, e.name) = Or(w.target, w.name) /\ e.role_level = w.role_level
  BY DEF AggregateKey
<1>2. NameMark(e, Or(e.target, e.name)) /\ NameMark(w, Or(w.target, w.name))  BY DEF Readable, NameMark, Or
<1> QED  BY <1>1, <1>2

LEMMA ThingIsGiven ==
  ASSUME NEW e, Readable(e)
  PROVE  AggregateKey(e) # None
<1>1. e.category \in Text /\ e.target_ip \in Text /\ e.role_level \in BOOLEAN  BY DEF Readable, Lettered
<1>2. Or(e.target, e.name) \in Text  BY DEF Readable, Lettered, Or
<1>3. AggregateKey(e) \in Text \X Text \X Text \X BOOLEAN  BY <1>1, <1>2 DEF AggregateKey
<1> QED  BY <1>3, InputsAssumption

LEMMA ObservationMarks ==
  ASSUME NEW T, NEW q \in Seq(T), q # <<>>, \A k \in 1..Len(q) : Readable(q[k]),
         NEW key, \A k \in 1..Len(q) : AggregateKey(q[k]) = key
  PROVE  /\ Called(Observation(q))
         /\ \A k \in 1..Len(q) : Observation(q).category = q[k].category
         /\ \A v : IpMark(Observation(q), v) => \E k \in 1..Len(q) : IpMark(q[k], v)
         /\ \A v : NameMark(Observation(q), v) => \E k \in 1..Len(q) : NameMark(q[k], v)
         /\ Observation(q).role_level => \E k \in 1..Len(q) : q[k].role_level
<1> DEFINE m == Observation(q)
<1>1. \A k \in 1..Len(q) : Lettered(q[k])  BY DEF Readable
<1>2. IsObs(m) /\ Lettered(m)  BY <1>1, ObservationIs
<1>3. DOMAIN q = 1..Len(q) /\ 1 \in 1..Len(q)  OBVIOUS
<1>4. /\ m.category = q[1].category /\ m.name = q[1].name /\ m.target = q[1].target /\ m.target_ip = q[1].target_ip
      /\ m.qnames = Joined(q, "qnames") /\ m.names = Joined(q, "names") /\ m.ips = Joined(q, "ips")
      /\ m.role_level <=> \E k \in 1..Len(q) : q[k].role_level
  BY <1>3, ObservationTells
<1> HIDE DEF m
<1>5. /\ \A k \in 1..Len(q) : q[k]["qnames"] \in Seq(Text)
      /\ \A k \in 1..Len(q) : q[k]["names"] \in Seq(Text)
      /\ \A k \in 1..Len(q) : q[k]["ips"] \in Seq(Text)
  BY <1>1 DEF Lettered
<1>6. \A v : HasItem(m.qnames, v) => \E k \in 1..Len(q) : HasItem(q[k]["qnames"], v)  BY <1>4, <1>5, JoinedHas
<1>7. \A v : HasItem(m.names, v) => \E k \in 1..Len(q) : HasItem(q[k]["names"], v)  BY <1>4, <1>5, JoinedHas
<1>8. \A v : HasItem(m.ips, v) => \E k \in 1..Len(q) : HasItem(q[k]["ips"], v)  BY <1>4, <1>5, JoinedHas
<1>9. ASSUME NEW v, IpMark(m, v) PROVE \E k \in 1..Len(q) : IpMark(q[k], v)
  BY <1>3, <1>4, <1>8, <1>9 DEF IpMark
<1>10. ASSUME NEW v, NameMark(m, v) PROVE \E k \in 1..Len(q) : NameMark(q[k], v)
  <2>1. v # None /\ (v = m.target \/ v = m.name \/ HasItem(m.names, v) \/ HasItem(m.qnames, v))
    BY <1>10 DEF NameMark
  <2>2. CASE v = m.target \/ v = m.name  BY <1>3, <1>4, <2>1, <2>2 DEF NameMark
  <2>4. CASE HasItem(m.names, v)  BY <1>7, <2>1, <2>4 DEF NameMark
  <2>5. CASE HasItem(m.qnames, v)  BY <1>6, <2>1, <2>5 DEF NameMark
  <2> QED  BY <2>1, <2>2, <2>4, <2>5
<1>11. \A k \in 1..Len(q) : q[1].category = q[k].category /\ (q[1].role_level <=> q[k].role_level)
  BY <1>3, OneThing
<1>12. Called(m)
  <2>1. m.category \in Text /\ (m.target # None \/ m.name # None)  BY <1>3, <1>4 DEF Readable
  <2>2. m.role_level => q[1].role_level  BY <1>4, <1>11
  <2>3. m.role_level => m.name = RoleName(m.category) /\ m.name # None  BY <1>3, <1>4, <2>2 DEF Readable
  <2> QED  BY <1>2, <2>1, <2>3 DEF Called
<1> QED  BY <1>4, <1>9, <1>10, <1>11, <1>12 DEF m

AllReadable(items) == \A k \in 1..Len(items) : Readable(items[k])

LEMMA AggregateSide ==
  ASSUME NEW T, NEW items \in Seq(T), AllReadable(items), NEW I, \A k \in 1..Len(items) : items[k] \in I,
         NEW S, StandApart(S, I), NEW c, \A e \in S : e.category = c /\ Readable(e),
         NEW q \in Seq(T), NEW key, Gathered(q, items, KeysOfItems(items), key)
  PROVE  /\ Called(Observation(q)) /\ Sided(Observation(q), S, c)
         /\ \A e \in S : HasItem(q, e) => /\ Inside(Observation(q), S, c)
                                          /\ e.required => Observation(q).required
<1> DEFINE m == Observation(q)
<1>1. q # <<>>  BY DEF Gathered
<1>2. PICK place \in [1..Len(q) -> 1..Len(items)] :
        \A k \in 1..Len(q) : q[k] = items[place[k]] /\ KeysOfItems(items)[place[k]] = key
  BY DEF Gathered
<1>3. \A k \in 1..Len(q) : place[k] \in 1..Len(items) /\ q[k] = items[place[k]] /\ AggregateKey(q[k]) = key
  BY <1>2 DEF KeysOfItems
<1>4. \A k \in 1..Len(q) : Readable(q[k]) /\ q[k] \in I  BY <1>3 DEF AllReadable
<1>5. /\ Called(m)
      /\ \A k \in 1..Len(q) : m.category = q[k].category
      /\ \A v : IpMark(m, v) => \E k \in 1..Len(q) : IpMark(q[k], v)
      /\ \A v : NameMark(m, v) => \E k \in 1..Len(q) : NameMark(q[k], v)
      /\ m.role_level => \E k \in 1..Len(q) : q[k].role_level
  BY <1>1, <1>3, <1>4, ObservationMarks
<1>6. 1 \in 1..Len(q) /\ DOMAIN q = 1..Len(q)  BY <1>1
<1>7. m.required <=> \E k \in 1..Len(q) : q[k].required  BY <1>6, ObservationTells
<1> HIDE DEF m
<1>8. ASSUME NEW e \in S, NEW w \in I \ S, e.category = w.category, Readable(w), NEW v
      PROVE  ~(IpMark(e, v) /\ IpMark(w, v)) /\ ~(NameMark(e, v) /\ NameMark(w, v))
  <2>1. MarksOf(e) \cap MarksOf(w) = {}  BY <1>8 DEF StandApart
  <2>2. Lettered(e) /\ Lettered(w)  BY <1>8 DEF Readable
  <2>3. v \in MarksOf(e) <=> IpMark(e, v) \/ NameMark(e, v)  BY <2>2, MarksAre
  <2>4. v \in MarksOf(w) <=> IpMark(w, v) \/ NameMark(w, v)  BY <2>2, MarksAre
  <2> QED  BY <2>1, <2>3, <2>4
<1>9. \A j, k \in 1..Len(q) : q[j] \in S => q[k] \in S
  <2> SUFFICES ASSUME NEW j \in 1..Len(q), NEW k \in 1..Len(q), q[j] \in S, q[k] \notin S PROVE FALSE  OBVIOUS
  <2> DEFINE e == q[j]
             w == q[k]
  <2>1. Readable(e) /\ Readable(w) /\ AggregateKey(e) = AggregateKey(w) /\ e \in S /\ w \in I \ S  BY <1>3, <1>4
  <2> HIDE DEF e, w
  <2>2. e.category = w.category /\ \E v : NameMark(e, v) /\ NameMark(w, v)  BY <2>1, OneThing
  <2> QED  BY <1>8, <2>1, <2>2
<1>10. CASE q[1] \in S
  <2>1. \A k \in 1..Len(q) : q[k] \in S  BY <1>6, <1>9, <1>10
  <2>2. m.category = c  BY <1>5, <1>6, <2>1
  <2>3. Inside(m, S, c)  BY <1>5, <2>1, <2>2 DEF Inside
  <2>4. \A e \in S : HasItem(q, e) /\ e.required => m.required  BY <1>7 DEF HasItem
  <2> QED  BY <1>5, <2>3, <2>4 DEF Sided, m
<1>11. CASE q[1] \notin S
  <2>1. \A k \in 1..Len(q) : q[k] \in I \ S  BY <1>4, <1>6, <1>9, <1>11
  <2>2. Outside(m, S, c)
    <3> SUFFICES ASSUME m.category = c, NEW e \in S, NEW v
                 PROVE  ~(IpMark(m, v) /\ IpMark(e, v)) /\ ~(NameMark(m, v) /\ NameMark(e, v))
      BY DEF Outside
    <3>1. \A k \in 1..Len(q) : e.category = q[k].category  BY <1>5
    <3>2. \A k \in 1..Len(q) : ~(IpMark(e, v) /\ IpMark(q[k], v)) /\ ~(NameMark(e, v) /\ NameMark(q[k], v))
      BY <1>4, <1>8, <2>1, <3>1
    <3> QED  BY <1>5, <3>2
  <2>3. \A e \in S : ~HasItem(q, e)  BY <2>1 DEF HasItem
  <2> QED  BY <1>5, <2>2, <2>3 DEF Sided, m
<1> QED  BY <1>10, <1>11

LEMMA AggregateSides ==
  ASSUME NEW T, NEW items \in Seq(T), AllReadable(items), NEW I, \A k \in 1..Len(items) : items[k] \in I,
         NEW S, StandApart(S, I), NEW c, \A e \in S : e.category = c /\ Readable(e) /\ HasItem(items, e)
  PROVE  /\ \E U : Aggregate(items) \in Seq(U)
         /\ AllSided(Aggregate(items), S, c)
         /\ \A e \in S : \E i \in 1..Len(Aggregate(items)) :
              Inside(Aggregate(items)[i], S, c) /\ (e.required => Aggregate(items)[i].required)
<1> DEFINE d == Aggregate(items)
<1>1. OncePerThing(d, T, items)  BY AggregateParts
<1> HIDE DEF d
<1>2. PICK of, group :
        /\ \A i \in 1..Len(d) :
             group[i] \in Seq(T) /\ d[i] = Observation(group[i]) /\ Gathered(group[i], items, KeysOfItems(items), of[i])
        /\ \A n \in 1..Len(items) : KeysOfItems(items)[n] # None => \E i \in 1..Len(d) : HasItem(group[i], items[n])
  BY <1>1 DEF OncePerThing
<1>3. ASSUME NEW i \in 1..Len(d)
      PROVE  /\ Called(d[i]) /\ Sided(d[i], S, c)
             /\ \A e \in S : HasItem(group[i], e) => Inside(d[i], S, c) /\ (e.required => d[i].required)
  <2> DEFINE q == group[i]
             key == of[i]
  <2>1. q \in Seq(T) /\ d[i] = Observation(q) /\ Gathered(q, items, KeysOfItems(items), key)  BY <1>2
  <2> HIDE DEF q, key
  <2>2. /\ Called(Observation(q)) /\ Sided(Observation(q), S, c)
        /\ \A e \in S : HasItem(q, e) => Inside(Observation(q), S, c) /\ (e.required => Observation(q).required)
    BY <2>1, AggregateSide
  <2> QED  BY <2>1, <2>2 DEF q
<1>4. AllSided(d, S, c)  BY <1>3 DEF AllSided
<1>5. ASSUME NEW e \in S PROVE \E i \in 1..Len(d) : Inside(d[i], S, c) /\ (e.required => d[i].required)
  <2>1. PICK n \in 1..Len(items) : items[n] = e  BY DEF HasItem
  <2>2. AggregateKey(items[n]) # None  BY ThingIsGiven DEF AllReadable
  <2>3. KeysOfItems(items)[n] # None  BY <2>2 DEF KeysOfItems
  <2>4. PICK i \in 1..Len(d) : HasItem(group[i], items[n])  BY <1>2, <2>3
  <2> QED  BY <1>3, <2>1, <2>4
<1>6. \E U : d \in Seq(U)  BY <1>1 DEF OncePerThing
<1> QED  BY <1>4, <1>5, <1>6 DEF d
-----------------------------------------------------------------------------
(* The lookup keeps the sides: what only items outside the recovery set are  *)
(* known by is found there for none of their observations, and what others   *)
(* learn from the systems is no mark of theirs.                              *)
LEMMA ExcusedByMark ==
  ASSUME NEW o, Lettered(o), NEW risks
  PROVE  Excused(o, risks) <=>
           \E k \in DOMAIN risks :
             /\ risks[k].category \in {None, o.category} /\ ~risks[k].expired
             /\ IpMark(o, risks[k].name) \/ NameMark(o, risks[k].name)
<1> DEFINE a == o.qnames
           b == o.names
           c == o.ips
           ab == a \o b
<1>1. a \in Seq(Text) /\ b \in Seq(Text) /\ c \in Seq(Text)  BY DEF Lettered
<1> HIDE DEF a, b, c
<1>2. ab \in Seq(Text) /\ \A v : HasItem(ab, v) <=> HasItem(a, v) \/ HasItem(b, v)
  BY <1>1, ConcatHas, ConcatProperties
<1> HIDE DEF ab
<1>3. ab \o c \in Seq(Text) /\ \A v : HasItem(ab \o c, v) <=> HasItem(ab, v) \/ HasItem(c, v)
  BY <1>1, <1>2, ConcatHas, ConcatProperties
<1> DEFINE all == ab \o c
<1>4. all \in Seq(Text) /\ \A v : HasItem(all, v) <=> HasItem(a, v) \/ HasItem(b, v) \/ HasItem(c, v)
  BY <1>2, <1>3
<1> HIDE DEF all
<1>5. \A v : v \in ToSet(all) <=> HasItem(all, v)  BY <1>4 DEF ToSet, HasItem
<1>6. Excused(o, risks) <=>
        \E k \in DOMAIN risks :
          /\ risks[k].category \in {None, o.category} /\ ~risks[k].expired /\ risks[k].name # None
          /\ risks[k].name \in {o.name, o.target, o.target_ip} \cup ToSet(all)
  BY DEF Excused, all, ab, a, b, c
<1>7. ASSUME NEW v
      PROVE  v # None /\ v \in {o.name, o.target, o.target_ip} \cup ToSet(all) <=> IpMark(o, v) \/ NameMark(o, v)
  BY <1>4, <1>5 DEF IpMark, NameMark, a, b, c
<1> QED  BY <1>6, <1>7

LEMMA ExcusedWithin ==
  ASSUME NEW o, Lettered(o), NEW S, NEW c, Inside(o, S, c), \A e \in S : e.category = c /\ Lettered(e),
         NEW risks, Excused(o, risks)
  PROVE  \E w \in S : Excused(w, risks)
<1>1. PICK k \in DOMAIN risks :
        /\ risks[k].category \in {None, o.category} /\ ~risks[k].expired
        /\ IpMark(o, risks[k].name) \/ NameMark(o, risks[k].name)
  BY ExcusedByMark
<1>2. PICK w \in S : IpMark(w, risks[k].name) \/ NameMark(w, risks[k].name)  BY <1>1 DEF Inside
<1>3. o.category = w.category  BY DEF Inside
<1> QED  BY <1>1, <1>2, <1>3, ExcusedByMark

\* What the lookup writes.
LEMMA LookupTells ==
  ASSUME NEW o, IsObs(o), NEW systems, NEW risks
  PROVE  LET t == MatchObservation(o, systems, risks)
             found == Match(o, systems)
             rich == EnrichObservation(o, systems, found.at)
         IN  /\ IsObs(t) /\ t.category = o.category /\ t.name = o.name /\ t.role_level = o.role_level
             /\ t.target = rich.target /\ t.target_ip = rich.target_ip
             /\ t.qnames = o.qnames /\ t.names = rich.names /\ t.ips = rich.ips
             /\ t.present <=> found.basis # "NO_RECOVERY_SET_MATCH"
             /\ ~t.present => /\ rich = o
                              /\ t.accepted <=> Excused(o, risks)
                              /\ t.required <=> o.required /\ ~Excused(o, risks)
<1> DEFINE found == Match(o, systems)
           rich == EnrichObservation(o, systems, found.at)
           told == Told(o, systems, found)
           excused == ~told.present /\ Excused(told, risks)
           t == MatchObservation(o, systems, risks)
<1>1. t = Settled(told, excused)  BY DEF MatchObservation
<1>2. found.basis = "NO_RECOVERY_SET_MATCH" => found.at = NoSystem  BY AbsentHasNoSystem
<1> HIDE DEF found
<1>3. /\ DOMAIN rich = ObsFields /\ rich.category = o.category /\ rich.name = o.name
      /\ rich.role_level = o.role_level /\ rich.qnames = o.qnames
  BY DEF EnrichObservation, IsObs, ObsFields
<1>4. found.at = NoSystem => rich = o  BY DEF EnrichObservation
<1>5. told = [rich EXCEPT !.basis = found.basis, !.present = found.basis # "NO_RECOVERY_SET_MATCH"]  BY DEF Told
<1> HIDE DEF rich, told, excused, t
<1>6. DOMAIN told = ObsFields  BY <1>3, <1>5
<1>7. /\ told.present <=> found.basis # "NO_RECOVERY_SET_MATCH"
      /\ told.category = rich.category /\ told.name = rich.name /\ told.target = rich.target
      /\ told.target_ip = rich.target_ip /\ told.qnames = rich.qnames /\ told.names = rich.names
      /\ told.ips = rich.ips /\ told.role_level = rich.role_level /\ told.required = rich.required
  BY <1>3, <1>5 DEF ObsFields
<1>8. t = [told EXCEPT !.required = told.required /\ ~excused, !.accepted = excused,
                       !.optional = ~told.required \/ excused]
  BY <1>1 DEF Settled
<1>9. IsObs(t)  BY <1>6, <1>8 DEF IsObs
<1>10. /\ t.required <=> (told.required /\ ~excused)
       /\ t.accepted <=> excused
       /\ t.present = told.present
       /\ t.category = told.category /\ t.name = told.name /\ t.target = told.target
       /\ t.target_ip = told.target_ip /\ t.qnames = told.qnames /\ t.names = told.names
       /\ t.ips = told.ips /\ t.role_level = told.role_level
  BY <1>6, <1>8 DEF ObsFields
<1>11. t.present <=> found.basis # "NO_RECOVERY_SET_MATCH"  BY <1>7, <1>10
<1>12. ASSUME ~t.present
       PROVE  rich = o /\ (t.accepted <=> Excused(o, risks)) /\ (t.required <=> o.required /\ ~Excused(o, risks))
  <2>1. rich = o  BY <1>2, <1>4, <1>11, <1>12
  <2>2. Excused(told, risks) <=> Excused(o, risks)  BY <1>7, <2>1 DEF Excused
  <2>3. excused <=> Excused(told, risks)  BY <1>10, <1>12 DEF excused
  <2> QED  BY <1>7, <1>10, <2>1, <2>2, <2>3
<1> QED  BY <1>3, <1>7, <1>9, <1>10, <1>11, <1>12 DEF t, rich, found

LEMMA LookupInside ==
  ASSUME NEW U, NEW systems \in Seq(U), NEW risks, NEW S, NEW c,
         \A w \in S : w.category = c /\ Lettered(w) /\ Match(w, systems).basis = "NO_RECOVERY_SET_MATCH",
         NEW o, Called(o), Inside(o, S, c)
  PROVE  LET t == MatchObservation(o, systems, risks)
         IN  /\ Called(t) /\ Inside(t, S, c) /\ ~t.present
             /\ t.accepted => \E w \in S : Excused(w, risks)
             /\ o.required => t.required \/ t.accepted
<1> DEFINE t == MatchObservation(o, systems, risks)
           rich == EnrichObservation(o, systems, Match(o, systems).at)
<1>1. Lettered(o) /\ IsObs(o)  BY DEF Called
<1>2. Match(o, systems).basis = "NO_RECOVERY_SET_MATCH"
  <2> SUFFICES ASSUME Match(o, systems).basis # "NO_RECOVERY_SET_MATCH" PROVE FALSE  OBVIOUS
  <2>1. \/ \E v : IpMark(o, v) /\ IpKnown(v, systems)
        \/ \E v : NameMark(o, v) /\ NameKnown(v, systems)
        \/ RoleFits(o, systems)
    BY <1>1, MatchFinds
  <2>2. \A w \in S : /\ ~\E v : IpMark(w, v) /\ IpKnown(v, systems)
                     /\ ~\E v : NameMark(w, v) /\ NameKnown(v, systems)
                     /\ ~RoleFits(w, systems)
    BY MatchFinds
  <2>3. CASE RoleFits(o, systems)
    <3>1. PICK w \in S : w.role_level  BY <2>3 DEF Inside, RoleFits
    <3>2. w.category = o.category  BY DEF Inside
    <3>3. RoleFits(w, systems)  BY <2>3, <3>1, <3>2 DEF RoleFits
    <3> QED  BY <2>2, <3>3
  <2> QED  BY <2>1, <2>2, <2>3 DEF Inside
<1>3. /\ IsObs(t) /\ t.category = o.category /\ t.name = o.name /\ t.role_level = o.role_level
      /\ t.target = rich.target /\ t.target_ip = rich.target_ip
      /\ t.qnames = o.qnames /\ t.names = rich.names /\ t.ips = rich.ips
      /\ t.present <=> Match(o, systems).basis # "NO_RECOVERY_SET_MATCH"
      /\ ~t.present => /\ rich = o
                       /\ t.accepted <=> Excused(o, risks)
                       /\ t.required <=> o.required /\ ~Excused(o, risks)
  BY <1>1, LookupTells
<1> HIDE DEF t, rich
<1>4. /\ ~t.present /\ t.target = o.target /\ t.target_ip = o.target_ip /\ t.names = o.names /\ t.ips = o.ips
      /\ t.accepted <=> Excused(o, risks)
      /\ t.required <=> o.required /\ ~Excused(o, risks)
  BY <1>2, <1>3
<1>5. Called(t)  BY <1>3, <1>4 DEF Called, Lettered
<1>6. Inside(t, S, c)  BY <1>3, <1>4 DEF Inside, IpMark, NameMark
<1>7. t.accepted => \E w \in S : Excused(w, risks)  BY <1>1, <1>4, ExcusedWithin
<1> QED  BY <1>4, <1>5, <1>6, <1>7 DEF t
(* What a system tells an observation of it: its own names and addresses.    *)
LEMMA RichMarks ==
  ASSUME NEW o, IsObs(o), Lettered(o), NEW systems \in Seq(SystemRow), NEW at
  PROVE  LET rich == EnrichObservation(o, systems, at)
         IN  /\ Lettered(rich) /\ rich.qnames = o.qnames /\ rich.name = o.name
             /\ o.target # None => rich.target # None
             /\ \A v : IpMark(rich, v) => IpMark(o, v) \/ IpKnown(v, systems)
             /\ \A v : NameMark(rich, v) => NameMark(o, v) \/ NameKnown(v, systems)
<1> DEFINE fit == {k \in DOMAIN systems : DisplayName(systems[k]) = DisplayName(systems[at])}
           same == Picked(systems, fit)
           parts == [k \in DOMAIN same |-> same[k].ips]
           fqdns == [k \in DOMAIN same |-> same[k].fqdn]
           ips == FlattenSeq(parts)
           target == Or(o.target, FirstOf(same, "fqdn"))
           target_ip == IF o.target_ip # None \/ ips = <<>> THEN o.target_ip ELSE ips[1]
           rich == EnrichObservation(o, systems, at)
<1>1. rich = IF at = NoSystem THEN o
             ELSE [o EXCEPT !.target = target, !.target_ip = target_ip,
                            !.names = Unique(o.names \o fqdns), !.ips = Unique(o.ips \o ips)]
  BY DEF EnrichObservation
<1>2. CASE at = NoSystem
  <2>1. rich = o  BY <1>1, <1>2
  <2> HIDE DEF rich
  <2>2. /\ Lettered(rich) /\ rich.qnames = o.qnames /\ rich.name = o.name
        /\ o.target # None => rich.target # None
        /\ \A v : IpMark(rich, v) => IpMark(o, v) \/ IpKnown(v, systems)
        /\ \A v : NameMark(rich, v) => NameMark(o, v) \/ NameKnown(v, systems)
    BY <2>1
  <2> QED  BY <2>2 DEF rich
<1>3. CASE at # NoSystem
  <2> HIDE DEF fit
  <2>1. /\ same \in Seq(SystemRow)
        /\ \A k \in 1..Len(same) : \E n \in 1..Len(systems) : same[k] = systems[n]
    BY PickedSome
  <2>2. DOMAIN same = 1..Len(same) /\ Len(same) \in Nat /\ DOMAIN systems = 1..Len(systems)  BY <2>1
  <2> HIDE DEF same
  <2>3. \A k \in 1..Len(same) : same[k] \in SystemRow  BY <2>1
  <2>4. \A k \in 1..Len(same) : same[k].fqdn \in Text /\ same[k].ips \in Seq(Text)
    BY <2>3, GivenIsText DEF SystemRow
  <2>5. parts \in Seq(Seq(Text)) /\ Len(parts) = Len(same) /\ \A k \in 1..Len(same) : parts[k] = same[k].ips
    <3>1. parts \in [1..Len(same) -> Seq(Text)]  BY <2>2, <2>4
    <3>2. \A k \in 1..Len(same) : parts[k] = same[k].ips  BY <2>2
    <3> HIDE DEF parts
    <3> QED  BY <2>2, <3>1, <3>2
  <2>6. fqdns \in Seq(Text) /\ Len(fqdns) = Len(same) /\ \A k \in 1..Len(same) : fqdns[k] = same[k].fqdn
    <3>1. fqdns \in [1..Len(same) -> Text]  BY <2>2, <2>4
    <3>2. \A k \in 1..Len(same) : fqdns[k] = same[k].fqdn  BY <2>2
    <3> HIDE DEF fqdns
    <3> QED  BY <2>2, <3>1, <3>2
  <2> HIDE DEF parts, fqdns
  <2>7. ips \in Seq(Text)  BY <2>5, FlattenIs
  <2>8. \A v : HasItem(ips, v) <=> \E k \in 1..Len(parts) : HasItem(parts[k], v)  BY <2>5, FlattenHasItem
  <2> HIDE DEF ips
  <2>9. \A v : HasItem(ips, v) => IpKnown(v, systems)
    <3> SUFFICES ASSUME NEW v, HasItem(ips, v) PROVE IpKnown(v, systems)  OBVIOUS
    <3>1. PICK k \in 1..Len(same) : HasItem(same[k].ips, v)  BY <2>5, <2>8
    <3>2. PICK n \in 1..Len(systems) : same[k] = systems[n]  BY <2>1
    <3>3. PICK j \in 1..Len(same[k].ips) : same[k].ips[j] = v  BY <3>1 DEF HasItem
    <3>4. j \in DOMAIN same[k].ips  BY <2>4, <3>3
    <3> QED  BY <2>2, <3>2, <3>3, <3>4 DEF IpKnown
  <2>10. \A k \in 1..Len(same) : NameKnown(same[k].fqdn, systems)  BY <2>1, <2>2 DEF NameKnown
  <2>11. FirstOf(same, "fqdn") = None \/ \E k \in 1..Len(same) : FirstOf(same, "fqdn") = same[k].fqdn
    BY <2>1, FirstOfIs
  <2>12. target = o.target \/ (\E k \in 1..Len(same) : target = same[k].fqdn)
    BY <2>11 DEF Or
  <2>13. target \in Text /\ (o.target # None => target # None)  BY <2>4, <2>12 DEF Lettered, Or
  <2>14. target = o.target \/ target = None \/ NameKnown(target, systems)  BY <2>10, <2>12
  <2>15. target_ip = o.target_ip \/ HasItem(ips, target_ip)  BY <2>7 DEF HasItem
  <2>16. target_ip \in Text
    <3>1. HasItem(ips, target_ip) => target_ip \in Text  BY <2>7 DEF HasItem
    <3> QED  BY <2>15, <3>1 DEF Lettered
  <2> HIDE DEF target, target_ip
  <2> DEFINE names0 == o.names
             ips0 == o.ips
             names == Unique(names0 \o fqdns)
             all == Unique(ips0 \o ips)
  <2>17. names0 \in Seq(Text) /\ ips0 \in Seq(Text)  BY DEF Lettered
  <2> HIDE DEF names0, ips0
  <2>18. names \in Seq(Text) /\ \A v : HasItem(names, v) => HasItem(names0, v) \/ HasItem(fqdns, v)
    <3>1. names0 \o fqdns \in Seq(Text) /\ \A v : HasItem(names0 \o fqdns, v) <=> HasItem(names0, v) \/ HasItem(fqdns, v)
      BY <2>6, <2>17, ConcatHas, ConcatProperties
    <3> QED  BY <3>1, UniqueIs, UniqueHas
  <2>19. all \in Seq(Text) /\ \A v : HasItem(all, v) => HasItem(ips0, v) \/ HasItem(ips, v)
    <3>1. ips0 \o ips \in Seq(Text) /\ \A v : HasItem(ips0 \o ips, v) <=> HasItem(ips0, v) \/ HasItem(ips, v)
      BY <2>7, <2>17, ConcatHas, ConcatProperties
    <3> QED  BY <3>1, UniqueIs, UniqueHas
  <2>20. \A v : HasItem(fqdns, v) => NameKnown(v, systems)  BY <2>6, <2>10 DEF HasItem
  <2>21. rich = [o EXCEPT !.target = target, !.target_ip = target_ip, !.names = names, !.ips = all]
    BY <1>1, <1>3 DEF names0, ips0
  <2> HIDE DEF names, all, rich
  <2>22. /\ rich.target = target /\ rich.target_ip = target_ip /\ rich.names = names /\ rich.ips = all
         /\ rich.name = o.name /\ rich.qnames = o.qnames
    BY <2>21 DEF IsObs, ObsFields
  <2>23. Lettered(rich)  BY <2>13, <2>16, <2>18, <2>19, <2>22 DEF Lettered
  <2>24. \A v : IpMark(rich, v) => IpMark(o, v) \/ IpKnown(v, systems)
    BY <2>9, <2>15, <2>19, <2>22 DEF IpMark, ips0
  <2>25. \A v : NameMark(rich, v) => NameMark(o, v) \/ NameKnown(v, systems)
    BY <2>14, <2>18, <2>20, <2>22 DEF NameMark, names0
  <2> QED  BY <2>13, <2>22, <2>23, <2>24, <2>25 DEF rich
<1> QED  BY <1>2, <1>3

LEMMA LookupOutside ==
  ASSUME NEW systems \in Seq(SystemRow), NEW risks, NEW S, NEW c,
         \A w \in S : w.category = c /\ Lettered(w) /\ Match(w, systems).basis = "NO_RECOVERY_SET_MATCH",
         NEW o, Called(o), Outside(o, S, c)
  PROVE  Called(MatchObservation(o, systems, risks)) /\ Outside(MatchObservation(o, systems, risks), S, c)
<1> DEFINE t == MatchObservation(o, systems, risks)
           rich == EnrichObservation(o, systems, Match(o, systems).at)
<1>1. Lettered(o) /\ IsObs(o)  BY DEF Called
<1>2. /\ IsObs(t) /\ t.category = o.category /\ t.name = o.name /\ t.role_level = o.role_level
      /\ t.target = rich.target /\ t.target_ip = rich.target_ip
      /\ t.qnames = o.qnames /\ t.names = rich.names /\ t.ips = rich.ips
  BY <1>1, LookupTells
<1>3. /\ Lettered(rich) /\ rich.qnames = o.qnames /\ rich.name = o.name
      /\ o.target # None => rich.target # None
      /\ \A v : IpMark(rich, v) => IpMark(o, v) \/ IpKnown(v, systems)
      /\ \A v : NameMark(rich, v) => NameMark(o, v) \/ NameKnown(v, systems)
  BY <1>1, RichMarks
<1> HIDE DEF t, rich
<1>4. Called(t)
  <2>1. Lettered(t)  BY <1>2, <1>3 DEF Lettered
  <2> QED  BY <1>2, <1>3, <2>1 DEF Called
<1>5. /\ \A v : IpMark(t, v) => IpMark(o, v) \/ IpKnown(v, systems)
      /\ \A v : NameMark(t, v) => NameMark(o, v) \/ NameKnown(v, systems)
  <2>1. \A v : IpMark(t, v) <=> IpMark(rich, v)  BY <1>2 DEF IpMark
  <2>2. \A v : NameMark(t, v) <=> NameMark(rich, v)  BY <1>2, <1>3 DEF NameMark
  <2> QED  BY <1>3, <2>1, <2>2
<1>6. \A w \in S : \A v : ~(IpMark(w, v) /\ IpKnown(v, systems)) /\ ~(NameMark(w, v) /\ NameKnown(v, systems))
  BY MatchFinds
<1>7. Outside(t, S, c)  BY <1>2, <1>5, <1>6 DEF Outside
<1> QED  BY <1>4, <1>7 DEF t
LEMMA SidesApart ==
  ASSUME NEW o, Called(o), NEW S, NEW c, Inside(o, S, c)
  PROVE  ~Outside(o, S, c)
<1>1. NameMark(o, o.target) \/ NameMark(o, o.name)  BY DEF Called, NameMark
<1>2. PICK v : NameMark(o, v)  BY <1>1
<1>3. PICK e \in S : NameMark(e, v)  BY <1>2 DEF Inside
<1> QED  BY <1>2, <1>3 DEF Inside, Outside

\* Items that the recovery set has nothing of.
Astray(S, c, systems) ==
  \A w \in S : w.category = c /\ Readable(w) /\ Match(w, systems).basis = "NO_RECOVERY_SET_MATCH"

\* What the lookup leaves of an observation of theirs.
Left(t, o, S, risks) ==
  /\ ~t.present
  /\ t.accepted => \E w \in S : Excused(w, risks)
  /\ o.required => t.required \/ t.accepted

LEMMA LookedUpSides ==
  ASSUME NEW T, NEW d \in Seq(T), NEW S, NEW c, AllSided(d, S, c), NEW systems \in Seq(SystemRow),
         Astray(S, c, systems), NEW risks
  PROVE  LET told == LookedUp(d, systems, risks)
         IN  /\ \E V : told \in Seq(V)
             /\ Len(told) = Len(d) /\ AllSided(told, S, c)
             /\ \A n \in 1..Len(d) : Inside(d[n], S, c) => Inside(told[n], S, c)
             /\ \A n \in 1..Len(d) : Inside(told[n], S, c) => Left(told[n], d[n], S, risks)
<1> DEFINE told == [k \in 1..Len(d) |-> MatchObservation(d[k], systems, risks)]
           V == {MatchObservation(d[k], systems, risks) : k \in 1..Len(d)}
<1>1. Len(d) \in Nat /\ DOMAIN d = 1..Len(d)  OBVIOUS
<1>2. told \in [1..Len(d) -> V]  OBVIOUS
<1>3. LookedUp(d, systems, risks) = Picked(told, 1..Len(d))  BY <1>1 DEF LookedUp, Mapped
<1>4. \A w \in S : w.category = c /\ Lettered(w) /\ Match(w, systems).basis = "NO_RECOVERY_SET_MATCH"
  BY DEF Astray, Readable
<1>5. ASSUME NEW k \in 1..Len(d)
      PROVE  /\ Called(told[k]) /\ Sided(told[k], S, c)
             /\ Inside(d[k], S, c) => Inside(told[k], S, c)
             /\ Inside(told[k], S, c) => Left(told[k], d[k], S, risks)
  <2> DEFINE o == d[k]
             t == MatchObservation(o, systems, risks)
  <2>1. told[k] = t  OBVIOUS
  <2>2. Called(o) /\ Sided(o, S, c)  BY DEF AllSided
  <2> HIDE DEF o
  <2>3. CASE Inside(o, S, c)
    <3>1. /\ Called(t) /\ Inside(t, S, c) /\ ~t.present
          /\ t.accepted => \E w \in S : Excused(w, risks)
          /\ o.required => t.required \/ t.accepted
      BY <1>4, <2>2, <2>3, LookupInside
    <3> HIDE DEF t, told
    <3>2. Left(t, o, S, risks)  BY <3>1 DEF Left
    <3> QED  BY <2>1, <3>1, <3>2 DEF Sided, o
  <2>4. CASE ~Inside(o, S, c)
    <3>1. Outside(o, S, c)  BY <2>2, <2>4 DEF Sided
    <3>2. Called(t) /\ Outside(t, S, c)  BY <1>4, <2>2, <3>1, LookupOutside
    <3> HIDE DEF t, told
    <3>3. ~Inside(t, S, c)  BY <3>2, SidesApart
    <3> QED  BY <2>1, <2>4, <3>2, <3>3 DEF Sided, o
  <2> QED  BY <2>3, <2>4
<1> HIDE DEF told, V
<1>6. told \in Seq(V) /\ Len(told) = Len(d) /\ LookedUp(d, systems, risks) = told
  BY <1>1, <1>2, <1>3, MappedIs
<1>7. AllSided(told, S, c)  BY <1>5, <1>6 DEF AllSided
<1> QED  BY <1>5, <1>6, <1>7

(* A required item among such shows in what is observed: absent, and either  *)
(* required or accepted for a risk that names one of them.                   *)
Missed(o, S, risks) ==
  /\ ~o.present /\ (o.required \/ o.accepted)
  /\ o.accepted => \E w \in S : Excused(w, risks)

LEMMA ObservedMisses ==
  ASSUME NEW T, NEW items \in Seq(T), AllReadable(items), NEW I, \A k \in 1..Len(items) : items[k] \in I,
         NEW S, StandApart(S, I), NEW c, \A e \in S : HasItem(items, e),
         NEW systems \in Seq(SystemRow), Astray(S, c, systems), NEW risks,
         NEW e \in S, e.required
  PROVE  \E i \in 1..Len(Observed(items, systems, risks)) : Missed(Observed(items, systems, risks)[i], S, risks)
<1> DEFINE a == Aggregate(items)
           d == Deduplicate(a)
           told == LookedUp(d, systems, risks)
           final == Deduplicate(told)
<1>1. Observed(items, systems, risks) = final  BY DEF Observed
<1>2. \A w \in S : w.category = c /\ Readable(w)  BY DEF Astray
<1>3. /\ \E U : a \in Seq(U)
      /\ AllSided(a, S, c)
      /\ \A w \in S : \E i \in 1..Len(a) : Inside(a[i], S, c) /\ (w.required => a[i].required)
  BY <1>2, AggregateSides
<1> HIDE DEF a
<1>4. /\ \E U : d \in Seq(U)
      /\ AllSided(d, S, c)
      /\ \A n \in 1..Len(a) : Inside(a[n], S, c) => \E i \in 1..Len(d) : Absorbs(d[i], a, n, S, c)
  BY <1>3, DeduplicateSides
<1> HIDE DEF d
<1>5. PICK U : d \in Seq(U)  BY <1>4
<1>6. /\ \E V : told \in Seq(V)
      /\ Len(told) = Len(d) /\ AllSided(told, S, c)
      /\ \A n \in 1..Len(d) : Inside(d[n], S, c) => Inside(told[n], S, c)
      /\ \A n \in 1..Len(d) : Inside(told[n], S, c) => Left(told[n], d[n], S, risks)
  BY <1>4, <1>5, LookedUpSides
<1> HIDE DEF told
<1>7. /\ \E V : final \in Seq(V)
      /\ \A n \in 1..Len(told) : Inside(told[n], S, c) => \E i \in 1..Len(final) : Absorbs(final[i], told, n, S, c)
  BY <1>6, DeduplicateSides
<1> HIDE DEF final
<1>8. PICK k \in 1..Len(a) : Inside(a[k], S, c) /\ a[k].required  BY <1>3
<1>9. PICK n \in 1..Len(d) : Absorbs(d[n], a, k, S, c)  BY <1>4, <1>8
<1>10. Inside(d[n], S, c) /\ d[n].required  BY <1>8, <1>9 DEF Absorbs
<1>11. n \in 1..Len(told) /\ Inside(told[n], S, c)  BY <1>6, <1>10
<1>12. told[n].required \/ told[n].accepted  BY <1>6, <1>10, <1>11 DEF Left
<1>13. PICK i \in 1..Len(final) : Absorbs(final[i], told, n, S, c)  BY <1>7, <1>11
<1>14. \A j \in 1..Len(told) : Inside(told[j], S, c) =>
         ~told[j].present /\ (told[j].accepted => \E w \in S : Excused(w, risks))
  BY <1>6 DEF Left
<1>15. Missed(final[i], S, risks)  BY <1>12, <1>13, <1>14 DEF Absorbs, Missed
<1> QED  BY <1>1, <1>15
-----------------------------------------------------------------------------
(* What a run that passes reports of what it missed.                         *)
LEMMA MissedShows ==
  ASSUME NEW U, NEW obs \in Seq(U), NEW resolver_known, NEW mapped_clients,
         LintStatus(obs, resolver_known, mapped_clients) = "PASS",
         NEW i \in 1..Len(obs), ~obs[i].present, obs[i].required \/ obs[i].accepted
  PROVE  obs[i].accepted /\ OverallDecision("PASS", FamilyStatus(obs)) # "PASS"
<1> DEFINE severities == {Severity(obs[k]) : k \in DOMAIN obs}
           families == FamilyStatus(obs)
           f == Family(obs[i].category)
           of == {k \in DOMAIN obs : Family(obs[k].category) = f}
           blocked == \E k \in of : Blocks(obs[k])
           passed == \A k \in of : DecisionStatus(obs[k]) \in {"present", "optional"}
<1>1. i \in DOMAIN obs  OBVIOUS
<1>2. "CRITICAL" \notin severities /\ severities \cap {"WARNING", "REVIEW"} = {}
  <2>1. LintStatus(obs, resolver_known, mapped_clients) =
          CASE "CRITICAL" \in severities -> "FAIL"
            [] "CRITICAL" \notin severities /\
                 (severities \cap {"WARNING", "REVIEW"} # {} \/ ~resolver_known \/ mapped_clients = {}) -> "REVIEW"
            [] OTHER -> "PASS"
    BY DEF LintStatus
  <2> HIDE DEF severities
  <2> QED  BY <2>1
<1>3. Severity(obs[i]) \in severities  BY <1>1
<1>4. Severity(obs[i]) = "INFO"
  <2> HIDE DEF severities
  <2> QED  BY <1>2, <1>3, SeverityIs
<1>5. ~obs[i].required  BY <1>4 DEF Severity
<1>6. obs[i].accepted  BY <1>5
<1>7. DecisionStatus(obs[i]) \notin {"present", "optional"}  BY <1>6 DEF DecisionStatus
<1>8. i \in of /\ ~passed  BY <1>1, <1>7
<1>9. f \in DOMAIN families /\ families[f] = CASE blocked -> "FAIL" [] passed -> "PASS" [] OTHER -> "REVIEW"
  BY <1>1 DEF FamilyStatus
<1> HIDE DEF families, blocked, passed
<1>10. families[f] \in {"FAIL", "REVIEW"}  BY <1>8, <1>9
<1> DEFINE statuses == {"PASS"} \cup {families[g] : g \in DOMAIN families}
<1>11. families[f] \in statuses  BY <1>9
<1>12. OverallDecision("PASS", families) = CASE "FAIL" \in statuses -> "FAIL"
                                             [] "FAIL" \notin statuses /\ "REVIEW" \in statuses -> "REVIEW"
                                             [] OTHER -> "PASS"
  BY DEF OverallDecision
<1> HIDE DEF statuses
<1>13. OverallDecision("PASS", families) # "PASS"  BY <1>10, <1>11, <1>12
<1> QED  BY <1>6, <1>13 DEF families

-----------------------------------------------------------------------------
(* The evidence of rows is that of each of them.                             *)
LEMMA CommonSet ==
  ASSUME NEW size, NEW ss, \A k \in 1..size : Plain(ss[k])
  PROVE  \E U : \A k \in 1..size : ss[k] \in Seq(U)
<1> DEFINE U == UNION {{ss[k][i] : i \in 1..Len(ss[k])} : k \in 1..size}
<1>1. ASSUME NEW k \in 1..size PROVE ss[k] \in Seq(U)
  <2> DEFINE s == ss[k]
  <2>1. PICK A : s \in Seq(A)  BY DEF Plain
  <2>2. \A i \in 1..Len(s) : s[i] \in U  OBVIOUS
  <2> HIDE DEF s, U
  <2>3. s \in [1..Len(s) -> A] /\ Len(s) \in Nat  BY <2>1
  <2>4. s \in [1..Len(s) -> U]  BY <2>2, <2>3
  <2>5. s \in Seq(U)  BY <2>3, <2>4, SeqDef
  <2> QED  BY <2>5 DEF s
<1> HIDE DEF U
<1> QED  BY <1>1

ItemsOf(rows) == [k \in 1..Len(rows) |-> RowItems(rows[k])]

LEMMA EvidenceFlattens ==
  ASSUME NEW T, NEW rows \in Seq(T), NEW U, \A k \in 1..Len(rows) : RowItems(rows[k]) \in Seq(U)
  PROVE  ItemsOf(rows) \in Seq(Seq(U)) /\ Len(ItemsOf(rows)) = Len(rows) /\ Evidence(rows) = FlattenSeq(ItemsOf(rows))
<1> DEFINE ss == ItemsOf(rows)
<1>1. Len(rows) \in Nat /\ DOMAIN rows = 1..Len(rows)  OBVIOUS
<1>2. ss \in [1..Len(rows) -> Seq(U)]  BY DEF ItemsOf
<1>3. Mapped(rows, RowItems) = Picked(ss, 1..Len(rows))  BY <1>1 DEF Mapped, ItemsOf
<1> HIDE DEF ss
<1>4. ss \in Seq(Seq(U)) /\ Len(ss) = Len(rows) /\ Picked(ss, 1..Len(rows)) = ss  BY <1>1, <1>2, MappedIs
<1> QED  BY <1>3, <1>4 DEF Evidence, ss

LEMMA RowItemsPlain ==
  ASSUME InputRead, NEW q \in QueryRow
  PROVE  Plain(RowItems(q))
BY RowEvidencePlain DEF RowItems, InputRead

LEMMA EvidenceHas ==
  ASSUME InputRead, NEW rows \in Seq(QueryRow), NEW e
  PROVE  HasItem(Evidence(rows), e) <=> \E k \in 1..Len(rows) : HasItem(RowItems(rows[k]), e)
<1> DEFINE ss == ItemsOf(rows)
<1>1. \A k \in 1..Len(rows) : Plain(ss[k]) /\ ss[k] = RowItems(rows[k])  BY RowItemsPlain DEF ItemsOf
<1>2. PICK U : \A k \in 1..Len(rows) : ss[k] \in Seq(U)
  <2> DEFINE size == Len(rows)
  <2> HIDE DEF ss, size
  <2>1. \A k \in 1..size : Plain(ss[k])  BY <1>1 DEF size
  <2> QED  BY <2>1, CommonSet DEF size
<1>3. ss \in Seq(Seq(U)) /\ Len(ss) = Len(rows) /\ Evidence(rows) = FlattenSeq(ss)  BY <1>1, <1>2, EvidenceFlattens
<1> HIDE DEF ss
<1>4. HasItem(FlattenSeq(ss), e) <=> \E k \in 1..Len(ss) : HasItem(ss[k], e)  BY <1>3, FlattenHasItem
<1> QED  BY <1>1, <1>3, <1>4

LEMMA EvidenceWithin ==
  ASSUME InputRead, NEW rows \in Seq(QueryRow), NEW wide \in Seq(QueryRow), \A q : HasItem(rows, q) => HasItem(wide, q)
  PROVE  \A e : HasItem(Evidence(rows), e) => HasItem(Evidence(wide), e)
<1> SUFFICES ASSUME NEW e, HasItem(Evidence(rows), e) PROVE HasItem(Evidence(wide), e)  OBVIOUS
<1>1. PICK k \in 1..Len(rows) : HasItem(RowItems(rows[k]), e)  BY EvidenceHas
<1>2. HasItem(wide, rows[k])  BY DEF HasItem
<1>3. PICK n \in 1..Len(wide) : wide[n] = rows[k]  BY <1>2 DEF HasItem
<1>4. HasItem(RowItems(wide[n]), e)  BY <1>1, <1>3
<1> QED  BY <1>4, EvidenceHas

LEMMA ResolversWithin ==
  ASSUME NEW hints, NEW rows \in Seq(QueryRow), NEW wide \in Seq(QueryRow), \A q : HasItem(rows, q) => HasItem(wide, q)
  PROVE  \A e : HasItem(ResolverEvidence(hints, rows), e) => HasItem(ResolverEvidence(hints, wide), e)
<1>1. CASE hints # <<>>
  <2>1. ResolverEvidence(hints, rows) = ResolverEvidence(hints, wide)  BY <1>1 DEF ResolverEvidence
  <2> QED  BY <2>1
<1>2. CASE hints = <<>>
  <2> DEFINE item(q) == ResolverItem(<<q.qname>>, "dns_log_resolver_identity", Medium, q.resolver_name, q.resolver_ip)
             at(s) == {k \in DOMAIN s : s[k].resolver_name # None \/ s[k].resolver_ip # None}
             f(s) == [k \in DOMAIN ResolverRows(s) |-> item(ResolverRows(s)[k])]
  <2>1. ASSUME NEW s \in Seq(QueryRow), NEW e
        PROVE  HasItem(ResolverEvidence(hints, s), e) <=>
                 \E n \in 1..Len(s) : (s[n].resolver_name # None \/ s[n].resolver_ip # None) /\ e = item(s[n])
    <3> DEFINE named == ResolverRows(s)
               places == at(s)
               g == [k \in DOMAIN named |-> item(named[k])]
    <3>1. ResolverEvidence(hints, s) = g  BY <1>2 DEF ResolverEvidence
    <3>2. \A n \in 1..Len(s) : n \in places <=> s[n].resolver_name # None \/ s[n].resolver_ip # None  OBVIOUS
    <3>3. named = Picked(s, places)  BY DEF ResolverRows
    <3> HIDE DEF places, named
    <3>4. /\ named \in Seq(QueryRow)
          /\ \A k \in 1..Len(named) : \E n \in 1..Len(s) : n \in places /\ named[k] = s[n]
          /\ \A n \in 1..Len(s) : n \in places => HasItem(named, s[n])
      BY <3>3, PickedSome
    <3>5. Len(named) \in Nat /\ DOMAIN named = 1..Len(named)  BY <3>4
    <3> HIDE DEF item
    <3>6. Len(g) = Len(named) /\ \A k \in 1..Len(named) : g[k] = item(named[k])  BY <3>5
    <3> HIDE DEF g
    <3>7. HasItem(g, e) <=> \E k \in 1..Len(named) : item(named[k]) = e  BY <3>6 DEF HasItem
    <3>8. (\E k \in 1..Len(named) : item(named[k]) = e) <=> \E n \in 1..Len(s) : n \in places /\ e = item(s[n])
      BY <3>4 DEF HasItem
    <3> QED  BY <3>1, <3>2, <3>7, <3>8
  <2> HIDE DEF item
  <2> SUFFICES ASSUME NEW e, HasItem(ResolverEvidence(hints, rows), e) PROVE HasItem(ResolverEvidence(hints, wide), e)
    OBVIOUS
  <2>2. PICK n \in 1..Len(rows) : (rows[n].resolver_name # None \/ rows[n].resolver_ip # None) /\ e = item(rows[n])
    BY <2>1
  <2>3. HasItem(wide, rows[n])  BY DEF HasItem
  <2>4. PICK m \in 1..Len(wide) : wide[m] = rows[n]  BY <2>3 DEF HasItem
  <2> QED  BY <2>1, <2>2, <2>4
<1> QED  BY <1>1, <1>2
-----------------------------------------------------------------------------
(* No row that may lie in the window is left out of it.                      *)
LEMMA PossibleRowsWithin ==
  ASSUME InputRead
  PROVE  /\ PossibleRows \in Seq(QueryRow)
         /\ \A q : HasItem(PossibleRows, q) => HasItem(WindowRows, q)
<1> DEFINE rows == Rows
           hours == input.options.hours
           untimed(k) == rows[k].time = None
           recent(k) == \A j \in DOMAIN rows : ~untimed(j) => rows[j].time <= rows[k].time + hours
           fit == {k \in DOMAIN rows : untimed(k) \/ recent(k)}
           near == {j \in DOMAIN rows : \A k \in DOMAIN rows : rows[k].time <= rows[j].time + hours}
<1>1. rows \in Seq(QueryRow)  BY EnrichedIs DEF Rows, InputRead
<1>2. PossibleRows = Picked(rows, fit)  BY DEF PossibleRows
<1>3. WindowRows = IF hours = 0 \/ (\E k \in DOMAIN rows : rows[k].time = None) THEN rows ELSE Picked(rows, near)
  BY DEF WindowRows, InWindow
<1>4. (\A k \in DOMAIN rows : rows[k].time # None) => fit = near  OBVIOUS
<1> HIDE DEF rows, fit, near
<1>5. /\ Picked(rows, fit) \in Seq(QueryRow)
      /\ \A k \in 1..Len(Picked(rows, fit)) : \E n \in 1..Len(rows) : n \in fit /\ Picked(rows, fit)[k] = rows[n]
  BY <1>1, PickedSome
<1>6. \A q : HasItem(Picked(rows, fit), q) => HasItem(rows, q)  BY <1>5 DEF HasItem
<1>7. CASE hours = 0 \/ \E k \in DOMAIN rows : rows[k].time = None
  <2>1. WindowRows = rows  BY <1>3, <1>7
  <2> QED  BY <1>2, <1>5, <1>6, <2>1
<1>8. CASE ~(hours = 0 \/ \E k \in DOMAIN rows : rows[k].time = None)
  <2>1. WindowRows = Picked(rows, near) /\ fit = near  BY <1>3, <1>4, <1>8
  <2> QED  BY <1>2, <1>5, <2>1
<1> QED  BY <1>7, <1>8

(* What is computed of the input, and kept: the evidence of the window, what *)
(* is observed of it, and the report on that.                                *)
Derived ==
  /\ InputRead
  /\ phase # "collect" => evidence = Evidence(WindowRows) \o ResolverEvidence(input.options.hints, WindowRows)
  /\ phase \notin {"collect", "observe"} => observed = Observed(evidence, Systems, input.options.risks)
  /\ Judged =>
       /\ report.lint_status =
            LintStatus(observed, ResolverKnown(input.options.hints, WindowRows), MappedClients(WindowRows))
       /\ report.decision = OverallDecision(report.lint_status, FamilyStatus(observed))

LEMMA InputKept ==
  ASSUME input' = input
  PROVE  /\ InputRead' <=> InputRead
         /\ WindowRows' = WindowRows /\ Systems' = Systems /\ MappedClients(WindowRows)' = MappedClients(WindowRows)
         /\ Evidence(WindowRows)' = Evidence(WindowRows)
<1>1. InputRead' <=> InputRead  BY DEF InputRead
<1>2. WindowRows' = WindowRows  BY DEF WindowRows, Rows
<1>3. Systems' = Systems  BY DEF Systems
<1>4. MappedClients(WindowRows)' = MappedClients(WindowRows)  BY <1>2 DEF MappedClients
<1>5. Evidence(WindowRows)' = Evidence(WindowRows)  BY <1>2 DEF Evidence, Mapped, RowItems
<1> QED  BY <1>1, <1>2, <1>3, <1>4, <1>5

LEMMA DerivedSteps ==
  ASSUME Derived, [LintNext]_lintVars
  PROVE  Derived'
<1> DEFINE found == Evidence(WindowRows) \o ResolverEvidence(input.options.hints, WindowRows)
           seen == Observed(evidence, Systems, input.options.risks)
           lint == LintStatus(observed, ResolverKnown(input.options.hints, WindowRows), MappedClients(WindowRows))
           decision == OverallDecision(report.lint_status, FamilyStatus(observed))
<1>1. ASSUME input' = input
      PROVE  /\ InputRead' <=> InputRead
             /\ found' = found
             /\ evidence' = evidence => seen' = seen
             /\ observed' = observed => lint' = lint
  BY <1>1, InputKept
<1>2. /\ InputRead
      /\ phase # "collect" => evidence = found
      /\ phase \notin {"collect", "observe"} => observed = seen
      /\ phase \in {"compare", "done"} => report.lint_status = lint /\ report.decision = decision
  BY DEF Derived, Judged
<1>3. /\ InputRead'
      /\ phase' # "collect" => evidence' = found'
      /\ phase' \notin {"collect", "observe"} => observed' = seen'
      /\ phase' \in {"compare", "done"} => report'.lint_status = lint' /\ report'.decision = decision'
  <2>1. CASE Collect
    <3>1. input' = input /\ phase' = "observe" /\ evidence' = found  BY <2>1 DEF Collect
    <3> HIDE DEF found, seen, lint, decision
    <3> QED  BY <1>1, <1>2, <3>1
  <2>2. CASE Observe
    <3>1. input' = input /\ phase = "observe" /\ phase' = "judge" /\ evidence' = evidence /\ observed' = seen
      BY <2>2 DEF Observe
    <3> HIDE DEF found, seen, lint, decision
    <3> QED  BY <1>1, <1>2, <3>1
  <2>3. CASE Judge
    <3> DEFINE families == FamilyStatus(observed)
    <3>1. /\ input' = input /\ evidence' = evidence /\ observed' = observed /\ phase = "judge" /\ phase' = "compare"
          /\ report' = [lint_status |-> lint, families |-> families, decision |-> OverallDecision(lint, families)]
      BY <2>3 DEF Judge
    <3>2. report'.lint_status = lint /\ report'.decision = OverallDecision(lint, families)  BY <3>1
    <3>3. decision' = OverallDecision(report'.lint_status, families)  BY <3>1
    <3> HIDE DEF found, seen, lint, decision, families
    <3> QED  BY <1>1, <1>2, <3>1, <3>2, <3>3
  <2>4. CASE UNCHANGED lintVars \/ \E hours \in input.options.windows : CompareWindow(hours)
    <3>1. /\ input' = input /\ evidence' = evidence /\ observed' = observed /\ report' = report
          /\ phase' = phase \/ (phase = "compare" /\ phase' = "done")
      BY <2>4 DEF lintVars, CompareWindow
    <3>2. decision' = decision  BY <3>1
    <3> HIDE DEF found, seen, lint, decision
    <3> QED  BY <1>1, <1>2, <3>1, <3>2
  <2> QED  BY <2>1, <2>2, <2>3, <2>4 DEF LintNext
<1> QED  BY <1>3 DEF Derived, Judged

LEMMA EvidenceIsReadable ==
  ASSUME Derived, phase # "collect"
  PROVE  /\ \E U : evidence \in Seq(U)
         /\ AllReadable(evidence)
         /\ \A e : HasItem(evidence, e) <=>
              HasItem(Evidence(WindowRows), e) \/ HasItem(ResolverEvidence(input.options.hints, WindowRows), e)
<1> DEFINE rows == WindowRows
           a == Evidence(rows)
           b == ResolverEvidence(input.options.hints, rows)
<1>1. InputRead /\ evidence = a \o b  BY DEF Derived
<1>2. rows \in Seq(QueryRow)  BY <1>1, WindowRowsIs
<1> HIDE DEF rows
<1>3. Plain(a)  BY <1>1, <1>2, EvidencePlain
<1>4. Plain(b)  BY <1>1, <1>2, ResolverEvidencePlain DEF InputRead
<1> HIDE DEF a, b
<1> DEFINE ss == <<a, b>>
<1>5. Plain(ss[1]) /\ Plain(ss[2]) /\ \A k \in 1..2 : k = 1 \/ k = 2  BY <1>3, <1>4
<1> HIDE DEF ss
<1>6. PICK U : \A k \in 1..2 : ss[k] \in Seq(U)
  <2>1. \A k \in 1..2 : Plain(ss[k])  BY <1>5
  <2> QED  BY <2>1, CommonSet
<1>7. a \in Seq(U) /\ b \in Seq(U)
  <2>1. ss[1] \in Seq(U) /\ ss[2] \in Seq(U)  BY <1>6
  <2> QED  BY <2>1 DEF ss
<1>8. \A e : HasItem(a \o b, e) <=> HasItem(a, e) \/ HasItem(b, e)  BY <1>7, ConcatHas
<1>9. Plain(evidence)  BY <1>1, <1>3, <1>4, PlainConcat
<1>10. PICK V : evidence \in Seq(V) /\ \A e \in V : Readable(e)  BY <1>9 DEF Plain
<1>11. AllReadable(evidence)  BY <1>10 DEF AllReadable
<1> QED  BY <1>1, <1>8, <1>10, <1>11 DEF a, b, rows

LEMMA DerivedIsBorneOut ==
  ASSUME Derived
  PROVE  PassIsBorneOut
<1> DEFINE hints == input.options.hints
           risks == input.options.risks
           possible == ToSet(Evidence(PossibleRows)) \cup ToSet(ResolverEvidence(hints, PossibleRows))
           items == possible \cup ToSet(evidence)
<1> SUFFICES ASSUME Judged, report.lint_status = "PASS",
                    NEW S \in SUBSET items, StandApart(S, items), NEW e \in S, e.required,
                    \A w \in S : ~InRecoverySet(w)
             PROVE  \E w \in S : report.decision # "PASS" /\ Excused(w, risks)
  BY DEF PassIsBorneOut
<1>1. InputRead /\ phase \notin {"collect", "observe"}  BY DEF Derived, Judged
<1>2. PICK U : evidence \in Seq(U)  BY <1>1, EvidenceIsReadable
<1>3. /\ AllReadable(evidence)
      /\ \A w : HasItem(evidence, w) <=> HasItem(Evidence(WindowRows), w) \/ HasItem(ResolverEvidence(hints, WindowRows), w)
  BY <1>1, EvidenceIsReadable
<1>4. \A w : w \in ToSet(evidence) <=> HasItem(evidence, w)  BY <1>2 DEF ToSet, HasItem
<1>5. \A w \in possible : HasItem(evidence, w)
  <2> DEFINE rows == PossibleRows
             wide == WindowRows
             a == Evidence(rows)
             b == ResolverEvidence(hints, rows)
  <2>1. rows \in Seq(QueryRow) /\ wide \in Seq(QueryRow) /\ \A q : HasItem(rows, q) => HasItem(wide, q)
    BY <1>1, PossibleRowsWithin, WindowRowsIs
  <2> HIDE DEF rows, wide
  <2>2. /\ \A w : HasItem(a, w) => HasItem(Evidence(wide), w)
        /\ \A w : HasItem(b, w) => HasItem(ResolverEvidence(hints, wide), w)
    BY <1>1, <2>1, EvidenceWithin, ResolversWithin
  <2>3. hints \in Seq(ResolverHint)  BY <1>1 DEF InputRead
  <2>4. (\E A : a \in Seq(A)) /\ (\E B : b \in Seq(B))
    <3>1. Plain(a) /\ Plain(b)  BY <1>1, <2>1, <2>3, EvidencePlain, ResolverEvidencePlain
    <3> QED  BY <3>1 DEF Plain
  <2> HIDE DEF a, b
  <2>5. (\A w : w \in ToSet(a) <=> HasItem(a, w)) /\ (\A w : w \in ToSet(b) <=> HasItem(b, w))
    BY <2>4 DEF ToSet, HasItem
  <2>6. possible = ToSet(a) \cup ToSet(b)  BY DEF a, b, rows
  <2> HIDE DEF possible
  <2> QED  BY <1>3, <2>2, <2>5, <2>6 DEF wide
<1> HIDE DEF possible
<1>6. \A k \in 1..Len(evidence) : evidence[k] \in items  BY <1>2 DEF ToSet
<1>7. \A w \in S : HasItem(evidence, w)  BY <1>4, <1>5
<1> HIDE DEF items
<1>8. Systems \in Seq(SystemRow)
  <2>1. input.inventory \in Seq(SystemRow)  BY <1>1 DEF InputRead
  <2> QED  BY <2>1, PickedIn DEF Systems, RecoverySet
<1> DEFINE systems == Systems
           c == e.category
<1>9. Astray(S, c, systems)
  <2>1. \A w \in S : w.category = c  BY DEF StandApart
  <2>2. \A w \in S : Readable(w)  BY <1>3, <1>7 DEF AllReadable, HasItem
  <2> QED  BY <2>1, <2>2 DEF Astray, InRecoverySet
<1>10. systems \in Seq(SystemRow)  BY <1>8
<1> HIDE DEF c
<1>11. \E i \in 1..Len(Observed(evidence, systems, risks)) : Missed(Observed(evidence, systems, risks)[i], S, risks)
  <2> HIDE DEF systems, risks
  <2> QED  BY <1>2, <1>3, <1>6, <1>7, <1>9, <1>10, ObservedMisses
<1>12. observed = Observed(evidence, systems, risks)  BY <1>1 DEF Derived
<1>13. PICK i \in 1..Len(observed) : Missed(observed[i], S, risks)  BY <1>11, <1>12
<1>14. ~observed[i].present /\ (observed[i].required \/ observed[i].accepted)  BY <1>13 DEF Missed
<1>15. PICK W : observed \in Seq(W)
  <2>1. Plain(evidence)
    <3>1. evidence = Evidence(WindowRows) \o ResolverEvidence(hints, WindowRows)  BY <1>1 DEF Derived
    <3> DEFINE wide == WindowRows
    <3>2. wide \in Seq(QueryRow)  BY <1>1, WindowRowsIs
    <3> HIDE DEF wide
    <3>3. hints \in Seq(ResolverHint)  BY <1>1 DEF InputRead
    <3>4. Plain(Evidence(wide)) /\ Plain(ResolverEvidence(hints, wide))
      BY <1>1, <3>2, <3>3, EvidencePlain, ResolverEvidencePlain
    <3> QED  BY <3>1, <3>4, PlainConcat DEF wide
  <2>2. PICK V : evidence \in Seq(V) /\ Named(evidence)  BY <2>1, PlainIsNamed
  <2> QED  BY <1>12, <2>2, ObservedIsInFull
<1>16. /\ report.lint_status =
            LintStatus(observed, ResolverKnown(hints, WindowRows), MappedClients(WindowRows))
       /\ report.decision = OverallDecision(report.lint_status, FamilyStatus(observed))
  BY DEF Derived
<1>17. observed[i].accepted /\ OverallDecision("PASS", FamilyStatus(observed)) # "PASS"
  BY <1>14, <1>15, <1>16, MissedShows
<1>18. PICK w \in S : Excused(w, risks)  BY <1>13, <1>17 DEF Missed
<1> QED  BY <1>16, <1>17, <1>18

(* No gap is passed over: if a run passes, required items that share no name *)
(* or address with others are in the recovery set, or were excused, and then *)
(* the assessment did not pass.                                              *)
THEOREM PassHolds == LintSpec => []PassIsBorneOut
<1>1. LintInit => Derived
  <2> SUFFICES ASSUME LintInit PROVE Derived  OBVIOUS
  <2>1. Linted  BY LintStarts
  <2>2. phase = "collect"  BY DEF LintInit
  <2> QED  BY <2>1, <2>2 DEF Derived, Linted, Judged
<1>2. Derived /\ [LintNext]_lintVars => Derived'  BY DerivedSteps
<1>3. Derived => PassIsBorneOut  BY DerivedIsBorneOut
<1> QED  BY <1>1, <1>2, <1>3, PTL DEF LintSpec
-----------------------------------------------------------------------------
(* Sorting: of observations no two of which are sorted alike, the sorted     *)
(* sequence depends on which they are and not on the order they came in.     *)
Sortable(o) == \A k \in 1..3 : SortKey(o)[k] \in Nat

LEMMA PrecedesIs ==
  ASSUME NEW o, NEW p, Sortable(o), Sortable(p)
  PROVE  Precedes(SortKey(o), SortKey(p)) <=>
           \/ SortKey(o)[1] < SortKey(p)[1]
           \/ SortKey(o)[1] = SortKey(p)[1] /\ SortKey(o)[2] < SortKey(p)[2]
           \/ SortKey(o)[1] = SortKey(p)[1] /\ SortKey(o)[2] = SortKey(p)[2] /\ SortKey(o)[3] < SortKey(p)[3]
<1> DEFINE a == SortKey(o)
           b == SortKey(p)
<1>1. DOMAIN a = 1..3  BY DEF SortKey
<1> HIDE DEF a, b
<1>2. Precedes(a, b) <=> \E k \in 1..3 : a[k] < b[k] /\ \A j \in 1..(k - 1) : a[j] = b[j]  BY <1>1 DEF Precedes
<1>3. \A k \in 1..3 : k = 1 \/ k = 2 \/ k = 3  OBVIOUS
<1>4. /\ \A j \in 1..(1 - 1) : a[j] = b[j]
      /\ (\A j \in 1..(2 - 1) : a[j] = b[j]) <=> a[1] = b[1]
      /\ (\A j \in 1..(3 - 1) : a[j] = b[j]) <=> a[1] = b[1] /\ a[2] = b[2]
  OBVIOUS
<1>5. 1 \in 1..3 /\ 2 \in 1..3 /\ 3 \in 1..3  OBVIOUS
<1>6. (\E k \in 1..3 : a[k] < b[k] /\ \A j \in 1..(k - 1) : a[j] = b[j]) <=>
        \/ a[1] < b[1] /\ \A j \in 1..(1 - 1) : a[j] = b[j]
        \/ a[2] < b[2] /\ \A j \in 1..(2 - 1) : a[j] = b[j]
        \/ a[3] < b[3] /\ \A j \in 1..(3 - 1) : a[j] = b[j]
  BY <1>3, <1>5
<1> QED  BY <1>2, <1>4, <1>6 DEF a, b

Before(o, p) == Precedes(SortKey(o), SortKey(p))

LEMMA PrecedesOrders ==
  ASSUME NEW o, NEW p, NEW q, Sortable(o), Sortable(p), Sortable(q)
  PROVE  /\ ~(Before(o, p) /\ Before(p, o))
         /\ Before(o, p) /\ Before(p, q) => Before(o, q)
         /\ Before(o, p) \/ Before(p, o) \/ SortKey(o) = SortKey(p)
<1> DEFINE a == SortKey(o)
           b == SortKey(p)
           c == SortKey(q)
           less(x, y) == \/ x[1] < y[1]
                         \/ x[1] = y[1] /\ x[2] < y[2]
                         \/ x[1] = y[1] /\ x[2] = y[2] /\ x[3] < y[3]
<1>1. /\ Before(o, p) <=> less(a, b)
      /\ Before(p, o) <=> less(b, a)
      /\ Before(p, q) <=> less(b, c)
      /\ Before(o, q) <=> less(a, c)
  BY PrecedesIs DEF Before
<1>2. /\ a[1] \in Nat /\ a[2] \in Nat /\ a[3] \in Nat
      /\ b[1] \in Nat /\ b[2] \in Nat /\ b[3] \in Nat
      /\ c[1] \in Nat /\ c[2] \in Nat /\ c[3] \in Nat
  BY DEF Sortable
<1>3. a[1] = b[1] /\ a[2] = b[2] /\ a[3] = b[3] => a = b  BY DEF SortKey
<1> HIDE DEF a, b, c
<1>4. ~(less(a, b) /\ less(b, a))  BY <1>2
<1>5. less(a, b) /\ less(b, c) => less(a, c)  BY <1>2
<1>6. less(a, b) \/ less(b, a) \/ (a[1] = b[1] /\ a[2] = b[2] /\ a[3] = b[3])  BY <1>2
<1> QED  BY <1>1, <1>3, <1>4, <1>5, <1>6 DEF a, b

Ascending(s) == \A i, j \in 1..Len(s) : i < j => Before(s[i], s[j])

\* What lies below its members up to a bound is an interval.
LEMMA Initial ==
  ASSUME NEW size \in Nat, NEW S \in SUBSET (1..size), \A j \in 1..size, k \in S : j < k => j \in S
  PROVE  Cardinality(S) \in 0..size /\ S = 1..Cardinality(S)
<1> DEFINE out == {n \in Nat : n # 0 /\ n \notin S}
<1>1. size + 1 \in out  OBVIOUS
<1>2. PICK m \in out : \A n \in out : m <= n
  <2>1. out \in SUBSET Nat  OBVIOUS
  <2> HIDE DEF out
  <2> QED  BY <1>1, <2>1, LeastNat
<1>3. m \in Nat /\ m # 0 /\ m \notin S /\ m <= size + 1  BY <1>1, <1>2
<1>4. \A n \in 1..(m - 1) : n \in S
  <2> SUFFICES ASSUME NEW n \in 1..(m - 1), n \notin S PROVE FALSE  OBVIOUS
  <2>1. n \in out /\ ~(m <= n)  BY <1>3
  <2> QED  BY <1>2, <2>1
<1>5. \A k \in S : k \in 1..(m - 1)
  <2> SUFFICES ASSUME NEW k \in S, ~(k < m) PROVE FALSE  BY <1>3
  <2>1. k # m /\ m < k /\ m \in 1..size  BY <1>3
  <2> QED  BY <1>3, <2>1
<1> DEFINE last == m - 1
<1>6. last \in 0..size  BY <1>3
<1>7. S = 1..last  BY <1>4, <1>5
<1> HIDE DEF last
<1>8. Cardinality(1..last) = last
  <2>1. 1 \in Int /\ last \in Int /\ (1 > last => last = 0) /\ last - 1 + 1 = last  BY <1>6
  <2>2. Cardinality(1..last) = IF 1 > last THEN 0 ELSE last - 1 + 1  BY <2>1, FS_Interval
  <2> QED  BY <2>1, <2>2
<1> QED  BY <1>6, <1>7, <1>8

LEMMA InsertedAscends ==
  ASSUME NEW T, \A o \in T : Sortable(o), NEW s \in Seq(T), Ascending(s), NEW e \in T,
         \A k \in 1..Len(s) : SortKey(s[k]) # SortKey(e)
  PROVE  Ascending(Inserted(s, e))
<1> DEFINE before == {k \in DOMAIN s : ~Precedes(SortKey(e), SortKey(s[k]))}
           p == Cardinality(before)
           size == Len(s)
<1>1. size \in Nat /\ DOMAIN s = 1..size /\ \A k \in 1..size : s[k] \in T /\ Sortable(s[k])  OBVIOUS
<1>2. \A k \in 1..size : k \in before <=> Before(s[k], e)
  BY <1>1, PrecedesOrders DEF Before
<1>3. before \in SUBSET (1..size)  BY <1>1
<1>4. Inserted(s, e) = InsertAt(s, p + 1, e)  BY DEF Inserted
<1> HIDE DEF before
<1>5. \A j \in 1..size, k \in before : j < k => j \in before
  <2> SUFFICES ASSUME NEW j \in 1..size, NEW k \in before, j < k PROVE j \in before  OBVIOUS
  <2>1. k \in 1..size /\ Before(s[j], s[k]) /\ Before(s[k], e)  BY <1>2, <1>3 DEF Ascending
  <2>2. Before(s[j], e)  BY <1>1, <2>1, PrecedesOrders
  <2> QED  BY <1>2, <2>2
<1>6. p \in 0..size /\ before = 1..p
  <2> HIDE DEF size
  <2> QED  BY <1>1, <1>3, <1>5, Initial
<1> HIDE DEF p
<1>7. /\ \A k \in 1..size : k <= p => Before(s[k], e)
      /\ \A k \in 1..size : ~(k <= p) => Before(e, s[k])
  <2>1. \A k \in 1..size : k <= p <=> Before(s[k], e)  BY <1>1, <1>2, <1>6
  <2>2. \A k \in 1..size : Before(s[k], e) \/ Before(e, s[k])  BY <1>1, PrecedesOrders
  <2> QED  BY <2>1, <2>2
<1> DEFINE r == InsertAt(s, p + 1, e)
<1>8. /\ Len(r) = size + 1
      /\ \A k \in 1..(size + 1) : r[k] = IF k <= p THEN s[k] ELSE IF k = p + 1 THEN e ELSE s[k - 1]
  BY <1>6, InsertedIs
<1> HIDE DEF r
<1>9. ASSUME NEW i \in 1..(size + 1), NEW j \in 1..(size + 1), i < j PROVE Before(r[i], r[j])
  <2>1. p \in Nat /\ p <= size  BY <1>1, <1>6
  <2>2. CASE j <= p
    <3>1. i <= p /\ i \in 1..size /\ j \in 1..size  BY <1>9, <2>1, <2>2
    <3> QED  BY <1>8, <1>9, <2>2, <3>1 DEF Ascending
  <2>3. CASE j = p + 1
    <3>1. i <= p /\ i \in 1..size /\ ~(j <= p)  BY <1>9, <2>1, <2>3
    <3> QED  BY <1>7, <1>8, <2>3, <3>1
  <2>4. CASE j > p + 1
    <3>1. j - 1 \in 1..size /\ ~(j <= p) /\ j # p + 1 /\ ~(j - 1 <= p)  BY <1>1, <2>1, <2>4
    <3>2. r[j] = s[j - 1]  BY <1>8, <3>1
    <3>3. CASE i <= p
      <4>1. i \in 1..size /\ i < j - 1  BY <2>1, <2>4, <3>3
      <4> QED  BY <1>8, <3>1, <3>2, <3>3, <4>1 DEF Ascending
    <3>4. CASE i = p + 1
      <4>1. ~(i <= p)  BY <2>1, <3>4
      <4> QED  BY <1>7, <1>8, <3>1, <3>2, <3>4, <4>1
    <3>5. CASE i > p + 1
      <4>1. ~(i <= p) /\ i # p + 1 /\ i - 1 \in 1..size /\ i - 1 < j - 1  BY <1>9, <2>1, <3>5
      <4>2. r[i] = s[i - 1]  BY <1>8, <4>1
      <4> QED  BY <3>1, <3>2, <4>1, <4>2 DEF Ascending
    <3>6. i <= p \/ i = p + 1 \/ i > p + 1  BY <2>1
    <3> QED  BY <3>3, <3>4, <3>5, <3>6
  <2>5. j <= p \/ j = p + 1 \/ j > p + 1  BY <2>1
  <2> QED  BY <2>2, <2>3, <2>4, <2>5
<1>10. Ascending(r)  BY <1>8, <1>9 DEF Ascending
<1> QED  BY <1>4, <1>10 DEF r

\* Two ascending sequences of the same things are one.
LEMMA AscendingIsOne ==
  ASSUME NEW T, \A o \in T : Sortable(o), NEW a \in Seq(T), NEW b \in Seq(T), Ascending(a), Ascending(b),
         \A v : HasItem(a, v) <=> HasItem(b, v)
  PROVE  a = b
<1>1. Len(a) \in Nat /\ Len(b) \in Nat  OBVIOUS
<1>2. (\A k \in 1..Len(a) : Sortable(a[k])) /\ (\A k \in 1..Len(b) : Sortable(b[k]))  OBVIOUS
<1>3. ASSUME NEW s \in Seq(T), Ascending(s), NEW i \in 1..Len(s), NEW j \in 1..Len(s), s[i] = s[j] PROVE i = j
  <2>1. i < j \/ j < i \/ i = j  OBVIOUS
  <2>2. Sortable(s[i]) /\ Sortable(s[j])  OBVIOUS
  <2>3. ~Before(s[i], s[i])  BY <2>2, PrecedesOrders
  <2> QED  BY <1>3, <2>1, <2>3 DEF Ascending
<1>4. ASSUME NEW r \in Seq(T), NEW s \in Seq(T), Ascending(r), Ascending(s),
             \A v : HasItem(r, v) <=> HasItem(s, v),
             NEW n \in 1..Len(r), \A i \in 1..(n - 1) : i \in 1..Len(s) /\ r[i] = s[i]
      PROVE  n \in 1..Len(s) /\ (s[n] = r[n] \/ Before(s[n], r[n]))
  <2>1. HasItem(r, r[n])  BY DEF HasItem
  <2>2. PICK m \in 1..Len(s) : s[m] = r[n]  BY <1>4, <2>1 DEF HasItem
  <2>3. ~(m < n)
    <3> SUFFICES ASSUME m < n PROVE FALSE  OBVIOUS
    <3>1. m \in 1..(n - 1) /\ m \in 1..Len(r)  OBVIOUS
    <3>2. r[m] = r[n]  BY <1>4, <2>2, <3>1
    <3>3. m = n  BY <1>3, <1>4, <3>1, <3>2
    <3> QED  BY <3>3
  <2>4. n \in 1..Len(s) /\ (m = n \/ n < m)  BY <2>3
  <2>5. n = m \/ Before(s[n], s[m])  BY <1>4, <2>4 DEF Ascending
  <2> QED  BY <2>2, <2>4, <2>5
<1>5. ASSUME NEW r \in Seq(T), NEW s \in Seq(T), Ascending(r), Ascending(s), \A v : HasItem(r, v) <=> HasItem(s, v)
      PROVE  \A i \in 1..Len(r) : i \in 1..Len(s) /\ r[i] = s[i]
  <2> DEFINE G == {n \in 0..Len(r) : \A i \in 1..n : i \in 1..Len(s) /\ r[i] = s[i]}
             size == Len(r)
  <2>1. size \in Nat /\ 0 \in G  OBVIOUS
  <2>2. ASSUME NEW n \in 1..size, n - 1 \in G PROVE n \in G
    <3>1. \A i \in 1..(n - 1) : i \in 1..Len(s) /\ r[i] = s[i]  BY <2>2
    <3>2. n \in 1..Len(s) /\ (s[n] = r[n] \/ Before(s[n], r[n]))  BY <1>4, <1>5, <3>1
    <3>3. \A i \in 1..(n - 1) : i \in 1..Len(r) /\ s[i] = r[i]  BY <3>1
    <3>4. r[n] = s[n] \/ Before(r[n], s[n])
      <4>1. \A v : HasItem(s, v) <=> HasItem(r, v)  BY <1>5
      <4> QED  BY <1>4, <1>5, <3>2, <3>3, <4>1
    <3>5. Sortable(r[n]) /\ Sortable(s[n])  BY <3>2
    <3>6. s[n] = r[n]  BY <3>2, <3>4, <3>5, PrecedesOrders
    <3>7. n \in 0..Len(r) /\ \A i \in 1..n : i \in 1..(n - 1) \/ i = n  OBVIOUS
    <3> QED  BY <3>1, <3>2, <3>6, <3>7
  <2>3. size \in G
    <3> HIDE DEF G, size
    <3>1. \A n \in 0..size : n \in G  BY <2>1, <2>2, UpTo
    <3> QED  BY <2>1, <3>1
  <2> QED  BY <2>3
<1>6. \A i \in 1..Len(a) : i \in 1..Len(b) /\ a[i] = b[i]  BY <1>5
<1>7. \A i \in 1..Len(b) : i \in 1..Len(a)
  <2>1. \A v : HasItem(b, v) <=> HasItem(a, v)  OBVIOUS
  <2> QED  BY <1>5, <2>1
<1>8. Len(a) = Len(b)
  <2>1. Len(a) <= Len(b)
    <3>1. Len(a) = 0 \/ Len(a) \in 1..Len(a)  OBVIOUS
    <3> QED  BY <1>6, <3>1
  <2>2. Len(b) <= Len(a)
    <3>1. Len(b) = 0 \/ Len(b) \in 1..Len(b)  OBVIOUS
    <3> QED  BY <1>7, <3>1
  <2> QED  BY <1>1, <2>1, <2>2
<1> QED  BY <1>6, <1>8

KeysDiffer(s) == \A i, j \in 1..Len(s) : SortKey(s[i]) = SortKey(s[j]) => i = j

LEMMA SortedAscends ==
  ASSUME NEW T, \A o \in T : Sortable(o), NEW s \in Seq(T), KeysDiffer(s)
  PROVE  Ascending(Sorted(s))
<1>1. PICK f \in [0..Len(s) -> Seq(T)] :
        /\ Sorted(s) = f[Len(s)] /\ f[0] = <<>>
        /\ \A n \in 1..Len(s) : f[n] = Inserted(f[n - 1], s[n])
        /\ \A n \in 0..Len(s) : Arranged(f[n], s, n)
  BY SortedUnfolds
<1> DEFINE G == {n \in 0..Len(s) : Ascending(f[n])}
           size == Len(s)
<1>2. size \in Nat  OBVIOUS
<1>3. 0 \in G
  <2>1. Len(f[0]) = 0  BY <1>1
  <2>2. Ascending(f[0])  BY <2>1 DEF Ascending
  <2> QED  BY <1>2, <2>2
<1>4. ASSUME NEW n \in 1..size, n - 1 \in G PROVE n \in G
  <2>1. n \in 0..size /\ n - 1 \in 0..size /\ n \in Nat  BY <1>2
  <2>2. f[n - 1] \in Seq(T) /\ Ascending(f[n - 1]) /\ f[n] = Inserted(f[n - 1], s[n]) /\ Arranged(f[n - 1], s, n - 1)
    <3>1. Ascending(f[n - 1])  BY <1>4
    <3> HIDE DEF G
    <3> QED  BY <1>1, <2>1, <3>1
  <2> DEFINE r == f[n - 1]
             e == s[n]
  <2>3. e \in T  OBVIOUS
  <2>4. \A k \in 1..Len(r) : SortKey(r[k]) # SortKey(e)
    <3> SUFFICES ASSUME NEW k \in 1..Len(r), SortKey(r[k]) = SortKey(e) PROVE FALSE  OBVIOUS
    <3>1. PICK place \in [1..(n - 1) -> 1..(n - 1)] : \A i \in 1..(n - 1) : r[i] = s[place[i]]  BY <2>2 DEF Arranged
    <3>2. Len(r) = n - 1  BY <2>2 DEF Arranged
    <3>3. place[k] \in 1..(n - 1) /\ r[k] = s[place[k]]  BY <3>1, <3>2
    <3>4. place[k] \in 1..size /\ place[k] # n  BY <1>2, <3>3
    <3>5. place[k] = n  BY <3>3, <3>4 DEF KeysDiffer
    <3> QED  BY <3>4, <3>5
  <2>5. r \in Seq(T) /\ Ascending(r) /\ f[n] = Inserted(r, e)  BY <2>2
  <2> HIDE DEF r, e
  <2>6. Ascending(Inserted(r, e))  BY <2>3, <2>4, <2>5, InsertedAscends
  <2> QED  BY <2>1, <2>5, <2>6
<1>5. size \in G
  <2> HIDE DEF G, size
  <2>1. \A n \in 0..size : n \in G  BY <1>2, <1>3, <1>4, UpTo
  <2> QED  BY <1>2, <2>1
<1> QED  BY <1>1, <1>5

LEMMA SortedIsOne ==
  ASSUME NEW T, \A o \in T : Sortable(o), NEW a \in Seq(T), NEW b \in Seq(T), KeysDiffer(a), KeysDiffer(b),
         \A v : HasItem(a, v) <=> HasItem(b, v)
  PROVE  Sorted(a) = Sorted(b)
<1>1. ASSUME NEW s \in Seq(T), NEW v
      PROVE  HasItem(Sorted(s), v) <=> HasItem(s, v)
  <2> DEFINE r == Sorted(s)
             size == Len(s)
  <2>1. r \in Seq(T) /\ Arranged(r, s, size) /\ size \in Nat  BY SortedIs
  <2> HIDE DEF r, size
  <2>2. PICK place \in [1..size -> 1..size] :
          /\ \A k \in 1..size : r[k] = s[place[k]]
          /\ \A j, k \in 1..size : place[j] = place[k] => j = k
    BY <2>1 DEF Arranged
  <2>3. Len(r) = size  BY <2>1 DEF Arranged
  <2>4. \A k \in 1..size : \E j \in 1..size : place[j] = k  BY <2>1, <2>2, Permuted
  <2>5. HasItem(r, v) => HasItem(s, v)  BY <2>2, <2>3 DEF HasItem, size
  <2>6. HasItem(s, v) => HasItem(r, v)
    <3> SUFFICES ASSUME HasItem(s, v) PROVE HasItem(r, v)  OBVIOUS
    <3>1. PICK k \in 1..size : s[k] = v  BY DEF HasItem, size
    <3>2. PICK j \in 1..size : place[j] = k  BY <2>4
    <3> QED  BY <2>2, <2>3, <3>1, <3>2 DEF HasItem
  <2> QED  BY <2>5, <2>6 DEF r
<1> DEFINE p == Sorted(a)
           q == Sorted(b)
<1>2. p \in Seq(T) /\ q \in Seq(T) /\ Ascending(p) /\ Ascending(q)  BY SortedIs, SortedAscends
<1>3. \A v : HasItem(p, v) <=> HasItem(q, v)  BY <1>1
<1> HIDE DEF p, q
<1>4. p = q  BY <1>2, <1>3, AscendingIsOne
<1> QED  BY <1>4 DEF p, q
-----------------------------------------------------------------------------
(* Rows in another order give the same evidence at other places.             *)
Embeds(a, b) ==
  \E to \in [1..Len(a) -> 1..Len(b)] :
    /\ \A n \in 1..Len(a) : a[n] = b[to[n]]
    /\ \A m, n \in 1..Len(a) : to[m] = to[n] => m = n

(* The places of f are those of the first n sequences of ss: place[m] says   *)
(* which one, and where in it.                                               *)
Laid(f, ss, n) ==
  \E place \in [1..Len(f) -> Nat \X Nat] :
    /\ \A m \in 1..Len(f) :
         /\ place[m][1] \in 1..n /\ place[m][2] \in 1..Len(ss[place[m][1]])
         /\ f[m] = ss[place[m][1]][place[m][2]]
    /\ \A l, m \in 1..Len(f) : place[l] = place[m] => l = m
    /\ \A k \in 1..n : \A i \in 1..Len(ss[k]) : \E m \in 1..Len(f) : place[m] = <<k, i>>

LEMMA LaidAdvances ==
  ASSUME NEW T, NEW ss \in Seq(Seq(T)), NEW n \in 1..Len(ss), NEW f \in Seq(T), Laid(f, ss, n - 1)
  PROVE  Laid(f \o ss[n], ss, n)
<1> DEFINE s == ss[n]
           g == f \o s
           size == Len(f)
<1>1. PICK place \in [1..Len(f) -> Nat \X Nat] :
        /\ \A m \in 1..Len(f) :
             /\ place[m][1] \in 1..(n - 1) /\ place[m][2] \in 1..Len(ss[place[m][1]])
             /\ f[m] = ss[place[m][1]][place[m][2]]
        /\ \A l, m \in 1..Len(f) : place[l] = place[m] => l = m
        /\ \A k \in 1..(n - 1) : \A i \in 1..Len(ss[k]) : \E m \in 1..Len(f) : place[m] = <<k, i>>
  BY DEF Laid
<1>2. s \in Seq(T) /\ n \in Nat /\ n \in 1..n /\ \A k \in 1..(n - 1) : k \in 1..n /\ k # n  OBVIOUS
<1> HIDE DEF s
<1>3. /\ g \in Seq(T) /\ Len(g) = size + Len(s)
      /\ \A i \in 1..size : g[i] = f[i]
      /\ \A i \in 1..Len(s) : g[size + i] = s[i]
      /\ size \in Nat /\ Len(s) \in Nat
      /\ \A i \in 1..(size + Len(s)) : i \in 1..size \/ \E j \in 1..Len(s) : i = size + j
  BY <1>2, ConcatOf
<1> HIDE DEF g, size
<1> DEFINE place1 == [m \in 1..(size + Len(s)) |-> IF m <= size THEN place[m] ELSE <<n, m - size>>]
<1>4. /\ \A m \in 1..size : m \in 1..(size + Len(s)) /\ place1[m] = place[m]
      /\ \A j \in 1..Len(s) : size + j \in 1..(size + Len(s)) /\ place1[size + j] = <<n, j>>
  <2>1. \A m \in 1..size : m \in 1..(size + Len(s)) /\ m <= size  BY <1>3
  <2>2. \A j \in 1..Len(s) : size + j \in 1..(size + Len(s)) /\ ~(size + j <= size) /\ size + j - size = j  BY <1>3
  <2>3. \A m \in 1..(size + Len(s)) : place1[m] = IF m <= size THEN place[m] ELSE <<n, m - size>>  OBVIOUS
  <2> HIDE DEF place1
  <2>4. ASSUME NEW m \in 1..size PROVE place1[m] = place[m]  BY <2>1, <2>3
  <2>5. ASSUME NEW j \in 1..Len(s) PROVE place1[size + j] = <<n, j>>
    <3>1. size + j \in 1..(size + Len(s)) /\ ~(size + j <= size) /\ size + j - size = j  BY <2>2
    <3>2. \A m \in 1..(size + Len(s)) : \A i : ~(m <= size) /\ m - size = i => place1[m] = <<n, i>>  BY <2>3
    <3>3. PICK m \in 1..(size + Len(s)) : m = size + j  BY <3>1
    <3>4. ~(m <= size) /\ m - size = j  BY <1>3, <3>1, <3>3
    <3>5. place1[m] = <<n, j>>  BY <3>2, <3>4
    <3> QED  BY Zenon, <3>3, <3>5
  <2> QED  BY <2>1, <2>2, <2>4, <2>5
<1>5. \A m \in 1..size :
        /\ place[m][1] \in 1..(n - 1) /\ place[m][2] \in 1..Len(ss[place[m][1]])
        /\ f[m] = ss[place[m][1]][place[m][2]] /\ place[m] \in Nat \X Nat
  BY <1>1 DEF size
<1>12. place1 \in [1..(size + Len(s)) -> Nat \X Nat]
  <2>1. \A m \in 1..(size + Len(s)) : place1[m] \in Nat \X Nat
    <3> SUFFICES ASSUME NEW m \in 1..(size + Len(s)) PROVE place1[m] \in Nat \X Nat  OBVIOUS
    <3>1. m \in 1..size \/ \E j \in 1..Len(s) : m = size + j  BY <1>3
    <3> HIDE DEF place1
    <3>2. CASE m \in 1..size  BY <1>4, <1>5, <3>2
    <3>3. ASSUME NEW j \in 1..Len(s), m = size + j PROVE place1[m] \in Nat \X Nat
      <4>1. j \in Nat /\ place1[m] = <<n, j>>  BY <1>3, <1>4, <3>3
      <4> QED  BY <1>2, <4>1
    <3> QED  BY <3>1, <3>2, <3>3
  <2>2. place1 = [m \in 1..(size + Len(s)) |-> place1[m]]  OBVIOUS
  <2> HIDE DEF place1
  <2> QED  BY <2>1, <2>2
<1> HIDE DEF place1
<1>6. \A m \in 1..size :
        /\ place1[m][1] \in 1..n /\ place1[m][1] # n
        /\ place1[m][2] \in 1..Len(ss[place1[m][1]]) /\ g[m] = ss[place1[m][1]][place1[m][2]]
  BY <1>2, <1>3, <1>4, <1>5
<1>13. \A j \in 1..Len(s) : place1[size + j][1] = n /\ place1[size + j][2] = j  BY <1>4
<1>7. \A j \in 1..Len(s) :
        /\ place1[size + j][1] \in 1..n /\ place1[size + j][2] \in 1..Len(ss[place1[size + j][1]])
        /\ g[size + j] = ss[place1[size + j][1]][place1[size + j][2]]
  <2> SUFFICES ASSUME NEW j \in 1..Len(s)
               PROVE  n \in 1..n /\ j \in 1..Len(ss[n]) /\ g[size + j] = ss[n][j]
    BY <1>13
  <2> QED  BY <1>2, <1>3 DEF s
<1>8. ASSUME NEW m \in 1..Len(g)
      PROVE  /\ place1[m][1] \in 1..n /\ place1[m][2] \in 1..Len(ss[place1[m][1]])
             /\ g[m] = ss[place1[m][1]][place1[m][2]]
  <2>1. m \in 1..size \/ \E j \in 1..Len(s) : m = size + j  BY <1>3
  <2> QED  BY <1>6, <1>7, <2>1
<1>9. ASSUME NEW l \in 1..Len(g), NEW m \in 1..Len(g), place1[l] = place1[m] PROVE l = m
  <2>1. l \in 1..size \/ \E j \in 1..Len(s) : l = size + j  BY <1>3
  <2>2. m \in 1..size \/ \E j \in 1..Len(s) : m = size + j  BY <1>3
  <2>3. CASE l \in 1..size /\ m \in 1..size
    <3>1. place[l] = place[m]  BY <1>4, <1>9, <2>3
    <3> QED  BY <1>1, <2>3, <3>1 DEF size
  <2>7. /\ l \notin 1..size => place1[l][1] = n /\ l = size + place1[l][2]
        /\ m \notin 1..size => place1[m][1] = n /\ m = size + place1[m][2]
    BY <1>13, <2>1, <2>2
  <2>8. /\ l \in 1..size => place1[l][1] # n
        /\ m \in 1..size => place1[m][1] # n
    BY <1>6
  <2>9. place1[l][1] = place1[m][1] /\ place1[l][2] = place1[m][2]  BY <1>9
  <2>4. CASE l \in 1..size /\ m \notin 1..size  BY <2>4, <2>7, <2>8, <2>9
  <2>5. CASE l \notin 1..size /\ m \in 1..size  BY <2>5, <2>7, <2>8, <2>9
  <2>6. CASE l \notin 1..size /\ m \notin 1..size  BY <2>6, <2>7, <2>9
  <2> QED  BY <2>3, <2>4, <2>5, <2>6
<1>10. ASSUME NEW k \in 1..n, NEW i \in 1..Len(ss[k]) PROVE \E m \in 1..Len(g) : place1[m] = <<k, i>>
  <2>1. k \in 1..(n - 1) \/ k = n  BY <1>2
  <2>2. CASE k \in 1..(n - 1)
    <3>1. PICK m \in 1..size : place[m] = <<k, i>>  BY <1>1, <2>2 DEF size
    <3> QED  BY <1>3, <1>4, <3>1
  <2>3. CASE k = n
    <3>1. i \in 1..Len(s)  BY <2>3 DEF s
    <3> QED  BY <1>3, <1>4, <2>3, <3>1
  <2> QED  BY <2>1, <2>2, <2>3
<1>11. Laid(g, ss, n)
  <2>1. place1 \in [1..Len(g) -> Nat \X Nat]  BY <1>3, <1>12
  <2>2. \A l, m \in 1..Len(g) : place1[l] = place1[m] => l = m  BY <1>9
  <2>3. \A k \in 1..n : \A i \in 1..Len(ss[k]) : \E m \in 1..Len(g) : place1[m] = <<k, i>>  BY <1>10
  <2>4. \A m \in 1..Len(g) :
          /\ place1[m][1] \in 1..n /\ place1[m][2] \in 1..Len(ss[place1[m][1]])
          /\ g[m] = ss[place1[m][1]][place1[m][2]]
    BY <1>8
  <2> HIDE DEF g
  <2> QED  BY <2>1, <2>2, <2>3, <2>4 DEF Laid
<1> QED  BY <1>11 DEF g, s

LEMMA FlattenLays ==
  ASSUME NEW T, NEW ss \in Seq(Seq(T))
  PROVE  FlattenSeq(ss) \in Seq(T) /\ Laid(FlattenSeq(ss), ss, Len(ss))
<1>1. PICK f \in [0..Len(ss) -> Seq(T)] :
        /\ FlattenSeq(ss) = f[Len(ss)] /\ f[0] = <<>>
        /\ \A n \in 1..Len(ss) : f[n] = f[n - 1] \o ss[n]
  BY FlattenUnfolds
<1> DEFINE size == Len(ss)
           G == {n \in 0..size : Laid(f[n], ss, n)}
<1>2. size \in Nat /\ \A n \in 1..size : ss[n] \in Seq(T)  OBVIOUS
<1>3. 0 \in G
  <2>1. Len(f[0]) = 0 /\ 0 \in 0..size  BY <1>1
  <2>2. Laid(f[0], ss, 0)  BY <2>1 DEF Laid
  <2> QED  BY <2>1, <2>2
<1>4. ASSUME NEW n \in 1..size, n - 1 \in G PROVE n \in G
  <2>1. n \in 0..size /\ n - 1 \in 0..size  BY <1>2
  <2>2. Laid(f[n - 1], ss, n - 1)  BY <1>4
  <2>3. f[n - 1] \in Seq(T) /\ f[n] = f[n - 1] \o ss[n]
    <3> HIDE DEF G
    <3> QED  BY <1>1, <2>1
  <2>4. Laid(f[n], ss, n)  BY <2>2, <2>3, LaidAdvances
  <2> QED  BY <2>1, <2>4
<1>5. size \in G
  <2> HIDE DEF G, size
  <2>1. \A n \in 0..size : n \in G  BY <1>2, <1>3, <1>4, UpTo
  <2> QED  BY <1>2, <2>1
<1> QED  BY <1>1, <1>2, <1>5

LEMMA FlattenEmbeds ==
  ASSUME NEW T, NEW ss \in Seq(Seq(T)), NEW tt \in Seq(Seq(T)),
         NEW at \in [1..Len(ss) -> 1..Len(tt)],
         \A k \in 1..Len(ss) : ss[k] = tt[at[k]], \A j, k \in 1..Len(ss) : at[j] = at[k] => j = k
  PROVE  Embeds(FlattenSeq(ss), FlattenSeq(tt))
<1> DEFINE a == FlattenSeq(ss)
           b == FlattenSeq(tt)
<1>1. Laid(a, ss, Len(ss)) /\ Laid(b, tt, Len(tt))  BY FlattenLays
<1> HIDE DEF a, b
<1>2. PICK place \in [1..Len(a) -> Nat \X Nat] :
        /\ \A m \in 1..Len(a) :
             /\ place[m][1] \in 1..Len(ss) /\ place[m][2] \in 1..Len(ss[place[m][1]])
             /\ a[m] = ss[place[m][1]][place[m][2]]
        /\ \A l, m \in 1..Len(a) : place[l] = place[m] => l = m
  BY <1>1 DEF Laid
<1>3. PICK place1 \in [1..Len(b) -> Nat \X Nat] :
        /\ \A m \in 1..Len(b) :
             /\ place1[m][1] \in 1..Len(tt) /\ place1[m][2] \in 1..Len(tt[place1[m][1]])
             /\ b[m] = tt[place1[m][1]][place1[m][2]]
        /\ \A l, m \in 1..Len(b) : place1[l] = place1[m] => l = m
        /\ \A k \in 1..Len(tt) : \A i \in 1..Len(tt[k]) : \E m \in 1..Len(b) : place1[m] = <<k, i>>
  BY <1>1 DEF Laid
<1> DEFINE aim(m) == <<at[place[m][1]], place[m][2]>>
<1>4. \A m \in 1..Len(a) : \E n \in 1..Len(b) : place1[n] = aim(m)
  <2> SUFFICES ASSUME NEW m \in 1..Len(a) PROVE \E n \in 1..Len(b) : place1[n] = aim(m)  OBVIOUS
  <2>1. place[m][1] \in 1..Len(ss) /\ place[m][2] \in 1..Len(ss[place[m][1]])  BY <1>2
  <2>2. at[place[m][1]] \in 1..Len(tt) /\ place[m][2] \in 1..Len(tt[at[place[m][1]]])  BY <2>1
  <2> QED  BY <1>3, <2>2
<1> HIDE DEF aim
<1> DEFINE to == [m \in 1..Len(a) |-> CHOOSE n \in 1..Len(b) : place1[n] = aim(m)]
<1>5. \A m \in 1..Len(a) : to[m] \in 1..Len(b) /\ place1[to[m]] = aim(m)
  <2> SUFFICES ASSUME NEW m \in 1..Len(a) PROVE to[m] \in 1..Len(b) /\ place1[to[m]] = aim(m)  OBVIOUS
  <2>1. to[m] = CHOOSE n \in 1..Len(b) : place1[n] = aim(m)  OBVIOUS
  <2> HIDE DEF to
  <2> QED  BY <1>4, <2>1
<1>6. to \in [1..Len(a) -> 1..Len(b)]
  <2>1. \A m \in 1..Len(a) : (CHOOSE n \in 1..Len(b) : place1[n] = aim(m)) \in 1..Len(b)  BY <1>4
  <2> QED  BY <2>1
<1> HIDE DEF to
<1>7. ASSUME NEW m \in 1..Len(a) PROVE a[m] = b[to[m]]
  <2>1. to[m] \in 1..Len(b) /\ place1[to[m]][1] = at[place[m][1]] /\ place1[to[m]][2] = place[m][2]  BY <1>5 DEF aim
  <2>2. place[m][1] \in 1..Len(ss) /\ a[m] = ss[place[m][1]][place[m][2]]  BY <1>2
  <2>3. ss[place[m][1]] = tt[at[place[m][1]]]  BY <2>2
  <2>4. b[to[m]] = tt[at[place[m][1]]][place[m][2]]
    <3> DEFINE n == to[m]
    <3>1. n \in 1..Len(b) /\ place1[n][1] = at[place[m][1]] /\ place1[n][2] = place[m][2]  BY <2>1
    <3> HIDE DEF n
    <3>2. b[n] = tt[place1[n][1]][place1[n][2]]  BY <1>3, <3>1
    <3> QED  BY <3>1, <3>2 DEF n
  <2> QED  BY <2>2, <2>3, <2>4
<1>8. ASSUME NEW l \in 1..Len(a), NEW m \in 1..Len(a), to[l] = to[m] PROVE l = m
  <2>1. aim(l) = aim(m)  BY <1>5, <1>8
  <2>2. at[place[l][1]] = at[place[m][1]] /\ place[l][2] = place[m][2]
    <3> DEFINE x == aim(l)
               y == aim(m)
    <3>1. x[1] = at[place[l][1]] /\ x[2] = place[l][2] /\ y[1] = at[place[m][1]] /\ y[2] = place[m][2]  BY DEF aim
    <3>2. x = y  BY <2>1
    <3> HIDE DEF x, y
    <3> QED  BY <3>1, <3>2
  <2>3. place[l][1] \in 1..Len(ss) /\ place[m][1] \in 1..Len(ss)  BY <1>2
  <2>4. place[l][1] = place[m][1]  BY <2>2, <2>3
  <2>5. place[l] \in Nat \X Nat /\ place[m] \in Nat \X Nat  BY <1>2
  <2>6. place[l] = place[m]
    <3>1. \A x \in Nat \X Nat : x = <<x[1], x[2]>>  OBVIOUS
    <3>2. place[l] = <<place[l][1], place[l][2]>> /\ place[m] = <<place[m][1], place[m][2]>>  BY <2>5, <3>1
    <3> QED  BY <2>2, <2>4, <3>2
  <2> QED  BY <1>2, <2>6
<1>9. Embeds(a, b)  BY <1>6, <1>7, <1>8 DEF Embeds
<1> QED  BY <1>9 DEF a, b

\* What is put at places of their own in as many places is no more.
LEMMA NoMore ==
  ASSUME NEW a \in Nat, NEW b \in Nat, NEW to \in [1..a -> 1..b], \A j, k \in 1..a : to[j] = to[k] => j = k
  PROVE  a <= b
<1> DEFINE S == 1..a
           T == 1..b
<1>1. /\ IsFiniteSet(S) /\ Cardinality(S) = a
      /\ IsFiniteSet(T) /\ Cardinality(T) = b
  <2>1. ASSUME NEW n \in Nat PROVE IsFiniteSet(1..n) /\ Cardinality(1..n) = n
    <3>1. 1 \in Int /\ n \in Int /\ (1 > n => n = 0) /\ n - 1 + 1 = n  OBVIOUS
    <3>2. IsFiniteSet(1..n) /\ Cardinality(1..n) = IF 1 > n THEN 0 ELSE n - 1 + 1  BY <3>1, FS_Interval
    <3> QED  BY <3>1, <3>2
  <2> QED  BY <2>1
<1>2. to \in Injection(S, T)  BY DEF Injection, IsInjective
<1> HIDE DEF S, T
<1>3. Cardinality(S) <= Cardinality(T)  BY <1>1, <1>2, FS_Injection
<1> QED  BY <1>1, <1>3

\* Of the items of a key there are no more in the sequence that fits into the other.
OfKey(items, key) == Picked(items, {k \in 1..Len(items) : AggregateKey(items[k]) = key})

LEMMA OfKeyNoMore ==
  ASSUME NEW T, NEW a \in Seq(T), NEW b \in Seq(T), Embeds(a, b), NEW key
  PROVE  Len(OfKey(a, key)) <= Len(OfKey(b, key))
<1> DEFINE A == {k \in 1..Len(a) : AggregateKey(a[k]) = key}
           B == {k \in 1..Len(b) : AggregateKey(b[k]) = key}
           p == OfKey(a, key)
           q == OfKey(b, key)
<1>1. p = Picked(a, A) /\ q = Picked(b, B)  BY DEF OfKey
<1>2. /\ \A n \in 1..Len(a) : n \in A <=> AggregateKey(a[n]) = key
      /\ \A n \in 1..Len(b) : n \in B <=> AggregateKey(b[n]) = key
  OBVIOUS
<1> HIDE DEF A, B, p, q
<1>3. p \in Seq(T) /\ q \in Seq(T) /\ Places(p, a, A, Len(a)) /\ Places(q, b, B, Len(b))
  BY <1>1, PickedHasPlaces
<1>4. PICK place \in [1..Len(p) -> 1..Len(a)] :
        /\ \A k \in 1..Len(p) : place[k] \in A
        /\ \A j, k \in 1..Len(p) : place[j] = place[k] => j = k
  BY <1>3 DEF Places
<1>5. PICK place1 \in [1..Len(q) -> 1..Len(b)] : \A i \in 1..Len(b) : i \in B => \E k \in 1..Len(q) : place1[k] = i
  BY <1>3 DEF Places
<1>6. PICK to \in [1..Len(a) -> 1..Len(b)] :
        /\ \A n \in 1..Len(a) : a[n] = b[to[n]]
        /\ \A m, n \in 1..Len(a) : to[m] = to[n] => m = n
  BY DEF Embeds
<1>7. \A k \in 1..Len(p) : \E j \in 1..Len(q) : place1[j] = to[place[k]]
  <2> SUFFICES ASSUME NEW k \in 1..Len(p) PROVE \E j \in 1..Len(q) : place1[j] = to[place[k]]  OBVIOUS
  <2>1. place[k] \in 1..Len(a) /\ AggregateKey(a[place[k]]) = key  BY <1>2, <1>4
  <2>2. to[place[k]] \in 1..Len(b) /\ to[place[k]] \in B  BY <1>2, <1>6, <2>1
  <2> QED  BY <1>5, <2>2
<1> DEFINE into == [k \in 1..Len(p) |-> CHOOSE j \in 1..Len(q) : place1[j] = to[place[k]]]
<1>8. \A k \in 1..Len(p) : into[k] \in 1..Len(q) /\ place1[into[k]] = to[place[k]]
  <2> SUFFICES ASSUME NEW k \in 1..Len(p) PROVE into[k] \in 1..Len(q) /\ place1[into[k]] = to[place[k]]  OBVIOUS
  <2>1. into[k] = CHOOSE j \in 1..Len(q) : place1[j] = to[place[k]]  OBVIOUS
  <2> HIDE DEF into
  <2> QED  BY <1>7, <2>1
<1>9. into \in [1..Len(p) -> 1..Len(q)]
  <2>1. into = [k \in 1..Len(p) |-> into[k]]  OBVIOUS
  <2> HIDE DEF into
  <2> QED  BY <1>8, <2>1
<1> HIDE DEF into
<1>10. \A j, k \in 1..Len(p) : into[j] = into[k] => j = k
  <2> SUFFICES ASSUME NEW j \in 1..Len(p), NEW k \in 1..Len(p), into[j] = into[k] PROVE j = k  OBVIOUS
  <2>1. to[place[j]] = to[place[k]]  BY <1>8
  <2>2. place[j] \in 1..Len(a) /\ place[k] \in 1..Len(a)  BY <1>4
  <2>3. place[j] = place[k]  BY <1>6, <2>1, <2>2
  <2> QED  BY <1>4, <2>3
<1>11. Len(p) \in Nat /\ Len(q) \in Nat  BY <1>3
<1>12. Len(p) <= Len(q)  BY <1>9, <1>10, <1>11, NoMore
<1> QED  BY <1>12 DEF p, q
-----------------------------------------------------------------------------
(* The items of a key in a sequence put together are those of its parts.     *)
Collects(f, s, key) ==
  /\ OfKey(s, key) = f[Len(s)] /\ f[0] = <<>>
  /\ \A n \in 1..Len(s) : f[n] = IF AggregateKey(s[n]) = key THEN Append(f[n - 1], s[n]) ELSE f[n - 1]

LEMMA OfKeyUnfolds ==
  ASSUME NEW T, NEW s \in Seq(T), NEW key
  PROVE  \E f \in [0..Len(s) -> Seq(T)] : Collects(f, s, key)
<1> DEFINE at == {k \in 1..Len(s) : AggregateKey(s[k]) = key}
<1>1. \A n \in 1..Len(s) : n \in at <=> AggregateKey(s[n]) = key  OBVIOUS
<1>2. OfKey(s, key) = Picked(s, at)  BY DEF OfKey
<1> HIDE DEF at
<1>3. PICK f \in [0..Len(s) -> Seq(T)] :
        /\ Picked(s, at) = f[Len(s)] /\ f[0] = <<>>
        /\ \A n \in 1..Len(s) : f[n] = IF n \in at THEN Append(f[n - 1], s[n]) ELSE f[n - 1]
  BY PickedUnfolds
<1> QED  BY <1>1, <1>2, <1>3 DEF Collects

LastAppends(T) == \A a, b \in Seq(T), e \in T : Append(a \o b, e) = a \o Append(b, e)

LEMMA AppendLast == ASSUME NEW T PROVE LastAppends(T)
<1> SUFFICES ASSUME NEW a \in Seq(T), NEW b \in Seq(T), NEW e \in T
             PROVE  Append(a \o b, e) = a \o Append(b, e)
  BY DEF LastAppends
<1>1. a \o b \in Seq(T) /\ <<e>> \in Seq(T)  OBVIOUS
<1>2. Append(a \o b, e) = (a \o b) \o <<e>> /\ Append(b, e) = b \o <<e>>  BY <1>1, AppendIsConcat
<1>3. (a \o b) \o <<e>> = a \o (b \o <<e>>)  BY <1>1, ConcatAssociative
<1> QED  BY <1>2, <1>3

Shared(T, a, b, key) ==
  /\ OfKey(a \o b, key) = OfKey(a, key) \o OfKey(b, key)
  /\ OfKey(a, key) \in Seq(T) /\ OfKey(b, key) \in Seq(T)

LEMMA PlaceAfter ==
  ASSUME NEW m \in Nat, NEW size \in Nat, NEW n \in 1..size
  PROVE  n \in 0..size /\ n - 1 \in 0..size /\ m + n \in 1..(m + size) /\ m + n - 1 = m + (n - 1)
OBVIOUS

LEMMA OfKeyConcat ==
  ASSUME NEW T, NEW a \in Seq(T), NEW b \in Seq(T), NEW key
  PROVE  Shared(T, a, b, key)
<1> DEFINE c == a \o b
<1>9. /\ c \in Seq(T) /\ Len(c) = Len(a) + Len(b)
      /\ \A i \in 1..Len(a) : c[i] = a[i]
      /\ \A i \in 1..Len(b) : c[Len(a) + i] = b[i]
      /\ Len(a) \in Nat /\ Len(b) \in Nat
      /\ \A i \in 1..(Len(a) + Len(b)) : i \in 1..Len(a) \/ \E j \in 1..Len(b) : i = Len(a) + j
  BY ConcatOf
<1> HIDE DEF c
<1> DEFINE m == Len(a)
           size == Len(b)
<1>1. /\ c \in Seq(T) /\ Len(c) = m + size
      /\ \A i \in 1..m : c[i] = a[i]
      /\ \A i \in 1..size : c[m + i] = b[i]
      /\ m \in Nat /\ size \in Nat
  BY <1>9
<1>10. PICK f \in [0..Len(c) -> Seq(T)] : Collects(f, c, key)  BY <1>1, OfKeyUnfolds
<1>11. PICK g \in [0..m -> Seq(T)] : Collects(g, a, key)  BY OfKeyUnfolds
<1>12. PICK h \in [0..size -> Seq(T)] : Collects(h, b, key)  BY OfKeyUnfolds
<1> HIDE DEF m, size
<1>2. /\ OfKey(c, key) = f[Len(c)] /\ f[0] = <<>>
      /\ \A n \in 1..Len(c) : f[n] = IF AggregateKey(c[n]) = key THEN Append(f[n - 1], c[n]) ELSE f[n - 1]
  BY <1>10 DEF Collects
<1>3. /\ OfKey(a, key) = g[m] /\ g[0] = <<>>
      /\ \A n \in 1..m : g[n] = IF AggregateKey(a[n]) = key THEN Append(g[n - 1], a[n]) ELSE g[n - 1]
  BY <1>11 DEF Collects, m
<1>4. /\ OfKey(b, key) = h[size] /\ h[0] = <<>>
      /\ \A n \in 1..size : h[n] = IF AggregateKey(b[n]) = key THEN Append(h[n - 1], b[n]) ELSE h[n - 1]
  BY <1>12 DEF Collects, size
<1>5. f[m] = g[m]
  <2> DEFINE G == {n \in 0..m : f[n] = g[n]}
  <2>1. 0 \in G  BY <1>1, <1>2, <1>3
  <2>2. ASSUME NEW n \in 1..m, n - 1 \in G PROVE n \in G
    <3>1. n \in 1..Len(c) /\ n \in 0..m /\ c[n] = a[n] /\ f[n - 1] = g[n - 1]  BY <1>1, <2>2
    <3>2. f[n] = IF AggregateKey(c[n]) = key THEN Append(f[n - 1], c[n]) ELSE f[n - 1]  BY <1>2, <3>1
    <3>3. g[n] = IF AggregateKey(a[n]) = key THEN Append(g[n - 1], a[n]) ELSE g[n - 1]  BY <1>3
    <3>4. f[n] = g[n]  BY <3>1, <3>2, <3>3
    <3> QED  BY <3>1, <3>4
  <2>3. m \in G
    <3> HIDE DEF G
    <3>1. \A n \in 0..m : n \in G  BY <1>1, <2>1, <2>2, UpTo
    <3> QED  BY <1>1, <3>1
  <2> QED  BY <2>3
<1>6. g[m] \in Seq(T) /\ h[size] \in Seq(T)  BY <1>1
<1>7. f[m + size] = g[m] \o h[size]
  <2> DEFINE G == {n \in 0..size : f[m + n] = g[m] \o h[n]}
  <2>1. 0 \in G
    <3>1. g[m] \o <<>> = g[m]  BY <1>6
    <3>2. m + 0 = m /\ 0 \in 0..size  BY <1>1
    <3>3. f[m + 0] = f[m]  BY <3>2
    <3> QED  BY <1>4, <1>5, <3>1, <3>2, <3>3
  <2>2. ASSUME NEW n \in 1..size, n - 1 \in G PROVE n \in G
    <3>1. n \in 0..size /\ n - 1 \in 0..size /\ m + n \in 1..Len(c) /\ m + n - 1 = m + (n - 1)
      <4>1. m \in Nat /\ size \in Nat /\ n \in 1..size /\ Len(c) = m + size  BY <1>1
      <4> HIDE DEF G
      <4> QED  BY <4>1, PlaceAfter
    <3>2. f[m + (n - 1)] = g[m] \o h[n - 1]  BY <2>2
    <3>3. PICK i \in 1..Len(c) : i = m + n  BY <3>1
    <3>4. f[i] = IF AggregateKey(c[i]) = key THEN Append(f[i - 1], c[i]) ELSE f[i - 1]  BY <1>2
    <3>5. c[i] = b[n] /\ f[i - 1] = g[m] \o h[n - 1]
      <4>1. c[m + n] = b[n]  BY <1>1
      <4>2. i - 1 = m + (n - 1)  BY <1>1, <3>1, <3>3
      <4> QED  BY <3>2, <3>3, <4>1, <4>2
    <3>6. h[n] = IF AggregateKey(b[n]) = key THEN Append(h[n - 1], b[n]) ELSE h[n - 1]  BY <1>4
    <3>7. \A x, y \in Seq(T), e \in T : Append(x \o y, e) = x \o Append(y, e)
      <4>1. LastAppends(T)  BY AppendLast
      <4> QED  BY Zenon, <4>1 DEF LastAppends
    <3>8. Append(g[m] \o h[n - 1], b[n]) = g[m] \o Append(h[n - 1], b[n])
      <4>1. b[n] \in T  BY DEF size
      <4>2. h[n - 1] \in Seq(T)  BY <3>1
      <4> QED  BY Zenon, <1>6, <3>7, <4>1, <4>2
    <3>9. f[i] = g[m] \o h[n]  BY <3>4, <3>5, <3>6, <3>8
    <3> QED  BY <3>1, <3>3, <3>9
  <2>3. size \in G
    <3> HIDE DEF G
    <3>1. \A n \in 0..size : n \in G  BY <1>1, <2>1, <2>2, UpTo
    <3> QED  BY <1>1, <3>1
  <2> QED  BY <2>3
<1>8. OfKey(c, key) = OfKey(a, key) \o OfKey(b, key)  BY <1>1, <1>2, <1>3, <1>4, <1>7
<1> QED  BY <1>3, <1>4, <1>6, <1>8 DEF c, Shared

(* An aggregation: one observation for every key that an item has.          *)
KeysGiven(items) == {AggregateKey(items[k]) : k \in 1..Len(items)}

Aggregated(d, items) ==
  \E key \in [1..Len(d) -> KeysGiven(items)] :
    /\ \A n \in 1..Len(d) : d[n] = Observation(OfKey(items, key[n]))
    /\ \A i, j \in 1..Len(d) : key[i] = key[j] => i = j
    /\ \A n \in 1..Len(items) : \E i \in 1..Len(d) : key[i] = AggregateKey(items[n])

LEMMA AggregateSorts ==
  ASSUME NEW T, NEW items \in Seq(T), \A k \in 1..Len(items) : AggregateKey(items[k]) # None
  PROVE  \E V : \E d \in Seq(V) : Aggregate(items) = Sorted(d) /\ Aggregated(d, items)
<1> DEFINE keys == KeysOfItems(items)
           K == KeysGiven(items)
           u == Unique(keys)
           at(key) == {k \in DOMAIN keys : keys[k] = key}
           g == [n \in DOMAIN u |-> Picked(items, at(u[n]))]
<1>1. Len(items) \in Nat /\ DOMAIN items = 1..Len(items)  OBVIOUS
<1>2. keys \in [1..Len(items) -> K]  BY DEF KeysOfItems, KeysGiven
<1>3. keys \in Seq(K) /\ Len(keys) = Len(items) /\ Mapped(items, AggregateKey) = keys
  <2>1. Mapped(items, AggregateKey) = Picked(keys, 1..Len(items))  BY <1>1 DEF Mapped, KeysOfItems
  <2> HIDE DEF keys, K
  <2> QED  BY <1>1, <1>2, <2>1, MappedIs
<1>4. \A k \in 1..Len(items) : keys[k] = AggregateKey(items[k])  BY DEF KeysOfItems
<1> HIDE DEF keys, K
<1>5. /\ u \in Seq(K)
      /\ \A j, k \in 1..Len(u) : u[j] = u[k] => j = k
      /\ \A i \in 1..Len(keys) : keys[i] # None => \E k \in 1..Len(u) : u[k] = keys[i]
  BY <1>3, UniqueIsUpTo DEF UniqueUpTo
<1>6. Groups(items, keys) = Picked(g, DOMAIN u)  BY DEF Groups, Mapped
<1> HIDE DEF u
<1>7. Len(u) \in Nat /\ DOMAIN u = 1..Len(u) /\ \A k \in 1..Len(u) : u[k] \in K  BY <1>5
<1>8. ASSUME NEW n \in 1..Len(u) PROVE g[n] = OfKey(items, u[n])
  <2>1. at(u[n]) = {k \in 1..Len(items) : AggregateKey(items[k]) = u[n]}  BY <1>3, <1>4
  <2>2. g[n] = Picked(items, at(u[n]))  BY <1>7
  <2> HIDE DEF at, g
  <2> QED  BY <2>1, <2>2 DEF OfKey
<1> DEFINE G == {OfKey(items, u[n]) : n \in 1..Len(u)}
<1>9. g \in [1..Len(u) -> G] /\ DOMAIN u = 1..Len(u)
  <2>1. g = [n \in 1..Len(u) |-> g[n]]  BY <1>7
  <2> HIDE DEF g
  <2> QED  BY <1>7, <1>8, <2>1
<1> HIDE DEF g, G, at
<1>10. Groups(items, keys) = g /\ DOMAIN g = 1..Len(u)  BY <1>6, <1>7, <1>9, MappedIs
<1> DEFINE d == [n \in 1..Len(u) |-> Observation(g[n])]
           V == {Observation(g[n]) : n \in 1..Len(u)}
<1>11. d \in [1..Len(u) -> V] /\ Mapped(g, Observation) = Picked(d, 1..Len(u))  BY <1>10 DEF Mapped
<1>12. \A n \in 1..Len(u) : d[n] = Observation(OfKey(items, u[n]))  BY <1>8
<1> HIDE DEF d, V
<1>13. d \in Seq(V) /\ Len(d) = Len(u) /\ Mapped(g, Observation) = d  BY <1>7, <1>11, MappedIs
<1>14. Aggregate(items) = Sorted(d)  BY <1>3, <1>10, <1>13 DEF Aggregate
<1>15. Aggregated(d, items)
  <2>1. u \in [1..Len(d) -> KeysGiven(items)]  BY <1>5, <1>13 DEF K
  <2>2. \A i \in 1..Len(d) : d[i] = Observation(OfKey(items, u[i]))  BY <1>12, <1>13
  <2>3. \A i, j \in 1..Len(d) : u[i] = u[j] => i = j  BY <1>5, <1>13
  <2>4. ASSUME NEW n \in 1..Len(items) PROVE \E i \in 1..Len(d) : u[i] = AggregateKey(items[n])
    <3>1. keys[n] # None /\ keys[n] = AggregateKey(items[n])  BY <1>4
    <3> QED  BY <1>3, <1>5, <1>13, <3>1
  <2> QED  BY <2>1, <2>2, <2>3, <2>4 DEF Aggregated
<1> QED  BY <1>13, <1>14, <1>15
-----------------------------------------------------------------------------
(* Items of one key are one observation, in whatever order they come, where  *)
(* those in the same place are called and answered alike.                    *)
SaidAlike(p, q) ==
  /\ Len(p) = Len(q)
  /\ \A k \in 1..Len(p) : p[k].category = q[k].category /\ p[k].target_ip = q[k].target_ip /\ Said(p[k]) = Said(q[k])
  /\ \A v : HasItem(p, v) <=> HasItem(q, v)

LEMMA SaidTells ==
  ASSUME NEW e, NEW w, Said(e) = Said(w)
  PROVE  /\ e.name = w.name /\ e.target = w.target /\ e.role_level = w.role_level /\ e.source = w.source
         /\ e.qnames = w.qnames /\ e.names = w.names /\ e.ips = w.ips
<1> DEFINE a == Said(e)
           b == Said(w)
<1>1. /\ a[1] = e.name /\ a[2] = e.target /\ a[3] = e.role_level /\ a[4] = e.source
      /\ a[5] = e.qnames /\ a[6] = e.names /\ a[7] = e.ips
  BY DEF Said
<1>2. /\ b[1] = w.name /\ b[2] = w.target /\ b[3] = w.role_level /\ b[4] = w.source
      /\ b[5] = w.qnames /\ b[6] = w.names /\ b[7] = w.ips
  BY DEF Said
<1>3. a = b  OBVIOUS
<1> HIDE DEF a, b
<1> QED  BY <1>1, <1>2, <1>3

LEMMA JoinedAlike ==
  ASSUME NEW T, NEW p \in Seq(T), NEW q \in Seq(T), Len(p) = Len(q), NEW field,
         \A k \in 1..Len(p) : p[k][field] = q[k][field]
  PROVE  Joined(p, field) = Joined(q, field)
<1>1. DOMAIN p = 1..Len(p) /\ DOMAIN q = 1..Len(p)  OBVIOUS
<1>2. [k \in DOMAIN p |-> p[k][field]] = [k \in DOMAIN q |-> q[k][field]]  BY <1>1
<1> QED  BY <1>2 DEF Joined

LEMMA AnyHasAlike ==
  ASSUME NEW T, NEW p \in Seq(T), NEW q \in Seq(T), \A v : HasItem(p, v) <=> HasItem(q, v), NEW field
  PROVE  AnyHas(p, field) = AnyHas(q, field)
<1>1. ASSUME NEW s \in Seq(T) PROVE AnyHas(s, field) <=> \E v : HasItem(s, v) /\ v[field]  BY DEF AnyHas, HasItem
<1>2. AnyHas(p, field) <=> AnyHas(q, field)  BY <1>1
<1>3. AnyHas(p, field) \in BOOLEAN /\ AnyHas(q, field) \in BOOLEAN  BY DEF AnyHas
<1> QED  BY <1>2, <1>3

LEMMA ObservationIsOne ==
  ASSUME NEW T, NEW p \in Seq(T), NEW q \in Seq(T), p # <<>>, SaidAlike(p, q)
  PROVE  Observation(p) = Observation(q)
<1> DEFINE systems(s) == {s[k].system : k \in DOMAIN s} \ {None}
           confidences(s) == {s[k].confidence : k \in DOMAIN s}
<1>1. /\ Len(p) = Len(q) /\ Len(p) \in Nat /\ 1 \in 1..Len(p)
      /\ DOMAIN p = 1..Len(p) /\ DOMAIN q = 1..Len(p)
      /\ \A v : HasItem(p, v) <=> HasItem(q, v)
  BY DEF SaidAlike
<1>2. \A k \in 1..Len(p) : /\ p[k].category = q[k].category /\ p[k].target_ip = q[k].target_ip
                           /\ p[k].name = q[k].name /\ p[k].target = q[k].target /\ p[k].source = q[k].source
                           /\ p[k].qnames = q[k].qnames /\ p[k].names = q[k].names /\ p[k].ips = q[k].ips
  BY SaidTells DEF SaidAlike
<1>3. ASSUME NEW x
      PROVE  /\ x \in systems(p) <=> x \in systems(q)
             /\ x \in confidences(p) <=> x \in confidences(q)
  <2>1. ASSUME NEW s \in Seq(T)
        PROVE  /\ x \in systems(s) <=> x # None /\ \E v : HasItem(s, v) /\ v.system = x
               /\ x \in confidences(s) <=> \E v : HasItem(s, v) /\ v.confidence = x
    BY DEF HasItem
  <2> HIDE DEF systems, confidences
  <2> QED  BY <1>1, <2>1
<1>4. systems(p) = systems(q) /\ confidences(p) = confidences(q)
  <2>1. /\ \A x : x \in systems(p) <=> x \in systems(q)
        /\ \A x : x \in confidences(p) <=> x \in confidences(q)
    BY <1>3
  <2> HIDE DEF systems, confidences
  <2> QED  BY <2>1
<1>5. /\ AnyHas(p, "weak") = AnyHas(q, "weak") /\ AnyHas(p, "unanswered") = AnyHas(q, "unanswered")
      /\ AnyHas(p, "role_level") = AnyHas(q, "role_level") /\ AnyHas(p, "known") = AnyHas(q, "known")
      /\ AnyHas(p, "required") = AnyHas(q, "required")
  BY <1>1, AnyHasAlike
<1>6. Joined(p, "qnames") = Joined(q, "qnames") /\ Joined(p, "names") = Joined(q, "names") /\ Joined(p, "ips") = Joined(q, "ips")
  BY <1>1, <1>2, JoinedAlike
<1>7. /\ p[1].category = q[1].category /\ p[1].target_ip = q[1].target_ip
      /\ p[1].name = q[1].name /\ p[1].target = q[1].target /\ p[1].source = q[1].source
  BY <1>1, <1>2
<1>8. AggregatedConfidence(p, systems(p)) = AggregatedConfidence(q, systems(q))
  <2> HIDE DEF systems
  <2> QED  BY <1>1, <1>4, <1>5, <1>7 DEF AggregatedConfidence
<1>9. ASSUME NEW s
      PROVE  Observation(s) =
               [category |-> s[1].category, name |-> s[1].name, target |-> s[1].target,
                target_ip |-> s[1].target_ip, confidence |-> AggregatedConfidence(s, systems(s)),
                queries |-> Len(s), systems |-> systems(s),
                qnames |-> Joined(s, "qnames"), names |-> Joined(s, "names"), ips |-> Joined(s, "ips"),
                unanswered |-> AnyHas(s, "unanswered"), role_level |-> AnyHas(s, "role_level"),
                known |-> AnyHas(s, "known"), required |-> AnyHas(s, "required"),
                basis |-> None, present |-> FALSE, accepted |-> FALSE, optional |-> FALSE]
  BY DEF Observation
<1> HIDE DEF systems, confidences
<1> QED  BY <1>1, <1>4, <1>5, <1>6, <1>7, <1>8, <1>9

LEMMA OfKeyHas ==
  ASSUME NEW T, NEW items \in Seq(T), NEW key, NEW v
  PROVE  HasItem(OfKey(items, key), v) <=> HasItem(items, v) /\ AggregateKey(v) = key
<1> DEFINE at == {k \in 1..Len(items) : AggregateKey(items[k]) = key}
           q == Picked(items, at)
<1>1. OfKey(items, key) = q  BY DEF OfKey
<1>2. \A n \in 1..Len(items) : n \in at <=> AggregateKey(items[n]) = key  OBVIOUS
<1> HIDE DEF at
<1>3. /\ \A k \in 1..Len(q) : \E n \in 1..Len(items) : n \in at /\ q[k] = items[n]
      /\ \A n \in 1..Len(items) : n \in at => HasItem(q, items[n])
  BY PickedSome
<1> HIDE DEF q
<1>4. ASSUME HasItem(q, v) PROVE HasItem(items, v) /\ AggregateKey(v) = key
  <2>1. PICK k \in 1..Len(q) : q[k] = v  BY <1>4 DEF HasItem
  <2>2. PICK n \in 1..Len(items) : n \in at /\ q[k] = items[n]  BY <1>3
  <2>3. items[n] = v /\ AggregateKey(items[n]) = key  BY <1>2, <2>1, <2>2
  <2> QED  BY <2>3 DEF HasItem
<1>5. ASSUME HasItem(items, v), AggregateKey(v) = key PROVE HasItem(q, v)
  <2>1. PICK n \in 1..Len(items) : items[n] = v  BY <1>5 DEF HasItem
  <2>2. n \in at  BY <1>2, <1>5, <2>1
  <2> QED  BY <1>3, <2>1, <2>2
<1> QED  BY <1>1, <1>4, <1>5

LEMMA EmbedsHas ==
  ASSUME NEW a, NEW b, Embeds(a, b), NEW v, HasItem(a, v)
  PROVE  HasItem(b, v)
BY DEF Embeds, HasItem

Steady(items) ==
  \A i, j \in 1..Len(items) : SortKey(items[i]) = SortKey(items[j]) => Said(items[i]) = Said(items[j])

LEMMA KeyTells ==
  ASSUME NEW e, NEW w, AggregateKey(e) = AggregateKey(w)
  PROVE  /\ e.category = w.category /\ Or(e.target, e.name) = Or(w.target, w.name)
         /\ e.target_ip = w.target_ip /\ e.role_level = w.role_level
         /\ SortKey(e) = SortKey(w)
<1> DEFINE a == AggregateKey(e)
           b == AggregateKey(w)
<1>1. a[1] = e.category /\ a[2] = Or(e.target, e.name) /\ a[3] = e.target_ip /\ a[4] = e.role_level  BY DEF AggregateKey
<1>2. b[1] = w.category /\ b[2] = Or(w.target, w.name) /\ b[3] = w.target_ip /\ b[4] = w.role_level  BY DEF AggregateKey
<1>3. a = b  OBVIOUS
<1> HIDE DEF a, b
<1>4. /\ e.category = w.category /\ Or(e.target, e.name) = Or(w.target, w.name)
      /\ e.target_ip = w.target_ip /\ e.role_level = w.role_level
  BY <1>1, <1>2, <1>3
<1>5. SortKey(e) = SortKey(w)  BY <1>4 DEF SortKey
<1> QED  BY <1>4, <1>5

\* The places of a sequence put together are those of its parts.
Joint(x, p, s) ==
  /\ Len(x) = Len(p) + Len(s)
  /\ \A i \in 1..Len(p) : x[i] = p[i]
  /\ \A i \in 1..Len(s) : x[Len(p) + i] = s[i]
  /\ Len(p) \in Nat /\ Len(s) \in Nat
  /\ \A i \in 1..(Len(p) + Len(s)) : i \in 1..Len(p) \/ \E j \in 1..Len(s) : i = Len(p) + j

LEMMA JointIs ==
  ASSUME NEW T, NEW p \in Seq(T), NEW s \in Seq(T)
  PROVE  Joint(p \o s, p, s)
<1> DEFINE x == p \o s
<1>1. /\ x \in Seq(T) /\ Len(x) = Len(p) + Len(s)
      /\ \A i \in 1..Len(p) : x[i] = p[i]
      /\ \A i \in 1..Len(s) : x[Len(p) + i] = s[i]
      /\ Len(p) \in Nat /\ Len(s) \in Nat
      /\ \A i \in 1..(Len(p) + Len(s)) : i \in 1..Len(p) \/ \E j \in 1..Len(s) : i = Len(p) + j
  BY ConcatOf
<1> HIDE DEF x
<1>2. Joint(x, p, s)  BY <1>1 DEF Joint
<1> QED  BY <1>2 DEF x

LEMMA GroupsAlike ==
  ASSUME NEW T, NEW a \in Seq(T), NEW b \in Seq(T), NEW r \in Seq(T), Embeds(a, b), Embeds(b, a), Steady(a), NEW key
  PROVE  SaidAlike(OfKey(a \o r, key), OfKey(b \o r, key))
<1> DEFINE p == OfKey(a, key)
           q == OfKey(b, key)
           s == OfKey(r, key)
           c == a \o r
           d == b \o r
<1>1. /\ OfKey(c, key) = p \o s /\ OfKey(d, key) = q \o s
      /\ p \in Seq(T) /\ q \in Seq(T) /\ s \in Seq(T)
  <2>1. Shared(T, a, r, key) /\ Shared(T, b, r, key)  BY OfKeyConcat
  <2> QED  BY <2>1 DEF Shared
<1>2. Len(p) = Len(q)
  <2>1. Len(p) <= Len(q) /\ Len(q) <= Len(p)  BY OfKeyNoMore
  <2>2. Len(p) \in Nat /\ Len(q) \in Nat  BY <1>1
  <2> HIDE DEF p, q
  <2> QED  BY <2>1, <2>2
<1>3. ASSUME NEW e, HasItem(p, e), NEW w, HasItem(q, w)
      PROVE  e.category = w.category /\ e.target_ip = w.target_ip /\ Said(e) = Said(w)
  <2>1. HasItem(a, e) /\ AggregateKey(e) = key /\ HasItem(b, w) /\ AggregateKey(w) = key  BY <1>3, OfKeyHas
  <2>2. HasItem(a, w)  BY <2>1, EmbedsHas
  <2>3. SortKey(e) = SortKey(w) /\ e.category = w.category /\ e.target_ip = w.target_ip  BY <2>1, KeyTells
  <2>4. Said(e) = Said(w)  BY <2>1, <2>2, <2>3 DEF Steady, HasItem
  <2> QED  BY <2>3, <2>4
<1>4. \A v : HasItem(OfKey(c, key), v) <=> HasItem(OfKey(d, key), v)
  <2> SUFFICES ASSUME NEW v PROVE HasItem(OfKey(c, key), v) <=> HasItem(OfKey(d, key), v)  OBVIOUS
  <2>1. HasItem(c, v) <=> HasItem(a, v) \/ HasItem(r, v)  BY ConcatHas
  <2>2. HasItem(d, v) <=> HasItem(b, v) \/ HasItem(r, v)  BY ConcatHas
  <2>3. HasItem(a, v) <=> HasItem(b, v)  BY EmbedsHas
  <2>4. c \in Seq(T) /\ d \in Seq(T)  OBVIOUS
  <2> HIDE DEF c, d
  <2>5. /\ HasItem(OfKey(c, key), v) <=> HasItem(c, v) /\ AggregateKey(v) = key
        /\ HasItem(OfKey(d, key), v) <=> HasItem(d, v) /\ AggregateKey(v) = key
    BY <2>4, OfKeyHas
  <2> QED  BY <2>1, <2>2, <2>3, <2>5
<1> HIDE DEF p, q, s
<1> DEFINE x == p \o s
           y == q \o s
           n == Len(p)
           m == Len(s)
<1>11. Joint(x, p, s) /\ Joint(y, q, s)  BY <1>1, JointIs
<1> HIDE DEF x, y
<1>5. /\ Len(x) = n + m
      /\ \A i \in 1..n : x[i] = p[i]
      /\ \A i \in 1..m : x[n + i] = s[i]
      /\ \A i \in 1..(n + m) : i \in 1..n \/ \E j \in 1..m : i = n + j
  BY <1>11 DEF Joint
<1>6. /\ Len(y) = n + m
      /\ \A i \in 1..n : y[i] = q[i]
      /\ \A i \in 1..m : y[n + i] = s[i]
  BY <1>2, <1>11 DEF Joint
<1>7. ASSUME NEW k \in 1..Len(x)
      PROVE  x[k].category = y[k].category /\ x[k].target_ip = y[k].target_ip /\ Said(x[k]) = Said(y[k])
  <2>1. k \in 1..n \/ \E j \in 1..m : k = n + j  BY <1>5
  <2>2. CASE k \in 1..n
    <3>1. x[k] = p[k] /\ y[k] = q[k]  BY <1>2, <1>5, <1>6, <2>2
    <3>2. HasItem(p, p[k]) /\ HasItem(q, q[k])  BY <1>2, <2>2 DEF HasItem
    <3> QED  BY <1>3, <3>1, <3>2
  <2>3. CASE \E j \in 1..m : k = n + j  BY <1>2, <1>5, <1>6, <2>3
  <2> QED  BY <2>1, <2>2, <2>3
<1>8. Len(x) = Len(y)  BY <1>2, <1>5, <1>6
<1>9. OfKey(c, key) = x /\ OfKey(d, key) = y  BY <1>1 DEF x, y
<1>10. SaidAlike(OfKey(c, key), OfKey(d, key))  BY <1>4, <1>7, <1>8, <1>9 DEF SaidAlike
<1> QED  BY <1>10
-----------------------------------------------------------------------------
(* Items that differ in their key are not sorted alike, and so the order in  *)
(* which they come does not show in what they are aggregated to.             *)
Apart(items) ==
  /\ \A k \in 1..Len(items) : Sortable(items[k]) /\ AggregateKey(items[k]) # None
  /\ \A i, j \in 1..Len(items) :
       SortKey(items[i]) = SortKey(items[j]) => AggregateKey(items[i]) = AggregateKey(items[j])

LEMMA KeyIsSorted ==
  ASSUME NEW T, NEW items \in Seq(T), NEW key \in KeysGiven(items)
  PROVE  /\ OfKey(items, key) \in Seq(T) /\ OfKey(items, key) # <<>>
         /\ \E n \in 1..Len(items) :
              AggregateKey(items[n]) = key /\ SortKey(Observation(OfKey(items, key))) = SortKey(items[n])
<1> DEFINE q == OfKey(items, key)
<1>1. PICK k \in 1..Len(items) : AggregateKey(items[k]) = key  BY DEF KeysGiven
<1>2. HasItem(items, items[k])  BY DEF HasItem
<1>3. HasItem(q, items[k])  BY <1>1, <1>2, OfKeyHas
<1>4. q \in Seq(T)  BY PickedIn DEF OfKey
<1> HIDE DEF q
<1>5. q # <<>> /\ Len(q) \in Nat /\ 1 \in 1..Len(q)  BY <1>3, <1>4 DEF HasItem
<1>6. HasItem(q, q[1])  BY <1>5 DEF HasItem
<1>7. HasItem(items, q[1]) /\ AggregateKey(q[1]) = key  BY <1>6, OfKeyHas DEF q
<1>8. PICK n \in 1..Len(items) : items[n] = q[1]  BY <1>7 DEF HasItem
<1>9. SortKey(Observation(q)) = SortKey(q[1])
  <2> DEFINE o == Observation(q)
  <2>1. /\ o.category = q[1].category /\ o.name = q[1].name
        /\ o.target = q[1].target /\ o.target_ip = q[1].target_ip
    BY DEF Observation
  <2> HIDE DEF o
  <2> QED  BY <2>1 DEF SortKey, o
<1> QED  BY <1>4, <1>5, <1>7, <1>8, <1>9 DEF q

LEMMA AggregatedIs ==
  ASSUME NEW T, NEW items \in Seq(T), Apart(items), NEW V, NEW d \in Seq(V), Aggregated(d, items)
  PROVE  /\ KeysDiffer(d) /\ \A k \in 1..Len(d) : Sortable(d[k])
         /\ \A v : HasItem(d, v) <=> \E key \in KeysGiven(items) : v = Observation(OfKey(items, key))
<1>1. PICK key \in [1..Len(d) -> KeysGiven(items)] :
        /\ \A n \in 1..Len(d) : d[n] = Observation(OfKey(items, key[n]))
        /\ \A i, j \in 1..Len(d) : key[i] = key[j] => i = j
        /\ \A n \in 1..Len(items) : \E i \in 1..Len(d) : key[i] = AggregateKey(items[n])
  BY DEF Aggregated
<1>2. \A i \in 1..Len(d) : \E n \in 1..Len(items) : AggregateKey(items[n]) = key[i] /\ SortKey(d[i]) = SortKey(items[n])
  <2> SUFFICES ASSUME NEW i \in 1..Len(d)
               PROVE  \E n \in 1..Len(items) : AggregateKey(items[n]) = key[i] /\ SortKey(d[i]) = SortKey(items[n])
    OBVIOUS
  <2> DEFINE c == key[i]
  <2>1. c \in KeysGiven(items) /\ d[i] = Observation(OfKey(items, c))  BY <1>1
  <2> HIDE DEF c
  <2>2. \E n \in 1..Len(items) : AggregateKey(items[n]) = c /\ SortKey(Observation(OfKey(items, c))) = SortKey(items[n])
    BY <2>1, KeyIsSorted
  <2> QED  BY <2>1, <2>2 DEF c
<1>3. KeysDiffer(d)
  <2> SUFFICES ASSUME NEW i \in 1..Len(d), NEW j \in 1..Len(d), SortKey(d[i]) = SortKey(d[j]) PROVE i = j
    BY DEF KeysDiffer
  <2>1. PICK n \in 1..Len(items) : AggregateKey(items[n]) = key[i] /\ SortKey(d[i]) = SortKey(items[n])  BY <1>2
  <2>2. PICK m \in 1..Len(items) : AggregateKey(items[m]) = key[j] /\ SortKey(d[j]) = SortKey(items[m])  BY <1>2
  <2>3. SortKey(items[n]) = SortKey(items[m])  BY <2>1, <2>2
  <2>4. AggregateKey(items[n]) = AggregateKey(items[m])  BY <2>3 DEF Apart
  <2>5. key[i] = key[j]  BY <2>1, <2>2, <2>4
  <2> QED  BY <1>1, <2>5
<1>4. ASSUME NEW k \in 1..Len(d) PROVE Sortable(d[k])
  <2>1. PICK n \in 1..Len(items) : SortKey(d[k]) = SortKey(items[n])  BY <1>2
  <2>2. Sortable(items[n])  BY DEF Apart
  <2> QED  BY <2>1, <2>2 DEF Sortable
<1>5. ASSUME NEW v, HasItem(d, v) PROVE \E c \in KeysGiven(items) : v = Observation(OfKey(items, c))
  <2>1. PICK k \in 1..Len(d) : d[k] = v  BY <1>5 DEF HasItem
  <2> QED  BY <1>1, <2>1
<1>6. ASSUME NEW c \in KeysGiven(items) PROVE HasItem(d, Observation(OfKey(items, c)))
  <2>1. PICK n \in 1..Len(items) : AggregateKey(items[n]) = c  BY DEF KeysGiven
  <2>2. PICK i \in 1..Len(d) : key[i] = c  BY <1>1, <2>1
  <2>3. d[i] = Observation(OfKey(items, c))  BY <1>1, <2>2
  <2> QED  BY <2>3 DEF HasItem
<1> QED  BY <1>3, <1>4, <1>5, <1>6

LEMMA AggregateIsOne ==
  ASSUME NEW T, NEW a \in Seq(T), NEW b \in Seq(T), \A v : HasItem(a, v) <=> HasItem(b, v), Apart(a),
         \A key : SaidAlike(OfKey(a, key), OfKey(b, key))
  PROVE  Aggregate(a) = Aggregate(b)
<1>1. ASSUME NEW j \in 1..Len(b) PROVE \E i \in 1..Len(a) : a[i] = b[j]
  <2>1. HasItem(b, b[j])  BY DEF HasItem
  <2>2. HasItem(a, b[j])  BY <2>1
  <2> QED  BY <2>2 DEF HasItem
<1>2. Apart(b)
  <2>1. ASSUME NEW k \in 1..Len(b) PROVE Sortable(b[k]) /\ AggregateKey(b[k]) # None
    <3>1. PICK i \in 1..Len(a) : a[i] = b[k]  BY <1>1
    <3>2. Sortable(a[i]) /\ AggregateKey(a[i]) # None  BY DEF Apart
    <3> QED  BY <3>1, <3>2
  <2>2. ASSUME NEW k \in 1..Len(b), NEW j \in 1..Len(b), SortKey(b[k]) = SortKey(b[j])
        PROVE  AggregateKey(b[k]) = AggregateKey(b[j])
    <3>1. PICK i \in 1..Len(a) : a[i] = b[k]  BY <1>1
    <3>2. PICK l \in 1..Len(a) : a[l] = b[j]  BY <1>1
    <3>3. SortKey(a[i]) = SortKey(a[l])  BY <2>2, <3>1, <3>2
    <3>4. AggregateKey(a[i]) = AggregateKey(a[l])  BY <3>3 DEF Apart
    <3> QED  BY <3>1, <3>2, <3>4
  <2> QED  BY <2>1, <2>2 DEF Apart
<1>3. PICK V : \E d \in Seq(V) : Aggregate(a) = Sorted(d) /\ Aggregated(d, a)
  <2>1. \A k \in 1..Len(a) : AggregateKey(a[k]) # None  BY DEF Apart
  <2> QED  BY <2>1, AggregateSorts
<1>4. PICK d \in Seq(V) : Aggregate(a) = Sorted(d) /\ Aggregated(d, a)  BY <1>3
<1>5. PICK W : \E e \in Seq(W) : Aggregate(b) = Sorted(e) /\ Aggregated(e, b)
  <2>1. \A k \in 1..Len(b) : AggregateKey(b[k]) # None  BY <1>2 DEF Apart
  <2> QED  BY <2>1, AggregateSorts
<1>6. PICK e \in Seq(W) : Aggregate(b) = Sorted(e) /\ Aggregated(e, b)  BY <1>5
<1>7. /\ KeysDiffer(d) /\ \A k \in 1..Len(d) : Sortable(d[k])
      /\ \A v : HasItem(d, v) <=> \E key \in KeysGiven(a) : v = Observation(OfKey(a, key))
  BY <1>4, AggregatedIs
<1>8. /\ KeysDiffer(e) /\ \A k \in 1..Len(e) : Sortable(e[k])
      /\ \A v : HasItem(e, v) <=> \E key \in KeysGiven(b) : v = Observation(OfKey(b, key))
  BY <1>2, <1>6, AggregatedIs
<1>9. ASSUME NEW key PROVE key \in KeysGiven(a) <=> key \in KeysGiven(b)
  <2>1. key \in KeysGiven(a) <=> \E v : HasItem(a, v) /\ AggregateKey(v) = key  BY DEF KeysGiven, HasItem
  <2>2. key \in KeysGiven(b) <=> \E v : HasItem(b, v) /\ AggregateKey(v) = key  BY DEF KeysGiven, HasItem
  <2> QED  BY <2>1, <2>2
<1>10. ASSUME NEW key \in KeysGiven(a) PROVE Observation(OfKey(a, key)) = Observation(OfKey(b, key))
  <2> DEFINE p == OfKey(a, key)
             q == OfKey(b, key)
  <2>1. p \in Seq(T) /\ p # <<>>  BY KeyIsSorted
  <2>2. q \in Seq(T)  BY PickedIn DEF OfKey
  <2>3. SaidAlike(p, q)  OBVIOUS
  <2> HIDE DEF p, q
  <2>4. Observation(p) = Observation(q)  BY <2>1, <2>2, <2>3, ObservationIsOne
  <2> QED  BY <2>4 DEF p, q
<1>11. \A v : HasItem(d, v) <=> HasItem(e, v)
  <2>1. ASSUME NEW v, HasItem(d, v) PROVE HasItem(e, v)
    <3>1. PICK key \in KeysGiven(a) : v = Observation(OfKey(a, key))  BY <1>7, <2>1
    <3>2. key \in KeysGiven(b) /\ v = Observation(OfKey(b, key))  BY <1>9, <1>10, <3>1
    <3> QED  BY <1>8, <3>2
  <2>2. ASSUME NEW v, HasItem(e, v) PROVE HasItem(d, v)
    <3>1. PICK key \in KeysGiven(b) : v = Observation(OfKey(b, key))  BY <1>8, <2>2
    <3>2. key \in KeysGiven(a) /\ v = Observation(OfKey(a, key))  BY <1>9, <1>10, <3>1
    <3> QED  BY <1>7, <3>2
  <2> QED  BY <2>1, <2>2
<1> DEFINE S == {d[k] : k \in 1..Len(d)}
<1>12. d \in Seq(S) /\ e \in Seq(S) /\ \A o \in S : Sortable(o)
  <2>1. Len(d) \in Nat /\ d = [k \in 1..Len(d) |-> d[k]] /\ Len(e) \in Nat /\ e = [k \in 1..Len(e) |-> e[k]]  OBVIOUS
  <2>2. \A k \in 1..Len(d) : d[k] \in S  OBVIOUS
  <2>3. ASSUME NEW k \in 1..Len(e) PROVE e[k] \in S
    <3>1. HasItem(e, e[k])  BY DEF HasItem
    <3>2. PICK i \in 1..Len(d) : d[i] = e[k]  BY <1>11, <3>1 DEF HasItem
    <3> QED  BY <3>2
  <2>4. \A o \in S : Sortable(o)  BY <1>7
  <2> HIDE DEF S
  <2>5. d \in [1..Len(d) -> S] /\ e \in [1..Len(e) -> S]  BY <2>1, <2>2, <2>3
  <2>6. \A n \in Nat : \A f \in [1..n -> S] : f \in Seq(S)  BY SeqDef
  <2>7. d \in Seq(S)  BY <2>1, <2>5, <2>6
  <2>8. e \in Seq(S)  BY <2>1, <2>5, <2>6
  <2> QED  BY <2>4, <2>7, <2>8
<1> HIDE DEF S
<1>13. Sorted(d) = Sorted(e)  BY <1>7, <1>8, <1>11, <1>12, SortedIsOne
<1> QED  BY <1>4, <1>6, <1>13
-----------------------------------------------------------------------------
(* What is asked of a resolver is no role, and a role is not asked of one:   *)
(* items that are sorted alike are of one key.                               *)
LEMMA ResolverItemsAre ==
  ASSUME NEW hints \in Seq(ResolverHint), NEW rows \in Seq(QueryRow), NEW e, HasItem(ResolverEvidence(hints, rows), e)
  PROVE  e.category = "dns_resolver" /\ e.role_level = FALSE
<1>1. \A qnames, source, confidence, name, ip :
        /\ ResolverItem(qnames, source, confidence, name, ip).category = "dns_resolver"
        /\ ResolverItem(qnames, source, confidence, name, ip).role_level = FALSE
  BY DEF ResolverItem
<1>2. CASE hints # <<>>
  <2> DEFINE ss == [k \in DOMAIN hints |-> IF hints[k].required THEN HintItems(hints[k]) ELSE <<>>]
             size == Len(hints)
  <2>1. size \in Nat /\ DOMAIN hints = 1..size  OBVIOUS
  <2>2. ResolverEvidence(hints, rows) = FlattenSeq(ss)  BY <1>2 DEF ResolverEvidence
  <2>3. \A k \in 1..size : ss[k] = IF hints[k].required THEN HintItems(hints[k]) ELSE <<>>  BY <2>1
  <2>4. ss = [k \in 1..size |-> ss[k]]  BY <2>1
  <2> HIDE DEF ss
  <2>5. \A k \in 1..size : Plain(ss[k])
    <3> SUFFICES ASSUME NEW k \in 1..size PROVE Plain(ss[k])  OBVIOUS
    <3>1. hints[k] \in ResolverHint  OBVIOUS
    <3>2. Plain(HintItems(hints[k])) /\ Plain(<<>>)  BY <3>1, HintItemsPlain, PlainEmpty
    <3> QED  BY <2>3, <3>2
  <2>6. PICK U : \A k \in 1..size : ss[k] \in Seq(U)
    <3> HIDE DEF size
    <3> QED  BY <2>5, CommonSet
  <2>7. ss \in Seq(Seq(U)) /\ Len(ss) = size
    <3>1. ss \in [1..size -> Seq(U)]  BY <2>4, <2>6
    <3> HIDE DEF size
    <3> QED  BY <2>1, <3>1, MappedIs
  <2>8. HasItem(FlattenSeq(ss), e)  BY <2>2
  <2>9. \E k \in 1..Len(ss) : HasItem(ss[k], e)  BY <2>7, <2>8, FlattenHasItem
  <2>10. PICK k \in 1..size : HasItem(ss[k], e)  BY <2>7, <2>9
  <2>11. ss[k] # <<>>
    <3> DEFINE s == ss[k]
    <3>1. HasItem(s, e)  BY <2>10
    <3> HIDE DEF s
    <3>2. s # <<>>  BY <3>1 DEF HasItem
    <3> QED  BY <3>2 DEF s
  <2>12. ss[k] = HintItems(hints[k])  BY <2>3, <2>11
  <2> DEFINE hint == hints[k]
             ips == IF hint.ips = <<>> THEN <<None>> ELSE hint.ips
             f == HintItems(hint)
  <2>13. f = [i \in DOMAIN ips |-> ResolverItem(<<>>, "resolver_hints", High, hint.name, ips[i])]  BY DEF HintItems
  <2>14. HasItem(f, e)  BY <2>10, <2>12
  <2>15. Len(ips) \in Nat /\ DOMAIN ips = 1..Len(ips)
    <3>1. hint \in ResolverHint  OBVIOUS
    <3>2. hint.ips \in Seq(Given)  BY <3>1 DEF ResolverHint
    <3>3. hint.ips = <<>> => ips = <<None>>  OBVIOUS
    <3>4. hint.ips # <<>> => ips = hint.ips  OBVIOUS
    <3> HIDE DEF hint, ips
    <3> QED  BY <3>2, <3>3, <3>4
  <2> HIDE DEF hint, ips, f
  <2>16. Len(f) = Len(ips)  BY <2>13, <2>15
  <2>17. PICK i \in 1..Len(ips) : f[i] = e  BY <2>14, <2>16 DEF HasItem
  <2>18. e = ResolverItem(<<>>, "resolver_hints", High, hint.name, ips[i])  BY <2>13, <2>15, <2>17
  <2> QED  BY <1>1, <2>18
<1>3. CASE hints = <<>>
  <2> DEFINE named == ResolverRows(rows)
             f == [k \in DOMAIN named |-> ResolverItem(<<named[k].qname>>, "dns_log_resolver_identity", Medium,
                                                       named[k].resolver_name, named[k].resolver_ip)]
  <2>1. ResolverEvidence(hints, rows) = f  BY <1>3 DEF ResolverEvidence
  <2>2. named \in Seq(QueryRow)  BY PickedIn DEF ResolverRows
  <2> HIDE DEF named
  <2>3. Len(named) \in Nat /\ DOMAIN named = 1..Len(named)  BY <2>2
  <2>4. Len(f) = Len(named)  BY <2>3
  <2>5. \A k \in 1..Len(named) :
          f[k] = ResolverItem(<<named[k].qname>>, "dns_log_resolver_identity", Medium,
                              named[k].resolver_name, named[k].resolver_ip)
    BY <2>3
  <2> HIDE DEF f
  <2>6. PICK k \in 1..Len(named) : f[k] = e  BY <2>1, <2>4 DEF HasItem
  <2>7. e = ResolverItem(<<named[k].qname>>, "dns_log_resolver_identity", Medium,
                         named[k].resolver_name, named[k].resolver_ip)
    BY <2>5, <2>6
  <2> QED  BY <1>1, <2>7
<1> QED  BY <1>2, <1>3

LEMMA ReadableSorts ==
  ASSUME NEW e, Readable(e)
  PROVE  Sortable(e) /\ AggregateKey(e) # None
<1>1. /\ e.category \in Text /\ e.target \in Text /\ e.name \in Text /\ e.target_ip \in Text /\ e.role_level \in BOOLEAN
  BY DEF Readable, Lettered
<1>2. Or(e.target, e.name) \in Text  BY <1>1 DEF Or
<1>3. \A t \in Text : Rank[t] \in Nat  BY InputsAssumption
<1>4. Sortable(e)
  <2> DEFINE key == SortKey(e)
  <2>1. key[1] = Rank[e.category] /\ key[2] = Rank[Or(e.target, e.name)] /\ key[3] = Rank[e.target_ip]  BY DEF SortKey
  <2> HIDE DEF key
  <2>2. key[1] \in Nat /\ key[2] \in Nat /\ key[3] \in Nat  BY <1>1, <1>2, <1>3, <2>1
  <2>3. \A k \in 1..3 : key[k] \in Nat
    <3>1. \A k \in 1..3 : k = 1 \/ k = 2 \/ k = 3  OBVIOUS
    <3> QED  BY <2>2, <3>1
  <2> QED  BY <2>3 DEF Sortable, key
<1>5. AggregateKey(e) # None
  <2>1. AggregateKey(e) \in Text \X Text \X Text \X BOOLEAN  BY <1>1, <1>2 DEF AggregateKey
  <2> QED  BY <2>1, InputsAssumption
<1> QED  BY <1>4, <1>5

\* Two items that are sorted alike differ in their key only as a role does from what is none.
LEMMA SortedAlike ==
  ASSUME NEW e, NEW w, Readable(e), Readable(w), SortKey(e) = SortKey(w)
  PROVE  e.category = w.category /\ (e.role_level = w.role_level => AggregateKey(e) = AggregateKey(w))
<1> DEFINE a == SortKey(e)
           b == SortKey(w)
<1>1. /\ e.category \in Text /\ Or(e.target, e.name) \in Text /\ e.target_ip \in Text
      /\ w.category \in Text /\ Or(w.target, w.name) \in Text /\ w.target_ip \in Text
  BY DEF Readable, Lettered, Or
<1>2. \A s, t \in Text : Rank[s] = Rank[t] => s = t  BY InputsAssumption
<1>3. a[1] = Rank[e.category] /\ a[2] = Rank[Or(e.target, e.name)] /\ a[3] = Rank[e.target_ip]  BY DEF SortKey
<1>4. b[1] = Rank[w.category] /\ b[2] = Rank[Or(w.target, w.name)] /\ b[3] = Rank[w.target_ip]  BY DEF SortKey
<1>5. a = b  OBVIOUS
<1> HIDE DEF a, b
<1>6. e.category = w.category /\ Or(e.target, e.name) = Or(w.target, w.name) /\ e.target_ip = w.target_ip
  BY <1>1, <1>2, <1>3, <1>4, <1>5
<1> QED  BY <1>6 DEF AggregateKey

LEMMA ItemsApart ==
  ASSUME NEW U, NEW a \in Seq(U), NEW r \in Seq(U), Steady(a),
         \A e : HasItem(a, e) \/ HasItem(r, e) => Readable(e),
         \A e : HasItem(r, e) => e.category = "dns_resolver" /\ e.role_level = FALSE
  PROVE  Apart(a \o r)
<1> DEFINE c == a \o r
<1>1. \A e : HasItem(c, e) <=> HasItem(a, e) \/ HasItem(r, e)  BY ConcatHas
<1> HIDE DEF c
<1>2. \A k \in 1..Len(c) : HasItem(c, c[k])  BY DEF HasItem
<1>3. \A k \in 1..Len(c) : Readable(c[k])  BY <1>1, <1>2
<1>4. ASSUME NEW i \in 1..Len(c), NEW j \in 1..Len(c), SortKey(c[i]) = SortKey(c[j])
      PROVE  AggregateKey(c[i]) = AggregateKey(c[j])
  <2> DEFINE e == c[i]
             w == c[j]
  <2>1. Readable(e) /\ Readable(w) /\ SortKey(e) = SortKey(w)  BY <1>3, <1>4
  <2>2. (HasItem(a, e) \/ HasItem(r, e)) /\ (HasItem(a, w) \/ HasItem(r, w))  BY <1>1, <1>2
  <2> HIDE DEF e, w
  <2>3. e.category = w.category /\ (e.role_level = w.role_level => AggregateKey(e) = AggregateKey(w))
    BY <2>1, SortedAlike
  <2>4. e.role_level \in BOOLEAN /\ w.role_level \in BOOLEAN
        /\ (e.role_level => e.category # "dns_resolver") /\ (w.role_level => w.category # "dns_resolver")
    BY <2>1 DEF Readable
  <2>5. e.role_level = w.role_level
    <3>1. CASE HasItem(a, e) /\ HasItem(a, w)
      <4>1. Said(e) = Said(w)  BY <2>1, <3>1 DEF Steady, HasItem
      <4> QED  BY <4>1, SaidTells
    <3>2. CASE HasItem(r, e) \/ HasItem(r, w)
      <4>1. e.category = "dns_resolver" /\ w.category = "dns_resolver"  BY <2>3, <3>2
      <4> QED  BY <2>4, <4>1
    <3> QED  BY <2>2, <3>1, <3>2
  <2>6. AggregateKey(e) = AggregateKey(w)  BY <2>3, <2>5
  <2> QED  BY <2>6 DEF e, w
<1>5. \A k \in 1..Len(c) : Sortable(c[k]) /\ AggregateKey(c[k]) # None  BY <1>3, ReadableSorts
<1>6. Apart(c)  BY <1>4, <1>5 DEF Apart
<1> QED  BY <1>6 DEF c
-----------------------------------------------------------------------------
(* The rows of a window in any order give one aggregate, where every name is *)
(* answered alike.                                                           *)
LEMMA RowsEmbed ==
  ASSUME InputRead, NEW rows \in Seq(QueryRow), NEW other \in Seq(QueryRow), NEW at \in [1..Len(rows) -> 1..Len(other)],
         \A k \in 1..Len(rows) : rows[k] = other[at[k]], \A j, k \in 1..Len(rows) : at[j] = at[k] => j = k
  PROVE  Embeds(Evidence(rows), Evidence(other))
<1> DEFINE ss == ItemsOf(rows)
           tt == ItemsOf(other)
<1>1. \A k \in 1..Len(other) : Plain(tt[k]) /\ tt[k] = RowItems(other[k])  BY RowItemsPlain DEF ItemsOf
<1>2. PICK U : \A k \in 1..Len(other) : tt[k] \in Seq(U)
  <2> DEFINE size == Len(other)
  <2> HIDE DEF tt, size
  <2>1. \A k \in 1..size : Plain(tt[k])  BY <1>1 DEF size
  <2> QED  BY <2>1, CommonSet DEF size
<1>3. \A k \in 1..Len(rows) : ss[k] = RowItems(rows[k]) /\ at[k] \in 1..Len(other)  BY DEF ItemsOf
<1>4. \A k \in 1..Len(rows) : ss[k] = tt[at[k]] /\ RowItems(rows[k]) \in Seq(U)
  <2> HIDE DEF ss, tt
  <2> QED  BY <1>1, <1>2, <1>3
<1>5. tt \in Seq(Seq(U)) /\ Len(tt) = Len(other) /\ Evidence(other) = FlattenSeq(tt)
  BY <1>1, <1>2, EvidenceFlattens
<1>6. ss \in Seq(Seq(U)) /\ Len(ss) = Len(rows) /\ Evidence(rows) = FlattenSeq(ss)
  BY <1>4, EvidenceFlattens
<1> HIDE DEF ss, tt
<1>7. at \in [1..Len(ss) -> 1..Len(tt)] /\ \A j, k \in 1..Len(ss) : at[j] = at[k] => j = k  BY <1>5, <1>6
<1>8. \A k \in 1..Len(ss) : ss[k] = tt[at[k]]  BY <1>4, <1>6
<1>9. Embeds(FlattenSeq(ss), FlattenSeq(tt))  BY <1>5, <1>6, <1>7, <1>8, FlattenEmbeds
<1> QED  BY <1>5, <1>6, <1>9

Taken(rows, order) == [k \in DOMAIN rows |-> rows[order[k]]]

LEMMA OrderEmbeds ==
  ASSUME InputRead, NEW rows \in Seq(QueryRow), NEW order \in Orders(rows)
  PROVE  /\ Taken(rows, order) \in Seq(QueryRow)
         /\ Embeds(Evidence(Taken(rows, order)), Evidence(rows)) /\ Embeds(Evidence(rows), Evidence(Taken(rows, order)))
<1> DEFINE size == Len(rows)
           other == Taken(rows, order)
<1>1. size \in Nat /\ DOMAIN rows = 1..size  OBVIOUS
<1>2. order \in [1..size -> 1..size] /\ \A i, j \in 1..size : order[i] = order[j] => i = j  BY <1>1 DEF Orders
<1>3. other \in [1..size -> QueryRow] /\ \A k \in 1..size : other[k] = rows[order[k]]  BY <1>1, <1>2 DEF Taken
<1> HIDE DEF other
<1>4. other \in Seq(QueryRow) /\ Len(other) = size
  <2> HIDE DEF size
  <2> QED  BY <1>1, <1>3, MappedIs
<1>5. Embeds(Evidence(other), Evidence(rows))
  <2>1. order \in [1..Len(other) -> 1..Len(rows)]  BY <1>2, <1>4
  <2>2. \A k \in 1..Len(other) : other[k] = rows[order[k]]  BY <1>3, <1>4
  <2>3. \A j, k \in 1..Len(other) : order[j] = order[k] => j = k  BY <1>2, <1>4
  <2> QED  BY <1>4, <2>1, <2>2, <2>3, RowsEmbed
<1>6. \A k \in 1..size : \E j \in 1..size : order[j] = k
  <2> HIDE DEF size
  <2> QED  BY <1>1, <1>2, Permuted
<1> DEFINE at == [k \in 1..size |-> CHOOSE j \in 1..size : order[j] = k]
<1>7. \A k \in 1..size : at[k] \in 1..size /\ order[at[k]] = k
  <2> SUFFICES ASSUME NEW k \in 1..size PROVE at[k] \in 1..size /\ order[at[k]] = k  OBVIOUS
  <2>1. at[k] = CHOOSE j \in 1..size : order[j] = k  OBVIOUS
  <2> HIDE DEF at, size
  <2> QED  BY <1>6, <2>1
<1>8. at = [k \in 1..size |-> at[k]]  OBVIOUS
<1> HIDE DEF at
<1>9. Embeds(Evidence(rows), Evidence(other))
  <2>1. at \in [1..Len(rows) -> 1..Len(other)]  BY <1>4, <1>7, <1>8
  <2>2. \A k \in 1..Len(rows) : rows[k] = other[at[k]]  BY <1>3, <1>7
  <2>3. \A j, k \in 1..Len(rows) : at[j] = at[k] => j = k  BY <1>7
  <2> QED  BY <1>4, <2>1, <2>2, <2>3, RowsEmbed
<1> QED  BY <1>4, <1>5, <1>9 DEF other

LEMMA OrderIsHidden ==
  ASSUME InputRead, SteadyAnswers, NEW order \in Orders(WindowRows)
  PROVE  LET r == ResolverEvidence(input.options.hints, WindowRows)
         IN  Aggregate(Evidence(Taken(WindowRows, order)) \o r) = Aggregate(Evidence(WindowRows) \o r)
<1> DEFINE rows == WindowRows
           hints == input.options.hints
           other == Taken(rows, order)
           a == Evidence(rows)
           b == Evidence(other)
           r == ResolverEvidence(hints, rows)
<1>1. rows \in Seq(QueryRow)  BY WindowRowsIs
<1>2. hints \in Seq(ResolverHint)  BY DEF InputRead
<1>3. Steady(a)
  <2>1. DOMAIN a = 1..Len(a)
    <3> HIDE DEF rows
    <3>1. Plain(a)  BY <1>1, EvidencePlain
    <3> QED  BY <3>1 DEF Plain
  <2> QED  BY <2>1 DEF SteadyAnswers, Steady
<1>4. order \in Orders(rows)  OBVIOUS
<1> HIDE DEF rows, hints
<1>5. other \in Seq(QueryRow) /\ Embeds(b, a) /\ Embeds(a, b)  BY <1>1, <1>4, OrderEmbeds
<1> HIDE DEF other
<1>6. Plain(a) /\ Plain(b) /\ Plain(r)  BY <1>1, <1>2, <1>5, EvidencePlain, ResolverEvidencePlain
<1>7. \A e : HasItem(r, e) => e.category = "dns_resolver" /\ e.role_level = FALSE  BY <1>1, <1>2, ResolverItemsAre
<1> HIDE DEF a, b, r
<1>8. \A e : HasItem(a, e) \/ HasItem(r, e) => Readable(e)  BY <1>6 DEF Plain, HasItem
<1> DEFINE ss == <<a, b, r>>
<1>9. ss[1] = a /\ ss[2] = b /\ ss[3] = r /\ \A k \in 1..3 : k = 1 \/ k = 2 \/ k = 3  OBVIOUS
<1> HIDE DEF ss
<1>10. PICK U : \A k \in 1..3 : ss[k] \in Seq(U)
  <2>1. \A k \in 1..3 : Plain(ss[k])  BY <1>6, <1>9
  <2> QED  BY <2>1, CommonSet
<1>11. a \in Seq(U) /\ b \in Seq(U) /\ r \in Seq(U)
  <2>1. ss[1] \in Seq(U) /\ ss[2] \in Seq(U) /\ ss[3] \in Seq(U)  BY <1>10
  <2> QED  BY <1>9, <2>1
<1>12. Apart(a \o r)  BY <1>3, <1>7, <1>8, <1>11, ItemsApart
<1>13. \A key : SaidAlike(OfKey(a \o r, key), OfKey(b \o r, key))  BY <1>3, <1>5, <1>11, GroupsAlike
<1>14. \A v : HasItem(a \o r, v) <=> HasItem(b \o r, v)
  <2> SUFFICES ASSUME NEW v PROVE HasItem(a \o r, v) <=> HasItem(b \o r, v)  OBVIOUS
  <2>1. HasItem(a \o r, v) <=> HasItem(a, v) \/ HasItem(r, v)  BY <1>11, ConcatHas
  <2>2. HasItem(b \o r, v) <=> HasItem(b, v) \/ HasItem(r, v)  BY <1>11, ConcatHas
  <2>3. HasItem(a, v) <=> HasItem(b, v)  BY <1>5, EmbedsHas
  <2> QED  BY <2>1, <2>2, <2>3
<1>15. Aggregate(a \o r) = Aggregate(b \o r)
  <2> DEFINE c == a \o r
             d == b \o r
  <2>1. c \in Seq(U) /\ d \in Seq(U)  BY <1>11
  <2>2. (\A v : HasItem(c, v) <=> HasItem(d, v)) /\ Apart(c) /\ \A key : SaidAlike(OfKey(c, key), OfKey(d, key))
    BY <1>12, <1>13, <1>14
  <2> HIDE DEF c, d
  <2>3. Aggregate(c) = Aggregate(d)  BY <2>1, <2>2, AggregateIsOne
  <2> QED  BY <2>3 DEF c, d
<1> QED  BY <1>15 DEF a, b, r, other, rows, hints

-----------------------------------------------------------------------------
(* Every window compared so far was judged from its rows in some order.      *)
IsCompared(judged) ==
  \E order \in Orders(InWindow(Rows, judged.hours)) :
    judged = Compared(judged.hours, InWindow(Rows, judged.hours), order)

Compares ==
  /\ \E W : comparison \in Seq(W)
  /\ \A k \in DOMAIN comparison : IsCompared(comparison[k])

LEMMA ComparedKept ==
  ASSUME input' = input, NEW judged
  PROVE  IsCompared(judged)' <=> IsCompared(judged)
<1>1. Rows' = Rows  BY DEF Rows
<1>2. Systems' = Systems  BY DEF Systems
<1>3. ASSUME NEW rows
      PROVE  Evidence(rows)' = Evidence(rows) /\ MappedClients(rows)' = MappedClients(rows)
  BY DEF Evidence, Mapped, RowItems, MappedClients
<1>4. ASSUME NEW hours, NEW rows, NEW order
      PROVE  Compared(hours, rows, order)' = Compared(hours, rows, order)
  BY <1>2, <1>3 DEF Compared
<1> QED  BY <1>1, <1>4 DEF IsCompared

LEMMA ComparesSteps ==
  ASSUME Compares, [LintNext]_lintVars
  PROVE  Compares'
<1>1. CASE input' = input /\ comparison' = comparison
  <2>1. \A judged : IsCompared(judged)' <=> IsCompared(judged)  BY <1>1, ComparedKept
  <2> QED  BY <1>1, <2>1 DEF Compares
<1>2. CASE \E hours \in input.options.windows : CompareWindow(hours)
  <2>1. PICK hours \in input.options.windows : CompareWindow(hours)  BY <1>2
  <2> DEFINE rows == InWindow(Rows, hours)
  <2>2. input' = input  BY <2>1 DEF CompareWindow
  <2>3. PICK order \in Orders(rows) : comparison' = Append(comparison, Compared(hours, rows, order))
    BY <2>1 DEF CompareWindow
  <2> DEFINE judged == Compared(hours, rows, order)
  <2>4. judged.hours = hours  BY DEF Compared
  <2>5. IsCompared(judged)  BY <2>3, <2>4 DEF IsCompared
  <2>6. comparison' = Append(comparison, judged)  BY <2>3
  <2> HIDE DEF judged
  <2>7. PICK W : comparison \in Seq(W)  BY DEF Compares
  <2> DEFINE V == W \cup {judged}
  <2>8. comparison \in Seq(V) /\ judged \in V  BY <2>7
  <2>9. /\ comparison' \in Seq(V) /\ DOMAIN comparison' = 1..(Len(comparison) + 1) /\ Len(comparison) \in Nat
        /\ \A k \in 1..Len(comparison) : comparison'[k] = comparison[k]
        /\ comparison'[Len(comparison) + 1] = judged
    <3> HIDE DEF V
    <3> QED  BY <2>6, <2>8, AppendProperties
  <2>10. \A k \in DOMAIN comparison' : IsCompared(comparison'[k])
    <3> SUFFICES ASSUME NEW k \in DOMAIN comparison' PROVE IsCompared(comparison'[k])  OBVIOUS
    <3>1. k \in 1..Len(comparison) \/ k = Len(comparison) + 1  BY <2>9
    <3>2. CASE k \in 1..Len(comparison)
      <4>1. k \in DOMAIN comparison /\ comparison'[k] = comparison[k]  BY <2>7, <2>9, <3>2
      <4>2. IsCompared(comparison[k])  BY <4>1 DEF Compares
      <4> QED  BY <4>1, <4>2
    <3>3. CASE k = Len(comparison) + 1  BY <2>5, <2>9, <3>3
    <3> QED  BY <3>1, <3>2, <3>3
  <2>11. \A y : IsCompared(y)' <=> IsCompared(y)  BY <2>2, ComparedKept
  <2>12. \A k \in DOMAIN comparison' : IsCompared(comparison[k])'
    <3> SUFFICES ASSUME NEW k \in DOMAIN comparison' PROVE IsCompared(comparison[k])'  OBVIOUS
    <3>1. PICK y : y = comparison'[k]  OBVIOUS
    <3>2. IsCompared(y)  BY <2>10, <3>1
    <3>3. IsCompared(y)'  BY <2>11, <3>2
    <3> QED  BY <3>1, <3>3 DEF IsCompared
  <2> QED  BY <2>9, <2>12 DEF Compares
<1>3. (input' = input /\ comparison' = comparison) \/ \E hours \in input.options.windows : CompareWindow(hours)
  BY DEF LintNext, Collect, Observe, Judge, lintVars
<1> QED  BY <1>1, <1>2, <1>3
-----------------------------------------------------------------------------
(* The window of the run, judged from its rows in any order.                 *)
LEMMA ComparedAgrees ==
  ASSUME InputRead, SteadyAnswers, NEW order \in Orders(WindowRows), NEW hours
  PROVE  LET r == ResolverEvidence(input.options.hints, WindowRows)
             obs == Observed(Evidence(WindowRows) \o r, Systems, input.options.risks)
             judged == Compared(hours, WindowRows, order)
         IN  /\ judged.missing = Missing(obs)
             /\ judged.lint_status =
                  LintStatus(obs, ResolverKnown(input.options.hints, WindowRows), MappedClients(WindowRows))
<1> DEFINE rows == WindowRows
           r == ResolverEvidence(input.options.hints, rows)
           a == Evidence(rows) \o r
           b == Evidence(Taken(rows, order)) \o r
           risks == input.options.risks
           known == ResolverKnown(input.options.hints, rows)
           judged == Compared(hours, rows, order)
<1>1. Aggregate(a) = Aggregate(b)  BY OrderIsHidden
<1>2. judged = [hours |-> hours,
                lint_status |-> LintStatus(Observed(b, Systems, risks), known, MappedClients(rows)),
                missing |-> Missing(Observed(b, Systems, risks))]
  BY DEF Compared, Taken
<1> HIDE DEF a, b, judged, rows
<1>3. Observed(a, Systems, risks) = Observed(b, Systems, risks)  BY <1>1 DEF Observed
<1>4. /\ judged.missing = Missing(Observed(a, Systems, risks))
      /\ judged.lint_status = LintStatus(Observed(a, Systems, risks), known, MappedClients(rows))
  BY <1>2, <1>3
<1> QED  BY <1>4 DEF a, judged, rows

LEMMA DerivedAgrees ==
  ASSUME Derived, Compares
  PROVE  ComparisonAgrees
<1> DEFINE hours == input.options.hours
           seen == Observed(Evidence(WindowRows) \o ResolverEvidence(input.options.hints, WindowRows), Systems,
                            input.options.risks)
           lint == LintStatus(seen, ResolverKnown(input.options.hints, WindowRows), MappedClients(WindowRows))
<1> SUFFICES ASSUME Judged, SteadyAnswers, NEW k \in DOMAIN comparison, comparison[k].hours = hours
             PROVE  comparison[k].lint_status = report.lint_status /\ comparison[k].missing = Missing(observed)
  BY DEF ComparisonAgrees
<1>1. observed = seen /\ report.lint_status = lint
  <2>1. phase \notin {"collect", "observe"} /\ phase # "collect"  BY DEF Judged
  <2>2. /\ evidence = Evidence(WindowRows) \o ResolverEvidence(input.options.hints, WindowRows)
        /\ observed = Observed(evidence, Systems, input.options.risks)
        /\ report.lint_status =
             LintStatus(observed, ResolverKnown(input.options.hints, WindowRows), MappedClients(WindowRows))
    BY <2>1 DEF Derived
  <2> QED  BY <2>2
<1>2. InputRead /\ IsCompared(comparison[k])  BY DEF Derived, Compares
<1>3. InWindow(Rows, hours) = WindowRows  BY DEF WindowRows
<1>4. PICK order \in Orders(WindowRows) : comparison[k] = Compared(hours, WindowRows, order)
  BY <1>2, <1>3 DEF IsCompared
<1> DEFINE judged == Compared(hours, WindowRows, order)
<1>5. judged.missing = Missing(seen) /\ judged.lint_status = lint  BY <1>2, ComparedAgrees
<1> HIDE DEF judged, seen, lint
<1> QED  BY <1>1, <1>4, <1>5 DEF judged

(* The comparison takes the rows of a window in the order of a hash set, the *)
(* run in the order of the file: where every name is answered alike they say *)
(* the same of one window.                                                   *)
THEOREM ComparisonHolds == LintSpec => []ComparisonAgrees
<1> DEFINE Inv == Derived /\ Compares
<1>1. LintInit => Inv
  <2> SUFFICES ASSUME LintInit PROVE Inv  OBVIOUS
  <2>1. Linted  BY LintStarts
  <2>2. phase = "collect" /\ comparison = <<>>  BY DEF LintInit
  <2>3. Derived  BY <2>1, <2>2 DEF Derived, Linted, Judged
  <2>4. Compares
    <3>1. comparison \in Seq({}) /\ DOMAIN comparison = {}  BY <2>2
    <3> QED  BY <3>1 DEF Compares
  <2> QED  BY <2>3, <2>4
<1>2. Inv /\ [LintNext]_lintVars => Inv'
  <2> SUFFICES ASSUME Inv, [LintNext]_lintVars PROVE Inv'  OBVIOUS
  <2>1. Derived'  BY DerivedSteps
  <2>2. Compares'  BY ComparesSteps
  <2> QED  BY <2>1, <2>2
<1>3. Inv => ComparisonAgrees  BY DerivedAgrees
<1> QED  BY <1>1, <1>2, <1>3, PTL DEF LintSpec
=============================================================================
