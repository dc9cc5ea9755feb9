-------------------------- MODULE ComponentProofs ---------------------------
(***************************************************************************)
(* The safety of five parts that share no state with the pipeline, for     *)
(* every value of their constants: permits and target locks, the rate      *)
(* limiter, the IPC workers, the idle assessment and the configuration.    *)
(* Each part has its inductive invariant (ResInv, LimInv, AdmInv, IdleInv, *)
(* ConfInv), a lemma per action that can disturb it, and its theorem.      *)
(***************************************************************************)
EXTENDS Resources, RateLimiter, IpcAdmission, IdlePolicy, ConfigLayers,
        FiniteSetTheorems, WellFoundedInduction, TLAPS

-----------------------------------------------------------------------------
(***************************************************************************)
(* The permits and the target locks                                        *)
(***************************************************************************)
\* What the provers need of a concatenation.
LEMMA ConcatIs ==
  ASSUME NEW S, NEW a \in Seq(S), NEW b \in Seq(S)
  PROVE  /\ a \o b \in Seq(S) /\ Len(a \o b) = Len(a) + Len(b)
         /\ \A i \in 1 .. Len(a) + Len(b) :
              (a \o b)[i] = IF i <= Len(a) THEN a[i] ELSE b[i - Len(a)]
OBVIOUS

\* The handles of a thread, as the type invariant states them and as sequences.
LEMMA HandlesAreSequences ==
  ASSUME NEW s
  PROVE  s \in UNION {[1 .. n -> BOOLEAN] : n \in 0 .. MaxDepth}
           <=> s \in Seq(BOOLEAN) /\ Len(s) <= MaxDepth
<1>1. ASSUME s \in UNION {[1 .. n -> BOOLEAN] : n \in 0 .. MaxDepth}
      PROVE  s \in Seq(BOOLEAN) /\ Len(s) <= MaxDepth
  <2>1. PICK n \in 0 .. MaxDepth : s \in [1 .. n -> BOOLEAN]
    BY <1>1
  <2> QED
    BY <2>1, ResourceAssumption
<1>2. ASSUME s \in Seq(BOOLEAN), Len(s) <= MaxDepth
      PROVE  s \in UNION {[1 .. n -> BOOLEAN] : n \in 0 .. MaxDepth}
  <2>1. Len(s) \in 0 .. MaxDepth /\ s \in [1 .. Len(s) -> BOOLEAN]
    BY <1>2, ResourceAssumption
  <2> QED
    BY <2>1
<1> QED
  BY <1>1, <1>2

\* What Without leaves of a sequence.
LEMMA WithoutSkips ==
  ASSUME NEW S, NEW s \in Seq(S), NEW c \in 1 .. Len(s)
  PROVE  /\ Without(s, c) \in Seq(S)
         /\ Len(Without(s, c)) = Len(s) - 1
         /\ \A i \in 1 .. c - 1 : Without(s, c)[i] = s[i]
         /\ \A i \in c .. Len(s) - 1 : Without(s, c)[i] = s[i + 1]
<1>0. Len(s) \in Nat /\ \A i \in 1 .. Len(s) : s[i] \in S
  OBVIOUS
<1> DEFINE a == SubSeq(s, 1, c - 1)
           b == SubSeq(s, c + 1, Len(s))
<1>1. /\ a \in Seq(S) /\ Len(a) = c - 1
      /\ \A i \in 1 .. c - 1 : a[i] = s[i]
  OBVIOUS
<1>2. /\ b \in Seq(S) /\ Len(b) = Len(s) - c
      /\ \A i \in 1 .. Len(s) - c : b[i] = s[c + i]
  OBVIOUS
<1>3. Without(s, c) = a \o b
  BY DEF Without
<1> HIDE DEF a, b
<1>4. /\ a \o b \in Seq(S) /\ Len(a \o b) = Len(a) + Len(b)
      /\ \A i \in 1 .. Len(a) + Len(b) : (a \o b)[i] = IF i <= Len(a) THEN a[i] ELSE b[i - Len(a)]
  BY <1>1, <1>2, ConcatIs, Zenon
<1>5. ASSUME NEW i \in 1 .. c - 1
      PROVE  (a \o b)[i] = s[i]
  <2>1. i \in 1 .. Len(a) + Len(b) /\ i <= Len(a)
    BY <1>0, <1>1, <1>2
  <2> QED
    BY <1>1, <1>4, <2>1, Zenon
<1>6. ASSUME NEW i \in c .. Len(s) - 1
      PROVE  (a \o b)[i] = s[i + 1]
  <2>1. /\ i \in 1 .. Len(a) + Len(b) /\ ~(i <= Len(a))
        /\ i - Len(a) \in 1 .. Len(s) - c /\ c + (i - Len(a)) = i + 1
    BY <1>0, <1>1, <1>2
  <2> QED
    BY <1>2, <1>4, <2>1, Zenon
<1>7. Len(a) + Len(b) = Len(s) - 1
  BY <1>0, <1>1, <1>2
<1> QED
  BY <1>3, <1>4, <1>5, <1>6, <1>7, Zenon

\* The same for all threads.
LEMMA HandlesTyped ==
  handles \in [Threads -> UNION {[1 .. n -> BOOLEAN] : n \in 0 .. MaxDepth}]
    <=> handles \in [Threads -> Seq(BOOLEAN)] /\ \A t \in Threads : Len(handles[t]) <= MaxDepth
BY HandlesAreSequences, Zenon

\* A pair of Held is a thread and the place of a handle that has a permit.
LEMMA HeldMembers ==
  /\ \A h \in Held : h[1] \in Threads /\ h[2] \in 1 .. MaxDepth /\ h = <<h[1], h[2]>>
  /\ \A t \in Threads, i \in 1 .. MaxDepth :
       <<t, i>> \in Held <=> i <= Len(handles[t]) /\ handles[t][i]
BY DEF Held

\* The same after a step.
LEMMA HeldMembersNext ==
  /\ \A h \in Held' : h[1] \in Threads /\ h[2] \in 1 .. MaxDepth /\ h = <<h[1], h[2]>>
  /\ \A t \in Threads, i \in 1 .. MaxDepth :
       <<t, i>> \in Held' <=> i <= Len(handles'[t]) /\ handles'[t][i]
BY DEF Held

\* Two sets of such pairs are equal when they hold the same pairs.
LEMMA SamePairs ==
  ASSUME NEW S \in SUBSET (Threads \X (1 .. MaxDepth)), NEW T \in SUBSET (Threads \X (1 .. MaxDepth)),
         \A t \in Threads, i \in 1 .. MaxDepth : <<t, i>> \in S <=> <<t, i>> \in T
  PROVE  S = T
OBVIOUS

\* There are finitely many handles with a permit.
LEMMA HeldFinite == IsFiniteSet(Held) /\ Cardinality(Held) \in Nat
<1>1. MaxDepth \in Int /\ 1 \in Int /\ IsFiniteSet(Threads)
  BY ResourceAssumption
<1>2. IsFiniteSet(Threads \X (1 .. MaxDepth))
  BY <1>1, FS_Interval, FS_Product, Zenon
<1>3. Held \in SUBSET (Threads \X (1 .. MaxDepth))
  BY Zenon DEF Held
<1> QED
  BY <1>2, <1>3, FS_Subset, FS_CardinalityType, Zenon

\* Opening a handle adds its permit to Held, and nothing when it got none.
LEMMA OpenCounts ==
  ASSUME ResTypeOK, NEW t \in Threads, NEW ok \in BOOLEAN, Len(handles[t]) < MaxDepth,
         handles' = [handles EXCEPT ![t] = Append(@, ok)]
  PROVE  /\ handles' \in [Threads -> UNION {[1 .. n -> BOOLEAN] : n \in 0 .. MaxDepth}]
         /\ ok => Cardinality(Held') = Cardinality(Held) + 1
         /\ ~ok => Held' = Held
<1> DEFINE n == Len(handles[t]) + 1
<1>1. /\ handles \in [Threads -> Seq(BOOLEAN)]
      /\ \A u \in Threads : Len(handles[u]) <= MaxDepth
  BY HandlesTyped, Zenon DEF ResTypeOK
<1>2. handles[t] \in Seq(BOOLEAN) /\ Len(handles[t]) \in Nat /\ MaxDepth \in Nat
  BY <1>1, ResourceAssumption
<1>3. /\ Append(handles[t], ok) \in Seq(BOOLEAN)
      /\ Len(Append(handles[t], ok)) = n
      /\ \A i \in 1 .. Len(handles[t]) : Append(handles[t], ok)[i] = handles[t][i]
      /\ Append(handles[t], ok)[n] = ok
  BY <1>2
<1>4. n \in 1 .. MaxDepth /\ n \in Nat
  BY <1>2
<1>5. /\ handles'[t] = Append(handles[t], ok)
      /\ \A u \in Threads \ {t} : handles'[u] = handles[u]
      /\ handles' \in [Threads -> Seq(BOOLEAN)]
  BY <1>1, <1>3, Zenon
<1>6. \A u \in Threads : Len(handles'[u]) <= MaxDepth
  BY <1>1, <1>3, <1>4, <1>5
<1>7. handles' \in [Threads -> UNION {[1 .. m -> BOOLEAN] : m \in 0 .. MaxDepth}]
  BY <1>5, <1>6, HandlesAreSequences, Zenon
<1>8. ASSUME NEW u \in Threads, NEW i \in 1 .. MaxDepth
      PROVE  <<u, i>> \in Held' <=> <<u, i>> \in Held \/ (u = t /\ i = n /\ ok)
  <2>1. CASE u # t
    <3>1. handles'[u] = handles[u]
      BY <1>5, <2>1, Zenon
    <3> QED
      BY <2>1, <3>1, HeldMembers, HeldMembersNext, Zenon
  <2>2. CASE u = t /\ i = n
    <3>1. handles'[t][n] = ok /\ n <= Len(handles'[t]) /\ ~(n <= Len(handles[t]))
      BY <1>2, <1>3, <1>4, <1>5
    <3> QED
      BY <2>2, <3>1, HeldMembers, HeldMembersNext, Zenon
  <2>3. CASE u = t /\ i <= Len(handles[t])
    <3>1. handles'[t][i] = handles[t][i] /\ i <= Len(handles'[t]) /\ i # n
      BY <1>2, <1>3, <1>4, <1>5, <2>3
    <3> QED
      BY <2>3, <3>1, HeldMembers, HeldMembersNext, Zenon
  <2>4. CASE u = t /\ i > n
    <3>1. ~(i <= Len(handles[t])) /\ ~(i <= Len(handles'[t])) /\ i # n
      BY <1>2, <1>3, <1>4, <1>5, <2>4
    <3> QED
      BY <2>4, <3>1, HeldMembers, HeldMembersNext, Zenon
  <2>5. i = n \/ i <= Len(handles[t]) \/ i > n
    BY <1>2
  <2> QED
    BY <2>1, <2>2, <2>3, <2>4, <2>5, Zenon
<1>9. <<t, n>> \notin Held
  BY <1>2, <1>4, HeldMembers
<1>10. /\ Held \in SUBSET (Threads \X (1 .. MaxDepth))
       /\ Held' \in SUBSET (Threads \X (1 .. MaxDepth))
       /\ Held \cup {<<t, n>>} \in SUBSET (Threads \X (1 .. MaxDepth))
  <2>1. <<t, n>> \in Threads \X (1 .. MaxDepth)
    BY <1>4
  <2> QED
    BY <2>1, Zenon DEF Held
<1>11. /\ ok => Held' = Held \cup {<<t, n>>}
       /\ ~ok => Held' = Held
  <2>1. ASSUME NEW u \in Threads, NEW i \in 1 .. MaxDepth
        PROVE  <<u, i>> \in Held \cup {<<t, n>>} <=> <<u, i>> \in Held \/ (u = t /\ i = n)
    OBVIOUS
  <2> QED
    BY <1>8, <1>10, <2>1, SamePairs, Zenon
<1>12. Cardinality(Held \cup {<<t, n>>}) = Cardinality(Held) + 1
  BY <1>9, HeldFinite, FS_AddElement, Zenon
<1> QED
  BY <1>7, <1>11, <1>12, Zenon

\* Closing one of a thread's handles takes its permit, if it has one, from Held; the
\* handles after it move down a place.
LEMMA CloseCounts ==
  ASSUME ResTypeOK, NEW t \in Threads, NEW c \in 1 .. Len(handles[t]),
         handles' = [handles EXCEPT ![t] = Without(@, c)]
  PROVE  /\ handles' \in [Threads -> UNION {[1 .. n -> BOOLEAN] : n \in 0 .. MaxDepth}]
         /\ handles[t][c] => Cardinality(Held) > 0 /\ Cardinality(Held') = Cardinality(Held) - 1
         /\ ~handles[t][c] => Cardinality(Held') = Cardinality(Held)
<1> DEFINE len == Len(handles[t])
<1>1. /\ handles \in [Threads -> Seq(BOOLEAN)]
      /\ \A u \in Threads : Len(handles[u]) <= MaxDepth
  BY HandlesTyped, Zenon DEF ResTypeOK
<1>2. handles[t] \in Seq(BOOLEAN) /\ len \in Nat /\ MaxDepth \in Nat /\ len <= MaxDepth
  BY <1>1, ResourceAssumption
<1>3. /\ Without(handles[t], c) \in Seq(BOOLEAN)
      /\ Len(Without(handles[t], c)) = len - 1
      /\ \A i \in 1 .. c - 1 : Without(handles[t], c)[i] = handles[t][i]
      /\ \A i \in c .. len - 1 : Without(handles[t], c)[i] = handles[t][i + 1]
  BY <1>2, WithoutSkips, Zenon
<1>4. /\ handles'[t] = Without(handles[t], c)
      /\ \A u \in Threads \ {t} : handles'[u] = handles[u]
      /\ handles' \in [Threads -> Seq(BOOLEAN)]
  BY <1>1, <1>3, Zenon
<1>5. \A u \in Threads : Len(handles'[u]) <= MaxDepth
  BY <1>1, <1>2, <1>3, <1>4
<1>6. handles' \in [Threads -> UNION {[1 .. m -> BOOLEAN] : m \in 0 .. MaxDepth}]
  BY <1>4, <1>5, HandlesAreSequences, Zenon
<1>7. ASSUME NEW u \in Threads, NEW i \in 1 .. MaxDepth, u # t \/ i < c
      PROVE  <<u, i>> \in Held' <=> <<u, i>> \in Held
  <2>1. CASE u # t
    <3>1. handles'[u] = handles[u]
      BY <1>4, <2>1, Zenon
    <3> QED
      BY <3>1, HeldMembers, HeldMembersNext, Zenon
  <2>2. CASE u = t /\ i < c
    <3>1. i \in 1 .. c - 1 /\ i <= len /\ i <= Len(handles'[t])
      BY <1>2, <1>3, <1>4, <2>2
    <3>2. handles'[t][i] = handles[t][i]
      BY <1>3, <1>4, <3>1, Zenon
    <3> QED
      BY <2>2, <3>1, <3>2, HeldMembers, HeldMembersNext, Zenon
  <2> QED
    BY <1>7, <2>1, <2>2, Zenon
<1>8. ASSUME NEW i \in 1 .. MaxDepth, i >= c
      PROVE  <<t, i>> \in Held' <=> i + 1 \in 1 .. MaxDepth /\ <<t, i + 1>> \in Held
  <2>1. CASE i <= len - 1
    <3>1. i \in c .. len - 1 /\ i + 1 \in 1 .. MaxDepth /\ i + 1 <= len /\ i <= Len(handles'[t])
      BY <1>2, <1>3, <1>4, <1>8, <2>1
    <3>2. handles'[t][i] = handles[t][i + 1]
      BY <1>3, <1>4, <3>1, Zenon
    <3> QED
      BY <3>1, <3>2, HeldMembers, HeldMembersNext, Zenon
  <2>2. CASE ~(i <= len - 1)
    <3>1. ~(i + 1 <= len) /\ ~(i <= Len(handles'[t]))
      BY <1>2, <1>3, <1>4, <2>2
    <3> QED
      BY <3>1, HeldMembers, HeldMembersNext, Zenon
  <2> QED
    BY <2>1, <2>2, Zenon
<1> DEFINE rest == Held \ {<<t, c>>}
           Moved(h) == IF h[1] = t /\ h[2] > c THEN <<t, h[2] - 1>> ELSE h
           move == [h \in rest |-> Moved(h)]
<1>9. ASSUME NEW h \in rest
      PROVE  Moved(h) \in Held'
  <2>1. h \in Held /\ h # <<t, c>> /\ h[1] \in Threads /\ h[2] \in 1 .. MaxDepth /\ h = <<h[1], h[2]>>
    BY HeldMembers, Zenon
  <2>2. CASE h[1] = t /\ h[2] > c
    <3>1. h[2] - 1 \in 1 .. MaxDepth /\ h[2] - 1 >= c /\ (h[2] - 1) + 1 = h[2]
      BY <1>2, <2>1, <2>2
    <3>2. <<t, h[2] - 1>> \in Held'
      BY <1>8, <2>1, <2>2, <3>1, Zenon
    <3> QED
      BY <2>2, <3>2, Zenon
  <2>3. CASE ~(h[1] = t /\ h[2] > c)
    <3>1. h[1] # t \/ h[2] < c
      BY <1>2, <2>1, <2>3
    <3>2. <<h[1], h[2]>> \in Held'
      BY <1>7, <2>1, <3>1, Zenon
    <3> QED
      BY <2>1, <2>3, <3>2, Zenon
  <2> QED
    BY <2>2, <2>3, Zenon
<1>10. ASSUME NEW g \in rest, NEW h \in rest, Moved(g) = Moved(h)
       PROVE  g = h
  <2>1. /\ g # <<t, c>> /\ g[2] \in 1 .. MaxDepth /\ g = <<g[1], g[2]>>
        /\ h # <<t, c>> /\ h[2] \in 1 .. MaxDepth /\ h = <<h[1], h[2]>>
    BY HeldMembers, Zenon
  <2>2. ASSUME NEW x \in 1 .. MaxDepth, NEW y \in 1 .. MaxDepth, x > c, ~(y > c), x - 1 = y
        PROVE  y = c
    BY <1>2, <2>2
  <2>3. ASSUME NEW x \in 1 .. MaxDepth, NEW y \in 1 .. MaxDepth, x - 1 = y - 1
        PROVE  x = y
    BY <2>3
  <2>4. ASSUME NEW x, NEW y, NEW v, NEW w, <<x, y>> = <<v, w>>
        PROVE  x = v /\ y = w
    BY <2>4
  <2>5. CASE g[1] = t /\ g[2] > c /\ h[1] = t /\ h[2] > c
    <3>1. g[2] - 1 = h[2] - 1
      BY <1>10, <2>4, <2>5, Zenon
    <3> QED
      BY <2>1, <2>3, <2>5, <3>1, Zenon
  <2>6. CASE g[1] = t /\ g[2] > c /\ ~(h[1] = t /\ h[2] > c)
    <3>1. <<t, g[2] - 1>> = <<h[1], h[2]>>
      BY <1>10, <2>1, <2>6, Zenon
    <3>2. t = h[1] /\ g[2] - 1 = h[2]
      BY <2>4, <3>1, Zenon
    <3> QED
      BY <2>1, <2>2, <2>6, <3>2, Zenon
  <2>7. CASE ~(g[1] = t /\ g[2] > c) /\ h[1] = t /\ h[2] > c
    <3>1. <<t, h[2] - 1>> = <<g[1], g[2]>>
      BY <1>10, <2>1, <2>7, Zenon
    <3>2. t = g[1] /\ h[2] - 1 = g[2]
      BY <2>4, <3>1, Zenon
    <3> QED
      BY <2>1, <2>2, <2>7, <3>2, Zenon
  <2>8. CASE ~(g[1] = t /\ g[2] > c) /\ ~(h[1] = t /\ h[2] > c)
    BY <1>10, <2>8, Zenon
  <2> QED
    BY <2>5, <2>6, <2>7, <2>8, Zenon
<1>11. ASSUME NEW h \in Held'
       PROVE  \E g \in rest : Moved(g) = h
  <2>1. h[1] \in Threads /\ h[2] \in 1 .. MaxDepth /\ h = <<h[1], h[2]>>
    BY HeldMembersNext, Zenon
  <2>2. CASE h[1] # t \/ h[2] < c
    <3>1. <<h[1], h[2]>> \in Held
      BY <1>7, <2>1, <2>2, Zenon
    <3>2. ~(h[2] > c /\ h[1] = t) /\ <<h[1], h[2]>> # <<t, c>>
      BY <1>2, <2>1, <2>2
    <3> QED
      BY <2>1, <3>1, <3>2, Zenon
  <2>3. CASE h[1] = t /\ h[2] >= c
    <3>1. h[2] + 1 \in 1 .. MaxDepth /\ <<t, h[2] + 1>> \in Held
      BY <1>8, <2>1, <2>3, Zenon
    <3>2. h[2] + 1 > c /\ (h[2] + 1) - 1 = h[2] /\ <<t, h[2] + 1>> # <<t, c>>
      BY <1>2, <2>1, <2>3
    <3>3. <<t, h[2] + 1>>[1] = t /\ <<t, h[2] + 1>>[2] = h[2] + 1
      OBVIOUS
    <3>4. Moved(<<t, h[2] + 1>>) = <<t, h[2]>>
      BY <3>2, <3>3, Zenon
    <3> QED
      BY <2>1, <2>3, <3>1, <3>2, <3>4, Zenon
  <2>4. h[1] # t \/ h[2] < c \/ h[2] >= c
    BY <1>2, <2>1
  <2> QED
    BY <2>2, <2>3, <2>4, Zenon
<1> HIDE DEF Moved
<1>12. move \in Bijection(rest, Held')
  BY <1>9, <1>10, <1>11, Zenon DEF Bijection, Injection, Surjection, IsInjective
<1>13. IsFiniteSet(rest) /\ Cardinality(rest) = IF <<t, c>> \in Held THEN Cardinality(Held) - 1 ELSE Cardinality(Held)
  BY HeldFinite, FS_RemoveElement, Zenon
<1> HIDE DEF move, rest
<1>14. Cardinality(Held') = Cardinality(rest)
  BY <1>12, <1>13, FS_Bijection, Zenon DEF ExistsBijection
<1>15. <<t, c>> \in Held <=> handles[t][c]
  <2>1. c \in 1 .. MaxDepth /\ c <= Len(handles[t])
    BY <1>2
  <2> QED
    BY <2>1, HeldMembers, Zenon
<1>16. <<t, c>> \in Held => Cardinality(Held) > 0
  BY HeldFinite, FS_EmptySet
<1> QED
  BY <1>6, <1>13, <1>14, <1>15, <1>16, Zenon

\* The lock table and the permits mirror each other.
LocksMirrored ==
  /\ \A t \in Threads : permit[t].target = NoTarget => permit[t] = NoPermit
  /\ \A t \in Threads : permit[t].target \in Targets =>
       permit[t].reservation # 0 /\ locks[permit[t].target] = permit[t].reservation
  /\ \A x \in Targets : locks[x] # 0 => \E t \in Threads : permit[t].target = x
  /\ \A t, u \in Threads : permit[t].target = permit[u].target /\ permit[t] # NoPermit => t = u

\* Who waits for a permit has a place to put the handle.
RoomWhileWaiting == \A t \in Threads : waiting[t] # "no" => Len(handles[t]) < MaxDepth

\* The inductive invariant of Resources.
ResInv ==
  ResTypeOK /\ active = Cardinality(Held) /\ LocksMirrored /\ RoomWhileWaiting /\ NoLostWakeup

\* There are finitely many threads to be woken.
LEMMA WokenFinite ==
  /\ IsFiniteSet(Woken) /\ Cardinality(Woken) \in Nat
BY ResourceAssumption, FS_Subset, FS_CardinalityType DEF Woken

\* A thread changes its place in the queue.
LEMMA QueueMoves ==
  ASSUME ResTypeOK, NEW t \in Threads, NEW w \in {"no", "asleep", "woken"},
         waiting' = [waiting EXCEPT ![t] = w]
  PROVE  /\ waiting' \in [Threads -> {"no", "asleep", "woken"}]
         /\ waiting[t] = "woken" /\ w # "woken" => Cardinality(Woken') = Cardinality(Woken) - 1
         /\ waiting[t] # "woken" /\ w # "woken" => Woken' = Woken
         /\ waiting[t] = "woken" /\ w = "woken" => Woken' = Woken
         /\ waiting[t] # "woken" /\ w = "woken" => Cardinality(Woken') = Cardinality(Woken) + 1
         /\ w # "asleep" /\ Asleep' # {} => Asleep # {}
<1>1. \A u \in Threads : waiting'[u] = IF u = t THEN w ELSE waiting[u]
  BY Zenon DEF ResTypeOK
<1>2. waiting' \in [Threads -> {"no", "asleep", "woken"}]
  BY Zenon DEF ResTypeOK
<1>3. ASSUME waiting[t] = "woken", w # "woken"
      PROVE  Cardinality(Woken') = Cardinality(Woken) - 1
  <2>1. Woken' = Woken \ {t} /\ t \in Woken
    BY <1>1, <1>3, Zenon DEF Woken
  <2> QED
    BY <2>1, WokenFinite, FS_RemoveElement
<1>4. ASSUME waiting[t] # "woken", w = "woken"
      PROVE  Cardinality(Woken') = Cardinality(Woken) + 1
  <2>1. Woken' = Woken \cup {t} /\ t \notin Woken
    BY <1>1, <1>4, Zenon DEF Woken
  <2> QED
    BY <2>1, WokenFinite, FS_AddElement
<1>5. (waiting[t] = "woken" <=> w = "woken") => Woken' = Woken
  BY <1>1, Zenon DEF Woken
<1>6. w # "asleep" /\ Asleep' # {} => Asleep # {}
  BY <1>1, Zenon DEF Asleep
<1> QED
  BY <1>2, <1>3, <1>4, <1>5, <1>6, Zenon

\* acquire_fd_permit comes back, with a permit or without one.
LEMMA AnsweredKeeps ==
  ASSUME ResInv, NEW t \in Threads, NEW ok \in BOOLEAN, Answered(t, ok),
         waiting[t] # "asleep", Len(handles[t]) < MaxDepth,
         IF ok THEN active < MaxFds ELSE active >= MaxFds,
         UNCHANGED <<locks, permit, reservations>>
  PROVE  ResInv'
<1>1. MaxFds \in Nat /\ active \in 0 .. MaxFds /\ active = Cardinality(Held)
  BY ResourceAssumption DEF ResInv, ResTypeOK
<1>2. waiting' = [waiting EXCEPT ![t] = "no"] /\ late' = [late EXCEPT ![t] = FALSE]
      /\ active' = IF ok THEN active + 1 ELSE active
  BY Zenon DEF Answered
<1>3. \/ handles' = [handles EXCEPT ![t] = Append(@, ok)]
      \/ ~ok /\ handles' = handles
  <2>1. CASE ok \/ handles[t] = <<>> \/ t \in Executors
    BY <2>1, Zenon DEF Answered
  <2>2. CASE ~(ok \/ handles[t] = <<>> \/ t \in Executors)
    BY <2>2 DEF Answered, ResInv, ResTypeOK
  <2> QED
    BY <2>1, <2>2, Zenon
<1>4. /\ handles' \in [Threads -> UNION {[1 .. n -> BOOLEAN] : n \in 0 .. MaxDepth}]
      /\ ok => Cardinality(Held') = Cardinality(Held) + 1
      /\ ~ok => Held' = Held
  <2>1. CASE handles' = [handles EXCEPT ![t] = Append(@, ok)]
    BY <2>1, OpenCounts, Zenon DEF ResInv
  <2>2. CASE ~ok /\ handles' = handles
    BY <2>2, Zenon DEF ResInv, ResTypeOK, Held
  <2> QED
    BY <1>3, <2>1, <2>2, Zenon
<1>5. active' = Cardinality(Held') /\ active' \in 0 .. MaxFds
  BY <1>1, <1>2, <1>4
<1>6. late' \in [Threads -> BOOLEAN]
  BY <1>2, Zenon DEF ResInv, ResTypeOK
<1>7. NoLostWakeup'
  <2> SUFFICES ASSUME Asleep' # {} PROVE MaxFds - active' <= Cardinality(Woken')
    BY Zenon DEF NoLostWakeup
  <2>1. MaxFds - active <= Cardinality(Woken) /\ Cardinality(Woken) \in Nat
    BY <1>2, QueueMoves, WokenFinite, Zenon DEF ResInv, NoLostWakeup
  <2>2. Woken' = Woken \/ Cardinality(Woken') = Cardinality(Woken) - 1
    BY <1>2, QueueMoves, Zenon DEF ResInv
  <2>3. ~ok => MaxFds - active' = 0
    BY <1>1, <1>2
  <2>4. Cardinality(Woken') \in Nat
    BY <2>1, <2>2, ResourceAssumption, FS_Subset, FS_CardinalityType DEF Woken
  <2> QED
    BY <1>1, <1>2, <2>1, <2>2, <2>3, <2>4
<1>8. waiting' \in [Threads -> {"no", "asleep", "woken"}]
  BY <1>2, QueueMoves, Zenon DEF ResInv
<1>9. LocksMirrored'
  BY Zenon DEF ResInv, LocksMirrored
<1>10. ResTypeOK'
  BY <1>4, <1>5, <1>6, <1>8, Zenon DEF ResInv, ResTypeOK
<1>11. RoomWhileWaiting'
  <2>1. \A u \in Threads \ {t} : handles'[u] = handles[u] /\ waiting'[u] = waiting[u]
    BY <1>2, <1>3, Zenon DEF ResInv, ResTypeOK
  <2>2. waiting'[t] = "no"
    BY <1>2, Zenon DEF ResInv, ResTypeOK
  <2> QED
    BY <2>1, <2>2, Zenon DEF ResInv, RoomWhileWaiting
<1> QED
  BY <1>5, <1>7, <1>9, <1>10, <1>11, Zenon DEF ResInv

\* No permit is free: the thread waits.
LEMMA SleepKeeps ==
  ASSUME ResInv, NEW t \in Threads, FallAsleep(t), active >= MaxFds, Len(handles[t]) < MaxDepth,
         UNCHANGED <<locks, permit, reservations>>
  PROVE  ResInv'
<1>1. waiting' = [waiting EXCEPT ![t] = "asleep"] /\ UNCHANGED <<active, handles, late>>
  BY Zenon DEF FallAsleep
<1>2. waiting' \in [Threads -> {"no", "asleep", "woken"}]
  BY <1>1, QueueMoves, Zenon DEF ResInv
<1>3. Cardinality(Woken') \in Nat
  BY ResourceAssumption, FS_Subset, FS_CardinalityType DEF Woken
<1>4. MaxFds - active' <= Cardinality(Woken')
  BY <1>1, <1>3, ResourceAssumption DEF ResInv, ResTypeOK
<1>5. Held' = Held /\ LocksMirrored'
  BY <1>1, Zenon DEF ResInv, LocksMirrored, Held
<1>6. RoomWhileWaiting'
  BY <1>1, Zenon DEF ResInv, ResTypeOK, RoomWhileWaiting
<1> QED
  BY <1>1, <1>2, <1>4, <1>5, <1>6, Zenon DEF ResInv, ResTypeOK, NoLostWakeup

\* The timeout wakes a waiter.
LEMMA TimeoutKeeps ==
  ASSUME ResInv, NEW t \in Threads, TimeoutPasses(t)
  PROVE  ResInv'
<1>1. /\ waiting' = [waiting EXCEPT ![t] = "woken"] /\ waiting[t] # "no"
      /\ UNCHANGED <<active, handles, locks, permit, reservations>>
      /\ late' \in [Threads -> BOOLEAN]
  BY Zenon DEF TimeoutPasses, ResInv, ResTypeOK
<1>2. /\ waiting' \in [Threads -> {"no", "asleep", "woken"}]
      /\ Woken' = Woken \/ Cardinality(Woken') = Cardinality(Woken) + 1
      /\ Asleep' # {} => Asleep # {}
  BY <1>1, QueueMoves, Zenon DEF ResInv
<1>3. NoLostWakeup'
  <2>1. Cardinality(Woken) \in Nat /\ Cardinality(Woken) <= Cardinality(Woken')
    BY <1>2, WokenFinite
  <2>2. MaxFds - active' \in Int /\ active' = active /\ Cardinality(Woken') \in Nat
    BY <1>1, <1>2, <2>1, ResourceAssumption DEF ResInv, ResTypeOK
  <2>3. Asleep # {} => MaxFds - active <= Cardinality(Woken)
    BY Zenon DEF ResInv, NoLostWakeup
  <2> QED
    BY <1>2, <2>1, <2>2, <2>3 DEF NoLostWakeup
<1>4. Held' = Held /\ LocksMirrored'
  BY <1>1, Zenon DEF ResInv, LocksMirrored, Held
<1>5. RoomWhileWaiting'
  BY <1>1, Zenon DEF ResInv, ResTypeOK, RoomWhileWaiting
<1> QED
  BY <1>1, <1>2, <1>3, <1>4, <1>5, Zenon DEF ResInv, ResTypeOK

\* A handle is closed: its permit, if it has one, comes back and one waiter is told.
LEMMA CloseKeeps ==
  ASSUME ResInv, NEW t \in Threads, CloseHandle(t)
  PROVE  ResInv'
<1> DEFINE c == Closes(t)
<1>1. /\ waiting[t] = "no" /\ handles[t] # <<>> /\ handles' = [handles EXCEPT ![t] = Without(@, c)]
      /\ UNCHANGED <<late, locks, permit, reservations>>
  BY Zenon DEF CloseHandle
<1>2. /\ handles \in [Threads -> Seq(BOOLEAN)]
      /\ \A u \in Threads : Len(handles[u]) <= MaxDepth
  BY HandlesTyped, Zenon DEF ResInv, ResTypeOK
<1>3. c \in 1 .. Len(handles[t])
  <2>1. Len(handles[t]) \in Nat /\ Len(handles[t]) # 0
    BY <1>1, <1>2
  <2> QED
    BY <2>1 DEF Closes
<1> HIDE DEF c
<1>4. /\ handles' \in [Threads -> UNION {[1 .. n -> BOOLEAN] : n \in 0 .. MaxDepth}]
      /\ handles[t][c] => Cardinality(Held) > 0 /\ Cardinality(Held') = Cardinality(Held) - 1
      /\ ~handles[t][c] => Cardinality(Held') = Cardinality(Held)
  BY <1>1, <1>3, CloseCounts, Zenon DEF ResInv
<1>5. MaxFds \in Nat /\ active \in 0 .. MaxFds /\ active = Cardinality(Held)
  BY ResourceAssumption DEF ResInv, ResTypeOK
<1>6. \/ handles[t][c] /\ NotifyOne /\ active' = IF active > 0 THEN active - 1 ELSE 0
      \/ ~handles[t][c] /\ UNCHANGED <<active, waiting>>
  BY Zenon DEF CloseHandle, c
<1>7. active' = Cardinality(Held') /\ active' \in 0 .. MaxFds /\ active - 1 <= active'
  BY <1>4, <1>5, <1>6
<1>8. LocksMirrored' /\ late' \in [Threads -> BOOLEAN] /\ locks' \in [Targets -> 0 .. MaxReservations]
  BY <1>1, Zenon DEF ResInv, LocksMirrored, ResTypeOK
<1>9. /\ waiting' \in [Threads -> {"no", "asleep", "woken"}]
      /\ NoLostWakeup'
      /\ \A u \in Threads : waiting'[u] # "no" => waiting[u] # "no"
  <2>1. CASE UNCHANGED waiting
    <3>1. Asleep = {} \/ active' = active
      BY <1>6, <2>1 DEF NotifyOne, ResInv, ResTypeOK, Asleep
    <3>2. Asleep' = Asleep /\ Woken' = Woken
      BY <2>1, Zenon DEF Asleep, Woken
    <3> QED
      BY <2>1, <3>1, <3>2, Zenon DEF ResInv, ResTypeOK, NoLostWakeup
  <2>2. CASE \E u \in Asleep : waiting' = [waiting EXCEPT ![u] = "woken"]
    <3>1. PICK u \in Asleep : waiting' = [waiting EXCEPT ![u] = "woken"]
      BY <2>2, Zenon
    <3>2. u \in Threads /\ waiting[u] = "asleep"
      BY <3>1, Zenon DEF Asleep
    <3>3. /\ waiting' \in [Threads -> {"no", "asleep", "woken"}]
          /\ Cardinality(Woken') = Cardinality(Woken) + 1
      BY <3>1, <3>2, QueueMoves, Zenon DEF ResInv
    <3>4. MaxFds - active <= Cardinality(Woken)
      BY <3>1, Zenon DEF ResInv, NoLostWakeup
    <3>5. MaxFds - active' <= Cardinality(Woken')
      BY <1>5, <1>7, <3>3, <3>4, WokenFinite
    <3>6. \A v \in Threads : waiting'[v] # "no" => waiting[v] # "no"
      BY <3>1, <3>2, Zenon DEF ResInv, ResTypeOK
    <3> QED
      BY <3>3, <3>5, <3>6, Zenon DEF NoLostWakeup
  <2> QED
    BY <1>6, <2>1, <2>2, Zenon DEF NotifyOne
<1>10. RoomWhileWaiting'
  <2>1. \A u \in Threads \ {t} : handles'[u] = handles[u]
    BY <1>1, <1>2, Zenon
  <2> QED
    BY <1>1, <1>9, <2>1, Zenon DEF ResInv, RoomWhileWaiting
<1> QED
  BY <1>1, <1>4, <1>7, <1>8, <1>9, <1>10, Zenon DEF ResInv, ResTypeOK

\* A step that touches only the lock table and the permits.
LEMMA QueueUntouched ==
  ASSUME ResInv, UNCHANGED <<active, handles, waiting, late>>, LocksMirrored',
         locks' \in [Targets -> 0 .. MaxReservations], reservations' \in 0 .. MaxReservations,
         permit' \in [Threads -> [target : Targets \cup {NoTarget}, reservation : 0 .. MaxReservations]]
  PROVE  ResInv'
<1>1. Held' = Held /\ Woken' = Woken /\ Asleep' = Asleep
  BY Zenon DEF Held, Woken, Asleep
<1>2. NoLostWakeup' /\ RoomWhileWaiting'
  BY <1>1, Zenon DEF ResInv, NoLostWakeup, RoomWhileWaiting
<1> QED
  BY <1>1, <1>2, Zenon DEF ResInv, ResTypeOK

\* acquire_target_lock_for_attempt hands out a reservation nobody has.
LEMMA AcquireLockKeeps ==
  ASSUME ResInv, NEW t \in Executors, NEW x \in Targets, AcquireTargetLock(t, x)
  PROVE  ResInv'
<1> DEFINE new == [target |-> x, reservation |-> reservations']
<1>1. t \in Threads /\ x # NoTarget
  BY ResourceAssumption, Zenon DEF Threads
<1>2. /\ permit[t] = NoPermit /\ locks[x] = 0
      /\ locks' = [locks EXCEPT ![x] = reservations']
      /\ permit' = [permit EXCEPT ![t] = new]
      /\ UNCHANGED <<active, handles, waiting, late>>
  BY Zenon DEF AcquireTargetLock
<1>3. reservations' \in 0 .. MaxReservations /\ reservations' # 0
  BY ResourceAssumption DEF AcquireTargetLock, ResInv, ResTypeOK
<1>4. /\ new \in [target : Targets \cup {NoTarget}, reservation : 0 .. MaxReservations]
      /\ new.target = x /\ new.reservation = reservations'
      /\ NoPermit.target = NoTarget
  BY <1>3 DEF NoPermit
<1> HIDE DEF new
<1>5. /\ locks' \in [Targets -> 0 .. MaxReservations]
      /\ permit' \in [Threads -> [target : Targets \cup {NoTarget}, reservation : 0 .. MaxReservations]]
      /\ permit'[t] = new /\ \A u \in Threads \ {t} : permit'[u] = permit[u]
      /\ locks'[x] = reservations' /\ \A y \in Targets \ {x} : locks'[y] = locks[y]
  BY <1>1, <1>2, <1>3, <1>4, Zenon DEF ResInv, ResTypeOK
<1>6. \A u \in Threads : permit[u].target # x
  BY <1>2, Zenon DEF ResInv, LocksMirrored
<1>7. LocksMirrored'
  <2>1. \A u \in Threads : permit'[u].target = NoTarget => permit'[u] = NoPermit
    BY <1>1, <1>4, <1>5, Zenon DEF ResInv, LocksMirrored
  <2>2. \A u \in Threads : permit'[u].target \in Targets =>
          permit'[u].reservation # 0 /\ locks'[permit'[u].target] = permit'[u].reservation
    <3> SUFFICES ASSUME NEW u \in Threads, permit'[u].target \in Targets
                 PROVE  permit'[u].reservation # 0 /\ locks'[permit'[u].target] = permit'[u].reservation
      OBVIOUS
    <3>1. CASE u = t
      BY <1>3, <1>4, <1>5, <3>1, Zenon
    <3>2. CASE u # t
      <4>1. permit'[u] = permit[u] /\ permit[u].target \in Targets \ {x}
        BY <1>5, <1>6, <3>2, Zenon
      <4>2. locks'[permit[u].target] = locks[permit[u].target]
        BY <1>5, <4>1, Zenon
      <4> QED
        BY <4>1, <4>2, Zenon DEF ResInv, LocksMirrored
    <3> QED
      BY <3>1, <3>2, Zenon
  <2>3. \A y \in Targets : locks'[y] # 0 => \E u \in Threads : permit'[u].target = y
    <3> SUFFICES ASSUME NEW y \in Targets, y # x, locks'[y] # 0
                 PROVE  \E u \in Threads : permit'[u].target = y
      BY <1>1, <1>4, <1>5, Zenon
    <3>1. PICK u \in Threads : permit[u].target = y
      BY <1>5, Zenon DEF ResInv, LocksMirrored
    <3>2. u # t
      BY <1>2, <1>4, <3>1, ResourceAssumption, Zenon
    <3> QED
      BY <1>5, <3>1, <3>2, Zenon
  <2>4. ASSUME NEW u \in Threads, NEW v \in Threads,
               permit'[u].target = permit'[v].target, permit'[u] # NoPermit
        PROVE  u = v
    <3>1. CASE u # t /\ v # t
      <4>1. permit'[u] = permit[u] /\ permit'[v] = permit[v]
        BY <1>5, <3>1, Zenon
      <4> QED
        BY <2>4, <4>1, Zenon DEF ResInv, LocksMirrored
    <3>2. CASE u = t /\ v # t
      BY <1>4, <1>5, <1>6, <2>4, <3>2, Zenon
    <3>3. CASE u # t /\ v = t
      BY <1>4, <1>5, <1>6, <2>4, <3>3, Zenon
    <3> QED
      BY <3>1, <3>2, <3>3, Zenon
  <2> QED
    BY <2>1, <2>2, <2>3, <2>4, Zenon DEF LocksMirrored
<1> QED
  BY <1>2, <1>3, <1>5, <1>7, QueueUntouched, Zenon

\* TargetLockPermit::drop takes its own reservation out of the table.
LEMMA DropLockKeeps ==
  ASSUME ResInv, NEW t \in Executors, DropTargetLock(t)
  PROVE  ResInv'
<1> DEFINE x == permit[t].target
<1>1. t \in Threads
  BY Zenon DEF Threads
<1>2. /\ permit[t] # NoPermit
      /\ locks' = [locks EXCEPT ![x] = IF @ = permit[t].reservation THEN 0 ELSE @]
      /\ permit' = [permit EXCEPT ![t] = NoPermit]
      /\ UNCHANGED <<active, handles, waiting, late, reservations>>
  BY Zenon DEF DropTargetLock
<1>3. x \in Targets /\ x # NoTarget
  <2>1. permit[t].target \in Targets \cup {NoTarget}
    BY <1>1 DEF ResInv, ResTypeOK
  <2>2. permit[t].target # NoTarget
    BY <1>1, <1>2, Zenon DEF ResInv, LocksMirrored
  <2> QED
    BY <2>1, <2>2, Zenon
<1>4. locks[x] = permit[t].reservation
  BY <1>1, <1>3, Zenon DEF ResInv, LocksMirrored
<1> HIDE DEF x
<1>5. 0 \in 0 .. MaxReservations /\ NoPermit.target = NoTarget
      /\ NoPermit \in [target : Targets \cup {NoTarget}, reservation : 0 .. MaxReservations]
  BY ResourceAssumption DEF NoPermit
<1>6. /\ locks' \in [Targets -> 0 .. MaxReservations]
      /\ permit' \in [Threads -> [target : Targets \cup {NoTarget}, reservation : 0 .. MaxReservations]]
      /\ permit'[t] = NoPermit /\ \A u \in Threads \ {t} : permit'[u] = permit[u]
      /\ locks'[x] = 0 /\ \A y \in Targets \ {x} : locks'[y] = locks[y]
  BY <1>1, <1>2, <1>3, <1>4, <1>5, Zenon DEF ResInv, ResTypeOK
<1>7. \A u \in Threads \ {t} : permit[u].target # x
  BY <1>1, <1>2, Zenon DEF ResInv, LocksMirrored, x
<1>8. LocksMirrored'
  <2>1. \A u \in Threads : permit'[u].target = NoTarget => permit'[u] = NoPermit
    BY <1>6, Zenon DEF ResInv, LocksMirrored
  <2>2. \A u \in Threads : permit'[u].target \in Targets =>
          permit'[u].reservation # 0 /\ locks'[permit'[u].target] = permit'[u].reservation
    <3> SUFFICES ASSUME NEW u \in Threads, permit'[u].target \in Targets
                 PROVE  permit'[u].reservation # 0 /\ locks'[permit'[u].target] = permit'[u].reservation
      OBVIOUS
    <3>1. u # t
      BY <1>5, <1>6, ResourceAssumption, Zenon
    <3>2. permit'[u] = permit[u] /\ permit[u].target \in Targets \ {x}
      BY <1>6, <1>7, <3>1, Zenon
    <3>3. locks'[permit[u].target] = locks[permit[u].target]
      BY <1>6, <3>2, Zenon
    <3> QED
      BY <3>2, <3>3, Zenon DEF ResInv, LocksMirrored
  <2>3. \A y \in Targets : locks'[y] # 0 => \E u \in Threads : permit'[u].target = y
    <3> SUFFICES ASSUME NEW y \in Targets, y # x, locks'[y] # 0
                 PROVE  \E u \in Threads : permit'[u].target = y
      BY <1>6, Zenon
    <3>1. PICK u \in Threads : permit[u].target = y
      BY <1>6, Zenon DEF ResInv, LocksMirrored
    <3>2. u # t
      BY <3>1, Zenon DEF x
    <3> QED
      BY <1>6, <3>1, <3>2, Zenon
  <2>4. ASSUME NEW u \in Threads, NEW v \in Threads,
               permit'[u].target = permit'[v].target, permit'[u] # NoPermit
        PROVE  u = v
    <3>1. u # t /\ permit'[u] = permit[u] /\ permit[u].target # NoTarget
      BY <1>6, <2>4, Zenon DEF ResInv, LocksMirrored
    <3>2. v # t /\ permit'[v] = permit[v]
      BY <1>5, <1>6, <2>4, <3>1, Zenon
    <3> QED
      BY <2>4, <3>1, <3>2, Zenon DEF ResInv, LocksMirrored
  <2> QED
    BY <2>1, <2>2, <2>3, <2>4, Zenon DEF LocksMirrored
<1> QED
  BY <1>2, <1>6, <1>8, QueueUntouched, Zenon DEF ResInv, ResTypeOK

\* What the mirror says of PermitsExact.
LEMMA MirrorIsExact ==
  ASSUME ResInv
  PROVE  PermitsExact
<1>1. ASSUME NEW x \in Targets
      PROVE  {permit[t].reservation : t \in {u \in Threads : permit[u].target = x}} = {locks[x]} \ {0}
  <2>1. ASSUME NEW t \in Threads, permit[t].target = x
        PROVE  permit[t].reservation \in {locks[x]} \ {0}
    BY <2>1, Zenon DEF ResInv, LocksMirrored
  <2>2. ASSUME locks[x] # 0
        PROVE  locks[x] \in {permit[t].reservation : t \in {u \in Threads : permit[u].target = x}}
    <3>1. PICK t \in Threads : permit[t].target = x
      BY <2>2, Zenon DEF ResInv, LocksMirrored
    <3>2. permit[t].reservation = locks[x]
      BY <2>1, <3>1, Zenon
    <3> QED
      BY <3>1, <3>2, Zenon
  <2> QED
    BY <2>1, <2>2, Zenon
<1> QED
  BY <1>1, Zenon DEF ResInv, LocksMirrored, PermitsExact

\* active_fds counts the permits alive and stays within the limit, the lock table
\* holds exactly the reservations alive and no two executors share a target, and
\* no wake-up is lost: acquire_fd_permit_timeout, FdPermit::drop,
\* acquire_target_lock_for_attempt and TargetLockPermit::drop, for any number of
\* threads, targets and nested handles.
THEOREM ResourcesExact == ResSpec => [](ResTypeOK /\ PermitsExact /\ NoLostWakeup)
<1>1. ResInit => ResInv
  <2> SUFFICES ASSUME ResInit PROVE ResInv
    OBVIOUS
  <2>1. \A t \in Threads : Len(handles[t]) = 0 /\ handles[t] \in Seq(BOOLEAN)
    BY DEF ResInit
  <2>2. Held = {}
    BY <2>1 DEF Held
  <2>3. active = Cardinality(Held)
    BY <2>2, FS_EmptySet, Zenon DEF ResInit
  <2>4. 0 \in 0 .. MaxFds /\ 0 \in 0 .. MaxReservations /\ 0 <= MaxDepth /\ 0 < MaxDepth
    BY ResourceAssumption
  <2>5. handles \in [Threads -> UNION {[1 .. n -> BOOLEAN] : n \in 0 .. MaxDepth}]
    <3>1. \A t \in Threads : handles[t] \in UNION {[1 .. n -> BOOLEAN] : n \in 0 .. MaxDepth}
      BY <2>1, <2>4, HandlesAreSequences
    <3> QED
      BY <3>1, Zenon DEF ResInit
  <2>6. /\ NoPermit.target = NoTarget
        /\ NoPermit \in [target : Targets \cup {NoTarget}, reservation : 0 .. MaxReservations]
    BY <2>4 DEF NoPermit
  <2>7. ResTypeOK
    BY <2>4, <2>5, <2>6, Zenon DEF ResInit, ResTypeOK
  <2>8. LocksMirrored
    BY <2>6, ResourceAssumption, Zenon DEF ResInit, LocksMirrored
  <2>9. RoomWhileWaiting /\ NoLostWakeup
    BY Zenon DEF ResInit, RoomWhileWaiting, NoLostWakeup, Asleep
  <2> QED
    BY <2>3, <2>7, <2>8, <2>9, Zenon DEF ResInv
<1>2. ResInv /\ [ResNext]_resVars => ResInv'
  <2> SUFFICES ASSUME ResInv, [ResNext]_resVars PROVE ResInv'
    OBVIOUS
  <2>1. ASSUME NEW t \in Threads, AcquireFdPermit(t)
        PROVE  ResInv'
    BY <2>1, AnsweredKeeps, SleepKeeps, Zenon DEF AcquireFdPermit
  <2>2. ASSUME NEW t \in Threads, Recheck(t)
        PROVE  ResInv'
    <3>1. waiting[t] = "woken" /\ Len(handles[t]) < MaxDepth
      BY <2>2, Zenon DEF Recheck, ResInv, RoomWhileWaiting
    <3> QED
      BY <2>2, <3>1, AnsweredKeeps, SleepKeeps, Zenon DEF Recheck
  <2>3. CASE UNCHANGED resVars
    <3>1. UNCHANGED <<active, handles, waiting, late, locks, permit, reservations>>
      BY <2>3, Zenon DEF resVars
    <3>2. LocksMirrored'
      BY <3>1, Zenon DEF ResInv, LocksMirrored
    <3> QED
      BY <3>1, <3>2, QueueUntouched, Zenon DEF ResInv, ResTypeOK
  <2> QED
    BY <2>1, <2>2, <2>3, TimeoutKeeps, CloseKeeps, AcquireLockKeeps, DropLockKeeps, Zenon DEF ResNext
<1>3. ResInv => ResTypeOK /\ PermitsExact /\ NoLostWakeup
  BY MirrorIsExact, Zenon DEF ResInv
<1> QED
  BY <1>1, <1>2, <1>3, PTL DEF ResSpec

\* In particular no wake-up is lost: while a thread sleeps in
\* acquire_fd_permit_timeout, at least as many are on their way to look again as
\* there are permits to take.
THEOREM WakeupsNeverLost == ResSpec => []NoLostWakeup
BY ResourcesExact, PTL

-----------------------------------------------------------------------------
(***************************************************************************)
(* The rate limiter                                                        *)
(***************************************************************************)
\* Counted from the last refill, and only once something has been taken.
LimInv ==
  /\ LimTypeOK
  /\ rate <= fastest
  /\ taken > 0 =>
       /\ since <= refilled
       /\ taken + tokens <= MaxBurst + fastest * (refilled - since)

\* The bucket is never larger than a burst, and never without room.
LEMMA CapacityBounds ==
  ASSUME NEW r \in Nat
  PROVE  Capacity(r) \in Nat /\ 1 <= Capacity(r) /\ Capacity(r) <= MaxBurst
BY LimiterAssumption DEF Capacity, Least, Greatest

\* What the provers need of products.
LEMMA ProductMonotone ==
  ASSUME NEW f \in Nat, NEW g \in Nat, NEW d \in Nat, NEW e \in Nat, f <= g, d <= e
  PROVE  f * d <= g * e /\ f * d \in Nat /\ g * e \in Nat
<1>1. /\ f * d \in Nat /\ g * e \in Nat /\ g * d \in Nat
      /\ g * d = f * d + (g - f) * d
      /\ g * e = g * d + g * (e - d)
  OBVIOUS
<1>2. (g - f) \in Nat /\ (e - d) \in Nat
  OBVIOUS
<1>3. (g - f) * d \in Nat /\ g * (e - d) \in Nat
  BY <1>2
<1> QED
  BY <1>1, <1>3

\* A take in a window: what was there, and what the time since the last refill added.
LEMMA TakeBounded ==
  ASSUME LimInv, Take
  PROVE  LimInv'
<1> DEFINE filled == Least(tokens + (clock - refilled) * rate, Capacity(rate))
<1>1. /\ clock \in 0 .. MaxClock /\ rate \in Nat /\ fastest \in Nat /\ rate <= fastest
      /\ tokens \in Nat /\ refilled \in 0 .. clock /\ since \in 0 .. clock /\ taken \in Nat
      /\ MaxBurst \in Nat /\ MaxClock \in Nat
  BY CapacityBounds, LimiterAssumption DEF LimInv, LimTypeOK
<1>2. clock - refilled \in Nat /\ (clock - refilled) * rate \in Nat
      /\ (clock - refilled) * rate <= fastest * (clock - refilled)
  BY <1>1, ProductMonotone
<1>3. Capacity(rate) \in Nat /\ Capacity(rate) <= MaxBurst
  BY <1>1, CapacityBounds
<1>4. /\ filled \in Nat /\ filled >= 1 /\ filled <= Capacity(rate)
      /\ filled <= tokens + (clock - refilled) * rate
  BY <1>1, <1>2, <1>3 DEF Take, Least
<1>5. /\ tokens' = filled - 1 /\ taken' = taken + 1 /\ refilled' = clock
      /\ UNCHANGED <<clock, rate, since, fastest>>
  BY DEF Take
<1> HIDE DEF filled
<1>6. LimTypeOK'
  BY <1>1, <1>3, <1>4, <1>5 DEF LimInv, LimTypeOK, Capacity
<1>7. taken' + tokens' <= MaxBurst + fastest * (clock - since)
  <2>1. fastest * (clock - since) \in Nat
    BY <1>1
  <2>2. CASE taken = 0
    BY <1>1, <1>3, <1>4, <1>5, <2>1, <2>2
  <2>3. CASE taken > 0
    <3>1. /\ since <= refilled
          /\ taken + tokens <= MaxBurst + fastest * (refilled - since)
      BY <2>3 DEF LimInv
    <3>2. fastest * (clock - since) = fastest * (refilled - since) + fastest * (clock - refilled)
      BY <1>1
    <3>3. fastest * (refilled - since) \in Nat /\ fastest * (clock - refilled) \in Nat
      BY <1>1, <3>1
    <3> QED
      BY <1>1, <1>2, <1>4, <1>5, <2>1, <3>1, <3>2, <3>3
  <2> QED
    BY <1>1, <2>2, <2>3
<1> QED
  BY <1>1, <1>5, <1>6, <1>7 DEF LimInv

\* A faster mode only raises the bound, a slower one may cost tokens.
LEMMA SetModeBounded ==
  ASSUME LimInv, NEW r \in Rates, SetMode(r)
  PROVE  LimInv'
<1>1. /\ clock \in 0 .. MaxClock /\ rate \in Nat /\ fastest \in Nat /\ rate <= fastest
      /\ r \in Nat /\ tokens \in Nat /\ refilled \in 0 .. clock /\ since \in 0 .. clock
      /\ taken \in Nat /\ MaxBurst \in Nat /\ MaxClock \in Nat
  BY CapacityBounds, LimiterAssumption DEF LimInv, LimTypeOK
<1>2. Capacity(r) \in Nat
  BY <1>1, CapacityBounds
<1>3. /\ tokens' \in 0 .. Capacity(r) /\ tokens' <= tokens /\ rate' = r
      /\ fastest' \in Rates /\ fastest <= fastest' /\ r <= fastest' /\ fastest' \in Nat
      /\ UNCHANGED <<clock, refilled, since, taken>>
  BY <1>1, <1>2, LimiterAssumption DEF SetMode, Least, Greatest, LimInv, LimTypeOK
<1>4. LimTypeOK'
  BY <1>1, <1>3 DEF LimInv, LimTypeOK, Capacity
<1>5. ASSUME taken > 0
      PROVE  taken + tokens' <= MaxBurst + fastest' * (refilled - since)
  <2>1. /\ since <= refilled
        /\ taken + tokens <= MaxBurst + fastest * (refilled - since)
    BY <1>5 DEF LimInv
  <2>2. ASSUME NEW f \in Nat, NEW g \in Nat, NEW d \in Nat, f <= g, NEW k \in Nat,
               NEW t \in Nat, NEW u \in Nat, u <= t, taken + t <= k + f * d
        PROVE  taken + u <= k + g * d
    <3>1. f * d <= g * d /\ f * d \in Nat /\ g * d \in Nat
      BY <2>2, ProductMonotone
    <3> QED
      BY <1>1, <2>2, <3>1
  <2>3. refilled - since \in Nat /\ tokens' \in Nat
    BY <1>1, <1>2, <1>3, <2>1
  <2> QED
    BY <1>1, <1>3, <2>1, <2>2, <2>3, Zenon
<1> QED
  BY <1>1, <1>3, <1>4, <1>5, Zenon DEF LimInv

\* In every stretch of time TokenBucketRateLimiter::acquire lets at most a burst
\* pass, and what the fastest mode of that stretch allows, and the bucket is never
\* above the capacity of the mode in effect: for all rates and all orders of
\* set_mode, acquire and pauses.
THEOREM BurstAlwaysBounded == LimSpec => [](LimTypeOK /\ BurstBounded)
<1>1. LimInit => LimInv
  <2> SUFFICES ASSUME LimInit PROVE LimInv
    OBVIOUS
  <2>1. rate \in Nat /\ MaxClock \in Nat
    BY LimiterAssumption DEF LimInit
  <2> QED
    BY <2>1, CapacityBounds DEF LimInit, LimInv, LimTypeOK
<1>2. LimInv /\ [LimNext]_limVars => LimInv'
  <2> SUFFICES ASSUME LimInv, [LimNext]_limVars PROVE LimInv'
    OBVIOUS
  <2>1. CASE ClockTicks
    BY <2>1, LimiterAssumption DEF ClockTicks, LimInv, LimTypeOK, Capacity
  <2>2. CASE WindowBegins
    BY <2>2, LimiterAssumption DEF WindowBegins, LimInv, LimTypeOK, Capacity
  <2>3. CASE UNCHANGED limVars
    BY <2>3 DEF limVars, LimInv, LimTypeOK, Capacity
  <2> QED
    BY <2>1, <2>2, <2>3, TakeBounded, SetModeBounded, Zenon DEF LimNext
<1>3. LimInv => LimTypeOK /\ BurstBounded
  <2> SUFFICES ASSUME LimInv PROVE BurstBounded
    BY DEF LimInv
  <2>1. /\ clock \in Nat /\ fastest \in Nat /\ tokens \in Nat /\ refilled \in 0 .. clock
        /\ since \in 0 .. clock /\ taken \in Nat /\ MaxBurst \in Nat
    BY CapacityBounds, LimiterAssumption DEF LimInv, LimTypeOK
  <2>2. fastest * (clock - since) \in Nat
    BY <2>1
  <2>3. CASE taken = 0
    BY <2>1, <2>2, <2>3 DEF BurstBounded
  <2>4. CASE taken > 0
    <3>1. since <= refilled /\ taken + tokens <= MaxBurst + fastest * (refilled - since)
      BY <2>4 DEF LimInv
    <3>2. fastest * (refilled - since) <= fastest * (clock - since)
          /\ fastest * (refilled - since) \in Nat
      BY <2>1, <3>1, ProductMonotone
    <3> QED
      BY <2>1, <2>2, <3>1, <3>2 DEF BurstBounded
  <2> QED
    BY <2>1, <2>3, <2>4
<1> QED
  BY <1>1, <1>2, <1>3, PTL DEF LimSpec

-----------------------------------------------------------------------------
(***************************************************************************)
(* The workers of the IPC server                                           *)
(***************************************************************************)
\* The guards alive.
Alive == {c \in Conns : conn[c] \in Guarded}

\* The inductive invariant of IpcAdmission: the invariants themselves.
AdmInv == AdmTypeOK /\ WorkersExact

\* The count before a step that gives c a guard, takes c's away, or does neither.
LEMMA AliveCounts ==
  ASSUME AdmInv, NEW c \in Conns, NEW s, Becomes(c, s)
  PROVE  /\ conn[c] \notin Guarded /\ s \in Guarded => Cardinality(Alive') = Cardinality(Alive) + 1
         /\ conn[c] \in Guarded /\ s \notin Guarded => Cardinality(Alive') = Cardinality(Alive) - 1
         /\ (conn[c] \in Guarded <=> s \in Guarded) => Alive' = Alive
         /\ conn[c] \in Guarded => Cardinality(Alive) > 0
<1>1. \A d \in Conns : conn'[d] = IF d = c THEN s ELSE conn[d]
  BY DEF AdmInv, AdmTypeOK, Becomes
<1>2. IsFiniteSet(Alive)
  BY AdmissionAssumption, FS_Subset DEF Alive
<1>3. /\ Cardinality(Alive) \in Nat
      /\ c \in Alive => Cardinality(Alive) # 0
  BY <1>2, FS_CardinalityType, FS_EmptySet
<1>4. CASE conn[c] \notin Guarded /\ s \in Guarded
  <2>1. Alive' = Alive \cup {c} /\ c \notin Alive
    BY <1>1, <1>4, Zenon DEF Alive
  <2> QED
    BY <1>2, <1>4, <2>1, FS_AddElement, SMTT(20)
<1>5. CASE conn[c] \in Guarded /\ s \notin Guarded
  <2>1. Alive' = Alive \ {c} /\ c \in Alive
    BY <1>1, <1>5, Zenon DEF Alive
  <2>2. Cardinality(Alive \ {c}) = Cardinality(Alive) - 1
    <3>1. Cardinality(Alive \ {c}) = IF c \in Alive THEN Cardinality(Alive) - 1 ELSE Cardinality(Alive)
      BY <1>2, FS_RemoveElement, Zenon
    <3> QED
      BY <3>1, <2>1, Zenon
  <2>3. Cardinality(Alive) > 0
    BY <1>3, <2>1
  <2> QED
    BY <1>5, <2>1, <2>2, <2>3, Zenon
<1>6. CASE conn[c] \in Guarded <=> s \in Guarded
  <2>1. Alive' = Alive /\ (conn[c] \in Guarded => c \in Alive)
    BY <1>1, <1>6, Zenon DEF Alive
  <2> QED
    BY <1>3, <1>6, <2>1
<1> QED
  BY <1>4, <1>5, <1>6

\* A connection moves and the count of workers follows.
LEMMA MoveKeeps ==
  ASSUME AdmInv, NEW c \in Conns,
         NEW s \in Guarded \cup {"queued", "accepted", "answered", "refused"},
         Becomes(c, s),
         \/ conn[c] \notin Guarded /\ s \in Guarded /\ workers' = workers + 1 /\ workers < MaxWorkers
         \/ conn[c] \in Guarded /\ s \notin Guarded /\ workers' = workers - 1
         \/ (conn[c] \in Guarded <=> s \in Guarded) /\ workers' = workers,
         uid' \in [Conns -> Uids], accepting' \in Conns \cup {NoConn}, current' \in 0 .. MaxWorkers
  PROVE  AdmInv'
<1>1. /\ workers \in Nat /\ workers <= MaxWorkers /\ MaxWorkers \in Nat
      /\ workers = Cardinality(Alive)
  BY AdmissionAssumption DEF AdmInv, AdmTypeOK, WorkersExact, Alive
<1>2. workers' = Cardinality(Alive') /\ workers' \in 0 .. MaxWorkers
  BY <1>1, AliveCounts
<1>3. conn' \in [Conns -> Guarded \cup {"queued", "accepted", "answered", "refused"}]
  BY Zenon DEF AdmInv, AdmTypeOK, Becomes
<1> QED
  BY <1>1, <1>2, <1>3 DEF AdmInv, AdmTypeOK, WorkersExact, Alive

\* The worker counter equals the number of guards alive and never exceeds the
\* limit, for any number of connections: the compare-exchange in
\* accept_and_handle against WorkerGuard::drop, refused commands and failed
\* spawns included.
THEOREM AdmissionExact == AdmSpec => [](AdmTypeOK /\ WorkersExact)
<1>1. AdmInit => AdmInv
  <2> SUFFICES ASSUME AdmInit PROVE AdmInv
    OBVIOUS
  <2>1. Alive = {}
    BY DEF AdmInit, Alive, Guarded
  <2>2. AdmTypeOK
    BY AdmissionAssumption DEF AdmInit, AdmTypeOK, Uids, Guarded
  <2> QED
    BY <2>1, <2>2, FS_EmptySet, AdmissionAssumption DEF AdmInit, AdmInv, WorkersExact, Alive
<1>2. AdmInv /\ [AdmNext]_admVars => AdmInv'
  <2> SUFFICES ASSUME AdmInv, [AdmNext]_admVars PROVE AdmInv'
    OBVIOUS
  <2>0. /\ workers \in 0 .. MaxWorkers /\ current \in 0 .. MaxWorkers /\ MaxWorkers \in Nat
        /\ 0 \in 0 .. MaxWorkers
        /\ uid \in [Conns -> Uids] /\ accepting \in Conns \cup {NoConn}
    BY AdmissionAssumption DEF AdmInv, AdmTypeOK
  <2>1. ASSUME NEW c \in Conns, Accept(c) PROVE AdmInv'
    BY <2>0, <2>1, MoveKeeps, Zenon DEF Accept, Guarded
  <2>2. ASSUME NEW c \in Conns, CompareExchange(c) PROVE AdmInv'
    <3>1. CASE workers = current /\ workers' = current + 1 /\ Becomes(c, "counted") /\ UNCHANGED current
      <4>1. workers < MaxWorkers /\ workers' = workers + 1
        BY <2>2, <3>1, Zenon DEF CompareExchange
      <4> QED
        BY <2>0, <2>2, <3>1, <4>1, MoveKeeps, Zenon DEF CompareExchange, Guarded
    <3>2. CASE current' = workers /\ UNCHANGED <<workers, conn>>
      BY <2>0, <2>2, <3>2, Zenon DEF CompareExchange, AdmInv, AdmTypeOK, WorkersExact
    <3> QED
      BY <2>2, <3>1, <3>2, Zenon DEF CompareExchange
  <2>3. ASSUME NEW c \in Conns, RejectBusy(c) PROVE AdmInv'
    BY <2>0, <2>3, MoveKeeps, Zenon DEF RejectBusy, Guarded
  <2>4. ASSUME NEW c \in Conns, SpawnIpcWorker(c) PROVE AdmInv'
    BY <2>0, <2>4, MoveKeeps, Zenon DEF SpawnIpcWorker, Guarded
  <2>5. ASSUME NEW c \in Conns, ReadCommand(c) PROVE AdmInv'
    BY <2>0, <2>5, MoveKeeps, Zenon DEF ReadCommand, Guarded
  <2>6. ASSUME NEW c \in Conns, WorkerEnds(c) PROVE AdmInv'
    BY <2>0, <2>6, MoveKeeps, Zenon DEF WorkerEnds, Guarded
  <2>7. CASE UNCHANGED admVars
    BY <2>7, Zenon DEF admVars, AdmInv, AdmTypeOK, WorkersExact
  <2> QED
    BY <2>1, <2>2, <2>3, <2>4, <2>5, <2>6, <2>7, Zenon DEF AdmNext
<1> QED
  BY <1>1, <1>2, PTL DEF AdmSpec, AdmInv

-----------------------------------------------------------------------------
(***************************************************************************)
(* The idle assessment                                                     *)
(***************************************************************************)
\* Every non-empty set of natural numbers has a least one.
LEMMA LeastNumber ==
  ASSUME NEW T \in SUBSET Nat, T # {}
  PROVE  \E x \in T : \A y \in T : x <= y
<1> DEFINE R == OpToRel(<, Nat)
<1>1. IsWellFoundedOn(R, Nat)
  BY NatLessThanWellFounded, Zenon
<1>2. \A x, y \in Nat : <<y, x>> \in R <=> y < x
  BY DEF OpToRel
<1> HIDE DEF R
<1>3. PICK x \in T : \A y \in T : <<y, x>> \notin R
  BY <1>1, WFMin, Zenon
<1>4. ASSUME NEW y \in T PROVE x <= y
  <2>1. x \in Nat /\ y \in Nat /\ ~(y < x)
    BY <1>2, <1>3, Zenon
  <2> QED
    BY <2>1
<1> QED
  BY <1>3, <1>4, Zenon

\* Every non-empty set of naturals with a bound has a greatest one: read_thermal
\* takes the maximum over the zones.
LEMMA GreatestNumber ==
  ASSUME NEW n \in Nat, NEW T \in SUBSET (0 .. n), T # {}
  PROVE  \E x \in T : \A y \in T : y <= x
<1> DEFINE D == {n - t : t \in T}
<1>1. D \in SUBSET Nat /\ D # {}
  <2>1. \A t \in 0 .. n : n - t \in Nat
    OBVIOUS
  <2> QED
    BY <2>1, Zenon
<1>2. PICK d \in D : \A e \in D : d <= e
  BY <1>1, LeastNumber, Zenon
<1>3. PICK x \in T : d = n - x
  BY <1>2, Zenon
<1>4. ASSUME NEW y \in T PROVE y <= x
  <2>1. n - x <= n - y
    BY <1>2, <1>3, Zenon
  <2>2. x \in 0 .. n /\ y \in 0 .. n
    BY Zenon
  <2> QED
    BY <2>1, <2>2
<1> QED
  BY <1>3, <1>4, Zenon

\* Readings that leave nothing to the hysteresis, besides the hot ones.
CriticalReading(temp) == temp >= Milli(50)
CoolReading(temp) == temp # 0 /\ temp <= Milli(40)

\* The thresholds of next_state and of the score, in order.
LEMMA Thresholds ==
  /\ Milli(38) \in Nat /\ Milli(40) \in Nat /\ Milli(45) \in Nat /\ Milli(50) \in Nat
  /\ Milli(120) \in Nat
  /\ 0 < Milli(38) /\ Milli(38) < Milli(40) /\ Milli(40) < Milli(45) /\ Milli(45) < Milli(50)
  /\ Milli(50) < Milli(120)
BY DEF Milli

\* A reading is hot, critical, cool or undecided, and only one of them.
LEMMA ReadingKinds ==
  ASSUME NEW temp \in Temperatures
  PROVE  /\ HotReading(temp) \/ CriticalReading(temp) \/ CoolReading(temp) \/ Undecided(temp)
         /\ HotReading(temp) => ~CriticalReading(temp) /\ ~CoolReading(temp) /\ ~Undecided(temp)
         /\ CriticalReading(temp) => ~CoolReading(temp) /\ ~Undecided(temp)
         /\ CoolReading(temp) => ~Undecided(temp)
         /\ temp > 0 <=> temp # 0
         /\ temp = 0 => Undecided(temp)
BY Thresholds DEF Temperatures, Plausible, HotReading, CriticalReading, CoolReading, Undecided

\* What a worker carries between its read and its store: the state its reading
\* asks for, whatever the hysteresis was when it read it.
CarriesReading(r) ==
  /\ CriticalReading(r.temp) => r.state = "Critical"
  /\ HotReading(r.temp) => r.state = "Hot"
  /\ CoolReading(r.temp) => r.state = "Normal"

\* Alone between its read and its store, a worker carries the hysteresis on.
FollowsHysteresis ==
  ~readsOverlapped =>
    /\ hot <=> thermal_state = "Hot"
    /\ \A v, w \in Workers : worker[v].at = "store" /\ worker[w].at = "store" => v = w
    /\ \A w \in Workers : worker[w].at = "store" =>
         worker[w].state = IF worker[w].temp > 0 THEN next_state(thermal_state, worker[w].temp)
                           ELSE thermal_state

\* What a worker carries between reading and storing.
WorkerRecords == [at : {"rest", "store"}, temp : Temperatures, state : ThermalStates]

\* The inductive invariant of IdlePolicy.
IdleInv ==
  /\ thermal_state \in ThermalStates
  /\ worker \in [Workers -> WorkerRecords]
  /\ \A w \in Workers : worker[w].at = "store" => CarriesReading(worker[w])
  /\ hot \in BOOLEAN /\ readsOverlapped \in BOOLEAN
  /\ FollowsHysteresis

\* The hottest of some plausible temperatures, or 0 of none.
LEMMA HottestIsOne ==
  ASSUME NEW S \in SUBSET Plausible
  PROVE  Hottest(S) \in Temperatures
<1>1. CASE S = {}
  BY <1>1 DEF Hottest, Temperatures
<1>2. CASE S # {}
  <2> DEFINE top == Milli(120) - 1
  <2>1. top \in Nat /\ Plausible \subseteq 0 .. top
    BY Thresholds DEF Plausible
  <2> HIDE DEF top
  <2>2. \E t \in S : \A u \in S : u <= t
    BY <1>2, <2>1, GreatestNumber, Zenon
  <2> DEFINE m == CHOOSE t \in S : \A u \in S : u <= t
  <2>3. m \in S
    BY <2>2, Zenon
  <2>4. Hottest(S) = m
    BY <1>2, Zenon DEF Hottest
  <2> HIDE DEF m
  <2> QED
    BY <2>3, <2>4, Zenon DEF Temperatures
<1> QED
  BY <1>1, <1>2, Zenon

\* read_thermal returns a plausible temperature, or 0 for none.
LEMMA ThermalInRange ==
  ASSUME NEW zones
  PROVE  read_thermal(zones) \in Temperatures
<1> DEFINE plausible(soc) == {normalize_temp(z.raw) : z \in {x \in zones : x.soc = soc}} \cap Plausible
<1>1. \A soc : plausible(soc) \in SUBSET Plausible
  BY Zenon
<1>2. read_thermal(zones) = IF plausible(TRUE) # {} THEN Hottest(plausible(TRUE)) ELSE Hottest(plausible(FALSE))
  BY Zenon DEF read_thermal
<1> HIDE DEF plausible
<1> QED
  BY <1>1, <1>2, HottestIsOne, Zenon

\* The state next_state gives fits the temperature read.
LEMMA NextStateCarries ==
  ASSUME NEW cur \in ThermalStates, NEW temp \in Temperatures, temp # 0
  PROVE  /\ next_state(cur, temp) \in ThermalStates
         /\ CriticalReading(temp) => next_state(cur, temp) = "Critical"
         /\ HotReading(temp) => next_state(cur, temp) = "Hot"
         /\ Undecided(temp) => (next_state(cur, temp) = "Hot" <=> cur = "Hot")
         /\ CoolReading(temp) => next_state(cur, temp) = "Normal"
<1>1. temp \in Nat
  BY Thresholds DEF Temperatures, Plausible
<1>2. next_state(cur, temp) \in ThermalStates
  BY DEF next_state, ThermalStates
<1>3. /\ CriticalReading(temp) => next_state(cur, temp) = "Critical"
      /\ HotReading(temp) => next_state(cur, temp) = "Hot"
  BY <1>1, Thresholds DEF next_state, CriticalReading, HotReading
<1>4. /\ Undecided(temp) => (next_state(cur, temp) = "Hot" <=> cur = "Hot")
      /\ CoolReading(temp) => next_state(cur, temp) = "Normal"
  BY <1>1, Thresholds DEF next_state, CoolReading, Undecided
<1> QED
  BY <1>2, <1>3, <1>4

\* compute_thermal_state keeps the invariant.
LEMMA ReadKeeps ==
  ASSUME IdleInv, NEW w \in Workers, ReadThermal(w)
  PROVE  IdleInv'
<1>1. PICK zones \in ZoneReads :
        worker' = [worker EXCEPT ![w] =
          [at |-> "store", temp |-> read_thermal(zones),
           state |-> IF read_thermal(zones) > 0 THEN next_state(thermal_state, read_thermal(zones))
                     ELSE thermal_state]]
  BY Zenon DEF ReadThermal
<1> DEFINE temp == read_thermal(zones)
           state == IF temp > 0 THEN next_state(thermal_state, temp) ELSE thermal_state
           new == [at |-> "store", temp |-> temp, state |-> state]
<1>2. temp \in Temperatures
  BY ThermalInRange, Zenon
<1>3. /\ worker' = [worker EXCEPT ![w] = new] /\ worker[w].at = "rest"
      /\ readsOverlapped' = (readsOverlapped \/ \E v \in Workers : worker[v].at = "store")
      /\ UNCHANGED <<thermal_state, hot>>
  BY <1>1, Zenon DEF ReadThermal
<1> HIDE DEF temp
<1>4. state \in ThermalStates
  <2>1. CASE temp > 0
    <3>1. temp # 0 /\ state = next_state(thermal_state, temp)
      BY <1>2, <2>1, ReadingKinds, Zenon
    <3> QED
      BY <1>2, <3>1, NextStateCarries, Zenon DEF IdleInv
  <2> QED
    BY <2>1, Zenon DEF IdleInv
<1>5. CarriesReading([temp |-> temp, at |-> "store", state |-> state])
  <2>1. CASE temp > 0
    <3>1. temp # 0 /\ state = next_state(thermal_state, temp)
      BY <1>2, <2>1, ReadingKinds, Zenon
    <3>a. thermal_state \in ThermalStates
      BY Zenon DEF IdleInv
    <3> HIDE DEF state
    <3>2. /\ CriticalReading(temp) => state = "Critical"
          /\ HotReading(temp) => state = "Hot"
          /\ CoolReading(temp) => state = "Normal"
      BY <1>2, <3>1, <3>a, NextStateCarries, Zenon
    <3> QED
      BY <3>2 DEF CarriesReading
  <2>2. CASE ~(temp > 0)
    <3>1. ~CriticalReading(temp) /\ ~HotReading(temp) /\ ~CoolReading(temp)
      BY <1>2, <2>2, ReadingKinds, Zenon
    <3> HIDE DEF state
    <3> QED
      BY <3>1 DEF CarriesReading
  <2> QED
    BY <2>1, <2>2, Zenon
<1>6. new \in WorkerRecords /\ new.at = "store" /\ new.temp = temp /\ new.state = state
  <2> HIDE DEF state
  <2> QED
    BY <1>2, <1>4 DEF WorkerRecords
<1>7. CarriesReading(new)
  BY <1>5, Zenon DEF CarriesReading
<1> HIDE DEF new
<1>8. /\ worker' \in [Workers -> WorkerRecords]
      /\ worker'[w] = new /\ \A v \in Workers \ {w} : worker'[v] = worker[v]
  BY <1>3, <1>6, Zenon DEF IdleInv
<1>9. \A v \in Workers : worker'[v].at = "store" => CarriesReading(worker'[v])
  BY <1>7, <1>8, Zenon DEF IdleInv
<1>10. FollowsHysteresis'
  <2> SUFFICES ASSUME ~readsOverlapped'
               PROVE  /\ hot' <=> thermal_state' = "Hot"
                      /\ \A u, v \in Workers : worker'[u].at = "store" /\ worker'[v].at = "store" => u = v
                      /\ \A v \in Workers : worker'[v].at = "store" =>
                           worker'[v].state = IF worker'[v].temp > 0
                                              THEN next_state(thermal_state', worker'[v].temp)
                                              ELSE thermal_state'
    BY Zenon DEF FollowsHysteresis
  <2>1. ~readsOverlapped /\ \A v \in Workers : worker[v].at # "store"
    BY <1>3, Zenon
  <2>2. \A v \in Workers : worker'[v].at = "store" => v = w
    BY <1>8, <2>1, Zenon
  <2>3. hot <=> thermal_state = "Hot"
    BY <2>1, Zenon DEF IdleInv, FollowsHysteresis
  <2> QED
    BY <1>3, <1>6, <1>8, <2>2, <2>3, Zenon
<1>11. readsOverlapped' \in BOOLEAN
  BY <1>3, Zenon
<1> QED
  BY <1>3, <1>8, <1>9, <1>10, <1>11, Zenon DEF IdleInv

\* set_thermal_state keeps the invariant.
LEMMA StoreKeeps ==
  ASSUME IdleInv, NEW w \in Workers, StoreAndAnswer(w)
  PROVE  IdleInv'
<1> DEFINE r == worker[w]
<1>1. /\ r.at = "store" /\ thermal_state' = r.state
      /\ worker' = [worker EXCEPT ![w] = Resting] /\ readsOverlapped' = readsOverlapped
  BY Zenon DEF StoreAndAnswer
<1>2. hot' = IF HotReading(r.temp) THEN TRUE ELSE IF Undecided(r.temp) THEN hot ELSE FALSE
  BY Zenon DEF StoreAndAnswer
<1>3. r \in WorkerRecords /\ CarriesReading(r)
  BY <1>1, Zenon DEF IdleInv
<1>4. r.state \in ThermalStates /\ r.temp \in Temperatures
  BY <1>3 DEF WorkerRecords
<1>5. Resting \in WorkerRecords /\ Resting.at = "rest"
  BY DEF Resting, WorkerRecords, ThermalStates, Temperatures
<1>6. /\ worker' \in [Workers -> WorkerRecords]
      /\ worker'[w] = Resting /\ \A v \in Workers \ {w} : worker'[v] = worker[v]
  BY <1>1, <1>5, Zenon DEF IdleInv
<1>7. \A v \in Workers : worker'[v].at = "store" => v # w /\ worker'[v] = worker[v]
  <2>1. Resting.at # "store"
    BY <1>5
  <2> QED
    BY <1>6, <2>1, Zenon
<1>8. FollowsHysteresis'
  <2> SUFFICES ASSUME ~readsOverlapped
               PROVE  /\ hot' <=> thermal_state' = "Hot"
                      /\ \A v \in Workers : worker'[v].at # "store"
    BY <1>1, Zenon DEF FollowsHysteresis
  <2>1. \A v \in Workers : worker[v].at = "store" => v = w
    BY <1>1, Zenon DEF IdleInv, FollowsHysteresis
  <2>2. hot <=> thermal_state = "Hot"
    BY Zenon DEF IdleInv, FollowsHysteresis
  <2>3. r.state = IF r.temp > 0 THEN next_state(thermal_state, r.temp) ELSE thermal_state
    BY <1>1, Zenon DEF IdleInv, FollowsHysteresis
  <2> HIDE DEF r
  <2>4. hot' <=> r.state = "Hot"
    <3>1. CASE Undecided(r.temp)
      <4>1. hot' = hot
        BY <1>2, <1>4, <3>1, ReadingKinds, Zenon
      <4>2. CASE r.temp = 0
        BY <1>4, <2>2, <2>3, <4>1, <4>2, ReadingKinds, Zenon
      <4>3. CASE r.temp # 0
        <5>1. r.state = next_state(thermal_state, r.temp) /\ thermal_state \in ThermalStates
          BY <1>4, <2>3, <4>3, ReadingKinds, Zenon DEF IdleInv
        <5>2. r.state = "Hot" <=> thermal_state = "Hot"
          BY <1>4, <3>1, <4>3, <5>1, NextStateCarries, Zenon
        <5> QED
          BY <2>2, <4>1, <5>2, Zenon
      <4> QED
        BY <4>2, <4>3, Zenon
    <3>2. CASE HotReading(r.temp)
      BY <1>2, <1>3, <3>2, Zenon DEF CarriesReading
    <3>3. CASE CoolReading(r.temp) \/ CriticalReading(r.temp)
      <4>1. r.state # "Hot"
        BY <1>3, <3>3 DEF CarriesReading
      <4>2. hot' = FALSE
        BY <1>2, <1>4, <3>3, ReadingKinds, Zenon
      <4> QED
        BY <4>1, <4>2, Zenon
    <3> QED
      BY <1>4, <3>1, <3>2, <3>3, ReadingKinds, Zenon
  <2> QED
    BY <1>1, <1>7, <2>1, <2>4, Zenon
<1>9. hot' \in BOOLEAN
  BY <1>2, Zenon DEF IdleInv
<1> QED
  BY <1>1, <1>4, <1>6, <1>7, <1>8, <1>9, Zenon DEF IdleInv

\* The verdict on any context a worker can read.
LEMMA VerdictOfReading ==
  ASSUME NEW r \in WorkerRecords, CarriesReading(r), NEW c \in Contexts(r.temp)
  PROVE  LET v == evaluate(c, r.state)
         IN /\ v.standard = "Allowed" =>
                 /\ c.screen = "Off" /\ ~c.active /\ c.offFor = 1
                 /\ c.battery >= 20 /\ c.temp < Milli(45) /\ v.rate > 0
                 /\ c.cpu \in {NoReading} \cup 0 .. 9 /\ c.io \in {NoReading} \cup 0 .. 7
            /\ v.heavy = "Allowed" <=> v.state = "DeepIdle"
            /\ v.heavy = "Allowed" => v.standard = "Allowed"
            /\ v.score = 100 => v.heavy = "Allowed"
<1> DEFINE th == r.state
           v == evaluate(c, th)
<1>1. /\ v.score = Score(c) /\ v.state = IdleStateOf(c, th) /\ v.rate = rate_limit(c, th)
      /\ v.standard = standard_maintenance(c, th) /\ v.heavy = heavy_maintenance(c, th)
  BY DEF evaluate
<1> HIDE DEF v
<1>2. /\ r.temp \in Temperatures /\ th \in ThermalStates
      /\ c.temp = r.temp /\ c.active \in BOOLEAN /\ c.charging \in BOOLEAN
      /\ c.offFor \in {NoReading, 0, 1} /\ c.cpu \in Pressures /\ c.io \in Pressures
      /\ c.battery \in {IF b = NoReading THEN 50 ELSE b : b \in Percents}
  BY DEF WorkerRecords, Contexts
<1>3. c.battery \in Nat /\ c.cpu \in Nat \cup {NoReading} /\ c.io \in Nat \cup {NoReading}
  <2>1. PICK b \in Percents : c.battery = IF b = NoReading THEN 50 ELSE b
    BY <1>2, Zenon
  <2>2. Percents \subseteq Nat \cup {NoReading} /\ Pressures \subseteq Nat \cup {NoReading}
    BY IdleAssumption
  <2>3. c.battery \in Nat
    BY <2>1, <2>2
  <2> QED
    BY <1>2, <2>2, <2>3, Zenon
<1>4. ASSUME v.standard = "Allowed"
      PROVE  /\ c.screen = "Off" /\ ~c.active /\ c.offFor = 1
             /\ c.battery >= 20 /\ c.temp < Milli(45) /\ v.rate > 0
             /\ c.cpu \in {NoReading} \cup 0 .. 9 /\ c.io \in {NoReading} \cup 0 .. 7
  <2>1. /\ th # "Hot" /\ th # "Critical" /\ GraceElapsed(c) /\ ~c.active
        /\ ~(c.battery < 20) /\ ~CpuHigh(c) /\ ~IoHigh(c)
    BY <1>1, <1>4, SMTT(20) DEF standard_maintenance
  <2>2. c.screen = "Off" /\ c.offFor = 1
    BY <1>2, <2>1 DEF GraceElapsed, ScreenOff
  <2>3. c.temp < Milli(45)
    <3>1. ~CriticalReading(r.temp) /\ ~HotReading(r.temp)
      BY <2>1 DEF CarriesReading
    <3> QED
      BY <1>2, <3>1, Thresholds DEF Temperatures, Plausible, CriticalReading, HotReading
  <2>4. th \in {"Warm", "Normal"}
    BY <1>2, <2>1, Zenon DEF ThermalStates
  <2>5. v.rate > 0
    BY <1>1, <2>1, <2>4 DEF rate_limit
  <2>6. c.cpu \in {NoReading} \cup 0 .. 9 /\ c.io \in {NoReading} \cup 0 .. 7
    BY <1>3, <2>1 DEF CpuHigh, IoHigh
  <2> QED
    BY <1>3, <2>1, <2>2, <2>3, <2>5, <2>6
<1>5. v.heavy = "Allowed" => v.standard = "Allowed" /\ v.state = "DeepIdle"
  BY <1>1 DEF heavy_maintenance
<1>6. v.state = "DeepIdle" => v.heavy = "Allowed"
  <2> SUFFICES ASSUME v.state = "DeepIdle" PROVE v.heavy = "Allowed"
    OBVIOUS
  <2>1. ScreenOff(c) /\ ~c.active /\ th # "Critical" /\ GraceElapsed(c) /\ DeepEligible(c, th)
    BY <1>1 DEF IdleStateOf
  <2>2. c.charging /\ c.battery >= 70 /\ th = "Normal" /\ CpuLow(c) /\ IoLow(c)
    BY <2>1, Zenon DEF DeepEligible
  <2>3. ~CpuHigh(c) /\ ~IoHigh(c) /\ ~(c.battery < 20)
    BY <1>3, <2>2 DEF CpuHigh, IoHigh, CpuLow, IoLow
  <2>4. standard_maintenance(c, th) = "Allowed"
    BY <2>1, <2>2, <2>3 DEF standard_maintenance
  <2> QED
    BY <1>1, <2>2, <2>4 DEF heavy_maintenance
<1>7. v.score = 100 => v.state = "DeepIdle"
  <2> SUFFICES ASSUME v.score = 100 PROVE v.state = "DeepIdle"
    OBVIOUS
  <2>1. ASSUME NEW b, NEW n \in {10, 15, 25}
        PROVE  Points(b, n) \in 0 .. n /\ (Points(b, n) = n => b)
    BY DEF Points
  <2>3. /\ ScreenOff(c) /\ GraceElapsed(c) /\ c.charging /\ c.battery >= 70
        /\ c.cpu # NoReading /\ c.cpu < 5 /\ c.io # NoReading /\ c.io < 3
        /\ c.temp # 0 /\ c.temp < Milli(38) /\ ~c.active
    <3> DEFINE p1 == Points(ScreenOff(c), 25)
               p2 == Points(GraceElapsed(c), 10)
               p3 == Points(c.charging, 15)
               p4 == Points(c.battery >= 70, 10)
               p5 == Points(c.cpu # NoReading /\ c.cpu < 5, 10)
               p6 == Points(c.io # NoReading /\ c.io < 3, 10)
               p7 == Points(c.temp # 0 /\ c.temp < Milli(38), 10)
               p8 == Points(~c.active, 10)
    <3>1. p1 + p2 + p3 + p4 + p5 + p6 + p7 + p8 = 100
      BY <1>1, Zenon DEF Score
    <3>2. /\ p1 \in 0 .. 25 /\ (p1 = 25 => ScreenOff(c))
          /\ p2 \in 0 .. 10 /\ (p2 = 10 => GraceElapsed(c))
          /\ p3 \in 0 .. 15 /\ (p3 = 15 => c.charging)
          /\ p4 \in 0 .. 10 /\ (p4 = 10 => c.battery >= 70)
      <4>1. p1 \in 0 .. 25 /\ (p1 = 25 => ScreenOff(c))
        BY DEF Points
      <4>2. p2 \in 0 .. 10 /\ (p2 = 10 => GraceElapsed(c))
        BY DEF Points
      <4>3. p3 \in 0 .. 15 /\ (p3 = 15 => c.charging)
        BY DEF Points
      <4>4. p4 \in 0 .. 10 /\ (p4 = 10 => c.battery >= 70)
        BY DEF Points
      <4> HIDE DEF p1, p2, p3, p4
      <4> QED
        BY <4>1, <4>2, <4>3, <4>4, Zenon
    <3>3. /\ p5 \in 0 .. 10 /\ (p5 = 10 => c.cpu # NoReading /\ c.cpu < 5)
          /\ p6 \in 0 .. 10 /\ (p6 = 10 => c.io # NoReading /\ c.io < 3)
          /\ p7 \in 0 .. 10 /\ (p7 = 10 => c.temp # 0 /\ c.temp < Milli(38))
          /\ p8 \in 0 .. 10 /\ (p8 = 10 => ~c.active)
      BY <2>1, Zenon
    <3>4. /\ p1 \in 0 .. 25 /\ p2 \in 0 .. 10 /\ p3 \in 0 .. 15 /\ p4 \in 0 .. 10
          /\ p5 \in 0 .. 10 /\ p6 \in 0 .. 10 /\ p7 \in 0 .. 10 /\ p8 \in 0 .. 10
      BY <3>2, <3>3, Zenon
    <3> HIDE DEF p1, p2, p3, p4, p5, p6, p7, p8
    <3>5. p1 = 25 /\ p2 = 10 /\ p3 = 15 /\ p4 = 10 /\ p5 = 10 /\ p6 = 10 /\ p7 = 10 /\ p8 = 10
      BY <3>1, <3>4
    <3> QED
      BY <3>2, <3>3, <3>5, Zenon
  <2>4. th = "Normal"
    <3>1. r.temp # 0 /\ r.temp < Milli(38) /\ r.temp \in Temperatures
      BY <1>2, <2>3, Zenon
    <3>2. CoolReading(r.temp)
      BY <3>1, Thresholds DEF CoolReading, Temperatures, Plausible
    <3> QED
      BY <3>2 DEF CarriesReading
  <2>5. CpuLow(c) /\ IoLow(c) /\ ThermalSafe(c)
    <3>1. CpuLow(c) /\ IoLow(c)
      BY <2>3 DEF CpuLow, IoLow
    <3> QED
      BY <1>2, <2>3, <3>1, Thresholds DEF ThermalSafe, Temperatures, Plausible
  <2> QED
    BY <1>1, <2>3, <2>4, <2>5 DEF IdleStateOf, DeepEligible
<1> QED
  BY <1>4, <1>5, <1>6, <1>7, Zenon DEF v

\* No assessment allows maintenance against its own readings: for all thermal zones
\* and all the other readings, and with any number of workers that share the
\* remembered thermal state, IdlePolicy::evaluate allows standard maintenance only
\* with the screen off, nobody active, the battery at 20 % or more and below 45
\* degrees, heavy maintenance in DeepIdle exactly; and unless two workers
\* overlapped, the remembered state is Hot exactly while the last reading outside
\* 40 to 45 degrees was at least 45 and below 50.
THEOREM VerdictAlwaysSafe == IdleSpec => [](IdleTypeOK /\ VerdictSafe)
<1>1. IdleInit => IdleInv
  <2>1. Resting \in WorkerRecords /\ Resting.at # "store"
    BY DEF Resting, WorkerRecords, ThermalStates, Temperatures
  <2>2. "Normal" \in ThermalStates /\ "Normal" # "Hot"
    BY DEF ThermalStates
  <2> QED
    BY <2>1, <2>2, Zenon DEF IdleInit, IdleInv, FollowsHysteresis
<1>2. IdleInv /\ [IdleNext]_idleVars => IdleInv'
  <2>1. ASSUME IdleInv, UNCHANGED idleVars
        PROVE  IdleInv'
    <3>1. UNCHANGED <<thermal_state, worker, hot, readsOverlapped>>
      BY <2>1, Zenon DEF idleVars
    <3>2. FollowsHysteresis'
      BY <2>1, <3>1, Zenon DEF IdleInv, FollowsHysteresis
    <3>3. \A w \in Workers : worker'[w].at = "store" => CarriesReading(worker'[w])
      BY <2>1, <3>1, Zenon DEF IdleInv
    <3> QED
      BY <2>1, <3>1, <3>2, <3>3, Zenon DEF IdleInv
  <2> QED
    BY <2>1, ReadKeeps, StoreKeeps, Zenon DEF IdleNext
<1>3. IdleInv => IdleTypeOK /\ VerdictSafe
  BY VerdictOfReading, Zenon DEF IdleInv, FollowsHysteresis, IdleTypeOK, VerdictSafe, WorkerRecords
<1> QED
  BY <1>1, <1>2, <1>3, PTL DEF IdleSpec

-----------------------------------------------------------------------------
(***************************************************************************)
(* The layers of the configuration                                         *)
(***************************************************************************)
\* The configurations there can be.
Configs == Contents \cup {Default}

\* Where a reload has come, and what the two copies are then.
CopiesFollowReload ==
  ~reloadsOverlapped =>
    /\ \A q, r \in Reloaders : reload[q] # Nothing /\ reload[r] # Nothing => q = r
    /\ (\A r \in Reloaders : reload[r] = Nothing) => config = engine.config
    /\ \A r \in Reloaders : reload[r] # Nothing =>
         IF reload[r].at = "engine" THEN config = engine.config ELSE engine.config = reload[r].config

\* Jobs ran with generations up to the current one, which is the engine's.
GenerationsIdentify ==
  /\ \A a \in ran :
       /\ a.generation \in 1 .. engine.generation
       /\ a.generation = engine.generation /\ a.generation < MaxGeneration => a = engine
       /\ validate(a.config) /\ a.config.soc # NaN
  /\ \A a, b \in ran : a.generation = b.generation /\ a.generation < MaxGeneration => a = b

\* A file is torn only where the owner wrote; the draft is whole before its rename.
FilesWhole ==
  /\ files \in [Layers -> Configs \cup {Missing, Torn}]
  /\ \A p \in Layers : files[p] = Torn => p \in edited
  /\ saving = "written" => draft = Default

\* The inductive invariant of ConfigLayers.
ConfInv ==
  /\ ConfTypeOK
  /\ engine \in [config : Configs, generation : 1 .. MaxGeneration]
  /\ reload \in [Reloaders -> {Nothing} \cup [at : {"engine", "daemon"}, config : Configs]]
  /\ \A r \in Reloaders : reload[r] # Nothing => validate(reload[r].config)
  /\ validate(config) /\ validate(engine.config)
  /\ CopiesFollowReload /\ GenerationsIdentify /\ FilesWhole

\* Whatever is read from a file has passed validate.
LEMMA LoadedIsValid ==
  ASSUME FilesWhole, NEW p \in Layers, load_from_file_strict(p) # Nothing
  PROVE  load_from_file_strict(p) \in Configs /\ validate(load_from_file_strict(p))
BY Zenon DEF load_from_file_strict, FilesWhole

\* load_or_default_with_path returns a valid configuration and a layer, or the default.
LEMMA DefaultedIsValid ==
  ASSUME FilesWhole, NEW p
  PROVE  /\ load_or_default_with_path(p).config \in Configs
         /\ validate(load_or_default_with_path(p).config)
         /\ load_or_default_with_path(p).path \in Layers \cup {Nothing}
<1>1. validate(Default) /\ Default \in Configs
  BY ConfigAssumption, Zenon DEF Configs
<1>2. {"given", "mandatory", "local"} = Layers
  BY Zenon DEF Layers
<1>3. \A q : Found(q).config = load_from_file_strict(q) /\ Found(q).path = q
  BY DEF Found
<1>4. [config |-> Default, path |-> Nothing].config = Default
      /\ [config |-> Default, path |-> Nothing].path = Nothing
  OBVIOUS
<1> HIDE DEF Found
<1> QED
  BY <1>1, <1>2, <1>3, <1>4, LoadedIsValid, Zenon DEF load_or_default_with_path

\* reload_from_path returns a valid configuration or nothing.
LEMMA ReloadedIsValid ==
  ASSUME FilesWhole, NEW p \in Layers \cup {Nothing}, reload_from_path(p) # Nothing
  PROVE  reload_from_path(p) \in Configs /\ validate(reload_from_path(p))
<1>1. "mandatory" \in Layers
  BY DEF Layers
<1> QED
  BY <1>1, LoadedIsValid, DefaultedIsValid, Zenon DEF reload_from_path

\* Steps on the files leave what the daemon holds alone.
LEMMA FileStepKeeps ==
  ASSUME ConfInv, UNCHANGED heldVars, saving' \in {"no", "created", "written"}, FilesWhole'
  PROVE  ConfInv'
BY Zenon DEF heldVars, ConfInv, ConfTypeOK, CopiesFollowReload, GenerationsIdentify

\* Steps on what the daemon holds leave the files alone.
LEMMA FilesKept ==
  ASSUME ConfInv, UNCHANGED fileVars
  PROVE  FilesWhole' /\ saving' \in {"no", "created", "written"}
BY Zenon DEF fileVars, ConfInv, ConfTypeOK, FilesWhole

\* Reading the file of a reload keeps the invariant.
LEMMA ReloadBeginsKeeps ==
  ASSUME ConfInv, NEW r \in Reloaders, ReloadBegins(r)
  PROVE  ConfInv'
<1> DEFINE c == reload_from_path(active_config_path)
           new == [at |-> "engine", config |-> c]
<1>1. /\ reload[r] = Nothing /\ c # Nothing
      /\ reload' = [reload EXCEPT ![r] = new]
      /\ reloadsOverlapped' = (reloadsOverlapped \/ \E q \in Reloaders : reload[q] # Nothing)
      /\ UNCHANGED <<fileVars, active_config_path, config, engine, ran>>
  BY Zenon DEF ReloadBegins
<1>2. c \in Configs /\ validate(c)
  BY <1>1, ReloadedIsValid, Zenon DEF ConfInv, ConfTypeOK
<1> HIDE DEF c
<1>3. /\ new \in [at : {"engine", "daemon"}, config : Configs]
      /\ new.at = "engine" /\ new.config = c
  BY <1>2
<1>4. new # Nothing
  BY <1>3, ConfigAssumption, Zenon DEF Configs
<1> HIDE DEF new
<1>5. /\ reload' \in [Reloaders -> {Nothing} \cup [at : {"engine", "daemon"}, config : Configs]]
      /\ reload'[r] = new /\ \A q \in Reloaders \ {r} : reload'[q] = reload[q]
  BY <1>1, <1>3, Zenon DEF ConfInv
<1>6. CopiesFollowReload'
  <2> SUFFICES ASSUME ~reloadsOverlapped'
               PROVE  /\ \A p, q \in Reloaders : reload'[p] # Nothing /\ reload'[q] # Nothing => p = q
                      /\ (\A q \in Reloaders : reload'[q] = Nothing) => config' = engine'.config
                      /\ \A q \in Reloaders : reload'[q] # Nothing =>
                           IF reload'[q].at = "engine" THEN config' = engine'.config
                           ELSE engine'.config = reload'[q].config
    BY Zenon DEF CopiesFollowReload
  <2>1. ~reloadsOverlapped /\ \A q \in Reloaders : reload[q] = Nothing
    BY <1>1, Zenon
  <2>2. config = engine.config
    BY <2>1, Zenon DEF ConfInv, CopiesFollowReload
  <2>3. \A q \in Reloaders : reload'[q] # Nothing => q = r
    BY <1>5, <2>1, Zenon
  <2> QED
    BY <1>1, <1>3, <1>5, <2>2, <2>3, Zenon
<1>7. \A q \in Reloaders : reload'[q] # Nothing => validate(reload'[q].config)
  BY <1>2, <1>3, <1>5, Zenon DEF ConfInv
<1>8. GenerationsIdentify' /\ FilesWhole' /\ ConfTypeOK'
  BY <1>1, FilesKept, Zenon DEF ConfInv, GenerationsIdentify, ConfTypeOK
<1> QED
  BY <1>1, <1>5, <1>6, <1>7, <1>8, Zenon DEF ConfInv

\* Giving the engine the new configuration keeps the invariant.
LEMMA ReloadEngineKeeps ==
  ASSUME ConfInv, NEW r \in Reloaders, ReloadEngine(r)
  PROVE  ConfInv'
<1> DEFINE next == IF engine.generation = MaxGeneration THEN MaxGeneration ELSE engine.generation + 1
           new == [reload[r] EXCEPT !.at = "daemon"]
<1>1. /\ reload[r] # Nothing /\ reload[r].at = "engine"
      /\ engine' = [config |-> reload[r].config, generation |-> next]
      /\ reload' = [reload EXCEPT ![r].at = "daemon"]
      /\ UNCHANGED <<fileVars, active_config_path, config, ran, reloadsOverlapped>>
  BY Zenon DEF ReloadEngine, update_config
<1>2. reload[r] \in [at : {"engine", "daemon"}, config : Configs] /\ validate(reload[r].config)
  BY <1>1, Zenon DEF ConfInv
<1>3. reload[r].config \in Configs
  BY <1>2
<1>4. /\ engine.generation \in Nat /\ engine.generation <= MaxGeneration /\ MaxGeneration \in Nat
      /\ engine.generation >= 1
  BY ConfigAssumption DEF ConfInv, ConfTypeOK
<1>5. next \in 1 .. MaxGeneration /\ engine.generation <= next
      /\ (next < MaxGeneration => engine.generation < next)
  BY <1>4
<1> HIDE DEF next
<1>6. /\ engine' \in [config : Configs, generation : 1 .. MaxGeneration]
      /\ engine'.config = reload[r].config /\ engine'.generation = next
  BY <1>1, <1>3, <1>5
<1>7. /\ new \in [at : {"engine", "daemon"}, config : Configs]
      /\ new.at = "daemon" /\ new.config = reload[r].config
  BY <1>2
<1>8. reload' = [reload EXCEPT ![r] = new]
  BY <1>1 DEF ConfInv
<1>9. new # Nothing
  BY <1>7, ConfigAssumption, Zenon DEF Configs
<1> HIDE DEF new
<1>10. /\ reload' \in [Reloaders -> {Nothing} \cup [at : {"engine", "daemon"}, config : Configs]]
       /\ reload'[r] = new /\ \A q \in Reloaders \ {r} : reload'[q] = reload[q]
  BY <1>7, <1>8, Zenon DEF ConfInv
<1>11. CopiesFollowReload'
  <2> SUFFICES ASSUME ~reloadsOverlapped
               PROVE  /\ \A p, q \in Reloaders : reload'[p] # Nothing /\ reload'[q] # Nothing => p = q
                      /\ (\A q \in Reloaders : reload'[q] = Nothing) => config' = engine'.config
                      /\ \A q \in Reloaders : reload'[q] # Nothing =>
                           IF reload'[q].at = "engine" THEN config' = engine'.config
                           ELSE engine'.config = reload'[q].config
    BY <1>1, Zenon DEF CopiesFollowReload
  <2>1. \A q \in Reloaders : reload[q] # Nothing => q = r
    BY <1>1, Zenon DEF ConfInv, CopiesFollowReload
  <2>2. \A q \in Reloaders : reload'[q] # Nothing => q = r
    BY <1>10, <2>1, Zenon
  <2>3. reload'[r].at # "engine" /\ reload'[r] # Nothing /\ engine'.config = reload'[r].config
    BY <1>6, <1>7, <1>9, <1>10
  <2> QED
    BY <2>2, <2>3, Zenon
<1>12. \A q \in Reloaders : reload'[q] # Nothing => validate(reload'[q].config)
  BY <1>2, <1>7, <1>10, Zenon DEF ConfInv
<1>13. GenerationsIdentify'
  <2>1. ASSUME NEW a \in ran
        PROVE  /\ a.generation \in 1 .. engine'.generation
               /\ ~(a.generation = engine'.generation /\ a.generation < MaxGeneration)
    <3>1. a.generation \in 1 .. engine.generation
      BY Zenon DEF ConfInv, GenerationsIdentify
    <3> QED
      BY <1>4, <1>5, <1>6, <3>1
  <2> QED
    BY <1>1, <2>1, Zenon DEF ConfInv, GenerationsIdentify
<1>14. FilesWhole' /\ saving' \in {"no", "created", "written"} /\ ConfTypeOK'
  BY <1>1, <1>3, <1>5, <1>6, FilesKept, Zenon DEF ConfInv, ConfTypeOK, Configs
<1> QED
  BY <1>1, <1>2, <1>6, <1>10, <1>11, <1>12, <1>13, <1>14, Zenon DEF ConfInv

\* Giving the daemon the new configuration keeps the invariant.
LEMMA ReloadDaemonKeeps ==
  ASSUME ConfInv, NEW r \in Reloaders, ReloadDaemon(r)
  PROVE  ConfInv'
<1>1. /\ reload[r] # Nothing /\ reload[r].at = "daemon"
      /\ config' = reload[r].config
      /\ reload' = [reload EXCEPT ![r] = Nothing]
      /\ UNCHANGED <<fileVars, active_config_path, engine, ran, reloadsOverlapped>>
  BY Zenon DEF ReloadDaemon
<1>2. reload[r] \in [at : {"engine", "daemon"}, config : Configs] /\ validate(reload[r].config)
  BY <1>1, Zenon DEF ConfInv
<1>3. reload[r].config \in Configs /\ "daemon" # "engine"
  BY <1>2
<1>4. /\ reload' \in [Reloaders -> {Nothing} \cup [at : {"engine", "daemon"}, config : Configs]]
      /\ reload'[r] = Nothing /\ \A q \in Reloaders \ {r} : reload'[q] = reload[q]
  BY <1>1, Zenon DEF ConfInv
<1>5. CopiesFollowReload'
  <2> SUFFICES ASSUME ~reloadsOverlapped
               PROVE  config' = engine.config /\ \A q \in Reloaders : reload'[q] = Nothing
    BY <1>1, Zenon DEF CopiesFollowReload
  <2>1. \A q \in Reloaders : reload[q] # Nothing => q = r
    BY <1>1, Zenon DEF ConfInv, CopiesFollowReload
  <2>2. engine.config = reload[r].config
    BY <1>1, <1>3, Zenon DEF ConfInv, CopiesFollowReload
  <2> QED
    BY <1>1, <1>4, <2>1, <2>2, Zenon
<1>6. \A q \in Reloaders : reload'[q] # Nothing => validate(reload'[q].config)
  BY <1>4, Zenon DEF ConfInv
<1>7. GenerationsIdentify' /\ FilesWhole' /\ ConfTypeOK'
  BY <1>1, <1>3, FilesKept, Zenon DEF ConfInv, GenerationsIdentify, ConfTypeOK, Configs
<1> QED
  BY <1>1, <1>2, <1>4, <1>5, <1>6, <1>7, Zenon DEF ConfInv

\* Starting a job keeps the invariant.
LEMMA JobRunsKeeps ==
  ASSUME ConfInv, JobRuns
  PROVE  ConfInv'
<1>1. /\ engine.config.soc # NaN /\ ran' = ran \cup {engine}
      /\ UNCHANGED <<fileVars, active_config_path, config, engine, reload, reloadsOverlapped>>
  <2>1. from_raw(engine.config) => engine.config.soc # NaN
    BY SMT DEF from_raw
  <2> QED
    BY <2>1, Zenon DEF JobRuns
<1>2. engine.generation \in 1 .. engine.generation
  BY ConfigAssumption DEF ConfInv, ConfTypeOK
<1>3. GenerationsIdentify'
  <2>1. \A a \in ran' : a \in ran \/ a = engine
    BY <1>1, Zenon
  <2> QED
    BY <1>1, <1>2, <2>1, Zenon DEF ConfInv, GenerationsIdentify
<1>4. CopiesFollowReload' /\ FilesWhole' /\ ConfTypeOK'
  BY <1>1, FilesKept, Zenon DEF ConfInv, CopiesFollowReload, ConfTypeOK
<1> QED
  BY <1>1, <1>3, <1>4, Zenon DEF ConfInv

\* Whatever the owner, a killed save and concurrent reloads do to the files, both
\* copies of the configuration are valid and agree when no reload is in progress,
\* unless two overlapped; a generation below the last identifies the configuration
\* jobs ran with, and save_to_file leaves no torn file: load_from_file_strict,
\* reload_config, update_config and run_pipeline_job, for all file contents.
THEOREM ConfigAlwaysSound == ConfSpec => [](ConfTypeOK /\ ConfigSound)
<1>1. ConfInit => ConfInv
  <2> SUFFICES ASSUME ConfInit PROVE ConfInv
    OBVIOUS
  <2>1. FilesWhole
    BY Zenon DEF ConfInit, FilesWhole, Configs
  <2>2. PICK p \in {"given", Nothing} :
          LET found == load_or_default_with_path(p)
          IN /\ config = found.config
             /\ active_config_path = found.path
             /\ engine = [config |-> found.config, generation |-> 1]
    BY Zenon DEF ConfInit
  <2> DEFINE found == load_or_default_with_path(p)
  <2>3. found.config \in Configs /\ validate(found.config) /\ found.path \in Layers \cup {Nothing}
    BY <2>1, DefaultedIsValid, Zenon
  <2>4. config = found.config /\ active_config_path = found.path
        /\ engine = [config |-> found.config, generation |-> 1]
    BY <2>2, Zenon
  <2> HIDE DEF found
  <2>5. 1 \in 1 .. MaxGeneration
    BY ConfigAssumption
  <2>6. /\ engine \in [config : Configs, generation : 1 .. MaxGeneration]
        /\ engine.config = found.config /\ engine.generation = 1
    BY <2>3, <2>4, <2>5
  <2>7. reload = [r \in Reloaders |-> Nothing] /\ ran = {} /\ saving = "no"
    BY Zenon DEF ConfInit
  <2>8. CopiesFollowReload /\ GenerationsIdentify
    BY <2>4, <2>6, <2>7, Zenon DEF CopiesFollowReload, GenerationsIdentify
  <2> QED
    BY <2>1, <2>3, <2>4, <2>5, <2>6, <2>7, <2>8, Zenon DEF ConfInv, ConfTypeOK, Configs
<1>2. ConfInv /\ [ConfNext]_confVars => ConfInv'
  <2> SUFFICES ASSUME ConfInv, [ConfNext]_confVars PROVE ConfInv'
    OBVIOUS
  <2>1. CASE SaveCreates \/ SaveWrites \/ SaveDies
    <3>1. UNCHANGED <<files, edited, heldVars>> /\ saving' \in {"no", "created", "written"}
          /\ (saving' = "written" => draft' = Default)
      BY <2>1, Zenon DEF SaveCreates, SaveWrites, SaveDies
    <3>2. FilesWhole'
      BY <3>1, Zenon DEF ConfInv, FilesWhole
    <3> QED
      BY <3>1, <3>2, FileStepKeeps, Zenon
  <2>2. CASE SaveRenames
    <3>1. /\ files' = [files EXCEPT !["mandatory"] = Default] /\ saving' = "no"
          /\ UNCHANGED <<edited, heldVars>>
      BY <2>2, Zenon DEF SaveRenames, ConfInv, FilesWhole
    <3>2. Default \in Configs /\ Default # Torn
      BY ConfigAssumption, Zenon DEF Configs
    <3>3. FilesWhole'
      BY <3>1, <3>2, Zenon DEF ConfInv, FilesWhole
    <3> QED
      BY <3>1, <3>3, FileStepKeeps, Zenon
  <2>3. ASSUME NEW p \in Layers, OwnerWrites(p)
        PROVE  ConfInv'
    <3>1. PICK c \in Contents \cup {Missing, Torn} : files' = [files EXCEPT ![p] = c]
      BY <2>3, Zenon DEF OwnerWrites
    <3>2. edited' = edited \cup {p} /\ UNCHANGED <<draft, saving, heldVars>>
      BY <2>3, Zenon DEF OwnerWrites
    <3>3. FilesWhole'
      BY <3>1, <3>2, Zenon DEF ConfInv, FilesWhole, Configs
    <3> QED
      BY <3>2, <3>3, FileStepKeeps, Zenon DEF ConfInv, ConfTypeOK
  <2>4. CASE UNCHANGED confVars
    <3>1. UNCHANGED <<files, draft, saving, edited, heldVars>>
      BY <2>4, Zenon DEF confVars, fileVars
    <3>2. FilesWhole'
      BY <3>1, Zenon DEF ConfInv, FilesWhole
    <3> QED
      BY <3>1, <3>2, FileStepKeeps, Zenon DEF ConfInv, ConfTypeOK
  <2>5. ASSUME NEW r \in Reloaders, ReloadFails(r)
        PROVE  ConfInv'
    BY <2>4, <2>5, Zenon DEF ReloadFails
  <2> QED
    BY <2>1, <2>2, <2>3, <2>4, <2>5, ReloadBeginsKeeps, ReloadEngineKeeps, ReloadDaemonKeeps,
       JobRunsKeeps, Zenon DEF ConfNext
<1>3. ConfInv => ConfTypeOK /\ ConfigSound
  BY Zenon DEF ConfInv, ConfigSound, CopiesFollowReload, GenerationsIdentify, FilesWhole
<1> QED
  BY <1>1, <1>2, <1>3, PTL DEF ConfSpec
=============================================================================
