-------------------------- MODULE TimeTravelProofs --------------------------
(***************************************************************************)
(* The searches of the log and of the snapshots are exact, snapshots and   *)
(* stored frames keep their order, and going back leads into the past: for *)
(* every firmware, stride, log, and sequence of injections and calls.      *)
(***************************************************************************)
EXTENDS TimeTravel, WellFoundedInduction, TLAPS

-----------------------------------------------------------------------------

(* Induction, over sets of numbers *)

\* A set of natural numbers has a least element.
LEMMA Least ==
  ASSUME NEW T, T \subseteq Nat, T # {}
  PROVE  \E x \in T : \A y \in T : x <= y
<1> DEFINE R == OpToRel(<, Nat)
<1>1. IsWellFoundedOn(R, Nat)
  BY NatLessThanWellFounded
<1>2. \A x, y \in Nat : <<x, y>> \in R <=> x < y
  BY DEF OpToRel
<1> HIDE DEF R
<1>3. PICK x \in T : \A y \in T : ~(<<y, x>> \in R)
  BY <1>1, WFMin
<1>4. ASSUME NEW y \in T PROVE x <= y
  <2>1. x \in Nat /\ y \in Nat
    OBVIOUS
  <2>2. ~(y < x)
    BY <1>2, <1>3, <2>1
  <2>3. QED BY <2>1, <2>2
<1>5. QED BY <1>4

\* and a greatest one, when it is bounded.
LEMMA Greatest ==
  ASSUME NEW N \in Nat, NEW T, T \subseteq 0..N, T # {}
  PROVE  \E x \in T : \A y \in T : y <= x
<1> DEFINE U == {N - y : y \in T}
<1>1. U \subseteq Nat /\ U # {}
  <2>1. ASSUME NEW y \in T PROVE N - y \in Nat
    <3>1. y \in 0..N
      OBVIOUS
    <3>2. QED BY <3>1
  <2>2. QED BY <2>1
<1>2. PICK u \in U : \A v \in U : u <= v
  <2> HIDE DEF U
  <2>1. QED BY <1>1, Least
<1>3. PICK x \in T : u = N - x
  BY <1>2
<1>4. ASSUME NEW y \in T PROVE y <= x
  <2>1. N - y \in U
    OBVIOUS
  <2>2. N - x <= N - y /\ x \in 0..N /\ y \in 0..N
    BY <1>2, <1>3, <2>1
  <2>3. QED BY <2>2
<1>5. QED BY <1>4

LEMMA NatSetInduction ==
  ASSUME NEW T, 0 \in T, \A n \in Nat : n \in T => n + 1 \in T
  PROVE  Nat \subseteq T
<1> DEFINE U == Nat \ T
<1> SUFFICES ASSUME U # {} PROVE FALSE
  OBVIOUS
<1>1. PICK x \in U : \A y \in U : x <= y
  BY Least, U \subseteq Nat
<1>2. x # 0 /\ x - 1 \in Nat /\ x - 1 \in T
  BY <1>1
<1>3. QED BY <1>1, <1>2

-----------------------------------------------------------------------------
(* Loops *)

\* The rounds of a loop keep to the states S; f is a run of n of them.
Keeps(step, S) == \A s \in S : step[s] \in S
IsRun(f, n, start, step) == f[0] = start /\ \A j \in 1..n : f[j] = step[f[j - 1]]

LEMMA RunExists ==
  ASSUME NEW n \in Nat, NEW S, NEW start \in S, NEW step, Keeps(step, S)
  PROVE  \E f \in [0..n -> S] : IsRun(f, n, start, step)
<1> DEFINE T == {k \in Nat : \E f \in [0..k -> S] : IsRun(f, k, start, step)}
<1>1. 0 \in T
  <2> DEFINE f == [j \in 0..0 |-> start]
  <2>1. f \in [0..0 -> S] /\ IsRun(f, 0, start, step)
    BY DEF IsRun
  <2> HIDE DEF f
  <2>2. QED BY <2>1
<1>2. ASSUME NEW k \in Nat, k \in T
      PROVE  k + 1 \in T
  <2>1. PICK f \in [0..k -> S] : IsRun(f, k, start, step)
    BY <1>2
  <2> DEFINE g == [j \in 0..(k + 1) |-> IF j = k + 1 THEN step[f[k]] ELSE f[j]]
  <2>2. g \in [0..(k + 1) -> S] /\ g[0] = start
    BY <2>1 DEF Keeps, IsRun
  <2>3. ASSUME NEW j \in 1..(k + 1) PROVE g[j] = step[g[j - 1]]
    <3>1. CASE j = k + 1
      BY <3>1
    <3>2. CASE j # k + 1
      <4>1. j \in 1..k /\ j - 1 \in 0..k /\ j - 1 # k + 1
        BY <3>2
      <4>2. QED BY <2>1, <4>1, <3>2 DEF IsRun
    <3>3. QED BY <3>1, <3>2
  <2>4. IsRun(g, k + 1, start, step)
    BY <2>2, <2>3 DEF IsRun
  <2> HIDE DEF g
  <2>5. k + 1 \in Nat
    OBVIOUS
  <2>6. QED BY <2>2, <2>4, <2>5
<1> HIDE DEF T
<1>3. Nat \subseteq T
  BY <1>1, <1>2, NatSetInduction
<1>4. n \in T
  BY <1>3
<1>5. QED BY <1>4, Zenon DEF T

\* Iterated is what a run of n rounds ends with.
LEMMA Rounds ==
  ASSUME NEW n \in Nat, NEW S, NEW start \in S, NEW step, Keeps(step, S)
  PROVE  \E f \in [0..n -> S] : IsRun(f, n, start, step) /\ Iterated(n, start, step) = f[n]
<1> DEFINE g == CHOOSE g : g = [k \in 0..n |-> IF k = 0 THEN start ELSE step[g[k - 1]]]
<1>0. PICK f \in [0..n -> S] : IsRun(f, n, start, step)
  BY RunExists
<1>1. f[0] = start /\ \A j \in 1..n : f[j] = step[f[j - 1]]
  BY <1>0 DEF IsRun
<1>2. f = [k \in 0..n |-> IF k = 0 THEN start ELSE step[f[k - 1]]]
  <2>1. ASSUME NEW k \in 0..n PROVE f[k] = IF k = 0 THEN start ELSE step[f[k - 1]]
    BY <1>1
  <2>2. QED BY <2>1
<1>3. g = [k \in 0..n |-> IF k = 0 THEN start ELSE step[g[k - 1]]]
  BY <1>2
<1>4. Iterated(n, start, step) = g[n]
  BY DEF Iterated
<1> HIDE DEF g
<1>5. g[0] = start /\ \A j \in 1..n : g[j] = step[g[j - 1]]
  BY <1>3
<1> DEFINE T == {k \in Nat : k <= n => g[k] \in S}
<1>6. 0 \in T
  BY <1>5
<1>7. ASSUME NEW k \in Nat, k \in T PROVE k + 1 \in T
  <2>1. CASE k + 1 <= n
    <3>1. k + 1 \in 1..n /\ (k + 1) - 1 = k /\ g[k] \in S
      BY <1>7, <2>1
    <3>2. QED BY <1>5, <3>1 DEF Keeps
  <2>2. CASE ~(k + 1 <= n)
    BY <2>2
  <2>3. QED BY <2>1, <2>2
<1> HIDE DEF T
<1>8. Nat \subseteq T
  BY <1>6, <1>7, NatSetInduction
<1>9. \A k \in 0..n : g[k] \in S
  BY <1>8 DEF T
<1>10. g \in [0..n -> S]
  BY <1>3, <1>9
<1>11. QED BY <1>4, <1>5, <1>10 DEF IsRun

\* A loop whose rounds keep to S and make something smaller, down to 0, keeps
\* to S and is done after that many rounds.
Shrinks(step, S, size) == \A s \in S : size[step[s]] < size[s] \/ size[step[s]] = 0

LEMMA LoopEnds ==
  ASSUME NEW n \in Nat, NEW S, NEW start \in S, NEW step, Keeps(step, S),
         NEW size \in [S -> Nat], size[start] <= n, Shrinks(step, S, size)
  PROVE  Iterated(n, start, step) \in S /\ size[Iterated(n, start, step)] = 0
<1>0. PICK f \in [0..n -> S] : IsRun(f, n, start, step) /\ Iterated(n, start, step) = f[n]
  BY Rounds
<1>1. f[0] = start /\ \A j \in 1..n : f[j] = step[f[j - 1]]
  BY <1>0 DEF IsRun
<1> DEFINE T == {k \in Nat : k <= n => size[f[k]] <= n - k}
<1>2. 0 \in T
  BY <1>1
<1>3. ASSUME NEW k \in Nat, k \in T PROVE k + 1 \in T
  <2>1. CASE k + 1 <= n
    <3>0. k + 1 \in 1..n /\ (k + 1) - 1 = k /\ k \in 0..n /\ k + 1 \in 0..n /\ size[f[k]] <= n - k
      BY <1>3, <2>1
    <3>1. k + 1 \in 1..n /\ (k + 1) - 1 = k /\ size[f[k]] <= n - k /\ f[k] \in S /\ f[k + 1] \in S
      BY <1>1, <3>0
    <3>2. f[k + 1] = step[f[k]]
      BY <1>1, <3>1
    <3>3. size[f[k]] \in Nat /\ size[f[k + 1]] \in Nat
      BY <3>1
    <3>4. size[f[k + 1]] <= n - (k + 1)
      BY SMTT(30), <2>1, <3>1, <3>2, <3>3 DEF Shrinks
    <3>5. QED BY <3>4
  <2>2. CASE ~(k + 1 <= n)
    BY <2>2
  <2>3. QED BY <2>1, <2>2
<1> HIDE DEF T
<1>4. n \in T
  BY <1>2, <1>3, NatSetInduction
<1>5. size[f[n]] <= n - n /\ size[f[n]] \in Nat
  BY <1>4 DEF T
<1>6. QED BY <1>0, <1>5

-----------------------------------------------------------------------------
(* The two binary searches *)

LEMMA MiddleFacts ==
  ASSUME NEW r, r.lo \in Int, r.hi \in Int, r.lo <= r.hi
  PROVE  Middle(r) \in Int /\ r.lo <= Middle(r) /\ Middle(r) <= r.hi /\ (r.lo < r.hi => Middle(r) < r.hi)
BY DEF Middle

\* The entries before the answer of ev_log_seek are too early and the others
\* are not, in any log that is sorted.
THEOREM SeekCorrect ==
  ASSUME NEW lg, NEW N \in Nat, Len(lg) = N, \A i \in 1..N : lg[i].cycle \in Nat, NEW c \in Nat
  PROVE  /\ ev_log_seek(lg, c) \in 0..N
         /\ (\A i, j \in 1..N : i < j => lg[i].cycle <= lg[j].cycle)
            => /\ \A i \in 1 .. ev_log_seek(lg, c) : lg[i].cycle < c
               /\ \A i \in ev_log_seek(lg, c) + 1 .. N : lg[i].cycle >= c
<1> DEFINE start == [lo |-> 0, hi |-> N]
           step == [r \in LogRanges(lg) |-> Halved(lg, c, r)]
           Sorted == \A i, j \in 1..N : i < j => lg[i].cycle <= lg[j].cycle
           S == {r \in LogRanges(lg) : /\ r.lo <= r.hi
                                       /\ Sorted => /\ \A i \in 1..r.lo : lg[i].cycle < c
                                                    /\ \A i \in r.hi + 1 .. N : lg[i].cycle >= c}
           size == [r \in S |-> r.hi - r.lo]
<1>1. start \in S
  BY DEF LogRanges
<1>2. ASSUME NEW r \in S
      PROVE  Halved(lg, c, r) \in S /\ (size[Halved(lg, c, r)] < size[r] \/ size[Halved(lg, c, r)] = 0)
  <2> DEFINE k == Middle(r)
             q == Halved(lg, c, r)
  <2>0. /\ r \in [lo : 0..N, hi : 0..N] /\ r.lo \in 0..N /\ r.hi \in 0..N /\ r.lo <= r.hi
        /\ Sorted => /\ \A i \in 1..r.lo : lg[i].cycle < c
                     /\ \A i \in r.hi + 1 .. N : lg[i].cycle >= c
    BY DEF LogRanges
  <2>1. CASE r.lo = r.hi
    BY <2>1, <2>0 DEF Halved
  <2>2. CASE r.lo < r.hi
    <3>1. k \in Int /\ r.lo <= k /\ k < r.hi /\ k + 1 \in 1..N
      BY <2>0, <2>2, MiddleFacts
    <3> HIDE DEF k
    <3>2. \/ q = [r EXCEPT !.lo = k + 1] /\ lg[k + 1].cycle < c
          \/ q = [r EXCEPT !.hi = k] /\ lg[k + 1].cycle >= c
      BY <2>0, <2>2, <3>1 DEF Halved, k
    <3> HIDE DEF q
    <3>3. q \in LogRanges(lg) /\ q.lo <= q.hi /\ q.hi - q.lo < r.hi - r.lo
      BY SMTT(30), <2>0, <2>2, <3>1, <3>2 DEF LogRanges
    <3>4. ASSUME Sorted PROVE \A i \in 1..q.lo : lg[i].cycle < c
      <4>1. CASE q = [r EXCEPT !.lo = k + 1] /\ lg[k + 1].cycle < c
        <5>1. q.lo = k + 1
          BY <4>1, <2>0
        <5>2. ASSUME NEW i \in 1 .. k + 1 PROVE lg[i].cycle < c
          BY <3>1, <3>4, <4>1
        <5>3. QED BY <5>1, <5>2
      <4>2. CASE q = [r EXCEPT !.hi = k]
        BY <4>2, <2>0, <3>4
      <4>3. QED BY <3>2, <4>1, <4>2
    <3>5. ASSUME Sorted PROVE \A i \in q.hi + 1 .. N : lg[i].cycle >= c
      <4>1. CASE q = [r EXCEPT !.hi = k] /\ lg[k + 1].cycle >= c
        <5>1. q.hi = k
          BY <4>1, <2>0
        <5>2. ASSUME NEW i \in k + 1 .. N PROVE lg[i].cycle >= c
          BY <3>1, <3>5, <4>1
        <5>3. QED BY <5>1, <5>2
      <4>2. CASE q = [r EXCEPT !.lo = k + 1]
        BY <4>2, <2>0, <3>5
      <4>3. QED BY <3>2, <4>1, <4>2
    <3>6. q \in S
      BY <3>3, <3>4, <3>5
    <3>7. QED BY <3>3, <3>6 DEF q
  <2>3. QED BY <2>0, <2>1, <2>2
<1>3. \A r \in S : r \in LogRanges(lg) /\ step[r] = Halved(lg, c, r)
  OBVIOUS
<1>4. size \in [S -> Nat] /\ size[start] <= N
  <2>1. ASSUME NEW r \in S PROVE r.hi - r.lo \in Nat
    BY DEF LogRanges
  <2>2. QED BY <1>1, <2>1
<1> DEFINE last == Iterated(N, start, step)
<1>5. last \in S /\ size[last] = 0
  <2> HIDE DEF S, start, step, size
  <2>1. Keeps(step, S) /\ Shrinks(step, S, size)
    BY <1>2, <1>3 DEF Keeps, Shrinks
  <2>2. QED BY <1>1, <2>1, <1>4, LoopEnds
<1>6. ev_log_seek(lg, c) = last.lo
  BY DEF ev_log_seek
<1> HIDE DEF last
<1>7. last.lo \in 0..N /\ last.hi = last.lo
  BY <1>5 DEF LogRanges
<1>8. QED BY <1>5, <1>6, <1>7

\* tt_bsearch_le answers with a snapshot that is not too late; with snapshots in
\* order, with the last one of those.
THEOREM SnapFound ==
  ASSUME NEW N \in Nat, Len(snaps) = N, \A i \in 1..N : snaps[i].cycle \in Nat, NEW c \in Nat
  PROVE  /\ tt_bsearch_le(c) \in 0..N
         /\ tt_bsearch_le(c) > 0 => snaps[tt_bsearch_le(c)].cycle <= c
         /\ (\A i, j \in 1..N : i < j => snaps[i].cycle <= snaps[j].cycle)
            => \A i \in 1..N : snaps[i].cycle <= c <=> i <= tt_bsearch_le(c)
<1> DEFINE start == [lo |-> 0, hi |-> N - 1, best |-> -1]
           step == [r \in SnapRanges |-> SnapHalved(c, r)]
           Sorted == \A i, j \in 1..N : i < j => snaps[i].cycle <= snaps[j].cycle
           S == {r \in SnapRanges : /\ r.lo <= r.hi + 1 /\ r.best = r.lo - 1
                                    /\ r.lo > 0 => snaps[r.lo].cycle <= c
                                    /\ Sorted => /\ \A i \in 1..r.lo : snaps[i].cycle <= c
                                                 /\ \A i \in r.hi + 2 .. N : snaps[i].cycle > c}
           size == [r \in S |-> r.hi + 1 - r.lo]
<1>1. start \in S
  BY DEF SnapRanges
<1>2. ASSUME NEW r \in S
      PROVE  SnapHalved(c, r) \in S
             /\ (size[SnapHalved(c, r)] < size[r] \/ size[SnapHalved(c, r)] = 0)
  <2> DEFINE k == Middle(r)
             q == SnapHalved(c, r)
  <2>0. /\ r \in [lo : 0..N, hi : -1 .. N - 1, best : -1 .. N - 1]
        /\ r.lo \in 0..N /\ r.hi \in -1 .. N - 1 /\ r.lo <= r.hi + 1 /\ r.best = r.lo - 1
        /\ r.lo > 0 => snaps[r.lo].cycle <= c
        /\ Sorted => /\ \A i \in 1..r.lo : snaps[i].cycle <= c
                     /\ \A i \in r.hi + 2 .. N : snaps[i].cycle > c
    BY DEF SnapRanges
  <2>1. CASE r.lo > r.hi
    BY <2>1, <2>0 DEF SnapHalved
  <2>2. CASE r.lo <= r.hi
    <3>1. k \in Int /\ r.lo <= k /\ k <= r.hi /\ k + 1 \in 1..N
      BY SMTT(30), <2>0, <2>2, MiddleFacts
    <3> HIDE DEF k
    <3>2. \/ q = [lo |-> k + 1, hi |-> r.hi, best |-> k] /\ snaps[k + 1].cycle <= c
          \/ q = [r EXCEPT !.hi = k - 1] /\ snaps[k + 1].cycle > c
      BY SMTT(30), <2>0, <2>2, <3>1 DEF SnapHalved, k
    <3> HIDE DEF q
    <3>3. /\ q \in [lo : 0..N, hi : -1 .. N - 1, best : -1 .. N - 1] /\ q.lo <= q.hi + 1 /\ q.hi - q.lo < r.hi - r.lo /\ q.best = q.lo - 1
          /\ q.lo > 0 => snaps[q.lo].cycle <= c
      <4> HIDE DEF S, Sorted, start, step, size
      <4>1. CASE q = [lo |-> k + 1, hi |-> r.hi, best |-> k] /\ snaps[k + 1].cycle <= c
        <5>1. q.lo = k + 1 /\ q.hi = r.hi /\ q.best = k
          BY <4>1
        <5>2. k + 1 \in 0..N /\ r.hi \in -1 .. N - 1 /\ k \in -1 .. N - 1
          BY <2>0, <3>1
        <5>3. q \in [lo : 0..N, hi : -1 .. N - 1, best : -1 .. N - 1]
          BY <4>1, <5>2
        <5>4. q.lo <= q.hi + 1 /\ q.hi - q.lo < r.hi - r.lo /\ q.best = q.lo - 1
          BY <5>1, <2>0, <3>1
        <5>5. QED BY <5>1, <5>3, <5>4, <4>1
      <4>2. CASE q = [r EXCEPT !.hi = k - 1]
        <5>1. q.lo = r.lo /\ q.hi = k - 1 /\ q.best = r.best
          BY <4>2, <2>0
        <5>2. k - 1 \in -1 .. N - 1
          BY <2>0, <3>1
        <5>3. q \in [lo : 0..N, hi : -1 .. N - 1, best : -1 .. N - 1]
          BY <2>0, <5>2, <4>2
        <5>4. q.lo <= q.hi + 1 /\ q.hi - q.lo < r.hi - r.lo /\ q.best = q.lo - 1
          BY <5>1, <2>0, <3>1
        <5>5. QED BY <5>1, <5>3, <5>4, <2>0
      <4>3. QED BY <3>2, <4>1, <4>2
    <3>4. ASSUME Sorted PROVE \A i \in 1..q.lo : snaps[i].cycle <= c
      <4>1. CASE q = [lo |-> k + 1, hi |-> r.hi, best |-> k] /\ snaps[k + 1].cycle <= c
        <5>1. q.lo = k + 1
          BY <4>1, <2>0
        <5>2. ASSUME NEW i \in 1 .. k + 1 PROVE snaps[i].cycle <= c
          BY <3>1, <3>4, <4>1
        <5>3. QED BY <5>1, <5>2
      <4>2. CASE q = [r EXCEPT !.hi = k - 1]
        BY <4>2, <2>0, <3>4
      <4>3. QED BY <3>2, <4>1, <4>2
    <3>5. ASSUME Sorted PROVE \A i \in q.hi + 2 .. N : snaps[i].cycle > c
      <4>1. CASE q = [r EXCEPT !.hi = k - 1] /\ snaps[k + 1].cycle > c
        <5>1. q.hi = k - 1
          BY <4>1, <2>0
        <5>2. ASSUME NEW i \in k + 1 .. N PROVE snaps[i].cycle > c
          BY <3>1, <3>5, <4>1
        <5>3. QED BY <5>1, <5>2, <3>1
      <4>2. CASE q = [lo |-> k + 1, hi |-> r.hi, best |-> k]
        BY <4>2, <2>0, <3>5
      <4>3. QED BY <3>2, <4>1, <4>2
    <3>6. q \in S
      BY <3>3, <3>4, <3>5 DEF SnapRanges
    <3>7. size[q] < size[r]
      BY SMTT(30), <3>3, <3>6, <2>0 DEF SnapRanges
    <3>8. QED BY <3>6, <3>7 DEF q
  <2>3. QED BY <2>0, <2>1, <2>2
<1>3. \A r \in S : r \in SnapRanges /\ step[r] = SnapHalved(c, r)
  OBVIOUS
<1>4. size \in [S -> Nat] /\ size[start] <= N
  <2>1. ASSUME NEW r \in S PROVE r.hi + 1 - r.lo \in Nat
    BY DEF SnapRanges
  <2>2. QED BY SMTT(30), <1>1, <2>1
<1> DEFINE last == Iterated(N, start, step)
<1>5. last \in S /\ size[last] = 0
  <2> HIDE DEF S, start, step, size
  <2>1. Keeps(step, S) /\ Shrinks(step, S, size)
    BY <1>2, <1>3 DEF Keeps, Shrinks
  <2>2. QED BY <1>1, <2>1, <1>4, LoopEnds
<1>6. tt_bsearch_le(c) = last.best + 1
  BY DEF tt_bsearch_le
<1> HIDE DEF last
<1>7. last.lo \in 0..N /\ last.hi \in Int /\ last.hi + 1 = last.lo /\ last.best + 1 = last.lo
  <2>1. last.lo \in 0..N /\ last.hi \in -1 .. N - 1 /\ last.best = last.lo - 1
    BY <1>5 DEF SnapRanges
  <2>2. last.hi + 1 - last.lo = 0
    BY <1>5
  <2>3. QED BY SMTT(30), <2>1, <2>2
<1> DEFINE b == tt_bsearch_le(c)
<1>8. b = last.lo
  BY <1>6, <1>7
<1> HIDE DEF b
<1>9. /\ last.lo > 0 => snaps[last.lo].cycle <= c
      /\ Sorted => /\ \A i \in 1..last.lo : snaps[i].cycle <= c
                   /\ \A i \in last.lo + 1 .. N : snaps[i].cycle > c
  <2>1. last.hi + 2 = last.lo + 1
    BY <1>7
  <2>2. QED BY <1>5, <2>1
<1>10. ASSUME Sorted, NEW i \in 1..N PROVE snaps[i].cycle <= c <=> i <= b
  BY <1>7, <1>8, <1>9, <1>10
<1>11. QED BY <1>7, <1>8, <1>9, <1>10 DEF b

-----------------------------------------------------------------------------
(* Types *)

LEMMA SeqElement ==
  ASSUME NEW T, NEW s \in Seq(T), NEW i \in 1..Len(s)
  PROVE  s[i] \in T
OBVIOUS

LEMMA MachineFields ==
  ASSUME NEW x
  PROVE  x \in Machines
         <=> /\ x \in [cyc : 0..Steps, n : 0..Steps, pend : SUBSET Irqs, rx : Frames \cup {None},
                       seen : SUBSET Observed]
             /\ x.cyc <= x.n
BY DEF Machines

LEMMA RanType ==
  ASSUME prog \in [1..Steps -> Costs], NEW x \in Machines, ~Halted(x)
  PROVE  Ran(x) \in Machines
<1> DEFINE more == IF x.pend = {} /\ x.rx = None THEN x.seen ELSE x.seen \cup {<<x.n, x.pend, x.rx>>}
           cost == prog[x.n + 1]
<1>1. /\ x \in [cyc : 0..Steps, n : 0..Steps, pend : SUBSET Irqs, rx : Frames \cup {None},
                seen : SUBSET Observed]
      /\ x.cyc <= x.n
  BY MachineFields
<1>2. x.n \in 0..Steps /\ x.n # Steps /\ x.cyc \in 0..Steps /\ Steps \in Nat
  BY <1>1, TimeTravelAssumption DEF Halted
<1>3. cost \in {0, 1}
  <2>1. x.n + 1 \in 1..Steps
    BY <1>2
  <2>2. QED BY <2>1, TimeTravelAssumption
<1>4. more \in SUBSET Observed
  <2>1. <<x.n, x.pend, x.rx>> \in Observed
    BY <1>1 DEF Observed
  <2>2. QED BY <1>1, <2>1
<1>5. Ran(x) = [cyc |-> x.cyc + cost, n |-> x.n + 1, pend |-> {}, rx |-> None, seen |-> more]
  BY DEF Ran
<1> HIDE DEF more, cost
<1>6. x.cyc + cost \in 0..Steps /\ x.n + 1 \in 0..Steps /\ x.cyc + cost <= x.n + 1
  BY <1>1, <1>2, <1>3
<1>7. Ran(x) \in [cyc : 0..Steps, n : 0..Steps, pend : SUBSET Irqs, rx : Frames \cup {None},
                  seen : SUBSET Observed]
  BY <1>4, <1>5, <1>6
<1>8. QED BY <1>5, <1>6, <1>7, MachineFields

LEMMA PendedType ==
  ASSUME NEW x \in Machines, NEW irq \in Irqs
  PROVE  Pended(x, irq) \in Machines
BY MachineFields DEF Pended

LEMMA ReceivedType ==
  ASSUME NEW x \in Machines, NEW frame \in Frames
  PROVE  Received(x, frame) \in Machines
BY MachineFields DEF Received

LEMMA EventFields ==
  ASSUME NEW e \in Events
  PROVE  /\ e.cycle \in 0..Steps /\ e.type \in {"irq", "eth"}
         /\ e.type = "irq" => e.payload \in Irqs
         /\ e.type = "eth" => e.payload \in 0 .. EthMax - 1
BY DEF Events

LEMMA EventType ==
  ASSUME NEW c \in 0..Steps
  PROVE  /\ \A irq \in Irqs : Event(c, "irq", irq) \in Events
         /\ \A k \in 0 .. EthMax - 1 : Event(c, "eth", k) \in Events
BY DEF Event, Events

LEMMA InjectedType ==
  ASSUME frames \in Seq(Frames), NEW x \in Machines, NEW e \in Events
  PROVE  Injected(x, e) \in Machines
<1>1. CASE e.type = "irq"
  <2>1. Injected(x, e) = Pended(x, e.payload)
    BY <1>1 DEF Injected
  <2>2. QED BY <1>1, <2>1, EventFields, PendedType
<1>2. CASE e.type = "eth"
  <2>1. Injected(x, e) = IF e.payload >= Len(frames) THEN x ELSE Received(x, frames[e.payload + 1])
    BY <1>2 DEF Injected
  <2>2. e.payload \in 0 .. EthMax - 1 /\ EthMax \in Nat
    BY <1>2, EventFields, TimeTravelAssumption
  <2>3. CASE e.payload >= Len(frames)
    BY <2>1, <2>3
  <2>4. CASE ~(e.payload >= Len(frames))
    <3>1. e.payload + 1 \in 1..Len(frames) /\ Len(frames) \in Nat
      BY <2>2, <2>4
    <3>2. frames[e.payload + 1] \in Frames
      BY <3>1
    <3>3. QED BY <2>1, <2>4, <3>2, ReceivedType
  <2>5. QED BY <2>3, <2>4
<1>3. QED BY <1>1, <1>2, EventFields

\* What a recording call leaves in the log.
LEMMA AppendType ==
  ASSUME log \in Seq(Events), Len(log) <= LogMax, NEW e \in Events
  PROVE  /\ ev_log_append(log, e) \in Seq(Events)
         /\ Len(ev_log_append(log, e)) <= LogMax /\ Len(log) <= Len(ev_log_append(log, e))
BY TimeTravelAssumption DEF ev_log_append

LEMMA SeekType ==
  ASSUME log \in Seq(Events), NEW c \in Nat
  PROVE  ev_log_seek(log, c) \in 0..Len(log)
<1>1. Len(log) \in Nat
  OBVIOUS
<1>2. ASSUME NEW i \in 1..Len(log) PROVE log[i].cycle \in Nat
  <2>1. log[i] \in Events
    OBVIOUS
  <2>2. QED BY <2>1, EventFields
<1>3. QED BY <1>1, <1>2, SeekCorrect

LEMMA SnapType ==
  ASSUME TypeOK, NEW c \in Nat
  PROVE  /\ tt_bsearch_le(c) \in 0..Len(snaps)
         /\ tt_bsearch_le(c) > 0 => /\ snaps[tt_bsearch_le(c)] \in [cycle : 0..Steps, m : Machines]
                                    /\ snaps[tt_bsearch_le(c)].cycle <= c
<1>1. Len(snaps) \in Nat /\ snaps \in Seq([cycle : 0..Steps, m : Machines])
  BY DEF TypeOK
<1>2. ASSUME NEW i \in 1..Len(snaps) PROVE snaps[i] \in [cycle : 0..Steps, m : Machines]
  BY <1>1, SeqElement
<1>3. ASSUME NEW i \in 1..Len(snaps) PROVE snaps[i].cycle \in Nat
  BY <1>2
<1> DEFINE b == tt_bsearch_le(c)
<1>4. b \in 0..Len(snaps) /\ (b > 0 => snaps[b].cycle <= c)
  BY <1>1, <1>3, SnapFound
<1> HIDE DEF b
<1>5. QED BY <1>1, <1>2, <1>4 DEF b

LEMMA TypeInit == Init => TypeOK
<1> SUFFICES ASSUME Init PROVE TypeOK
  OBVIOUS
<1>1. /\ 0 \in 0..Steps /\ 0 \in 0..LogMax /\ 0 \in 0..MaxEvents /\ Steps \in Nat
      /\ EthMax \in Nat /\ MaxSnaps \in Nat /\ LogMax \in Nat
  BY TimeTravelAssumption
<1>2. Boot \in Machines
  BY <1>1, MachineFields DEF Boot
<1>3. Idle \in Calls
  BY <1>1 DEF Idle, Calls
<1>4. call.pos = 0 /\ Len(log) = 0 /\ Len(frames) = 0 /\ Len(snaps) = 0
  BY DEF Init, Idle
<1>5. log \in Seq(Events) /\ frames \in Seq(Frames) /\ snaps \in Seq([cycle : 0..Steps, m : Machines])
  BY DEF Init
<1>6. prog \in [1..Steps -> Costs] /\ m \in Machines /\ past \subseteq Machines /\ blob \subseteq Machines
  BY <1>2 DEF Init
<1>7. call \in Calls /\ ret \in BOOLEAN /\ inputs \in 0..MaxEvents /\ wentBack \in BOOLEAN
  BY <1>1, <1>3 DEF Init
<1>8. QED BY <1>1, <1>4, <1>5, <1>6, <1>7 DEF TypeOK

\* The fields of a call that a step changes.
LEMMA CallFields ==
  ASSUME call \in Calls
  PROVE  /\ call.target \in 0..Steps /\ call.pos \in 0..LogMax /\ call.left \in 0..Steps
         /\ \A k \in 0..LogMax : [call EXCEPT !.pos = k] \in Calls
         /\ \A k \in 0..Steps : [call EXCEPT !.left = k] \in Calls
         /\ \A k, j \in 0..Steps : [call EXCEPT !.left = k, !.prev = j] \in Calls
<1>1. call.target \in 0..Steps /\ call.pos \in 0..LogMax /\ call.left \in 0..Steps
  BY DEF Calls
<1>2. /\ \A k \in 0..LogMax : [call EXCEPT !.pos = k] \in Calls
      /\ \A k \in 0..Steps : [call EXCEPT !.left = k] \in Calls
  BY DEF Calls
<1>3. ASSUME NEW k \in 0..Steps, NEW j \in 0..Steps
      PROVE  [call EXCEPT !.left = k, !.prev = j] \in Calls
  <2> DEFINE d == [call EXCEPT !.left = k]
  <2>1. d \in Calls
    BY <1>2
  <2> HIDE DEF d
  <2>2. j \in -1 .. Steps /\ [d EXCEPT !.prev = j] \in Calls
    BY <2>1, TimeTravelAssumption DEF Calls
  <2>3. QED BY <2>2 DEF d
<1>4. QED BY <1>1, <1>2, <1>3

\* The numbers of a state.
LEMMA TypeFacts ==
  ASSUME TypeOK
  PROVE  /\ Steps \in Nat /\ LogMax \in Nat /\ EthMax \in Nat /\ MaxSnaps \in Nat /\ MaxEvents \in Nat
         /\ Stride \in Nat \ {0} /\ m \in Machines /\ m.cyc \in 0..Steps
         /\ log \in Seq(Events) /\ Len(log) \in Nat /\ Len(log) <= LogMax /\ Len(frames) \in Nat
         /\ call \in Calls /\ call.target \in 0..Steps /\ call.left \in 0..Steps
         /\ call.pos \in Nat /\ call.pos <= Len(log)
<1>1. /\ Steps \in Nat /\ LogMax \in Nat /\ EthMax \in Nat /\ MaxSnaps \in Nat /\ MaxEvents \in Nat
      /\ Stride \in Nat \ {0}
  BY TimeTravelAssumption
<1>2. /\ m \in Machines /\ log \in Seq(Events) /\ Len(log) \in Nat /\ Len(log) <= LogMax
      /\ Len(frames) \in Nat /\ call \in Calls /\ call.pos <= Len(log)
  BY DEF TypeOK
<1>3. m.cyc \in 0..Steps
  BY <1>2, MachineFields
<1>4. call.target \in 0..Steps /\ call.left \in 0..Steps /\ call.pos \in 0..LogMax
  BY <1>2, CallFields
<1>5. QED BY <1>1, <1>2, <1>3, <1>4

LEMMA RestoredType ==
  ASSUME TypeOK, NEW op \in {"rewind", "replay"}, NEW x \in Machines, NEW t \in 0..Steps,
         Restored(op, x, t)
  PROVE  TypeOK'
<1>1. x.cyc \in Nat /\ Len(log) \in Nat /\ LogMax \in Nat /\ Steps \in Nat
  BY TypeFacts, MachineFields
<1> DEFINE k == ev_log_seek(log, x.cyc)
<1>2. k \in 0..Len(log) /\ k \in 0..LogMax
  <2>1. k \in 0..Len(log)
    BY <1>1, SeekType DEF TypeOK
  <2> HIDE DEF k
  <2>2. QED BY <1>1, <2>1, TypeFacts
<1>3. call' = [op |-> op, target |-> t, pos |-> k, left |-> 0, prev |-> -1]
  BY DEF Restored
<1> HIDE DEF k
<1>4. call' \in Calls /\ call'.pos <= Len(log)
  BY <1>1, <1>2, <1>3 DEF Calls
<1>5. m' = x /\ wentBack' = TRUE /\ UNCHANGED <<prog, log, frames, snaps, blob, ret, past, inputs>>
  BY DEF Restored, host
<1>6. QED BY <1>4, <1>5 DEF TypeOK

LEMMA RefusedType ==
  ASSUME TypeOK, Refused, m' \in Machines, wentBack' \in BOOLEAN
  PROVE  TypeOK'
BY DEF TypeOK, Refused, host

LEMMA RewindToType ==
  ASSUME TypeOK, NEW t \in 0..Steps, RewindTo(t)
  PROVE  TypeOK'
<1> DEFINE i == tt_bsearch_le(t)
<1>1. i \in 0..Len(snaps) /\ (i > 0 => snaps[i] \in [cycle : 0..Steps, m : Machines])
  BY SMTT(30), SnapType, TimeTravelAssumption
<1>2. CASE i = 0
  <2>1. Refused /\ UNCHANGED <<m, wentBack>>
    BY <1>2 DEF RewindTo
  <2>2. QED BY <2>1, RefusedType DEF TypeOK
<1>3. CASE i # 0
  <2>1. Restored("rewind", snaps[i].m, t)
    BY <1>3 DEF RewindTo
  <2> HIDE DEF i
  <2>2. snaps[i].m \in Machines
    BY <1>1, <1>3 DEF TypeOK
  <2>3. QED BY <2>1, <2>2, RestoredType
<1>4. QED BY <1>2, <1>3

LEMMA TypeStep == TypeOK /\ [Next]_vars => TypeOK'
<1> SUFFICES ASSUME TypeOK, [Next]_vars PROVE TypeOK'
  OBVIOUS
<1>0. /\ Steps \in Nat /\ LogMax \in Nat /\ EthMax \in Nat /\ MaxSnaps \in Nat /\ MaxEvents \in Nat
      /\ m \in Machines /\ m.cyc \in 0..Steps
      /\ log \in Seq(Events) /\ Len(log) \in Nat /\ Len(log) <= LogMax
      /\ call \in Calls /\ call.target \in 0..Steps /\ call.left \in 0..Steps
      /\ call.pos \in Nat /\ call.pos <= Len(log)
  BY TypeFacts
<1>1. CASE UNCHANGED vars
  BY <1>1 DEF vars, host, TypeOK
<1>2. CASE Run
  <2>1. Ran(m) \in Machines
    BY <1>2, RanType DEF Run, TypeOK
  <2>2. m' \in Machines /\ past' \subseteq Machines
    BY <1>2, <2>1 DEF Run, Recorded, TypeOK
  <2>3. QED BY <1>2, <2>2 DEF Run, host, TypeOK
<1>3. CASE RaiseIrq
  <2>1. PICK irq \in Irqs : log' = ev_log_append(log, Event(m.cyc, "irq", irq)) /\ m' = Pended(m, irq)
    BY <1>3 DEF RaiseIrq
  <2>2. log' \in Seq(Events) /\ Len(log') <= LogMax /\ Len(log) <= Len(log')
    BY <1>0, <2>1, EventType, AppendType DEF TypeOK
  <2>3. m' \in Machines
    BY <1>0, <2>1, PendedType
  <2>4. past' \subseteq Machines /\ inputs' \in 0..MaxEvents
    BY <1>0, <1>3, <2>3 DEF RaiseIrq, Recorded, TypeOK
  <2>5. UNCHANGED <<prog, frames, snaps, blob, call, ret, wentBack>>
    BY <1>3 DEF RaiseIrq
  <2>6. call'.pos <= Len(log')
    <3>1. Len(log') \in Nat
      BY <2>2
    <3>2. QED BY <1>0, <2>2, <2>5, <3>1
  <2>7. QED BY <2>2, <2>3, <2>4, <2>5, <2>6 DEF TypeOK
<1>4. CASE InjectFrame
  <2>1. PICK frame \in Frames : tt_record_eth_rx(frame) /\ m' = Received(m, frame)
    BY <1>4 DEF InjectFrame
  <2>2. /\ log' \in Seq(Events) /\ Len(log') <= LogMax /\ Len(log) <= Len(log')
        /\ frames' \in Seq(Frames) /\ Len(frames') <= EthMax
    <3>1. CASE UNCHANGED <<log, frames>>
      BY <3>1 DEF TypeOK
    <3>2. CASE /\ Len(frames) < EthMax
               /\ log' = ev_log_append(log, Event(m.cyc, "eth", Len(frames)))
               /\ frames' = Append(frames, frame)
      <4>1. Event(m.cyc, "eth", Len(frames)) \in Events
        BY <1>0, <3>2, EventType DEF TypeOK
      <4>2. log' \in Seq(Events) /\ Len(log') <= LogMax /\ Len(log) <= Len(log')
        BY <3>2, <4>1, AppendType DEF TypeOK
      <4>3. frames' \in Seq(Frames) /\ Len(frames') <= EthMax
        BY <1>0, <3>2 DEF TypeOK
      <4>4. QED BY <4>2, <4>3
    <3>3. Len(frames) \in Nat
      BY DEF TypeOK
    <3>4. QED BY <1>0, <2>1, <3>1, <3>2, <3>3 DEF tt_record_eth_rx
  <2>3. m' \in Machines
    BY <1>0, <2>1, ReceivedType
  <2>4. past' \subseteq Machines /\ inputs' \in 0..MaxEvents
    BY <1>0, <1>4, <2>3 DEF InjectFrame, Recorded, TypeOK
  <2>5. UNCHANGED <<prog, snaps, blob, call, ret, wentBack>>
    BY <1>4 DEF InjectFrame
  <2>6. call'.pos <= Len(log')
    <3>1. Len(log') \in Nat
      BY <2>2
    <3>2. QED BY <1>0, <2>2, <2>5, <3>1
  <2>7. QED BY <2>2, <2>3, <2>4, <2>5, <2>6 DEF TypeOK
<1>5. CASE OnCycle
  <2>1. [cycle |-> m.cyc, m |-> m] \in [cycle : 0..Steps, m : Machines]
    BY <1>0
  <2>2. snaps' \in Seq([cycle : 0..Steps, m : Machines]) /\ Len(snaps') <= MaxSnaps
    BY <1>0, <1>5, <2>1 DEF OnCycle, TypeOK
  <2>3. QED BY <1>5, <2>2 DEF OnCycle, TypeOK
<1>6. CASE SnapSave
  BY <1>6 DEF SnapSave, TypeOK
<1>7. CASE Rewind
  BY <1>7, RewindToType DEF Rewind
<1>8. CASE StepBack
  <2>1. PICK n \in 0..m.cyc : RewindTo(m.cyc - n)
    BY <1>8 DEF StepBack
  <2>2. m.cyc - n \in 0..Steps
    BY <1>0
  <2>3. QED BY <2>1, <2>2, RewindToType
<1>9. CASE Replay
  <2>1. PICK x \in blob, t \in 0..Steps :
          IF t < x.cyc THEN Refused /\ m' = x /\ wentBack' = TRUE ELSE Restored("replay", x, t)
    BY <1>9 DEF Replay
  <2>2. x \in Machines
    BY DEF TypeOK
  <2>3. CASE Refused /\ m' = x /\ wentBack' = TRUE
    BY <2>2, <2>3, RefusedType
  <2>4. CASE Restored("replay", x, t)
    BY <2>2, <2>4, RestoredType
  <2>5. QED BY <2>1, <2>3, <2>4
<1>10. CASE InjectEvent
  <2>1. call.pos \in 0..Len(log) /\ call.pos < Len(log) /\ Len(log) \in Nat
    BY <1>0, <1>10 DEF InjectEvent, EventDue
  <2>2. log[call.pos + 1] \in Events
    BY <2>1, SeqElement DEF TypeOK
  <2>3. m' \in Machines
    BY <1>10, <2>2, InjectedType DEF InjectEvent, TypeOK
  <2>4. call' \in Calls /\ call'.pos <= Len(log)
    <3>1. call' = [call EXCEPT !.pos = call.pos + 1] /\ call.pos + 1 \in 0..LogMax
      BY SMTT(30), <1>0, <1>10, <2>1 DEF InjectEvent, TypeOK
    <3>2. call' \in Calls
      BY <3>1, CallFields DEF TypeOK
    <3>3. call'.pos = call.pos + 1
      BY <3>1 DEF TypeOK, Calls
    <3>4. QED BY <2>1, <3>2, <3>3
  <2>5. QED BY <1>10, <2>3, <2>4 DEF InjectEvent, host, TypeOK
<1>11. CASE GoOn
  <2>1. Gap \in 0..Steps
    <3>1. call.target \in 0..Steps /\ m.cyc < call.target /\ call.pos \in Nat /\ Len(log) \in Nat
      BY <1>0, <1>11 DEF GoOn, AtHead
    <3>2. CASE call.pos < Len(log) /\ log[call.pos + 1].cycle < call.target
      <4>1. log[call.pos + 1] \in Events
        <5>1. call.pos + 1 \in 1..Len(log)
          BY <3>1, <3>2
        <5>2. QED BY <5>1, SeqElement DEF TypeOK
      <4>2. log[call.pos + 1].cycle \in 0..Steps
        BY <4>1, EventFields
      <4>3. m.cyc < log[call.pos + 1].cycle
        BY <1>0, <1>11, <3>2, <4>2 DEF GoOn, EventDue
      <4>4. QED BY <1>0, <3>2, <4>2, <4>3 DEF Gap
    <3>3. CASE ~(call.pos < Len(log) /\ log[call.pos + 1].cycle < call.target)
      BY <1>0, <3>1, <3>3 DEF Gap
    <3>4. QED BY <3>2, <3>3
  <2>2. call' \in Calls /\ call'.pos = call.pos
    BY <1>0, <1>11, <2>1, CallFields DEF GoOn, TypeOK, Calls
  <2>3. QED BY <1>11, <2>2 DEF GoOn, host, TypeOK
<1>12. CASE ReplayStep
  <2>1. Ran(m) \in Machines
    BY <1>12, RanType DEF ReplayStep, RanOut, TypeOK
  <2>2. call' = [call EXCEPT !.left = call.left - 1] /\ call.left - 1 \in 0..Steps
    BY <1>0, <1>12 DEF ReplayStep, RanOut
  <2>3. call' \in Calls /\ call'.pos = call.pos
    BY <2>2, CallFields DEF TypeOK, Calls
  <2>4. QED BY <1>12, <2>1, <2>3 DEF ReplayStep, host, TypeOK
<1>13. CASE Return
  <2>1. Idle \in Calls /\ Idle.pos = 0
    BY <1>0 DEF Idle, Calls
  <2>2. QED BY <1>13, <2>1 DEF Return, host, TypeOK
<1>14. QED
  BY <1>1, <1>2, <1>3, <1>4, <1>5, <1>6, <1>7, <1>8, <1>9, <1>10, <1>11, <1>12, <1>13 DEF Next, Back

\* The core, the log, the frame store, the snapshots and a call in progress
\* keep their ranges and their limits, whatever the host does and whatever the
\* instructions cost.
THEOREM TypeCorrect == Spec => []TypeOK
BY TypeInit, TypeStep, PTL DEF Spec

-----------------------------------------------------------------------------
(* The tables of the host *)

LEMMA SpacedStep == TypeOK /\ SnapsSpaced /\ [Next]_vars => SnapsSpaced'
<1> SUFFICES ASSUME TypeOK, SnapsSpaced, [Next]_vars PROVE SnapsSpaced'
  OBVIOUS
<1>1. CASE snaps' = snaps
  BY <1>1 DEF SnapsSpaced
<1>2. CASE OnCycle
  <2> DEFINE n == Len(snaps)
             e == [cycle |-> m.cyc, m |-> m]
  <2>1. /\ snaps' = Append(snaps, e) /\ n \in Nat /\ m.cyc \in Nat /\ Stride \in Nat \ {0}
        /\ snaps \in Seq([cycle : 0..Steps, m : Machines]) /\ Due
    BY <1>2, TypeFacts DEF OnCycle, TypeOK
  <2>2. /\ DOMAIN snaps = 1..n /\ DOMAIN snaps' = 1 .. n + 1 /\ snaps'[n + 1] = e
        /\ \A i \in 1..n : snaps'[i] = snaps[i]
    BY <2>1
  <2>3. ASSUME NEW i \in 1..n PROVE snaps[i].cycle \in Nat
    <3>1. snaps[i] \in [cycle : 0..Steps, m : Machines]
      BY <2>1, SeqElement
    <3>2. QED BY <3>1
  <2>4. ASSUME NEW i \in 1..n PROVE m.cyc - snaps[i].cycle >= Stride
    <3>1. n \in 1..n /\ snaps # << >>
      BY <2>1
    <3>2. m.cyc >= snaps[n].cycle + Stride
      BY <2>1, <3>1 DEF Due
    <3>3. i = n \/ snaps[n].cycle - snaps[i].cycle >= Stride
      <4> HIDE DEF n
      <4>1. i \in DOMAIN snaps /\ n \in DOMAIN snaps /\ (i = n \/ i < n)
        BY <2>1, <2>2, <3>1
      <4>2. QED BY <4>1 DEF SnapsSpaced
    <3>4. snaps[i].cycle \in Nat /\ snaps[n].cycle \in Nat
      BY <2>3, <3>1
    <3>5. QED BY SMTT(30), <2>1, <3>2, <3>3, <3>4
  <2> HIDE DEF n, e
  <2>5. ASSUME NEW i \in 1 .. n + 1, NEW j \in 1 .. n + 1, i < j
        PROVE  snaps'[j].cycle - snaps'[i].cycle >= Stride
    <3>1. n \in Nat /\ i \in 1..n
      BY <2>1, <2>5 DEF n
    <3>2. CASE j = n + 1
      BY <2>2, <2>4, <3>1, <3>2 DEF e
    <3>3. CASE j # n + 1
      <4>1. j \in 1..n
        BY <3>1, <3>3
      <4>2. QED BY <2>2, <2>5, <3>1, <4>1 DEF SnapsSpaced
    <3>4. QED BY <3>2, <3>3
  <2>6. UNCHANGED Stride
    OBVIOUS
  <2>7. QED BY <2>2, <2>5 DEF SnapsSpaced
<1>3. QED
  BY <1>1, <1>2 DEF Next, Back, vars, host, Run, RaiseIrq, InjectFrame, SnapSave, Rewind, StepBack,
     Replay, RewindTo, Restored, Refused, InjectEvent, GoOn, ReplayStep, Return

\* tt_on_cycle keeps the snapshots in order and a stride apart, for every
\* stride and cost of instructions, also when the host goes back and runs again.
THEOREM SnapsStaySpaced == Spec => []SnapsSpaced
<1>1. Init => SnapsSpaced
  BY DEF Init, SnapsSpaced
<1>2. QED BY <1>1, SpacedStep, TypeCorrect, PTL DEF Spec

\* How a step may change the log: by one event of the current cycle.
Appends(e) ==
  /\ log' = Append(log, e) /\ e \in Events /\ e.cycle = m.cyc
  /\ Between /\ May("inject") /\ UNCHANGED wentBack
  /\ \/ e.type = "irq" /\ UNCHANGED frames
     \/ /\ e.type = "eth" /\ e.payload = Len(frames)
        /\ Len(frames) < EthMax /\ \E frame \in Frames : frames' = Append(frames, frame)

LEMMA LogStep ==
  ASSUME TypeOK, [Next]_vars
  PROVE  UNCHANGED <<log, frames>> \/ \E e \in Events : Appends(e) /\ m'.cyc = m.cyc
<1>1. CASE RaiseIrq
  <2>1. PICK irq \in Irqs : log' = ev_log_append(log, Event(m.cyc, "irq", irq)) /\ m' = Pended(m, irq)
    BY <1>1 DEF RaiseIrq
  <2> DEFINE e == Event(m.cyc, "irq", irq)
  <2>2. e \in Events /\ e.cycle = m.cyc /\ e.type = "irq"
    <3>1. e \in Events
      BY TypeFacts, EventType
    <3>2. QED BY <3>1 DEF Event
  <2>3. m'.cyc = m.cyc
    BY <2>1, TypeFacts, MachineFields DEF Pended
  <2> HIDE DEF e
  <2>4. log' = log \/ log' = Append(log, e)
    BY <2>1 DEF ev_log_append, e
  <2>5. Between /\ May("inject") /\ UNCHANGED <<wentBack, frames>>
    BY <1>1 DEF RaiseIrq
  <2>6. QED BY <2>2, <2>3, <2>4, <2>5 DEF Appends
<1>2. CASE InjectFrame
  <2>1. PICK frame \in Frames : tt_record_eth_rx(frame) /\ m' = Received(m, frame)
    BY <1>2 DEF InjectFrame
  <2> DEFINE e == Event(m.cyc, "eth", Len(frames))
  <2>2. m'.cyc = m.cyc
    BY <2>1, TypeFacts, MachineFields DEF Received
  <2>3. Between /\ May("inject") /\ UNCHANGED wentBack
    BY <1>2 DEF InjectFrame
  <2>4. CASE UNCHANGED <<log, frames>>
    BY <2>4
  <2>5. CASE /\ Len(frames) < EthMax /\ Len(log) < LogMax
             /\ log' = ev_log_append(log, e) /\ frames' = Append(frames, frame)
    <3>1. e \in Events
      BY <2>5, TypeFacts, EventType
    <3>2. e.cycle = m.cyc /\ e.type = "eth" /\ e.payload = Len(frames)
      BY DEF Event
    <3> HIDE DEF e
    <3>3. log' = Append(log, e)
      BY <2>5, TypeFacts DEF ev_log_append
    <3>4. QED BY <2>2, <2>3, <2>5, <3>1, <3>2, <3>3 DEF Appends
  <2>6. QED BY <2>1, <2>4, <2>5, TypeFacts DEF tt_record_eth_rx
<1>3. CASE ~RaiseIrq /\ ~InjectFrame
  BY <1>3 DEF Next, Back, vars, host, Run, OnCycle, SnapSave, Rewind, StepBack,
     Replay, RewindTo, Restored, Refused, InjectEvent, GoOn, ReplayStep, Return
<1>4. QED BY <1>1, <1>2, <1>3

\* The log before and after.
LEMMA AppendFacts ==
  ASSUME TypeOK, NEW e \in Events, log' = Append(log, e)
  PROVE  /\ DOMAIN log = 1..Len(log) /\ DOMAIN log' = 1 .. Len(log) + 1
         /\ Len(log') = Len(log) + 1 /\ log'[Len(log) + 1] = e
         /\ \A i \in 1..Len(log) : log'[i] = log[i]
<1>1. log \in Seq(Events)
  BY DEF TypeOK
<1>2. QED BY <1>1

LEMMA MatchStep == TypeOK /\ FramesMatch /\ [Next]_vars => FramesMatch'
<1> SUFFICES ASSUME TypeOK, FramesMatch, [Next]_vars PROVE FramesMatch'
  OBVIOUS
<1>1. CASE UNCHANGED <<log, frames>>
  BY <1>1 DEF FramesMatch, FrameEvents
<1>2. ASSUME NEW e \in Events, Appends(e) PROVE FramesMatch'
  <2> DEFINE n == Len(log)
             k == Len(frames)
  <2>0. n \in Nat /\ k \in Nat
    BY TypeFacts
  <2>1. /\ DOMAIN log = 1..n /\ DOMAIN log' = 1 .. n + 1 /\ log'[n + 1] = e
        /\ \A i \in 1..n : log'[i] = log[i]
    BY <1>2, AppendFacts DEF Appends
  <2>2. /\ FrameEvents = {i \in 1..n : log[i].type = "eth"}
        /\ FrameEvents' = {i \in 1 .. n + 1 : log'[i].type = "eth"}
    BY <2>1 DEF FrameEvents
  <2>3. \A i \in FrameEvents : i \in 1..n /\ log'[i] = log[i] /\ log[i].payload \in 0 .. k - 1
    BY <2>1, <2>2 DEF FramesMatch
  <2>4. CASE e.type = "irq" /\ UNCHANGED frames
    <3>1. FrameEvents' = FrameEvents
      <4> HIDE DEF n
      <4>1. QED BY <2>0, <2>1, <2>2, <2>4
    <3>2. QED BY <2>3, <2>4, <3>1 DEF FramesMatch
  <2>5. CASE e.type = "eth" /\ e.payload = k /\ \E frame \in Frames : frames' = Append(frames, frame)
    <3>1. Len(frames') = k + 1
      BY <2>5 DEF TypeOK
    <3> HIDE DEF n, k
    <3>2. FrameEvents' = FrameEvents \cup {n + 1}
      BY <2>0, <2>1, <2>2, <2>5
    <3>3. ASSUME NEW i \in FrameEvents', NEW j \in FrameEvents', i < j
          PROVE  log'[i].payload < log'[j].payload
      <4>1. CASE j = n + 1
        <5>1. i \in FrameEvents
          BY <3>2, <3>3, <4>1, <2>0
        <5>2. QED BY <2>0, <2>1, <2>3, <2>5, <4>1, <5>1
      <4>2. CASE j # n + 1
        <5>1. i \in FrameEvents /\ j \in FrameEvents
          BY <2>0, <2>3, <3>2, <3>3, <4>2
        <5>2. QED BY <2>3, <3>3, <5>1 DEF FramesMatch
      <4>3. QED BY <4>1, <4>2
    <3>4. {log'[i].payload : i \in FrameEvents'} = {log[i].payload : i \in FrameEvents} \cup {k}
      <4>1. log'[n + 1].payload = k
        BY <2>1, <2>5
      <4>2. \A i \in FrameEvents : log'[i].payload = log[i].payload
        BY <2>3
      <4>3. QED BY <3>2, <4>1, <4>2, Zenon
    <3>5. {log[i].payload : i \in FrameEvents} = 0 .. k - 1
      BY DEF FramesMatch, k
    <3>6. {log'[i].payload : i \in FrameEvents'} = 0 .. Len(frames') - 1
      <4>1. 0 .. k - 1 \cup {k} = 0 .. (k + 1) - 1
        BY <2>0
      <4>2. QED BY <3>1, <3>4, <3>5, <4>1
    <3>7. QED BY <3>3, <3>6 DEF FramesMatch
  <2>6. QED BY <1>2, <2>4, <2>5 DEF Appends
<1>3. QED BY <1>1, <1>2, LogStep

\* The side store holds the frames of the log's frame events, in their order,
\* also when tt_record_eth_rx finds the log or the store full.
THEOREM FramesStayMatched == Spec => []FramesMatch
<1>1. Init => FramesMatch
  <2>1. ASSUME Init PROVE FrameEvents = {} /\ Len(frames) = 0
    BY <2>1 DEF Init, FrameEvents
  <2>2. QED BY <2>1 DEF FramesMatch
<1>2. QED BY <1>1, MatchStep, TypeCorrect, PTL DEF Spec

-----------------------------------------------------------------------------
(* The log is in order as long as nothing is recorded after going back.      *)

LogSorted == \A i, j \in 1..Len(log) : i < j => log[i].cycle <= log[j].cycle
InOrder == LogSorted /\ (~wentBack => \A i \in 1..Len(log) : log[i].cycle <= m.cyc)

LEMMA RanLater ==
  ASSUME TypeOK, NEW x \in Machines, ~Halted(x)
  PROVE  Ran(x).cyc \in Nat /\ x.cyc \in Nat /\ Ran(x).cyc >= x.cyc
<1>1. x.n \in 0..Steps /\ x.n # Steps /\ x.cyc \in Nat /\ Steps \in Nat
  BY MachineFields, TimeTravelAssumption DEF Halted
<1>2. x.n + 1 \in 1..Steps
  BY <1>1
<1>3. prog[x.n + 1] \in {0, 1}
  BY <1>2, TimeTravelAssumption DEF TypeOK
<1>4. Ran(x).cyc = x.cyc + prog[x.n + 1]
  BY DEF Ran
<1>5. QED BY <1>1, <1>3, <1>4

LEMMA InjectedFields ==
  ASSUME NEW x \in Machines, NEW e \in Events
  PROVE  Injected(x, e).cyc = x.cyc /\ Injected(x, e).n = x.n /\ Injected(x, e).seen = x.seen
BY EventFields, MachineFields DEF Injected, Pended, Received

LEMMA CyclesGrow ==
  ASSUME TypeOK, [Next]_vars
  PROVE  wentBack' \/ (m'.cyc \in Nat /\ m'.cyc >= m.cyc)
<1>0. m.cyc \in Nat /\ m \in Machines
  BY TypeFacts
<1>1. CASE Run
  BY <1>1, RanLater, TypeFacts DEF Run
<1>2. CASE ReplayStep
  BY <1>2, RanLater, TypeFacts DEF ReplayStep, RanOut
<1>3. CASE InjectEvent
  <2>1. call.pos + 1 \in 1..Len(log)
    BY SMTT(30), <1>3, TypeFacts DEF InjectEvent, EventDue
  <2>2. log[call.pos + 1] \in Events
    BY <2>1, TypeFacts, SeqElement
  <2>3. QED BY <1>0, <1>3, <2>2, InjectedFields DEF InjectEvent
<1>4. CASE RaiseIrq \/ InjectFrame
  <2>1. m'.cyc = m.cyc
    BY <1>0, <1>4, MachineFields DEF RaiseIrq, InjectFrame, Pended, Received
  <2>2. QED BY <1>0, <2>1
<1>5. CASE m' = m
  BY <1>0, <1>5
<1>6. CASE wentBack'
  BY <1>6
<1>7. QED
  BY <1>1, <1>2, <1>3, <1>4, <1>5, <1>6 DEF Next, Back, vars, host, OnCycle, SnapSave, Rewind,
     StepBack, Replay, RewindTo, Restored, Refused, GoOn, Return

LEMMA OrderStep ==
  ASSUME "inject" \notin After, TypeOK, InOrder, [Next]_vars
  PROVE  InOrder'
<1>0. \A i \in 1..Len(log) : log[i].cycle \in Nat
  <2>1. ASSUME NEW i \in 1..Len(log) PROVE log[i].cycle \in Nat
    BY TypeFacts, SeqElement, EventFields
  <2>2. QED BY <2>1
<1>1. CASE UNCHANGED <<log, frames>>
  <2>1. LogSorted'
    BY <1>1 DEF InOrder, LogSorted
  <2>2. ASSUME ~wentBack', NEW i \in 1..Len(log) PROVE log[i].cycle <= m'.cyc
    <3>1. ~wentBack
      BY <2>2 DEF Next, Back, vars, host, Run, RaiseIrq, InjectFrame, OnCycle, SnapSave, Rewind, StepBack,
         Replay, RewindTo, Restored, Refused, InjectEvent, GoOn, ReplayStep, Return
    <3>2. m'.cyc \in Nat /\ m'.cyc >= m.cyc /\ m.cyc \in Nat
      BY <2>2, CyclesGrow, TypeFacts
    <3>3. log[i].cycle <= m.cyc
      BY <3>1 DEF InOrder
    <3>4. QED BY <1>0, <3>2, <3>3
  <2>3. QED BY <1>1, <2>1, <2>2 DEF InOrder
<1>2. ASSUME NEW e \in Events, Appends(e), m'.cyc = m.cyc PROVE InOrder'
  <2> DEFINE n == Len(log)
  <2>1. /\ n \in Nat /\ Len(log') = n + 1 /\ log'[n + 1].cycle = m.cyc
        /\ \A i \in 1..n : log'[i] = log[i]
    BY <1>2, AppendFacts, TypeFacts DEF Appends
  <2>2. ~wentBack /\ \A i \in 1..n : log[i].cycle <= m.cyc
    BY <1>2 DEF Appends, May, InOrder
  <2> HIDE DEF n
  <2>3. ASSUME NEW i \in 1 .. n + 1, NEW j \in 1 .. n + 1, i < j
        PROVE  log'[i].cycle <= log'[j].cycle
    <3>1. i \in 1..n
      BY <2>1, <2>3
    <3>2. CASE j = n + 1
      BY <2>1, <2>2, <3>1, <3>2
    <3>3. CASE j # n + 1
      <4>1. j \in 1..n
        BY <2>1, <3>3
      <4>2. QED BY <2>1, <2>3, <3>1, <4>1 DEF InOrder, LogSorted, n
    <3>4. QED BY <3>2, <3>3
  <2>4. ASSUME NEW i \in 1 .. n + 1 PROVE log'[i].cycle <= m.cyc
    <3>1. m.cyc \in Nat
      BY TypeFacts
    <3>2. CASE i = n + 1
      BY <2>1, <3>1, <3>2
    <3>3. CASE i # n + 1
      <4>1. i \in 1..n
        BY <2>1, <3>3
      <4>2. QED BY <2>1, <2>2, <4>1
    <3>4. QED BY <3>2, <3>3
  <2>5. QED BY <1>2, <2>1, <2>3, <2>4 DEF InOrder, LogSorted
<1>3. QED BY <1>1, <1>2, LogStep

LEMMA OrderInit == Init => InOrder
BY DEF Init, InOrder, LogSorted

\* Unless the host records after it went back, ev_log_seek finds the first
\* event at or after every cycle, for every log and every cost of instructions.
THEOREM SeekStaysExact ==
  ASSUME "inject" \notin After
  PROVE  Spec => []SeekExact
<1>1. TypeOK /\ InOrder => SeekExact
  <2> SUFFICES ASSUME TypeOK, InOrder, NEW c \in 0..Steps
               PROVE  /\ \A i \in 1 .. ev_log_seek(log, c) : log[i].cycle < c
                      /\ \A i \in ev_log_seek(log, c) + 1 .. Len(log) : log[i].cycle >= c
    BY DEF SeekExact
  <2>1. Len(log) \in Nat /\ c \in Nat
    BY TypeFacts
  <2>2. ASSUME NEW i \in 1..Len(log) PROVE log[i].cycle \in Nat
    BY TypeFacts, SeqElement, EventFields
  <2>3. \A i, j \in 1..Len(log) : i < j => log[i].cycle <= log[j].cycle
    BY DEF InOrder, LogSorted
  <2>4. QED BY <2>1, <2>2, <2>3, SeekCorrect
<1>2. TypeOK /\ InOrder /\ [Next]_vars => InOrder'
  BY OrderStep
<1>3. QED BY <1>1, <1>2, OrderInit, TypeCorrect, PTL DEF Spec

-----------------------------------------------------------------------------
(* Going back leads to the recording.  With instructions of one cycle each  *)
(* the states of a recording can be written down from its log.              *)

\* Every instruction takes a cycle, the host does no more than go back again
\* after it went back, and neither the log nor the frame store gets full.
PureRecording ==
  /\ 0 \notin Costs /\ After = {}
  /\ MaxEvents <= LogMax /\ MaxEvents <= EthMax

\* What the recording holds for a cycle: the interrupts raised at it, and the
\* last of the frames that arrived.
IrqEvents(c) == {i \in 1..Len(log) : log[i].cycle = c /\ log[i].type = "irq"}
EthEvents(c) == {i \in 1..Len(log) : log[i].cycle = c /\ log[i].type = "eth"}
IrqsAt(c) == {log[i].payload : i \in IrqEvents(c)}
LastOf(E) == CHOOSE i \in E : \A j \in E : j <= i
RxAt(c) == IF EthEvents(c) = {} THEN None ELSE frames[log[LastOf(EthEvents(c))].payload + 1]

\* What firmware has observed when it arrives at a cycle, and the core then.
Quiet(c) == IrqsAt(c) = {} /\ RxAt(c) = None
Seen(c) == {<<k, IrqsAt(k), RxAt(k)>> : k \in {j \in 0 .. c - 1 : ~Quiet(j)}}
Arrival(c) == [cyc |-> c, n |-> c, pend |-> {}, rx |-> None, seen |-> Seen(c)]

\* A state at a cycle that has seen what the recording saw before it.
Follows(x) == x.n = x.cyc /\ x.seen = Seen(x.cyc)

Stored == Len(log) <= inputs /\ Len(frames) <= inputs

\* While it is recorded, the core has what the log holds for its cycle.
Recording ==
  ~wentBack =>
    /\ call.op = None
    /\ Follows(m) /\ m.pend = IrqsAt(m.cyc) /\ m.rx = RxAt(m.cyc)
    /\ \A i \in 1..Len(log) : log[i].cycle <= m.cyc
    /\ m \in past /\ \A x \in past : x.cyc <= m.cyc

\* The recording passed through the arrival at every cycle up to its last.
Passed == past # {} /\ \A x \in past : \A k \in 0..x.cyc : Arrival(k) \in past

\* A snapshot is a state of the recording, with some of the inputs of its cycle.
Keepable(x) ==
  /\ x \in past /\ Follows(x) /\ x.pend \subseteq IrqsAt(x.cyc)
  /\ x.rx # None => EthEvents(x.cyc) # {}
Kept ==
  /\ \A x \in blob : Keepable(x)
  /\ \A i \in 1..Len(snaps) : Keepable(snaps[i].m) /\ snaps[i].cycle = snaps[i].m.cyc

\* A call in progress has injected the events before pos, and what it has still
\* to inject completes the inputs of the cycle it is at.
Ahead == call.pos + 1 .. Len(log)
Replaying ==
  call.op # None =>
    /\ Follows(m) /\ m.cyc <= call.target
    /\ \A j \in 1..call.pos : log[j].cycle <= m.cyc
    /\ \A j \in Ahead : log[j].cycle >= m.cyc
    /\ m.pend \subseteq IrqsAt(m.cyc)
    /\ \A j \in IrqEvents(m.cyc) : j \in Ahead \/ log[j].payload \in m.pend
    /\ m.rx = RxAt(m.cyc) \/ \E j \in EthEvents(m.cyc) : j \in Ahead
    /\ call.left > 0 => /\ m.cyc + call.left <= call.target
                        /\ \A j \in Ahead : log[j].cycle >= m.cyc + call.left
    /\ call.prev <= m.cyc /\ (call.prev = m.cyc => call.left > 0)
    /\ m.cyc = call.target => m \in past \/ m = Arrival(m.cyc)

PastInv == InOrder /\ FramesMatch /\ Stored /\ Recording /\ Passed /\ Kept /\ Replaying

LEMMA LastIs ==
  ASSUME NEW E, E \subseteq Nat, NEW i \in E, \A j \in E : j <= i
  PROVE  LastOf(E) = i
<1>1. LastOf(E) \in E /\ \A j \in E : j <= LastOf(E)
  BY DEF LastOf
<1>2. LastOf(E) <= i /\ i <= LastOf(E) /\ i \in Nat /\ LastOf(E) \in Nat
  BY <1>1
<1>3. QED BY <1>2

LEMMA SameLog ==
  ASSUME UNCHANGED <<log, frames>>, NEW k
  PROVE  /\ IrqEvents(k)' = IrqEvents(k) /\ EthEvents(k)' = EthEvents(k)
         /\ IrqsAt(k)' = IrqsAt(k) /\ RxAt(k)' = RxAt(k)
         /\ Seen(k)' = Seen(k) /\ Arrival(k)' = Arrival(k)
BY DEF IrqEvents, EthEvents, IrqsAt, RxAt, Seen, Arrival, Quiet

\* What an appended event changes: the inputs of its own cycle.
LEMMA AppendedEvents ==
  ASSUME TypeOK, NEW e \in Events, Appends(e), NEW k
  PROVE  /\ IrqEvents(k)' = IrqEvents(k) \cup (IF k = m.cyc /\ e.type = "irq" THEN {Len(log) + 1} ELSE {})
         /\ EthEvents(k)' = EthEvents(k) \cup (IF k = m.cyc /\ e.type = "eth" THEN {Len(log) + 1} ELSE {})
<1> DEFINE n == Len(log)
<1>1. /\ n \in Nat /\ Len(log') = n + 1 /\ log'[n + 1] = e /\ e.cycle = m.cyc
      /\ \A i \in 1..n : log'[i] = log[i]
  BY AppendFacts, TypeFacts DEF Appends
<1>2. 1 .. n + 1 = 1..n \cup {n + 1}
  BY <1>1
<1> HIDE DEF n
<1>3. /\ IrqEvents(k)' = {i \in 1 .. n + 1 : log'[i].cycle = k /\ log'[i].type = "irq"}
      /\ EthEvents(k)' = {i \in 1 .. n + 1 : log'[i].cycle = k /\ log'[i].type = "eth"}
      /\ IrqEvents(k) = {i \in 1..n : log[i].cycle = k /\ log[i].type = "irq"}
      /\ EthEvents(k) = {i \in 1..n : log[i].cycle = k /\ log[i].type = "eth"}
  BY <1>1 DEF IrqEvents, EthEvents, n
<1>4. \A i \in 1 .. n + 1 : i = n + 1 \/ i \in 1..n
  BY <1>2
<1>5. IrqEvents(k)' = IrqEvents(k) \cup (IF k = m.cyc /\ e.type = "irq" THEN {n + 1} ELSE {})
  BY <1>1, <1>2, <1>3
<1>6. EthEvents(k)' = EthEvents(k) \cup (IF k = m.cyc /\ e.type = "eth" THEN {n + 1} ELSE {})
  BY <1>1, <1>2, <1>3
<1>7. QED BY <1>5, <1>6 DEF n

LEMMA EventsOf ==
  ASSUME TypeOK, NEW k
  PROVE  /\ \A i \in IrqEvents(k) : i \in 1..Len(log) /\ log[i].cycle = k /\ log[i].type = "irq"
         /\ \A i \in EthEvents(k) : i \in 1..Len(log) /\ log[i].cycle = k /\ log[i].type = "eth"
         /\ IrqEvents(k) \subseteq Nat /\ EthEvents(k) \subseteq Nat
BY TypeFacts DEF IrqEvents, EthEvents

LEMMA LastEvent ==
  ASSUME TypeOK, NEW k, EthEvents(k) # {}
  PROVE  LastOf(EthEvents(k)) \in EthEvents(k)
<1>1. Len(log) \in Nat /\ EthEvents(k) \subseteq 0..Len(log)
  BY TypeFacts DEF EthEvents
<1>2. \E i \in EthEvents(k) : \A j \in EthEvents(k) : j <= i
  BY <1>1, Greatest
<1>3. QED BY <1>2 DEF LastOf

LEMMA AppendedInputs ==
  ASSUME TypeOK, FramesMatch, NEW e \in Events, Appends(e), NEW k
  PROVE  /\ IrqsAt(k)' = IrqsAt(k) \cup (IF k = m.cyc /\ e.type = "irq" THEN {e.payload} ELSE {})
         /\ RxAt(k)' = IF k = m.cyc /\ e.type = "eth" THEN frames'[Len(frames) + 1] ELSE RxAt(k)
<1> DEFINE n == Len(log)
<1>1. /\ n \in Nat /\ log'[n + 1] = e /\ \A i \in 1..n : log'[i] = log[i]
  BY AppendFacts, TypeFacts DEF Appends
<1>2. /\ \A i \in IrqEvents(k) : i \in 1..n
      /\ \A i \in EthEvents(k) : i \in 1..n /\ log[i].type = "eth"
  BY EventsOf
<1> HIDE DEF n
<1>3. IrqsAt(k)' = {log'[i].payload : i \in IrqEvents(k)'}
  BY DEF IrqsAt
<1>4. IrqsAt(k)' = IrqsAt(k) \cup (IF k = m.cyc /\ e.type = "irq" THEN {e.payload} ELSE {})
  <2>1. CASE k = m.cyc /\ e.type = "irq"
    <3>1. IrqEvents(k)' = IrqEvents(k) \cup {n + 1}
      BY <2>1, AppendedEvents DEF n
    <3>2. QED BY <1>1, <1>2, <1>3, <2>1, <3>1 DEF IrqsAt
  <2>2. CASE ~(k = m.cyc /\ e.type = "irq")
    <3>1. IrqEvents(k)' = IrqEvents(k) \cup {}
      BY <2>2, AppendedEvents
    <3>2. QED BY <1>1, <1>2, <1>3, <2>2, <3>1 DEF IrqsAt
  <2>3. QED BY <2>1, <2>2
<1>5. CASE k = m.cyc /\ e.type = "eth"
  <2>1. EthEvents(k)' = EthEvents(k) \cup {n + 1}
    BY <1>5, AppendedEvents DEF n
  <2>2. LastOf(EthEvents(k) \cup {n + 1}) = n + 1
    <3> DEFINE E == EthEvents(k) \cup {n + 1}
    <3>1. E \subseteq Nat /\ n + 1 \in E /\ \A j \in E : j <= n + 1
      BY <1>1, <1>2
    <3> HIDE DEF E
    <3>2. LastOf(E) = n + 1
      BY <3>1, LastIs
    <3>3. QED BY <3>2 DEF E
  <2>3. log'[n + 1].payload = Len(frames)
    BY <1>1, <1>5 DEF Appends
  <2>4. LastOf(EthEvents(k))' = n + 1
    BY <2>1, <2>2 DEF LastOf
  <2>5. RxAt(k)' = IF EthEvents(k)' = {} THEN None ELSE frames'[log'[LastOf(EthEvents(k))'].payload + 1]
    BY DEF RxAt
  <2>6. EthEvents(k)' # {}
    BY <2>1
  <2>7. RxAt(k)' = frames'[Len(frames) + 1]
    BY <2>3, <2>4, <2>5, <2>6
  <2>8. QED BY <1>4, <1>5, <2>7
<1>6. CASE ~(k = m.cyc /\ e.type = "eth")
  <2>1. EthEvents(k)' = EthEvents(k)
    BY <1>6, AppendedEvents
  <2>2. LastOf(EthEvents(k))' = LastOf(EthEvents(k))
    BY <2>1 DEF LastOf
  <2>3. RxAt(k)' = IF EthEvents(k)' = {} THEN None ELSE frames'[log'[LastOf(EthEvents(k))'].payload + 1]
    BY DEF RxAt
  <2>4. CASE EthEvents(k) = {}
    BY <1>4, <1>6, <2>1, <2>3, <2>4 DEF RxAt
  <2>5. CASE EthEvents(k) # {}
    <3> DEFINE i == LastOf(EthEvents(k))
    <3>1. i \in EthEvents(k)
      BY <2>5, LastEvent
    <3> HIDE DEF i
    <3>2. i \in 1..n /\ log'[i] = log[i] /\ log[i].type = "eth"
      BY <1>1, <1>2, <3>1
    <3>3. log[i].payload \in 0 .. Len(frames) - 1
      <4>1. i \in FrameEvents
        BY <3>2, TypeFacts DEF FrameEvents, n
      <4>2. QED BY <4>1 DEF FramesMatch
    <3>4. frames'[log[i].payload + 1] = frames[log[i].payload + 1]
      <4>1. frames' = frames \/ \E frame \in Frames : frames' = Append(frames, frame)
        BY DEF Appends
      <4>2. frames \in Seq(Frames)
        BY DEF TypeOK
      <4> DEFINE p == log[i].payload + 1
      <4>3. p \in 1..Len(frames)
        BY SMTT(30), <3>3, TypeFacts
      <4> HIDE DEF p
      <4>4. frames'[p] = frames[p]
        BY <4>1, <4>2, <4>3
      <4>5. QED BY <4>4 DEF p
    <3>5. RxAt(k) = frames[log[i].payload + 1]
      BY <2>5 DEF RxAt, i
    <3>6. RxAt(k)' = frames'[log'[i].payload + 1]
      BY <2>1, <2>2, <2>3, <2>5 DEF i
    <3>7. QED BY <1>4, <1>6, <3>2, <3>4, <3>5, <3>6
  <2>6. QED BY <2>4, <2>5
<1>7. QED BY <1>5, <1>6

\* What was observed before the current cycle stays as it is.
LEMMA AppendedSeen ==
  ASSUME TypeOK, FramesMatch, NEW e \in Events, Appends(e), NEW c \in Nat, c <= m.cyc
  PROVE  Seen(c)' = Seen(c) /\ Arrival(c)' = Arrival(c)
<1>1. ASSUME NEW k \in 0 .. c - 1
      PROVE  IrqsAt(k)' = IrqsAt(k) /\ RxAt(k)' = RxAt(k) /\ Quiet(k)' = Quiet(k)
  <2>1. k # m.cyc
    BY TypeFacts
  <2>2. /\ IrqsAt(k)' = IrqsAt(k) \cup (IF k = m.cyc /\ e.type = "irq" THEN {e.payload} ELSE {})
        /\ RxAt(k)' = IF k = m.cyc /\ e.type = "eth" THEN frames'[Len(frames) + 1] ELSE RxAt(k)
    BY AppendedInputs
  <2>3. IrqsAt(k)' = IrqsAt(k) /\ RxAt(k)' = RxAt(k)
    BY <2>1, <2>2
  <2>4. QED BY <2>3 DEF Quiet
<1>2. Seen(c)' = {<<k, IrqsAt(k)', RxAt(k)'>> : k \in {j \in 0 .. c - 1 : ~Quiet(j)'}}
  BY DEF Seen
<1>3. Seen(c)' = Seen(c)
  BY <1>1, <1>2 DEF Seen
<1>4. QED BY <1>3 DEF Arrival

\* One step further firmware has seen what the log holds for this cycle.
LEMMA SeenNext ==
  ASSUME NEW c \in Nat
  PROVE  Seen(c + 1) = IF Quiet(c) THEN Seen(c) ELSE Seen(c) \cup {<<c, IrqsAt(c), RxAt(c)>>}
<1>1. 0 .. (c + 1) - 1 = 0 .. c - 1 \cup {c}
  OBVIOUS
<1>2. CASE Quiet(c)
  <2>1. {j \in 0 .. (c + 1) - 1 : ~Quiet(j)} = {j \in 0 .. c - 1 : ~Quiet(j)}
    BY <1>1, <1>2
  <2>2. QED BY <1>2, <2>1 DEF Seen
<1>3. CASE ~Quiet(c)
  <2>1. {j \in 0 .. (c + 1) - 1 : ~Quiet(j)} = {j \in 0 .. c - 1 : ~Quiet(j)} \cup {c}
    BY <1>1, <1>3
  <2>2. QED BY <1>3, <2>1 DEF Seen
<1>4. QED BY <1>2, <1>3

LEMMA RanArrives ==
  ASSUME TypeOK, PureRecording, ~Halted(m), Follows(m), m.pend = IrqsAt(m.cyc), m.rx = RxAt(m.cyc)
  PROVE  Ran(m) = Arrival(m.cyc + 1)
<1>1. m.n \in Nat /\ m.n + 1 \in 1..Steps /\ m.n = m.cyc
  BY TypeFacts, MachineFields DEF Halted, Follows
<1>2. prog[m.n + 1] = 1
  <2>1. prog[m.n + 1] \in Costs
    BY <1>1 DEF TypeOK
  <2>2. QED BY <2>1, TimeTravelAssumption DEF PureRecording
<1>3. Quiet(m.cyc) <=> m.pend = {} /\ m.rx = None
  BY DEF Quiet
<1>4. Seen(m.cyc + 1) = IF m.pend = {} /\ m.rx = None THEN m.seen
                        ELSE m.seen \cup {<<m.n, m.pend, m.rx>>}
  BY <1>1, <1>3, SeenNext DEF Follows
<1>5. QED BY <1>1, <1>2, <1>4 DEF Ran, Arrival

LEMMA NextCycle ==
  ASSUME NEW c, m'.cyc = c
  PROVE  /\ Follows(m)' <=> m'.n = c /\ m'.seen = Seen(c)'
         /\ IrqsAt(m.cyc)' = IrqsAt(c)' /\ RxAt(m.cyc)' = RxAt(c)'
         /\ IrqEvents(m.cyc)' = IrqEvents(c)' /\ EthEvents(m.cyc)' = EthEvents(c)'
BY DEF Follows, Seen, Quiet, RxAt, IrqsAt, IrqEvents, EthEvents

LEMMA NothingAt ==
  ASSUME NEW c, \A i \in 1..Len(log) : log[i].cycle # c
  PROVE  IrqsAt(c) = {} /\ RxAt(c) = None /\ EthEvents(c) = {}
<1>1. IrqEvents(c) = {} /\ EthEvents(c) = {}
  BY DEF IrqEvents, EthEvents
<1>2. QED BY <1>1 DEF IrqsAt, RxAt

\* A snapshot stays one while the log and the recording grow.
LEMMA KeepableSame ==
  ASSUME UNCHANGED <<log, frames>>, past \subseteq past', NEW x, Keepable(x)
  PROVE  Keepable(x)'
<1>1. /\ IrqsAt(x.cyc)' = IrqsAt(x.cyc) /\ EthEvents(x.cyc)' = EthEvents(x.cyc)
      /\ Seen(x.cyc)' = Seen(x.cyc)
  BY SameLog
<1>2. QED BY <1>1 DEF Keepable, Follows

LEMMA KeptSame ==
  ASSUME TypeOK, Kept, UNCHANGED <<log, frames, snaps, blob>>, past \subseteq past'
  PROVE  Kept'
<1>1. ASSUME NEW x \in blob PROVE Keepable(x)'
  BY KeepableSame DEF Kept
<1>2. ASSUME NEW i \in 1..Len(snaps) PROVE Keepable(snaps[i].m)' /\ snaps'[i].cycle = snaps'[i].m.cyc
  <2>1. PICK x : x = snaps[i].m
    OBVIOUS
  <2>2. Keepable(x)'
    BY <2>1, KeepableSame DEF Kept
  <2>3. x = snaps'[i].m
    BY <2>1
  <2>4. Keepable(snaps[i].m)'
    BY <2>2, <2>3 DEF Keepable, Follows, Seen, Quiet, RxAt, IrqsAt, IrqEvents, EthEvents
  <2>5. QED BY <2>4 DEF Kept
<1>3. QED BY <1>1, <1>2 DEF Kept

LEMMA PassedSame ==
  ASSUME Passed, UNCHANGED <<log, frames, past>>
  PROVE  Passed'
<1>1. ASSUME NEW x \in past, NEW k \in 0..x.cyc PROVE Arrival(k)' \in past'
  <2>1. Arrival(k)' = Arrival(k)
    BY SameLog
  <2>2. QED BY <2>1 DEF Passed
<1>2. QED BY <1>1 DEF Passed

LEMMA RecordingSame ==
  ASSUME Recording, UNCHANGED <<m, log, frames, call, past, wentBack>>
  PROVE  Recording'
<1> SUFFICES ASSUME ~wentBack PROVE Recording'
  BY DEF Recording
<1>1. PICK c : c = m.cyc
  OBVIOUS
<1>2. Seen(c)' = Seen(c) /\ IrqsAt(c)' = IrqsAt(c) /\ RxAt(c)' = RxAt(c)
  BY SameLog
<1>3. /\ Follows(m)' <=> m'.n = c /\ m'.seen = Seen(c)'
      /\ IrqsAt(m.cyc)' = IrqsAt(c)' /\ RxAt(m.cyc)' = RxAt(c)'
  BY <1>1, NextCycle
<1>4. m.n = c /\ m.seen = Seen(c) /\ m.pend = IrqsAt(c) /\ m.rx = RxAt(c)
  BY <1>1 DEF Recording, Follows
<1>5. Follows(m)' /\ m'.pend = IrqsAt(m.cyc)' /\ m'.rx = RxAt(m.cyc)'
  BY <1>2, <1>3, <1>4
<1>6. QED BY <1>5 DEF Recording

\* The current state of a recording can be kept.
LEMMA LiveKeepable ==
  ASSUME TypeOK, Recording, ~wentBack
  PROVE  Keepable(m)
BY DEF Recording, Keepable, RxAt

LEMMA LivePast == ASSUME PureRecording, NEW what, May(what) PROVE ~wentBack
BY DEF PureRecording, May

LEMMA RunPast ==
  ASSUME TypeOK, PureRecording, PastInv, Run
  PROVE  Stored' /\ Recording' /\ Passed' /\ Kept' /\ Replaying'
<1>1. /\ ~wentBack /\ ~wentBack' /\ call' = call /\ call.op = None /\ past' = past \cup {m'}
      /\ m' = Ran(m) /\ ~Halted(m) /\ UNCHANGED <<log, frames, snaps, blob, inputs>>
  BY LivePast DEF Run, Recorded, Between, host
<1>2. PICK c \in Nat : c = m.cyc
  BY TypeFacts
<1>3. /\ Follows(m) /\ m.pend = IrqsAt(m.cyc) /\ m.rx = RxAt(m.cyc) /\ m \in past
      /\ \A i \in 1..Len(log) : log[i].cycle <= c
      /\ \A x \in past : x.cyc <= c
  BY <1>1, <1>2 DEF PastInv, Recording
<1>4. m' = Arrival(c + 1)
  BY <1>1, <1>2, <1>3, RanArrives
<1>5. m'.cyc = c + 1 /\ m'.n = c + 1 /\ m'.seen = Seen(c + 1) /\ m'.pend = {} /\ m'.rx = None
  BY <1>4 DEF Arrival
<1>6. \A i \in 1..Len(log) : log[i].cycle <= c + 1 /\ log[i].cycle # c + 1
  <2>1. ASSUME NEW i \in 1..Len(log) PROVE log[i].cycle \in Nat
    BY TypeFacts, SeqElement, EventFields
  <2>2. QED BY <1>2, <1>3, <2>1
<1>7. Stored'
  BY <1>1 DEF PastInv, Stored
<1>8. PICK d \in Nat : d = c + 1
  OBVIOUS
<1>9. Recording'
  <2>1. Follows(m)' /\ m'.pend = IrqsAt(m.cyc)' /\ m'.rx = RxAt(m.cyc)'
    <3>1. IrqsAt(d) = {} /\ RxAt(d) = None
      BY <1>6, <1>8, NothingAt
    <3>2. Seen(d)' = Seen(d) /\ IrqsAt(d)' = IrqsAt(d) /\ RxAt(d)' = RxAt(d)
      BY <1>1, SameLog
    <3>3. /\ Follows(m)' <=> m'.n = d /\ m'.seen = Seen(d)'
          /\ IrqsAt(m.cyc)' = IrqsAt(d)' /\ RxAt(m.cyc)' = RxAt(d)'
      BY <1>5, <1>8, NextCycle
    <3>4. QED BY <1>5, <1>8, <3>1, <3>2, <3>3
  <2>2. \A x \in past' : x.cyc <= m'.cyc
    <3>1. ASSUME NEW x \in past PROVE x.cyc \in Nat
      BY MachineFields DEF TypeOK
    <3>2. QED BY <1>1, <1>2, <1>3, <1>5, <3>1
  <2>3. QED BY <1>1, <1>5, <1>6, <2>1, <2>2 DEF Recording
<1>10. Passed'
  <2>1. ASSUME NEW x \in past', NEW k \in 0..x.cyc PROVE Arrival(k)' \in past'
    <3>1. Arrival(k)' = Arrival(k)
      BY <1>1, SameLog
    <3>2. CASE x \in past
      BY <1>1, <3>1, <3>2 DEF PastInv, Passed
    <3>3. CASE x = m' /\ k = c + 1
      BY <1>1, <1>4, <3>1, <3>3
    <3>4. CASE x = m' /\ k # c + 1
      <4>1. k \in 0..m.cyc
        BY <1>2, <1>5, <3>4
      <4>2. QED BY <1>1, <1>3, <3>1, <4>1 DEF PastInv, Passed
    <3>5. QED BY <1>1, <3>2, <3>3, <3>4
  <2>2. QED BY <1>1, <2>1 DEF Passed
<1>11. Kept'
  BY <1>1, KeptSame DEF PastInv
<1>12. Replaying'
  BY <1>1 DEF Replaying
<1>13. QED BY <1>7, <1>9, <1>10, <1>11, <1>12

\* An injection while recording: it is in the log and in the core.
LEMMA InputPast ==
  ASSUME TypeOK, PastInv, ~wentBack, ~wentBack', UNCHANGED <<snaps, blob, call>>,
         NEW e \in Events, Appends(e), inputs' = inputs + 1, inputs \in Nat,
         past' = past \cup {m'}, m'.cyc = m.cyc, m'.n = m.n, m'.seen = m.seen,
         m'.pend = IF e.type = "irq" THEN m.pend \cup {e.payload} ELSE m.pend,
         m'.rx = IF e.type = "eth" THEN frames'[Len(frames) + 1] ELSE m.rx
  PROVE  Stored' /\ Recording' /\ Passed' /\ Kept' /\ Replaying'
<1>1. PICK c \in Nat : c = m.cyc
  BY TypeFacts
<1>2. /\ Follows(m) /\ m.pend = IrqsAt(c) /\ m.rx = RxAt(c) /\ m \in past /\ call.op = None
      /\ \A i \in 1..Len(log) : log[i].cycle <= c
      /\ \A x \in past : x.cyc <= c
  BY <1>1 DEF PastInv, Recording
<1>3. /\ Len(log') = Len(log) + 1 /\ log'[Len(log) + 1] = e /\ e.cycle = c
      /\ \A i \in 1..Len(log) : log'[i] = log[i]
  BY <1>1, AppendFacts DEF Appends
<1>4. Stored'
  <2>1. Len(frames') <= Len(frames) + 1
    <3>1. frames \in Seq(Frames) /\ (frames' = frames \/ \E frame \in Frames : frames' = Append(frames, frame))
      BY DEF Appends, TypeOK
    <3>2. QED BY <3>1
  <2>2. Len(frames') \in Nat
    BY DEF Appends, TypeOK
  <2>3. QED BY <1>3, <2>1, <2>2, TypeFacts DEF PastInv, Stored
<1>5. ASSUME NEW k \in Nat, k <= c PROVE Seen(k)' = Seen(k) /\ Arrival(k)' = Arrival(k)
  BY <1>1, <1>5, AppendedSeen DEF PastInv
<1>6. Recording'
  <2>1. Follows(m)' /\ m'.pend = IrqsAt(m.cyc)' /\ m'.rx = RxAt(m.cyc)'
    <3>1. /\ IrqsAt(c)' = IrqsAt(c) \cup (IF e.type = "irq" THEN {e.payload} ELSE {})
          /\ RxAt(c)' = IF e.type = "eth" THEN frames'[Len(frames) + 1] ELSE RxAt(c)
      <4>1. /\ IrqsAt(c)' = IrqsAt(c) \cup (IF c = m.cyc /\ e.type = "irq" THEN {e.payload} ELSE {})
            /\ RxAt(c)' = IF c = m.cyc /\ e.type = "eth" THEN frames'[Len(frames) + 1] ELSE RxAt(c)
        BY AppendedInputs DEF PastInv
      <4>2. QED BY <1>1, <4>1
    <3>2. Seen(c)' = Seen(c)
      BY <1>5
    <3>3. /\ Follows(m)' <=> m'.n = c /\ m'.seen = Seen(c)'
          /\ IrqsAt(m.cyc)' = IrqsAt(c)' /\ RxAt(m.cyc)' = RxAt(c)'
      BY <1>1, NextCycle
    <3>4. m.n = c /\ m.seen = Seen(c)
      BY <1>1, <1>2 DEF Follows
    <3>5. QED BY <1>2, <3>1, <3>2, <3>3, <3>4
  <2>2. \A x \in past' : x.cyc <= m'.cyc
    BY <1>1, <1>2
  <2>3. \A i \in 1 .. Len(log') : log'[i].cycle <= m'.cyc
    <3>1. ASSUME NEW i \in 1 .. Len(log) + 1 PROVE log'[i].cycle <= c
      <4>1. CASE i = Len(log) + 1
        BY <1>3, <4>1
      <4>2. CASE i # Len(log) + 1
        <5>1. i \in 1..Len(log)
          BY SMTT(30), <4>2, TypeFacts
        <5>2. QED BY <1>2, <1>3, <5>1
      <4>3. QED BY <4>1, <4>2
    <3>2. QED BY <1>1, <1>3, <3>1
  <2>4. QED BY <1>2, <2>1, <2>2, <2>3 DEF Recording
<1>7. Passed'
  <2>1. ASSUME NEW x \in past', NEW k \in 0..x.cyc PROVE Arrival(k)' \in past'
    <3>1. \E y \in past : y.cyc = x.cyc
      BY <1>2
    <3>2. PICK y \in past : y.cyc = x.cyc
      BY <3>1
    <3>3. Arrival(k) \in past
      BY <3>2 DEF PastInv, Passed
    <3>4. y.cyc \in Nat /\ y.cyc <= c
      BY <1>2, <3>2, MachineFields DEF TypeOK
    <3>5. Arrival(k)' = Arrival(k)
      <4>1. k \in Nat /\ k <= c
        BY <3>2, <3>4
      <4>2. QED BY <1>5, <4>1
    <3>6. QED BY <3>3, <3>5
  <2>2. QED BY <2>1 DEF Passed
<1>8. ASSUME NEW x, Keepable(x) PROVE Keepable(x)'
  <2>1. x \in past /\ x.cyc \in Nat /\ x.cyc <= c
    BY <1>2, <1>8, MachineFields DEF Keepable, TypeOK
  <2>2. PICK k \in Nat : k = x.cyc
    BY <2>1
  <2>3. Seen(k)' = Seen(k)
    BY <1>5, <2>1, <2>2
  <2>4. IrqsAt(k) \subseteq IrqsAt(k)'
    BY AppendedInputs DEF PastInv
  <2>5. EthEvents(k) \subseteq EthEvents(k)'
    BY AppendedEvents
  <2>6. QED BY <1>8, <2>2, <2>3, <2>4, <2>5 DEF Keepable, Follows
<1>9. Kept'
  <2>1. ASSUME NEW x \in blob PROVE Keepable(x)'
    BY <1>8 DEF PastInv, Kept
  <2>2. ASSUME NEW i \in 1..Len(snaps) PROVE Keepable(snaps[i].m)' /\ snaps'[i].cycle = snaps'[i].m.cyc
    <3>1. PICK x : x = snaps[i].m
      OBVIOUS
    <3>2. Keepable(x)'
      BY <3>1, <1>8 DEF PastInv, Kept
    <3>3. x = snaps'[i].m
      BY <3>1
    <3>4. Keepable(snaps[i].m)'
      BY <3>2, <3>3 DEF Keepable, Follows, Seen, Quiet, RxAt, IrqsAt, IrqEvents, EthEvents
    <3>5. QED BY <3>4 DEF PastInv, Kept
  <2>3. QED BY <2>1, <2>2 DEF Kept
<1>10. Replaying'
  BY <1>2 DEF Replaying
<1>11. QED BY <1>4, <1>6, <1>7, <1>9, <1>10

LEMMA RaisePast ==
  ASSUME TypeOK, PureRecording, PastInv, RaiseIrq
  PROVE  Stored' /\ Recording' /\ Passed' /\ Kept' /\ Replaying'
<1>1. /\ ~wentBack /\ ~wentBack' /\ past' = past \cup {m'} /\ inputs' = inputs + 1
      /\ Between /\ May("inject") /\ UNCHANGED <<snaps, blob, call, frames, wentBack>>
  BY LivePast DEF RaiseIrq, Recorded
<1>2. inputs \in Nat /\ Len(log) < LogMax
  BY TypeFacts DEF RaiseIrq, PastInv, Stored, TypeOK, PureRecording
<1>3. PICK irq \in Irqs : log' = ev_log_append(log, Event(m.cyc, "irq", irq)) /\ m' = Pended(m, irq)
  BY DEF RaiseIrq
<1> DEFINE e == Event(m.cyc, "irq", irq)
<1>4. e \in Events
  BY TypeFacts, EventType
<1>5. e.cycle = m.cyc /\ e.type = "irq" /\ e.payload = irq
  BY DEF Event
<1>6. log' = Append(log, e)
  BY <1>2, <1>3, TypeFacts DEF ev_log_append
<1> HIDE DEF e
<1>7. Appends(e)
  BY <1>1, <1>4, <1>5, <1>6 DEF Appends
<1>8. /\ m'.cyc = m.cyc /\ m'.n = m.n /\ m'.seen = m.seen
      /\ m'.pend = m.pend \cup {irq} /\ m'.rx = m.rx
  BY <1>3, TypeFacts, MachineFields DEF Pended
<1>9. /\ m'.pend = IF e.type = "irq" THEN m.pend \cup {e.payload} ELSE m.pend
      /\ m'.rx = IF e.type = "eth" THEN frames'[Len(frames) + 1] ELSE m.rx
  BY <1>5, <1>8
<1>10. QED BY <1>1, <1>2, <1>4, <1>7, <1>8, <1>9, InputPast

LEMMA FramePast ==
  ASSUME TypeOK, PureRecording, PastInv, InjectFrame
  PROVE  Stored' /\ Recording' /\ Passed' /\ Kept' /\ Replaying'
<1>1. /\ ~wentBack /\ ~wentBack' /\ past' = past \cup {m'} /\ inputs' = inputs + 1
      /\ Between /\ May("inject") /\ UNCHANGED <<snaps, blob, call, wentBack>>
  BY LivePast DEF InjectFrame, Recorded
<1>2. inputs \in Nat /\ Len(log) < LogMax /\ Len(frames) < EthMax
  BY TypeFacts DEF InjectFrame, PastInv, Stored, TypeOK, PureRecording
<1>3. PICK frame \in Frames : tt_record_eth_rx(frame) /\ m' = Received(m, frame)
  BY DEF InjectFrame
<1> DEFINE e == Event(m.cyc, "eth", Len(frames))
<1>4. e \in Events
  BY <1>2, TypeFacts, EventType
<1>5. e.cycle = m.cyc /\ e.type = "eth" /\ e.payload = Len(frames)
  BY DEF Event
<1>6. log' = Append(log, e) /\ frames' = Append(frames, frame)
  <2>1. ~(Len(frames) >= EthMax \/ Len(log) >= LogMax)
    BY <1>2, TypeFacts
  <2>2. log' = ev_log_append(log, e) /\ frames' = Append(frames, frame)
    BY <1>3, <2>1 DEF tt_record_eth_rx
  <2>3. QED BY <2>1, <2>2 DEF ev_log_append
<1> HIDE DEF e
<1>7. Appends(e)
  BY <1>1, <1>2, <1>4, <1>5, <1>6 DEF Appends
<1>8. /\ m'.cyc = m.cyc /\ m'.n = m.n /\ m'.seen = m.seen
      /\ m'.pend = m.pend /\ m'.rx = frame
  BY <1>3, TypeFacts, MachineFields DEF Received
<1>9. frames'[Len(frames) + 1] = frame
  BY <1>6 DEF TypeOK
<1>10. /\ m'.pend = IF e.type = "irq" THEN m.pend \cup {e.payload} ELSE m.pend
       /\ m'.rx = IF e.type = "eth" THEN frames'[Len(frames) + 1] ELSE m.rx
  BY <1>5, <1>8, <1>9
<1>11. QED BY <1>1, <1>2, <1>4, <1>7, <1>8, <1>10, InputPast

LEMMA SnapPast ==
  ASSUME TypeOK, PureRecording, PastInv, OnCycle \/ SnapSave
  PROVE  Stored' /\ Recording' /\ Passed' /\ Kept' /\ Replaying'
<1>1. ~wentBack /\ UNCHANGED <<m, log, frames, call, past, inputs, wentBack>>
  BY LivePast DEF OnCycle, SnapSave
<1>2. Stored' /\ Recording' /\ Passed' /\ Replaying'
  <2>1. Stored' /\ Passed'
    BY <1>1, PassedSame DEF PastInv, Stored
  <2>2. Recording'
    BY <1>1, RecordingSame DEF PastInv
  <2>3. Replaying'
    BY <1>1 DEF PastInv, Recording, Replaying
  <2>4. QED BY <2>1, <2>2, <2>3
<1>3. Keepable(m)
  BY <1>1, LiveKeepable DEF PastInv
<1>4. ASSUME NEW x, Keepable(x) PROVE Keepable(x)'
  BY <1>1, <1>4, KeepableSame
<1>5. CASE SnapSave
  <2>1. ASSUME NEW x \in blob' PROVE Keepable(x)'
    BY <1>3, <1>4, <1>5, <2>1 DEF SnapSave
  <2>2. ASSUME NEW i \in 1..Len(snaps) PROVE Keepable(snaps[i].m)' /\ snaps'[i].cycle = snaps'[i].m.cyc
    <3>1. PICK x : x = snaps[i].m
      OBVIOUS
    <3>2. Keepable(x)' /\ snaps' = snaps
      BY <1>4, <1>5, <3>1 DEF PastInv, Kept, SnapSave
    <3>3. Keepable(snaps[i].m)'
      BY <3>1, <3>2 DEF Keepable, Follows, Seen, Quiet, RxAt, IrqsAt, IrqEvents, EthEvents
    <3>4. QED BY <3>2, <3>3 DEF PastInv, Kept
  <2>3. Len(snaps') = Len(snaps)
    BY <1>5 DEF SnapSave
  <2>4. QED BY <1>2, <2>1, <2>2, <2>3 DEF Kept
<1>6. CASE OnCycle
  <2>1. blob' = blob /\ snaps' = Append(snaps, [cycle |-> m.cyc, m |-> m])
    BY <1>6 DEF OnCycle
  <2>2. ASSUME NEW i \in 1..Len(snaps') PROVE Keepable(snaps[i].m)' /\ snaps'[i].cycle = snaps'[i].m.cyc
    <3>1. PICK x : x = snaps'[i].m
      OBVIOUS
    <3>2. Keepable(x) /\ snaps'[i].cycle = x.cyc
      <4>0. snaps \in Seq([cycle : 0..Steps, m : Machines])
        BY DEF TypeOK
      <4>1. CASE i = Len(snaps) + 1
        BY <1>3, <2>1, <3>1, <4>0, <4>1
      <4>2. CASE i # Len(snaps) + 1
        <5>1. i \in 1..Len(snaps) /\ snaps'[i] = snaps[i]
          BY <2>1, <4>0, <4>2
        <5>2. QED BY <3>1, <5>1 DEF PastInv, Kept
      <4>3. QED BY <4>1, <4>2
    <3>3. Keepable(x)'
      BY <1>4, <3>2
    <3>4. Keepable(snaps[i].m)'
      BY <3>1, <3>3 DEF Keepable, Follows, Seen, Quiet, RxAt, IrqsAt, IrqEvents, EthEvents
    <3>5. QED BY <3>1, <3>2, <3>4
  <2>3. \A x \in blob' : Keepable(x)'
    BY <1>4, <2>1 DEF PastInv, Kept
  <2>4. QED BY <1>2, <2>2, <2>3 DEF Kept
<1>7. QED BY <1>5, <1>6

LEMMA LogCycles ==
  ASSUME TypeOK, NEW i \in 1..Len(log)
  PROVE  log[i] \in Events /\ log[i].cycle \in Nat
BY TypeFacts, SeqElement, EventFields

\* From a snapshot the replay starts with the events of its own cycle.
LEMMA RestoredPast ==
  ASSUME TypeOK, PastInv, NEW op \in {"rewind", "replay"}, NEW x, Keepable(x),
         NEW t \in 0..Steps, x.cyc <= t, Restored(op, x, t)
  PROVE  Stored' /\ Recording' /\ Passed' /\ Kept' /\ Replaying'
<1> DEFINE k == ev_log_seek(log, x.cyc)
           n == Len(log)
<1>1. m' = x /\ wentBack' = TRUE /\ UNCHANGED <<log, frames, snaps, blob, past, inputs>>
  BY DEF Restored, host
<1>2. call' = [op |-> op, target |-> t, pos |-> k, left |-> 0, prev |-> -1]
  BY DEF Restored
<1>3. x \in past /\ x.cyc \in Nat /\ t \in Nat /\ n \in Nat
  BY TypeFacts, MachineFields DEF Keepable, TypeOK
<1>4. k \in 0..n /\ (\A i \in 1..k : log[i].cycle < x.cyc) /\ \A i \in k + 1 .. n : log[i].cycle >= x.cyc
  <2>1. ASSUME NEW i \in 1..Len(log) PROVE log[i].cycle \in Nat
    BY LogCycles
  <2>2. \A i, j \in 1..Len(log) : i < j => log[i].cycle <= log[j].cycle
    BY DEF PastInv, InOrder, LogSorted
  <2>3. QED BY <1>3, <2>1, <2>2, SeekCorrect
<1> HIDE DEF k
<1>5. PICK c \in Nat : c = x.cyc
  BY <1>3
<1>6. /\ Seen(c)' = Seen(c) /\ IrqsAt(c)' = IrqsAt(c) /\ RxAt(c)' = RxAt(c)
      /\ IrqEvents(c)' = IrqEvents(c) /\ EthEvents(c)' = EthEvents(c)
  BY <1>1, SameLog
<1>7. /\ Follows(m)' <=> m'.n = c /\ m'.seen = Seen(c)'
      /\ IrqsAt(m.cyc)' = IrqsAt(c)' /\ RxAt(m.cyc)' = RxAt(c)'
      /\ IrqEvents(m.cyc)' = IrqEvents(c)' /\ EthEvents(m.cyc)' = EthEvents(c)'
  BY <1>1, <1>5, NextCycle
<1>8. Ahead' = k + 1 .. n
  BY <1>1, <1>2 DEF Ahead
<1>9. /\ x.n = c /\ x.seen = Seen(c) /\ x.pend \subseteq IrqsAt(c)
      /\ x.rx # None => EthEvents(c) # {}
  BY <1>5 DEF Keepable, Follows
<1>10. ASSUME NEW j \in IrqEvents(c) \cup EthEvents(c) PROVE j \in k + 1 .. n
  <2>1. j \in 1..n /\ log[j].cycle = c
    BY EventsOf
  <2>2. j \notin 1..k
    BY <1>3, <1>4, <1>5, <2>1
  <2>3. QED BY <1>3, <1>4, <2>1, <2>2
<1>11. Replaying'
  <2>1. Follows(m)'
    BY <1>1, <1>6, <1>7, <1>9
  <2>2. m'.cyc <= call'.target /\ m'.pend \subseteq IrqsAt(m.cyc)'
    BY <1>1, <1>2, <1>6, <1>7, <1>9
  <2>3. /\ \A j \in 1..call'.pos : log'[j].cycle <= m'.cyc
        /\ \A j \in Ahead' : log'[j].cycle >= m'.cyc
    <3>1. ASSUME NEW j \in 1..k PROVE log[j].cycle <= x.cyc
      <4>1. log[j].cycle \in Nat
        BY <1>3, <1>4, LogCycles
      <4>2. QED BY <1>3, <1>4, <4>1
    <3>2. QED BY <1>1, <1>2, <1>4, <1>8, <3>1
  <2>4. \A j \in IrqEvents(m.cyc)' : j \in Ahead' \/ log'[j].payload \in m'.pend
    BY <1>6, <1>7, <1>8, <1>10
  <2>5. m'.rx = RxAt(m.cyc)' \/ \E j \in EthEvents(m.cyc)' : j \in Ahead'
    <3>1. CASE EthEvents(c) = {}
      <4>1. RxAt(c) = None /\ x.rx = None
        BY <1>9, <3>1 DEF RxAt
      <4>2. QED BY <1>1, <1>6, <1>7, <4>1
    <3>2. CASE EthEvents(c) # {}
      BY <1>6, <1>7, <1>8, <1>10, <3>2
    <3>3. QED BY <3>1, <3>2
  <2>6. call'.left = 0 /\ call'.prev = -1
    BY <1>2
  <2>7. call'.prev <= m'.cyc /\ call'.prev # m'.cyc /\ ~(call'.left > 0)
    BY <1>1, <1>3, <2>6
  <2>8. m' \in past'
    BY <1>1, <1>3
  <2>9. QED BY <2>1, <2>2, <2>3, <2>4, <2>5, <2>7, <2>8 DEF Replaying
<1>12. Stored' /\ Recording'
  BY <1>1 DEF PastInv, Stored, Recording
<1>13. QED BY <1>1, <1>11, <1>12, PassedSame, KeptSame DEF PastInv

LEMMA BackPast ==
  ASSUME TypeOK, PastInv, Rewind \/ StepBack \/ Replay
  PROVE  Stored' /\ Recording' /\ Passed' /\ Kept' /\ Replaying'
<1>1. ASSUME Between, Refused, UNCHANGED <<m, wentBack>> \/ wentBack' = TRUE
      PROVE  Stored' /\ Recording' /\ Passed' /\ Kept' /\ Replaying'
  <2>1. UNCHANGED <<log, frames, snaps, blob, call, past, inputs>> /\ call.op = None
    BY <1>1 DEF Refused, host, Between
  <2>2. Recording'
    <3>1. CASE wentBack' = TRUE
      BY <3>1 DEF Recording
    <3>2. CASE UNCHANGED <<m, wentBack>>
      BY <2>1, <3>2, RecordingSame DEF PastInv
    <3>3. QED BY <1>1, <3>1, <3>2
  <2>3. QED BY <2>1, <2>2, PassedSame, KeptSame DEF PastInv, Stored, Replaying
<1>2. ASSUME NEW t \in 0..Steps, Between, RewindTo(t)
      PROVE  Stored' /\ Recording' /\ Passed' /\ Kept' /\ Replaying'
  <2> DEFINE i == tt_bsearch_le(t)
  <2>1. i \in 0..Len(snaps) /\ (i > 0 => snaps[i].cycle <= t)
    <3>1. t \in Nat
      BY TimeTravelAssumption
    <3>2. QED BY <3>1, SnapType
  <2>2. CASE i = 0
    BY <1>1, <1>2, <2>2 DEF RewindTo
  <2>3. CASE i # 0
    <3>1. Restored("rewind", snaps[i].m, t)
      BY <1>2, <2>3 DEF RewindTo
    <3> HIDE DEF i
    <3>2. i \in 1..Len(snaps) /\ snaps[i].cycle <= t
      BY <2>1, <2>3
    <3>3. Keepable(snaps[i].m) /\ snaps[i].m.cyc <= t
      BY <3>2 DEF PastInv, Kept
    <3>4. QED BY <3>1, <3>3, RestoredPast
  <2>4. QED BY <2>2, <2>3
<1>3. CASE Rewind
  BY <1>2, <1>3 DEF Rewind
<1>4. CASE StepBack
  <2>1. PICK n \in 0..m.cyc : RewindTo(m.cyc - n)
    BY <1>4 DEF StepBack
  <2>2. m.cyc - n \in 0..Steps
    BY SMTT(30), TypeFacts
  <2>3. QED BY <1>2, <1>4, <2>1, <2>2 DEF StepBack
<1>5. CASE Replay
  <2>1. PICK x \in blob, t \in 0..Steps :
          IF t < x.cyc THEN Refused /\ m' = x /\ wentBack' = TRUE
          ELSE Restored("replay", x, t)
    BY <1>5 DEF Replay
  <2>2. CASE t < x.cyc
    BY <1>1, <1>5, <2>1, <2>2 DEF Replay
  <2>3. CASE ~(t < x.cyc)
    <3>1. x.cyc \in Nat /\ t \in Nat
      BY TypeFacts, MachineFields DEF TypeOK
    <3>2. Keepable(x) /\ x.cyc <= t
      BY <2>3, <3>1 DEF PastInv, Kept
    <3>3. QED BY <2>1, <2>3, <3>2, RestoredPast
  <2>4. QED BY <2>2, <2>3
<1>6. QED BY <1>3, <1>4, <1>5

\* The host is done or the core runs: steps of a call that has gone back.
LEMMA ReplaySame ==
  ASSUME TypeOK, PastInv, call.op # None, UNCHANGED <<log, frames, snaps, blob, past, inputs, wentBack>>
  PROVE  Stored' /\ Recording' /\ Passed' /\ Kept'
<1>1. wentBack
  BY DEF PastInv, Recording
<1>2. QED BY <1>1, PassedSame, KeptSame DEF PastInv, Stored, Recording

\* At the head of the loop the core has run the steps it was given.
LEMMA HeadFacts ==
  ASSUME TypeOK, PastInv, AtHead
  PROVE  m.cyc \in Nat /\ ~Halted(m) /\ call.left = 0 /\ call.prev < m.cyc
<1>1. m.cyc \in 0..Steps /\ call.left \in 0..Steps /\ call.target \in 0..Steps /\ Steps \in Nat
  BY TypeFacts
<1>2. call.prev \in -1 .. Steps
  BY DEF TypeOK, Calls
<1>3. m.n = m.cyc /\ call.prev <= m.cyc /\ m.cyc < call.target /\ call.prev # m.cyc
  BY DEF PastInv, Replaying, AtHead, Follows, Stuck
<1>4. ~Halted(m)
  BY <1>1, <1>3 DEF Halted
<1>5. QED BY <1>1, <1>2, <1>3, <1>4 DEF AtHead, RanOut

LEMMA ReplayingSame ==
  ASSUME Replaying, UNCHANGED <<m, log, frames, call, past>>
  PROVE  Replaying'
<1> SUFFICES ASSUME call.op # None PROVE Replaying'
  BY DEF Replaying
<1>1. PICK c : c = m.cyc
  OBVIOUS
<1>2. /\ Seen(c)' = Seen(c) /\ IrqsAt(c)' = IrqsAt(c) /\ RxAt(c)' = RxAt(c)
      /\ IrqEvents(c)' = IrqEvents(c) /\ EthEvents(c)' = EthEvents(c) /\ Arrival(c)' = Arrival(c)
  BY SameLog
<1>3. /\ Follows(m)' <=> m'.n = c /\ m'.seen = Seen(c)'
      /\ IrqsAt(m.cyc)' = IrqsAt(c)' /\ RxAt(m.cyc)' = RxAt(c)'
      /\ IrqEvents(m.cyc)' = IrqEvents(c)' /\ EthEvents(m.cyc)' = EthEvents(c)'
      /\ Arrival(m.cyc)' = Arrival(c)'
  <2>1. Arrival(m.cyc)' = Arrival(c)'
    BY <1>1 DEF Arrival, Seen, Quiet, RxAt, IrqsAt, IrqEvents, EthEvents
  <2>2. QED BY <1>1, <2>1, NextCycle
<1>4. Ahead' = Ahead
  BY DEF Ahead
<1>5. Follows(m)' /\ (m'.cyc = call'.target => m' \in past' \/ m' = Arrival(m.cyc)')
  BY <1>1, <1>2, <1>3 DEF Replaying, Follows
<1>6. /\ m'.pend \subseteq IrqsAt(m.cyc)'
      /\ \A j \in IrqEvents(m.cyc)' : j \in Ahead' \/ log'[j].payload \in m'.pend
      /\ m'.rx = RxAt(m.cyc)' \/ \E j \in EthEvents(m.cyc)' : j \in Ahead'
  BY <1>1, <1>2, <1>3, <1>4 DEF Replaying
<1>7. /\ m'.cyc <= call'.target /\ call'.prev <= m'.cyc /\ (call'.prev = m'.cyc => call'.left > 0)
      /\ \A j \in 1..call'.pos : log'[j].cycle <= m'.cyc
      /\ \A j \in Ahead' : log'[j].cycle >= m'.cyc
      /\ call'.left > 0 => /\ m'.cyc + call'.left <= call'.target
                           /\ \A j \in Ahead' : log'[j].cycle >= m'.cyc + call'.left
  BY <1>4 DEF Replaying
<1>8. QED BY <1>5, <1>6, <1>7 DEF Replaying

LEMMA InjectPast ==
  ASSUME TypeOK, PastInv, InjectEvent
  PROVE  Stored' /\ Recording' /\ Passed' /\ Kept' /\ Replaying'
<1> DEFINE p == call.pos + 1
           n == Len(log)
           e == log[p]
<1>1. /\ AtHead /\ EventDue /\ UNCHANGED <<log, frames, snaps, blob, past, inputs, wentBack>>
      /\ m' = Injected(m, e) /\ call' = [call EXCEPT !.pos = p]
  BY DEF InjectEvent, host
<1>2. call.op # None /\ m.cyc < call.target
  BY <1>1 DEF AtHead
<1>3. p \in 1..n /\ n \in Nat /\ call.pos = p - 1
  <2>1. call.pos \in Nat /\ n \in Nat /\ call.pos < n
    BY <1>1, TypeFacts DEF EventDue
  <2> HIDE DEF n
  <2>2. QED BY <2>1
<1>4. e \in Events /\ e.cycle \in Nat
  BY <1>3, LogCycles
<1>5. PICK c \in Nat : c = m.cyc
  BY TypeFacts
<1>6. /\ call'.op = call.op /\ call'.target = call.target /\ call'.pos = p
      /\ call'.left = 0 /\ call'.prev = call.prev /\ call.left = 0 /\ call.prev < m.cyc
  BY <1>1, HeadFacts, TypeFacts DEF Calls
<1>7. /\ m.n = c /\ m.seen = Seen(c) /\ m.pend \subseteq IrqsAt(c)
      /\ \A j \in 1..call.pos : log[j].cycle <= c
      /\ \A j \in Ahead : log[j].cycle >= c
      /\ \A j \in IrqEvents(c) : j \in Ahead \/ log[j].payload \in m.pend
      /\ m.rx = RxAt(c) \/ \E j \in EthEvents(c) : j \in Ahead
  BY <1>2, <1>5 DEF PastInv, Replaying, Follows
<1>8. e.cycle = c
  <2>1. p \in Ahead
    BY <1>3 DEF Ahead
  <2>2. e.cycle >= c /\ e.cycle <= c
    BY <1>1, <1>5, <1>7, <2>1 DEF EventDue
  <2>3. QED BY <1>4, <2>2
<1>9. Ahead = p .. n /\ Ahead' = p + 1 .. n
  BY <1>1, <1>3, <1>6 DEF Ahead
<1>10. m'.cyc = c /\ m'.n = c /\ m'.seen = Seen(c)
  BY <1>1, <1>4, <1>5, <1>7, TypeFacts, InjectedFields
<1>11. /\ Seen(c)' = Seen(c) /\ IrqsAt(c)' = IrqsAt(c) /\ RxAt(c)' = RxAt(c)
       /\ IrqEvents(c)' = IrqEvents(c) /\ EthEvents(c)' = EthEvents(c)
  BY <1>1, SameLog
<1>12. /\ Follows(m)' <=> m'.n = c /\ m'.seen = Seen(c)'
       /\ IrqsAt(m.cyc)' = IrqsAt(c)' /\ RxAt(m.cyc)' = RxAt(c)'
       /\ IrqEvents(m.cyc)' = IrqEvents(c)' /\ EthEvents(m.cyc)' = EthEvents(c)'
  BY <1>10, NextCycle
<1> HIDE DEF p, n, e
<1>13. /\ m'.pend \subseteq IrqsAt(c)
       /\ \A j \in IrqEvents(c) : j \in p + 1 .. n \/ log[j].payload \in m'.pend
       /\ m'.rx = RxAt(c) \/ \E j \in EthEvents(c) : j \in p + 1 .. n
  <2>1. CASE e.type = "irq"
    <3>1. m'.pend = m.pend \cup {e.payload} /\ m'.rx = m.rx
      BY SMTT(30), <1>1, <2>1, TypeFacts, MachineFields DEF Injected, Pended
    <3>2. p \in IrqEvents(c) /\ p \notin EthEvents(c)
      BY <1>3, <1>8, <2>1 DEF IrqEvents, EthEvents, n, e
    <3>3. e.payload \in IrqsAt(c)
      BY <3>2 DEF IrqsAt, e
    <3>4. ASSUME NEW j \in IrqEvents(c) PROVE j \in p + 1 .. n \/ log[j].payload \in m'.pend
      <4>1. CASE j \in p .. n /\ j # p
        BY <1>3, <4>1
      <4>2. CASE j = p \/ log[j].payload \in m.pend
        BY <3>1, <4>2 DEF e
      <4>3. QED BY <1>7, <1>9, <4>1, <4>2
    <3>5. ASSUME m.rx # RxAt(c) PROVE \E j \in EthEvents(c) : j \in p + 1 .. n
      <4>1. PICK j \in EthEvents(c) : j \in p .. n
        BY <1>7, <1>9, <3>5
      <4>2. j # p
        BY <3>2
      <4>3. QED BY <1>3, <4>1, <4>2
    <3>6. QED BY <1>7, <3>1, <3>3, <3>4, <3>5
  <2>2. CASE e.type = "eth"
    <3>1. e.payload \in 0 .. Len(frames) - 1
      <4>1. p \in FrameEvents
        BY <1>3, <2>2, TypeFacts DEF FrameEvents, n, e
      <4>2. QED BY <4>1 DEF PastInv, FramesMatch, e
    <3>2. m' = Received(m, frames[e.payload + 1])
      <4>1. ~(e.payload >= Len(frames))
        BY <3>1, TypeFacts
      <4>2. QED BY <1>1, <2>2, <4>1 DEF Injected
    <3>3. m'.pend = m.pend /\ m'.rx = frames[e.payload + 1]
      BY <3>2, TypeFacts, MachineFields DEF Received
    <3>4. p \in EthEvents(c) /\ p \notin IrqEvents(c)
      BY <1>3, <1>8, <2>2 DEF IrqEvents, EthEvents, n, e
    <3>5. ASSUME NEW j \in IrqEvents(c) PROVE j \in p + 1 .. n \/ log[j].payload \in m'.pend
      <4>1. CASE j \in p .. n
        <5>1. j # p
          BY <3>4
        <5>2. QED BY <1>3, <4>1, <5>1
      <4>2. CASE log[j].payload \in m.pend
        BY <3>3, <4>2
      <4>3. QED BY <1>7, <1>9, <4>1, <4>2
    <3>6. ASSUME \A j \in EthEvents(c) : j \notin p + 1 .. n PROVE m'.rx = RxAt(c)
      <4>1. \A j \in EthEvents(c) : j <= p
        <5>1. \A j \in EthEvents(c) : j \in 1..n
          BY EventsOf DEF n
        <5>2. QED BY <1>3, <3>6, <5>1
      <4>2. EthEvents(c) \subseteq Nat
        BY EventsOf
      <4>3. LastOf(EthEvents(c)) = p
        BY <3>4, <4>1, <4>2, LastIs
      <4>4. QED BY <3>3, <3>4, <4>3 DEF RxAt, e
    <3>7. QED BY <1>7, <3>3, <3>5, <3>6
  <2>3. QED BY <1>4, <2>1, <2>2, EventFields
<1>14. ASSUME NEW j \in 1..p PROVE log[j].cycle <= c
  <2>1. CASE j = p
    BY <1>8, <2>1 DEF e
  <2>2. CASE j # p
    <3>1. j \in 1..call.pos
      BY <1>3, <2>2
    <3>2. QED BY <1>7, <3>1
  <2>3. QED BY <2>1, <2>2
<1>15. ASSUME NEW j \in p + 1 .. n PROVE log[j].cycle >= c
  <2>1. j \in p .. n
    BY <1>3
  <2>2. QED BY <1>7, <1>9, <2>1
<1>16. Replaying'
  <2>1. Follows(m)' /\ m'.pend \subseteq IrqsAt(m.cyc)'
    BY <1>10, <1>11, <1>12, <1>13
  <2>2. m'.cyc <= call'.target /\ m'.cyc # call'.target /\ ~(call'.left > 0)
        /\ call'.prev <= m'.cyc /\ call'.prev # m'.cyc
    <3>1. call.target \in Nat /\ call.prev \in Int
      BY TypeFacts DEF TypeOK, Calls
    <3>2. QED BY <1>2, <1>5, <1>6, <1>10, <3>1
  <2>3. /\ \A j \in 1..call'.pos : log'[j].cycle <= m'.cyc
        /\ \A j \in Ahead' : log'[j].cycle >= m'.cyc
    BY <1>1, <1>6, <1>9, <1>10, <1>14, <1>15
  <2>4. /\ \A j \in IrqEvents(m.cyc)' : j \in Ahead' \/ log'[j].payload \in m'.pend
        /\ m'.rx = RxAt(m.cyc)' \/ \E j \in EthEvents(m.cyc)' : j \in Ahead'
    BY <1>1, <1>9, <1>11, <1>12, <1>13
  <2>5. QED BY <2>1, <2>2, <2>3, <2>4 DEF Replaying
<1>17. QED BY <1>1, <1>2, <1>16, ReplaySame

LEMMA GoOnPast ==
  ASSUME TypeOK, PastInv, GoOn
  PROVE  Stored' /\ Recording' /\ Passed' /\ Kept' /\ Replaying'
<1> DEFINE n == Len(log)
           p == call.pos + 1
           late == p <= n /\ log[p].cycle < call.target
<1>1. /\ AtHead /\ ~EventDue /\ UNCHANGED <<m, log, frames, snaps, blob, past, inputs, wentBack>>
      /\ call' = [call EXCEPT !.left = Gap, !.prev = m.cyc]
  BY DEF GoOn, host
<1>2. call.op # None /\ m.cyc < call.target
  BY <1>1 DEF AtHead
<1>3. /\ call'.op = call.op /\ call'.target = call.target /\ call'.pos = call.pos
      /\ call'.left = Gap /\ call'.prev = m.cyc
  BY <1>1, TypeFacts DEF Calls
<1>4. n \in Nat /\ call.pos \in Nat /\ call.pos <= n /\ m.cyc \in Nat /\ call.target \in Nat
  BY TypeFacts
<1>5. ASSUME p <= n PROVE p \in 1..n /\ log[p].cycle \in Nat /\ log[p].cycle > m.cyc
  <2> HIDE DEF n
  <2>1. p \in 1..n /\ call.pos < n
    BY <1>4, <1>5
  <2>2. log[p].cycle \in Nat
    BY <2>1, LogCycles DEF n
  <2>3. ~(log[p].cycle <= m.cyc)
    BY <1>1, <2>1 DEF EventDue, n
  <2>4. QED BY <1>4, <2>1, <2>2, <2>3
<1>6. Gap = (IF late THEN log[p].cycle ELSE call.target) - m.cyc
  <2> HIDE DEF n
  <2>1. call.pos < n <=> p <= n
    BY <1>4
  <2>2. QED BY <2>1 DEF Gap, n
<1>7. Ahead = p .. n /\ Ahead' = p .. n
  BY <1>1, <1>3 DEF Ahead
<1> HIDE DEF n, p
<1>8. ASSUME NEW j \in Ahead PROVE log[j].cycle \in Nat /\ log[j].cycle >= m.cyc + Gap
  <2>1. p \in 1..n /\ j \in 1..n /\ p <= j /\ p <= n
    <3>1. p = call.pos + 1
      BY DEF p
    <3>2. QED BY <1>4, <1>7, <1>8, <3>1
  <2>2. log[j].cycle \in Nat /\ log[p].cycle \in Nat
    BY <2>1, LogCycles DEF n
  <2>3. log[p].cycle <= log[j].cycle
    <3>1. CASE p = j
      BY <2>2, <3>1
    <3>2. CASE p # j
      <4>1. p < j
        BY <2>1, <3>2
      <4>2. QED BY <2>1, <4>1 DEF PastInv, InOrder, LogSorted, n
    <3>3. QED BY <3>1, <3>2
  <2>4. CASE log[p].cycle < call.target
    BY <1>4, <1>6, <2>1, <2>2, <2>3, <2>4
  <2>5. CASE ~(log[p].cycle < call.target)
    BY <1>4, <1>6, <2>1, <2>2, <2>3, <2>5
  <2>6. QED BY <2>4, <2>5
<1>9. Gap > 0 /\ m.cyc + Gap <= call.target
  <2>1. CASE late
    BY <1>4, <1>5, <1>6, <2>1
  <2>2. CASE ~late
    BY <1>2, <1>4, <1>6, <2>2
  <2>3. QED BY <2>1, <2>2
<1>10. PICK c \in Nat : c = m.cyc
  BY <1>4
<1>11. /\ Seen(c)' = Seen(c) /\ IrqsAt(c)' = IrqsAt(c) /\ RxAt(c)' = RxAt(c)
       /\ IrqEvents(c)' = IrqEvents(c) /\ EthEvents(c)' = EthEvents(c)
  BY <1>1, SameLog
<1>12. /\ Follows(m)' <=> m'.n = c /\ m'.seen = Seen(c)'
       /\ IrqsAt(m.cyc)' = IrqsAt(c)' /\ RxAt(m.cyc)' = RxAt(c)'
       /\ IrqEvents(m.cyc)' = IrqEvents(c)' /\ EthEvents(m.cyc)' = EthEvents(c)'
  BY <1>1, <1>10, NextCycle
<1>13. /\ m.n = c /\ m.seen = Seen(c) /\ m.pend \subseteq IrqsAt(c)
       /\ \A j \in 1..call.pos : log[j].cycle <= c
       /\ \A j \in Ahead : log[j].cycle >= c
       /\ \A j \in IrqEvents(c) : j \in Ahead \/ log[j].payload \in m.pend
       /\ m.rx = RxAt(c) \/ \E j \in EthEvents(c) : j \in Ahead
  BY <1>2, <1>10 DEF PastInv, Replaying, Follows
<1>14. Replaying'
  <2>1. Follows(m)' /\ m'.pend \subseteq IrqsAt(m.cyc)'
    BY <1>1, <1>11, <1>12, <1>13
  <2>2. m'.cyc <= call'.target /\ m'.cyc # call'.target /\ call'.prev <= m'.cyc /\ call'.left > 0
        /\ m'.cyc + call'.left <= call'.target
    BY <1>1, <1>2, <1>3, <1>4, <1>9
  <2>3. /\ \A j \in 1..call'.pos : log'[j].cycle <= m'.cyc
        /\ \A j \in Ahead' : log'[j].cycle >= m'.cyc
        /\ \A j \in Ahead' : log'[j].cycle >= m'.cyc + call'.left
    BY <1>1, <1>3, <1>7, <1>8, <1>10, <1>13
  <2>4. /\ \A j \in IrqEvents(m.cyc)' : j \in Ahead' \/ log'[j].payload \in m'.pend
        /\ m'.rx = RxAt(m.cyc)' \/ \E j \in EthEvents(m.cyc)' : j \in Ahead'
    BY <1>1, <1>7, <1>11, <1>12, <1>13
  <2>5. QED BY <2>1, <2>2, <2>3, <2>4 DEF Replaying
<1>15. QED BY <1>1, <1>2, <1>14, ReplaySame

LEMMA ReplayStepPast ==
  ASSUME TypeOK, PureRecording, PastInv, ReplayStep
  PROVE  Stored' /\ Recording' /\ Passed' /\ Kept' /\ Replaying'
<1> DEFINE n == Len(log)
<1>1. /\ call.op # None /\ ~RanOut /\ UNCHANGED <<log, frames, snaps, blob, past, inputs, wentBack>>
      /\ m' = Ran(m) /\ call' = [call EXCEPT !.left = @ - 1]
  BY DEF ReplayStep, host
<1>2. /\ call'.op = call.op /\ call'.target = call.target /\ call'.pos = call.pos
      /\ call'.left = call.left - 1 /\ call'.prev = call.prev
  BY <1>1, TypeFacts DEF Calls
<1>3. /\ n \in Nat /\ call.pos \in Nat /\ call.pos <= n /\ m.cyc \in Nat /\ call.target \in Nat
      /\ call.left \in Nat /\ call.left > 0 /\ ~Halted(m) /\ call.prev \in Int
  <2>1. ~(call.left = 0) /\ ~Halted(m) /\ call.prev \in Int
    BY <1>1 DEF RanOut, TypeOK, Calls
  <2>2. QED BY SMTT(30), <2>1, TypeFacts
<1>4. PICK c \in Nat : c = m.cyc
  BY <1>3
<1>5. /\ Follows(m) /\ m.pend \subseteq IrqsAt(c)
      /\ \A j \in 1..call.pos : log[j].cycle <= c
      /\ \A j \in IrqEvents(c) : j \in Ahead \/ log[j].payload \in m.pend
      /\ m.rx = RxAt(c) \/ \E j \in EthEvents(c) : j \in Ahead
      /\ c + call.left <= call.target /\ \A j \in Ahead : log[j].cycle >= c + call.left
      /\ call.prev <= c
  BY <1>1, <1>3, <1>4 DEF PastInv, Replaying
<1>6. Ahead = call.pos + 1 .. n /\ Ahead' = call.pos + 1 .. n
  BY <1>1, <1>2 DEF Ahead
<1> HIDE DEF n
<1>7. ASSUME NEW j \in Ahead PROVE log[j].cycle \in Nat /\ log[j].cycle >= c + 1
  <2>1. j \in 1..n
    BY <1>3, <1>6
  <2>2. log[j].cycle \in Nat
    BY <2>1, LogCycles DEF n
  <2>3. QED BY <1>3, <1>5, <2>2
<1>8. ASSUME NEW j \in IrqEvents(c) \cup EthEvents(c) PROVE j \notin Ahead
  <2>1. log[j].cycle = c
    BY EventsOf
  <2>2. ASSUME j \in Ahead PROVE FALSE
    BY <1>7, <2>1, <2>2
  <2>3. QED BY <2>2
<1>9. m.pend = IrqsAt(m.cyc) /\ m.rx = RxAt(m.cyc)
  <2>1. IrqsAt(c) \subseteq m.pend
    BY <1>5, <1>8 DEF IrqsAt
  <2>2. m.rx = RxAt(c)
    BY <1>5, <1>8
  <2>3. QED BY <1>4, <1>5, <2>1, <2>2
<1>10. m' = Arrival(c + 1)
  BY <1>1, <1>3, <1>4, <1>5, <1>9, RanArrives
<1>11. PICK d \in Nat : d = c + 1
  OBVIOUS
<1>12. /\ m'.cyc = d /\ m'.n = d /\ m'.seen = Seen(d) /\ m'.pend = {} /\ m'.rx = None
       /\ m' = Arrival(d)
  BY <1>10, <1>11 DEF Arrival
<1>13. /\ Seen(d)' = Seen(d) /\ IrqsAt(d)' = IrqsAt(d) /\ RxAt(d)' = RxAt(d)
       /\ IrqEvents(d)' = IrqEvents(d) /\ EthEvents(d)' = EthEvents(d)
       /\ Arrival(d)' = Arrival(d)
  BY <1>1, SameLog
<1>14. /\ Follows(m)' <=> m'.n = d /\ m'.seen = Seen(d)'
       /\ IrqsAt(m.cyc)' = IrqsAt(d)' /\ RxAt(m.cyc)' = RxAt(d)'
       /\ IrqEvents(m.cyc)' = IrqEvents(d)' /\ EthEvents(m.cyc)' = EthEvents(d)'
       /\ Arrival(m.cyc)' = Arrival(d)'
  <2>1. Arrival(m.cyc)' = Arrival(d)'
    BY <1>12 DEF Arrival, Seen, Quiet, RxAt, IrqsAt, IrqEvents, EthEvents
  <2>2. QED BY <1>12, <2>1, NextCycle
<1>15. ASSUME NEW j \in 1..call.pos PROVE log[j].cycle \in Nat /\ log[j].cycle <= c
  <2>1. j \in 1..n
    BY <1>3
  <2>2. QED BY <1>5, <2>1, LogCycles DEF n
<1>16. ASSUME NEW j \in IrqEvents(d) \cup EthEvents(d) PROVE j \in Ahead
  <2>1. j \in 1..n /\ log[j].cycle = c + 1
    BY <1>11, EventsOf DEF n
  <2>2. j \notin 1..call.pos
    BY <1>15, <2>1
  <2>3. QED BY <1>3, <1>6, <2>1, <2>2
<1>17. Replaying'
  <2>1. Follows(m)' /\ m'.pend \subseteq IrqsAt(m.cyc)' /\ m' = Arrival(m.cyc)'
    BY <1>12, <1>13, <1>14
  <2>2. /\ m'.cyc <= call'.target /\ call'.prev <= m'.cyc /\ call'.prev # m'.cyc
        /\ m'.cyc + call'.left = c + call.left /\ m'.cyc + call'.left <= call'.target
    BY <1>2, <1>3, <1>5, <1>11, <1>12
  <2>3. /\ \A j \in 1..call'.pos : log'[j].cycle <= m'.cyc
        /\ \A j \in Ahead' : log'[j].cycle >= m'.cyc
        /\ \A j \in Ahead' : log'[j].cycle >= m'.cyc + call'.left
    <3>1. \A j \in 1..call'.pos : log'[j].cycle <= m'.cyc
      BY <1>1, <1>2, <1>11, <1>12, <1>15
    <3>2. \A j \in Ahead' : log'[j].cycle >= m'.cyc
      BY <1>1, <1>6, <1>7, <1>11, <1>12
    <3>3. \A j \in Ahead' : log'[j].cycle >= m'.cyc + call'.left
      BY <1>1, <1>5, <1>6, <2>2
    <3>4. QED BY <3>1, <3>2, <3>3
  <2>4. \A j \in IrqEvents(m.cyc)' : j \in Ahead' \/ log'[j].payload \in m'.pend
    BY <1>6, <1>13, <1>14, <1>16
  <2>5. m'.rx = RxAt(m.cyc)' \/ \E j \in EthEvents(m.cyc)' : j \in Ahead'
    <3>1. CASE EthEvents(d) = {}
      <4>1. RxAt(d) = None
        BY <3>1 DEF RxAt
      <4>2. QED BY <1>12, <1>13, <1>14, <4>1
    <3>2. CASE EthEvents(d) # {}
      BY <1>6, <1>13, <1>14, <1>16, <3>2
    <3>3. QED BY <3>1, <3>2
  <2>6. QED BY <2>1, <2>2, <2>3, <2>4, <2>5 DEF Replaying
<1>18. QED BY <1>1, <1>17, ReplaySame

LEMMA PastStep ==
  ASSUME PureRecording, TypeOK, PastInv, [Next]_vars
  PROVE  PastInv'
<1>1. InOrder' /\ FramesMatch'
  BY OrderStep, MatchStep DEF PureRecording, PastInv
<1> SUFFICES Stored' /\ Recording' /\ Passed' /\ Kept' /\ Replaying'
  BY <1>1 DEF PastInv
<1>2. CASE Run
  BY <1>2, RunPast
<1>3. CASE RaiseIrq
  BY <1>3, RaisePast
<1>4. CASE InjectFrame
  BY <1>4, FramePast
<1>5. CASE OnCycle \/ SnapSave
  BY <1>5, SnapPast
<1>6. CASE Rewind \/ StepBack \/ Replay
  BY <1>6, BackPast
<1>7. CASE InjectEvent
  BY <1>7, InjectPast
<1>8. CASE GoOn
  BY <1>8, GoOnPast
<1>9. CASE ReplayStep
  BY <1>9, ReplayStepPast
<1>10. CASE Return
  <2>1. /\ call.op # None /\ call'.op = None
        /\ UNCHANGED <<log, frames, snaps, blob, past, inputs, wentBack>>
    BY <1>10 DEF Return, host, Idle
  <2>2. QED BY <2>1, ReplaySame DEF Replaying
<1>11. CASE UNCHANGED vars
  <2>1. UNCHANGED <<m, log, frames, snaps, blob, call, past, inputs, wentBack>>
    BY <1>11 DEF vars, host
  <2>2. Replaying'
    BY <2>1, ReplayingSame DEF PastInv
  <2>3. QED BY <2>1, <2>2, RecordingSame, PassedSame, KeptSame DEF PastInv, Stored
<1>12. QED
  BY <1>2, <1>3, <1>4, <1>5, <1>6, <1>7, <1>8, <1>9, <1>10, <1>11 DEF Next, Back

LEMMA PastInit == Init => PastInv
<1> SUFFICES ASSUME Init PROVE PastInv
  OBVIOUS
<1>1. /\ m = Boot /\ log = << >> /\ frames = << >> /\ snaps = << >> /\ blob = {}
      /\ call.op = None /\ past = {Boot} /\ inputs = 0
  BY DEF Init, Idle
<1>2. InOrder /\ Stored /\ Kept /\ Replaying
  <2>1. Len(log) = 0 /\ Len(frames) = 0 /\ Len(snaps) = 0
    BY <1>1
  <2>2. QED BY <1>1, <2>1, OrderInit DEF Stored, Kept, Replaying
<1>3. FramesMatch
  <2>1. FrameEvents = {} /\ Len(frames) = 0
    BY <1>1 DEF FrameEvents
  <2>2. QED BY <2>1 DEF FramesMatch
<1>4. ASSUME NEW c PROVE IrqsAt(c) = {} /\ RxAt(c) = None
  BY <1>1 DEF IrqsAt, RxAt, IrqEvents, EthEvents
<1>5. Seen(0) = {}
  BY DEF Seen
<1>6. Boot = Arrival(0)
  BY <1>5 DEF Boot, Arrival
<1>7. Recording
  <2>1. Boot.cyc = 0 /\ Boot.n = 0 /\ Boot.seen = {} /\ Boot.pend = {} /\ Boot.rx = None
    BY DEF Boot
  <2>2. Len(log) = 0 /\ \A x \in past : x.cyc <= m.cyc
    BY <1>1, <2>1
  <2>3. QED BY <1>1, <1>4, <1>5, <2>1, <2>2 DEF Recording, Follows
<1>8. Passed
  <2>1. \A k \in 0..Boot.cyc : k = 0
    BY DEF Boot
  <2>2. QED BY <1>1, <1>6, <2>1 DEF Passed
<1>9. QED BY <1>2, <1>3, <1>7, <1>8 DEF PastInv

\* The last cycle of a recording is that of one of its states.
LEMMA LatestIs ==
  ASSUME TypeOK, Passed
  PROVE  Latest \in 0..Steps /\ \E x \in past : x.cyc = Latest
<1> DEFINE C == {x.cyc : x \in past}
<1>1. Steps \in Nat /\ C \subseteq 0..Steps /\ C # {}
  BY SMTT(30), TypeFacts, MachineFields DEF TypeOK, Passed
<1>2. PICK c \in C : \A d \in C : d <= c
  BY <1>1, Greatest
<1>3. c \in 0..Steps /\ (\E x \in past : x.cyc = c) /\ \A x \in past : x.cyc <= c
  BY <1>1, <1>2
<1>4. QED BY <1>3 DEF Latest

\* A call that returns has reached the cycle it was asked for, and the state
\* that the recording was in.
LEMMA ReturnsToThePast ==
  ASSUME TypeOK, PastInv, [Next]_vars, call.op # None, call'.op = None
  PROVE  m.cyc = call.target /\ (call.target <= Latest => m \in past)
<1>1. Return
  BY DEF Next, Back, vars, Run, RaiseIrq, InjectFrame, OnCycle, SnapSave, Rewind, StepBack,
     Replay, Between, InjectEvent, GoOn, ReplayStep, TypeOK, Calls
<1>2. /\ m.cyc \in 0..Steps /\ call.target \in 0..Steps /\ Steps \in Nat /\ call.left \in 0..Steps
  BY TypeFacts
<1>3. /\ m.n = m.cyc /\ m.cyc <= call.target /\ (call.prev = m.cyc => call.left > 0)
      /\ m.cyc = call.target => m \in past \/ m = Arrival(m.cyc)
  BY DEF PastInv, Replaying, Follows
<1>4. m.cyc = call.target
  <2>1. CASE Stuck
    <3>1. Halted(m)
      BY <1>1, <1>2, <1>3, <2>1 DEF Return, RanOut, Stuck
    <3>2. QED BY <1>2, <1>3, <3>1 DEF Halted
  <2>2. CASE m.cyc >= call.target
    BY <1>2, <1>3, <2>2
  <2>3. QED BY <1>1, <2>1, <2>2 DEF Return
<1>5. ASSUME call.target <= Latest PROVE m \in past
  <2>1. PICK x \in past : x.cyc = Latest
    BY LatestIs DEF PastInv
  <2>2. call.target \in 0..x.cyc
    BY <1>2, <1>5, <2>1, LatestIs DEF PastInv
  <2>3. Arrival(call.target) \in past
    BY <2>2 DEF PastInv, Passed
  <2>4. QED BY <1>3, <1>4, <2>3
<1>6. QED BY <1>4, <1>5

\* As long as no instruction takes zero cycles, nothing recorded is lost and
\* the host does not go on after it went back, tt_rewind, tt_step_back and
\* tt_replay lead to a state the recording was in.
THEOREM BacksIntoThePast ==
  ASSUME PureRecording
  PROVE  Spec => BackToThePast
<1>1. TypeOK /\ PastInv /\ [Next]_vars
      => [call.op # None /\ call'.op = None /\ call.target <= Latest => m \in past]_vars
  BY ReturnsToThePast
<1>2. TypeOK /\ PastInv /\ [Next]_vars => PastInv'
  BY PastStep
<1>3. QED BY <1>1, <1>2, PastInit, TypeCorrect, PTL DEF Spec, BackToThePast

\* And that state is the one of the cycle they were asked for.
THEOREM BacksInTime ==
  ASSUME PureRecording
  PROVE  Spec => BackInTime
<1>1. TypeOK /\ PastInv /\ [Next]_vars
      => [call.op # None /\ call'.op = None /\ call.target <= Latest => m.cyc = call.target]_vars
  BY ReturnsToThePast
<1>2. TypeOK /\ PastInv /\ [Next]_vars => PastInv'
  BY PastStep
<1>3. QED BY <1>1, <1>2, PastInit, TypeCorrect, PTL DEF Spec, BackInTime
=============================================================================
