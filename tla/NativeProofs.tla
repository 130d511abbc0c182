--------------------------- MODULE NativeProofs ----------------------------
(***************************************************************************)
(* The host runs a sound thunk: NativeInv is inductive for every set of     *)
(* decoded blocks, every machine they start with and every memory.          *)
(***************************************************************************)
EXTENDS Native, CodegenProofs

(* Where the instructions are placed.                                       *)

\* A plan of a thunk, whose offsets are those the instructions were placed at.
Plan(t, y) ==
    /\ \E m : Fits(t.code, m, Enter, End, y)
    /\ Len(t.at) = Len(t.code)
    /\ \A n \in 1 .. Len(t.code) : t.at[n] = y.off[n]

\* What a plan says.
LEMMA PlanFacts ==
  ASSUME NEW t, NEW y, Plan(t, y)
  PROVE  /\ Len(t.code) \in Nat /\ Len(t.code) # 0 /\ DOMAIN t.code = 1 .. Len(t.code)
         /\ y.lev[1] = Enter /\ y.lev[Len(t.code) + 1] = End
         /\ \A p \in 1 .. Len(t.code) + 1 : y.off[p] \in Nat
         /\ \A p \in 1 .. Len(t.code) : LegAt(t.code, y.lev, y.off, p, Len(t.code) + 1)
<1>1. PICK m : Fits(t.code, m, Enter, End, y)
  BY DEF Plan
<1>2. IsSeq(t.code) /\ Legs(t.code, y.lev, y.off) /\ Ends(t.code, m, Enter, End, y.lev, y.off)
  BY <1>1 DEF Fits
<1>3. Len(t.code) # 0
  BY <1>2 DEF Ends, Enter, End
<1> QED BY <1>2, <1>3 DEF IsSeq, Legs, Ends

\* The offsets of a plan increase.
LEMMA Increasing ==
  ASSUME NEW t, NEW y, Plan(t, y), NEW p \in 1 .. Len(t.code) + 1, NEW q \in 1 .. Len(t.code) + 1, p < q
  PROVE  y.off[p] < y.off[q]
<1> DEFINE N == Len(t.code)
           T == {d \in Nat : p + 1 + d <= N + 1 => y.off[p] < y.off[p + 1 + d]}
<1>1. N \in Nat
  BY PlanFacts
<1>2. ASSUME NEW r \in 1 .. N PROVE y.off[r] < y.off[r + 1] /\ y.off[r] \in Nat /\ y.off[r + 1] \in Nat
  <2>1. y.off[r + 1] = y.off[r] + t.code[r].n /\ t.code[r].n \in Nat \ {0} /\ y.off[r] \in Nat /\ y.off[r + 1] \in Nat
    BY <1>1, PlanFacts DEF LegAt
  <2> QED BY <2>1
<1>3. 0 \in T
  <2>1. p + 1 + 0 <= N + 1 => p \in 1 .. N /\ p + 1 + 0 = p + 1
    BY <1>1
  <2> QED BY <2>1, <1>2
<1>4. ASSUME NEW d \in Nat, d \in T PROVE d + 1 \in T
  <2>1. CASE p + 1 + (d + 1) <= N + 1
    <3>1. p + 1 + d \in 1 .. N /\ (p + 1 + d) + 1 = p + 1 + (d + 1) /\ p + 1 + d <= N + 1
      BY <2>1, <1>1
    <3>2. y.off[p] < y.off[p + 1 + d]
      BY <3>1, <1>4
    <3>3. y.off[p + 1 + d] < y.off[(p + 1 + d) + 1] /\ y.off[p + 1 + d] \in Nat /\ y.off[(p + 1 + d) + 1] \in Nat
      BY <3>1, <1>2
    <3>4. y.off[p] \in Nat
      BY PlanFacts
    <3>5. y.off[p] < y.off[p + 1 + (d + 1)]
      BY <3>1, <3>2, <3>3, <3>4
    <3> QED BY <3>5
  <2>2. CASE ~(p + 1 + (d + 1) <= N + 1)
    BY <2>2
  <2> QED BY <2>1, <2>2
<1> DEFINE e == q - (p + 1)
<1>5. e \in Nat /\ p + 1 + e = q /\ p + 1 + e <= N + 1
  BY <1>1
<1> HIDE DEF T, e
<1>6. e \in T
  BY <1>3, <1>4, <1>5, NatSetInduction
<1>7. y.off[p] < y.off[p + 1 + e]
  BY <1>5, <1>6 DEF T
<1> QED BY <1>5, <1>7

\* An instruction at an offset is found there.
Found(at, d) == SelectInSeq(at, LAMBDA o : o = d)

LEMMA LandingIs ==
  ASSUME NEW t, NEW y, Plan(t, y), NEW p \in 1 .. Len(t.code), NEW d, d = y.off[p]
  PROVE  Found(t.at, d) = p
<1> DEFINE N == Len(t.code)
           I == {j \in 1 .. Len(t.at) : t.at[j] = d}
<1>1. N \in Nat /\ Len(t.at) = N /\ \A n \in 1 .. N : t.at[n] = y.off[n]
  BY PlanFacts DEF Plan
<1>2. ASSUME NEW j \in 1 .. N, j # p PROVE y.off[j] # y.off[p]
  <2>1. j \in 1 .. N + 1 /\ p \in 1 .. N + 1 /\ (j < p \/ p < j)
    BY <1>1, <1>2
  <2>2. y.off[j] < y.off[p] \/ y.off[p] < y.off[j]
    BY <2>1, Increasing
  <2>3. y.off[j] \in Nat /\ y.off[p] \in Nat
    BY <2>1, PlanFacts
  <2> QED BY <2>2, <2>3
<1>3. I = {p}
  BY <1>1, <1>2
<1>4. Found(t.at, d) = IF I # {} THEN Min(I) ELSE 0
  BY DEF Found, SelectInSeq
<1> HIDE DEF I
<1>5. Min(I) = p
  <2>1. Min({p}) = p
    BY <1>1 DEF Min
  <2> QED BY <2>1, <1>3
<1> QED BY <1>3, <1>4, <1>5

\* The offsets of Placed are those of any plan of the code.
LEMMA PlacedPlan ==
  ASSUME NEW c, NEW m, NEW y, Fits(c, m, Enter, End, y)
  PROVE  Plan(Placed(c), y)
<1> DEFINE N == Len(c)
           e == CHOOSE e : e = [n \in 0 .. N |-> IF n = 0 THEN 0 ELSE e[n - 1] + c[n].n]
<1>1. N \in Nat /\ DOMAIN c = 1 .. N /\ y.off[1] = 0
      /\ \A p \in 1 .. N : y.off[p + 1] = y.off[p] + c[p].n /\ y.off[p] \in Nat
  <2>1. IsSeq(c) /\ Legs(c, y.lev, y.off) /\ Ends(c, m, Enter, End, y.lev, y.off)
    BY DEF Fits
  <2> QED BY <2>1 DEF IsSeq, Legs, Ends, LegAt
<1>2. \E f : f = [n \in 0 .. N |-> IF n = 0 THEN 0 ELSE f[n - 1] + c[n].n]
  <2> DEFINE sizes == [n \in 0 .. N |-> c[n].n]
  <2>1. PICK f : Sums(f, N, sizes)
    BY <1>1, SumExists
  <2>2. f = [n \in 0 .. N |-> IF n = 0 THEN 0 ELSE f[n - 1] + sizes[n]]
    BY <2>1 DEF Sums
  <2>3. \A n \in 0 .. N : sizes[n] = c[n].n
    OBVIOUS
  <2> HIDE DEF sizes
  <2>4. f = [n \in 0 .. N |-> IF n = 0 THEN 0 ELSE f[n - 1] + c[n].n]
    BY <2>2, <2>3
  <2> QED BY <2>4
<1>3. e = [n \in 0 .. N |-> IF n = 0 THEN 0 ELSE e[n - 1] + c[n].n]
  BY <1>2
<1> DEFINE at == SubSeq([n \in DOMAIN c |-> e[n - 1]], 1, N)
<1>4. Placed(c) = [code |-> c, at |-> at]
  BY DEF Placed
<1> HIDE DEF e
<1> DEFINE T == {k0 \in Nat : k0 < N => e[k0] = y.off[k0 + 1]}
<1>5. 0 \in T
  BY <1>1, <1>3
<1>6. ASSUME NEW j \in Nat, j \in T PROVE j + 1 \in T
  <2>1. CASE j + 1 < N
    <3>1. j + 1 \in 0 .. N /\ j + 1 # 0 /\ (j + 1) - 1 = j /\ j + 1 \in 1 .. N /\ j < N
      BY <2>1, <1>1
    <3>2. e[j + 1] = e[j] + c[j + 1].n /\ e[j] = y.off[j + 1]
      BY <3>1, <1>3, <1>6
    <3>3. e[j + 1] = y.off[(j + 1) + 1]
      BY <3>1, <3>2, <1>1
    <3> QED BY <3>3
  <2>2. CASE ~(j + 1 < N)
    BY <2>2
  <2> QED BY <2>1, <2>2
<1> HIDE DEF T
<1>7. \A j \in Nat : j \in T
  BY <1>5, <1>6, NatSetInduction
<1>8. ASSUME NEW n \in 1 .. N PROVE e[n - 1] = y.off[n]
  <2>1. n - 1 \in Nat /\ n - 1 < N /\ (n - 1) + 1 = n
    BY <1>1
  <2>2. n - 1 \in T
    BY <2>1, <1>7
  <2>3. e[n - 1] = y.off[(n - 1) + 1]
    BY <2>1, <2>2 DEF T
  <2> QED BY <2>1, <2>3
<1>9. Len(at) = N /\ \A n \in 1 .. N : at[n] = y.off[n]
  <2>0. PICK g : g = [n \in DOMAIN c |-> e[n - 1]]
    OBVIOUS
  <2>1. \A n \in 1 .. N : g[n] = y.off[n] /\ g[n] \in Nat
    BY <2>0, <1>1, <1>8
  <2>2. /\ Len(SubSeq(g, 1, N)) = IF 1 <= N THEN N - 1 + 1 ELSE 0
        /\ \A n \in 1 .. N - 1 + 1 : SubSeq(g, 1, N)[n] = g[1 + n - 1]
    BY <2>1, <1>1, SubSeqProperties
  <2>3. N - 1 + 1 = N /\ \A n \in 1 .. N : 1 + n - 1 = n
    BY <1>1
  <2>4. Len(SubSeq(g, 1, N)) = N /\ \A n \in 1 .. N : SubSeq(g, 1, N)[n] = g[n]
    BY <2>2, <2>3, <1>1
  <2>5. SubSeq(g, 1, N) = at
    BY <2>0
  <2> QED BY <2>1, <2>4, <2>5
<1> HIDE DEF at
<1> QED BY <1>4, <1>9 DEF Plan
-----------------------------------------------------------------------------
(* What the stack and the registers hold at each place of a thunk.          *)

\* Records with exactly these fields: a machine, and the host.
Shaped(t) == t = [r |-> t.r, f |-> t.f, it |-> t.it, halted |-> t.halted, m |-> t.m]
IsHost(w) == w = [rip |-> w.rip, reg |-> w.reg, ah |-> w.ah, h |-> w.h, nv |-> w.nv, stk |-> w.stk,
                  result |-> w.result]

\* The stack holds so many registers of the frame, then so many free words.
OnStack(stk, saved, free) ==
    IsSeq(stk) /\ Len(stk) = saved + free /\ \A j \in 1 .. saved : stk[j] = Frame[j]

\* The places, as CodegenProofs names them, and at each one the registers on the
\* stack, the space below them and the registers that have their old values.
Outside == {"enter", "one", "two", "three", "four", "space", "left", "out"}
Sites == Outside \union Working \union {"cpu", "bus", "back4", "back3", "back2", "back1"}
Saved(at) == CASE at \in {"enter", "left", "out"} -> 0
               [] at \in {"one", "back1"} -> 1
               [] at \in {"two", "back2"} -> 2
               [] at \in {"three", "back3"} -> 3
               [] OTHER -> 4
Free(at) == CASE at \in {"space", "cpu", "bus", "body"} -> 4
              [] at = "call" -> 6
              [] OTHER -> 0
Restored(at) == CASE at \in Outside -> NonVolatile
                  [] at = "back1" -> {"rsi", "rbx", "r14"}
                  [] at = "back2" -> {"rsi", "rbx"}
                  [] at = "back3" -> {"rsi"}
                  [] OTHER -> {}

\* The host w and the machine t are what place p promises.
Shape(p, w, t) ==
    /\ p.at \in Sites
    /\ OnStack(w.stk, Saved(p.at), Free(p.at))
    /\ w.nv = [r \in NonVolatile |-> w.nv[r]]
    /\ \A r \in Restored(p.at) : w.nv[r] = r
    /\ p.at \in Working \union {"cpu", "bus"} => w.nv["r15"] = "cpu"
    /\ p.at \in Working \union {"bus"} => w.nv["r14"] = "bus"
    /\ p.at = "out" => w.result \/ t.halted
    /\ p.h => t.halted
-----------------------------------------------------------------------------
\* The saved registers stay where they are under everything done to the stack.
LEMMA StackFacts ==
  ASSUME NEW stk, NEW a \in Nat, NEW b \in Nat, OnStack(stk, a, b)
  PROVE  /\ \A e : b = 0 /\ e = Frame[a + 1] => OnStack(Append(stk, e), a + 1, 0)
         /\ b = 0 /\ a # 0 => OnStack(Front(stk), a - 1, 0) /\ Last(stk) = Frame[a]
         /\ \A c \in Nat : \A v : OnStack(stk \o [n \in 1 .. c |-> v], a, b + c)
         /\ \A c \in 0 .. b : OnStack(SubSeq(stk, 1, Len(stk) - c), a, b - c)
         /\ \A v : b # 0 => OnStack([stk EXCEPT ![Len(stk)] = v], a, b)
<1> DEFINE N == Len(stk)
<1>1. N \in Nat /\ N = a + b /\ IsSeq(stk) /\ \A j \in 1 .. a : stk[j] = Frame[j]
  BY DEF OnStack
<1>2. stk = [j \in 1 .. N |-> stk[j]]
  BY <1>1 DEF IsSeq
<1>3. ASSUME NEW e, b = 0, e = Frame[a + 1] PROVE OnStack(Append(stk, e), a + 1, 0)
  <2> DEFINE S == {stk[j] : j \in 1 .. N} \union {e}
  <2>1. stk \in Seq(S) /\ e \in S
    BY <1>1, <1>2
  <2> HIDE DEF S
  <2>2. /\ Append(stk, e) \in Seq(S)
        /\ Len(Append(stk, e)) = N + 1
        /\ \A j \in 1 .. N : Append(stk, e)[j] = stk[j]
    BY <2>1, <1>1
  <2>3. Append(stk, e)[N + 1] = e
    BY <2>1, <1>1
  <2>4. IsSeq(Append(stk, e))
    BY <2>2, SeqIsSeq
  <2>5. ASSUME NEW j \in 1 .. a + 1 PROVE Append(stk, e)[j] = Frame[j]
    <3>1. CASE j \in 1 .. a
      <4>0. N = a
        BY <1>1, <1>3
      <4>1. j \in 1 .. N
        BY <3>1, <4>0
      <4>2. Append(stk, e)[j] = stk[j]
        BY <4>1, <2>2
      <4> QED BY <4>2, <3>1, <1>1
    <3>2. CASE j = a + 1
      BY <3>2, <2>3, <1>1, <1>3
    <3>3. j \in 1 .. a \/ j = a + 1
      OBVIOUS
    <3> QED BY <3>1, <3>2, <3>3, Zenon
  <2>6. Len(Append(stk, e)) = (a + 1) + 0
    BY <2>2, <1>1, <1>3
  <2> QED BY <2>4, <2>5, <2>6 DEF OnStack
<1>4. ASSUME NEW c \in 0 .. b PROVE OnStack(SubSeq(stk, 1, N - c), a, b - c)
  <2> DEFINE S == {stk[j] : j \in 1 .. N}
             z == SubSeq(stk, 1, N - c)
  <2>1. N - c \in Int /\ \A j \in 1 .. N - c : stk[j] \in S
    BY <1>1
  <2> HIDE DEF S
  <2>2. /\ z \in Seq(S)
        /\ Len(z) = IF 1 <= N - c THEN N - c - 1 + 1 ELSE 0
        /\ \A j \in 1 .. N - c - 1 + 1 : z[j] = stk[1 + j - 1]
    BY <2>1, SubSeqProperties
  <2> HIDE DEF z
  <2>3. N - c - 1 + 1 = N - c /\ N - c \in Nat /\ N - c = a + (b - c) /\ \A j \in 1 .. N - c : 1 + j - 1 = j
    BY <1>1
  <2>4. Len(z) = a + (b - c) /\ \A j \in 1 .. a + (b - c) : z[j] = stk[j]
    <3>1. Len(z) = N - c
      <4> DEFINE d == N - c
      <4>0. d \in Nat /\ d - 1 + 1 = d /\ Len(z) = IF 1 <= d THEN d - 1 + 1 ELSE 0
        BY <2>2, <2>3
      <4> HIDE DEF d
      <4>1. Len(z) = d
        BY <4>0, SMTT(40)
      <4> QED BY <4>1 DEF d
    <3>2. \A j \in 1 .. N - c : z[j] = stk[j]
      BY <2>2, <2>3
    <3> QED BY <3>1, <3>2, <2>3
  <2>5. IsSeq(z)
    BY <2>2, SeqIsSeq
  <2>6. ASSUME NEW j \in 1 .. a PROVE z[j] = Frame[j]
    <3>1. j \in 1 .. a + (b - c)
      OBVIOUS
    <3> QED BY <3>1, <2>4, <1>1
  <2>7. OnStack(z, a, b - c)
    BY <2>4, <2>5, <2>6 DEF OnStack
  <2> QED BY <2>7 DEF z
<1>5. ASSUME b = 0, a # 0 PROVE OnStack(Front(stk), a - 1, 0) /\ Last(stk) = Frame[a]
  <2> DEFINE S == {stk[j] : j \in 1 .. N}
             z == SubSeq(stk, 1, N - 1)
  <2>1. N - 1 \in Nat /\ N = a /\ \A j \in 1 .. N - 1 : stk[j] \in S
    BY <1>1, <1>5
  <2> HIDE DEF S
  <2>2. /\ z \in Seq(S)
        /\ Len(z) = IF 1 <= N - 1 THEN N - 1 - 1 + 1 ELSE 0
        /\ \A j \in 1 .. N - 1 - 1 + 1 : z[j] = stk[1 + j - 1]
    BY <2>1, SubSeqProperties
  <2> HIDE DEF z
  <2>3. N - 1 - 1 + 1 = a - 1 /\ \A j \in 1 .. a - 1 : 1 + j - 1 = j
    BY <2>1
  <2>4. Len(z) = (a - 1) + 0 /\ \A j \in 1 .. a - 1 : z[j] = stk[j]
    BY <2>1, <2>2, <2>3
  <2>5. IsSeq(z)
    BY <2>2, SeqIsSeq
  <2>6. OnStack(z, a - 1, 0)
    BY <2>4, <2>5, <1>1 DEF OnStack
  <2>7. Last(stk) = stk[a]
    BY <2>1 DEF Last
  <2>8. Last(stk) = Frame[a]
    BY <2>7, <1>1, <1>5
  <2> QED BY <2>6, <2>8 DEF z, Front
<1>6. ASSUME NEW c \in Nat, NEW v PROVE OnStack(stk \o [n \in 1 .. c |-> v], a, b + c)
  <2>1. PICK g : g = [n \in 1 .. c |-> v]
    OBVIOUS
  <2>2. g \in Seq({v}) /\ Len(g) = c
    BY <2>1
  <2>3. IsSeq(g)
    BY <2>2, SeqIsSeq
  <2>4. /\ IsSeq(stk \o g) /\ Len(stk \o g) = Len(stk) + Len(g)
        /\ \A j \in 1 .. Len(stk) : (stk \o g)[j] = stk[j]
    BY <2>3, <1>1, ConcatFacts
  <2>5. Len(stk \o g) = a + (b + c) /\ \A j \in 1 .. a : (stk \o g)[j] = Frame[j]
    BY <2>2, <2>4, <1>1
  <2>6. OnStack(stk \o g, a, b + c)
    BY <2>4, <2>5 DEF OnStack
  <2> QED BY <2>1, <2>6
<1>7. ASSUME NEW v, b # 0 PROVE OnStack([stk EXCEPT ![N] = v], a, b)
  <2>1. PICK z : z = [stk EXCEPT ![N] = v]
    OBVIOUS
  <2>2. DOMAIN z = 1 .. N /\ \A j \in 1 .. N : j # N => z[j] = stk[j]
    BY <2>1, <1>2
  <2>3. z = [j \in 1 .. N |-> z[j]]
    BY <2>1, <2>2, <1>2
  <2>4. Len(z) = N
    BY <2>3, <1>1
  <2>5. \A j \in 1 .. a : j \in 1 .. N /\ j # N
    BY <1>1, <1>7
  <2>6. \A j \in 1 .. a : z[j] = Frame[j]
    BY <2>2, <2>5, <1>1
  <2>7. OnStack(z, a, b)
    BY <2>3, <2>4, <2>6, <1>1 DEF OnStack, IsSeq
  <2> QED BY <2>1, <2>7
<1> QED BY <1>3, <1>4, <1>5, <1>6, <1>7
-----------------------------------------------------------------------------
(* Instructions that only compute.                                          *)

\* What an instruction leaves alone that only computes.
Same(w, v) == IsHost(v) /\ v.rip = w.rip /\ v.nv = w.nv /\ v.stk = w.stk /\ v.result = w.result

\* Registers and flags of the host come and go.
LEMMA HostEdits ==
  ASSUME NEW w, IsHost(w)
  PROVE  /\ Same(w, w)
         /\ \A r, v : Same(w, [w EXCEPT !.reg[r] = v])
         /\ \A f : Same(w, [w EXCEPT !.h = f])
         /\ \A v : Same(w, [w EXCEPT !.ah = v])
         /\ \A g, f : Same(w, [w EXCEPT !.reg = g, !.h = f])
         /\ \A g : Same(w, [w EXCEPT !.reg = g])
<1>1. w = [rip |-> w.rip, reg |-> w.reg, ah |-> w.ah, h |-> w.h, nv |-> w.nv, stk |-> w.stk, result |-> w.result]
  BY DEF IsHost
<1>2. Same(w, w)
  BY DEF Same
<1>3. ASSUME NEW g PROVE Same(w, [w EXCEPT !.reg = g])
  BY <1>1 DEF Same, IsHost
<1>4. ASSUME NEW r, NEW v PROVE Same(w, [w EXCEPT !.reg[r] = v])
  BY <1>1 DEF Same, IsHost
<1>5. ASSUME NEW f PROVE Same(w, [w EXCEPT !.h = f])
  BY <1>1 DEF Same, IsHost
<1>6. ASSUME NEW v PROVE Same(w, [w EXCEPT !.ah = v])
  BY <1>1 DEF Same, IsHost
<1>7. ASSUME NEW g, NEW f PROVE Same(w, [w EXCEPT !.reg = g, !.h = f])
  <2>1. PICK u : u = [w EXCEPT !.reg = g]
    OBVIOUS
  <2>2. Same(w, u)
    BY <2>1, <1>3
  <2>3. Same(u, [u EXCEPT !.h = f])
    BY <2>2 DEF Same, IsHost
  <2>4. [w EXCEPT !.reg = g, !.h = f] = [u EXCEPT !.h = f]
    BY <2>1
  <2> QED BY <2>2, <2>3, <2>4 DEF Same
<1> QED BY <1>2, <1>3, <1>4, <1>5, <1>6, <1>7

\* So does a result with its flags.
LEMMA FlaggedKeeps ==
  ASSUME IsHost(x), NEW r, NEW y
  PROVE  Same(x, Flagged(r, y))
<1>1. PICK z : z = Into(r, y.r)
  OBVIOUS
<1>2. Same(x, z)
  BY <1>1, HostEdits DEF Into
<1>3. Same(z, [z EXCEPT !.h = y.h])
  BY <1>2, HostEdits DEF Same
<1> QED BY <1>1, <1>2, <1>3 DEF Same, Flagged

\* The operations of Compute.
ComputeOps == {"mov", "mov_imm", "mov_bus", "mov_helper", "lea_slot", "mov_buf", "alu", "alu_imm",
           "add_edx", "and", "cmp_eax", "test_eax", "add_r11", "sub_r11", "test_al", "shr_al",
           "test_al_imm", "and_al", "cmp_al", "mov_ah_al", "shr_ah", "xor_al_ah"}

\* Instructions that compute, one after the other.
LEMMA HostKept ==
  ASSUME IsHost(x), Op.op \in ComputeOps
  PROVE  Same(x, HostResult)
<1>1. PICK i : i = Op
  OBVIOUS
<1>2. PICK o : o = i.op
  OBVIOUS
<1>a. CASE o = "mov"
  <2>1. HostResult = Into(i.a, x.reg[i.b])
    BY <1>1, <1>2, <1>a DEF HostResult
  <2>2. Same(x, Into(i.a, x.reg[i.b]))
    BY HostEdits DEF Into
  <2> QED BY <2>1, <2>2
<1>b. CASE o \in {"mov_imm", "mov_bus", "mov_helper", "lea_slot", "mov_buf"}
  <2>1. HostResult = Into(i.a, i.b) \/ HostResult = x
    BY <1>1, <1>2, <1>b DEF HostResult
  <2>2. Same(x, Into(i.a, i.b)) /\ Same(x, x)
    BY HostEdits DEF Into
  <2> QED BY <2>1, <2>2
<1>c. CASE o \in {"alu", "alu_imm", "add_edx", "and"}
  <2>1. PICK r, y : HostResult = Flagged(r, y)
    BY <1>1, <1>2, <1>c DEF HostResult
  <2>2. Same(x, Flagged(r, y))
    BY FlaggedKeeps
  <2> QED BY <2>1, <2>2
<1>d. CASE o \in {"cmp_eax", "test_eax"}
  <2>1. PICK f : HostResult = [x EXCEPT !.h = f]
    BY <1>1, <1>2, <1>d DEF HostResult
  <2>2. Same(x, [x EXCEPT !.h = f])
    BY HostEdits
  <2> QED BY <2>1, <2>2
<1>e. CASE o \in {"add_r11", "sub_r11"}
  <2>1. HostResult = Into("r11", x.reg["r11"] - i.a) \/ HostResult = x
    BY <1>1, <1>2, <1>e DEF HostResult
  <2>2. Same(x, Into("r11", x.reg["r11"] - i.a)) /\ Same(x, x)
    BY HostEdits DEF Into
  <2> QED BY <2>1, <2>2
<1>f. CASE o \in {"test_al", "test_al_imm", "cmp_al"}
  <2>1. PICK f : HostResult = [x EXCEPT !.h = f]
    BY <1>1, <1>2, <1>f DEF HostResult
  <2>2. Same(x, [x EXCEPT !.h = f])
    BY HostEdits
  <2> QED BY <2>1, <2>2
<1>g. CASE o = "shr_al"
  <2>1. HostResult = Into("eax", x.reg["eax"] \div 2 ^ i.a)
    BY <1>1, <1>2, <1>g DEF HostResult
  <2>2. Same(x, Into("eax", x.reg["eax"] \div 2 ^ i.a))
    BY HostEdits DEF Into
  <2> QED BY <2>1, <2>2
<1>h. CASE o \in {"and_al", "xor_al_ah"}
  <2>1. PICK y : HostResult = Flagged("eax", y)
    BY <1>1, <1>2, <1>h DEF HostResult
  <2>2. Same(x, Flagged("eax", y))
    BY FlaggedKeeps
  <2> QED BY <2>1, <2>2
<1>i. CASE o \in {"mov_ah_al", "shr_ah"}
  <2>1. PICK v : HostResult = [x EXCEPT !.ah = v]
    BY <1>1, <1>2, <1>i DEF HostResult
  <2>2. Same(x, [x EXCEPT !.ah = v])
    BY HostEdits
  <2> QED BY <2>1, <2>2
<1>j. o \in ComputeOps
  BY <1>1, <1>2
<1> QED BY <1>j, <1>a, <1>b, <1>c, <1>d, <1>e, <1>f, <1>g, <1>h, <1>i DEF ComputeOps
-----------------------------------------------------------------------------
(* What keeps the shape of the host.                                        *)

LEMMA WorkShape ==
  ASSUME NEW p, NEW q, NEW w, NEW t, NEW v, NEW t2, Shape(p, w, t), p.at \in Working, q.at = p.at,
         OnStack(v.stk, 4, Free(q.at)), v.nv = [r \in NonVolatile |-> v.nv[r]],
         v.nv["r15"] = w.nv["r15"], v.nv["r14"] = w.nv["r14"],
         t.halted => t2.halted, q.h => p.h \/ t2.halted
  PROVE  Shape(q, v, t2)
<1>1. q.at \in {"body", "call"}
  BY DEF Working
<1>2. Saved(q.at) = 4 /\ Restored(q.at) = {}
  BY <1>1 DEF Saved, Restored, Outside
<1>3. q.at # "out" /\ q.at \in Sites
  BY <1>1 DEF Sites, Working
<1>4. w.nv["r15"] = "cpu" /\ w.nv["r14"] = "bus" /\ (p.h => t.halted)
  BY DEF Shape
<1> QED BY <1>2, <1>3, <1>4 DEF Shape

\* A register is saved.
LEMMA PushShape ==
  ASSUME NEW i, i.op = "push", NEW p, NEW q, NEW w, NEW t, NEW v, Shape(p, w, t), Rel(i, p, q),
         v.nv = w.nv, v.stk = Append(w.stk, w.nv[i.a])
  PROVE  Shape(q, v, t)
<1>1. Pushes(i.a, p.at, q.at) /\ (q.h => p.h)
  BY DEF Rel
<1>2. /\ p.at \in {"enter", "one", "two", "three"} /\ q.at \in {"one", "two", "three", "four"}
      /\ Saved(p.at) \in Nat /\ Saved(q.at) = Saved(p.at) + 1 /\ i.a = Frame[Saved(p.at) + 1]
  BY <1>1 DEF Pushes, Saved, Frame
<1>3. p.at \in Outside /\ q.at \in Outside /\ i.a \in NonVolatile
  BY <1>1, <1>2 DEF Outside, Pushes, NonVolatile
<1>4. Free(p.at) = 0 /\ Free(q.at) = 0
  BY <1>2 DEF Free
<1>5. Restored(p.at) = NonVolatile /\ Restored(q.at) = NonVolatile
  BY <1>2 DEF Restored, Outside
<1>6. w.nv[i.a] = i.a /\ OnStack(w.stk, Saved(p.at), 0)
  BY <1>3, <1>4, <1>5 DEF Shape
<1>7. OnStack(v.stk, Saved(q.at), Free(q.at))
  <2>0. PICK a \in Nat : a = Saved(p.at)
    BY <1>2
  <2>1. PICK kept, e : kept = w.stk /\ e = w.nv[i.a]
    OBVIOUS
  <2>2. OnStack(kept, a, 0) /\ e = Frame[a + 1]
    BY <2>0, <2>1, <1>2, <1>6
  <2>3. OnStack(Append(kept, e), a + 1, 0)
    BY <2>2, StackFacts
  <2> QED BY <2>0, <2>1, <2>3, <1>2, <1>4
<1>8. q.at \notin Working \union {"cpu", "bus"} /\ q.at # "out" /\ q.at \in Sites
  BY <1>2 DEF Working, Sites, Outside
<1> QED BY <1>1, <1>5, <1>7, <1>8 DEF Shape

\* A register gets its value back.
LEMMA PopShape ==
  ASSUME NEW i, i.op = "pop", NEW p, NEW q, NEW w, NEW t, NEW v, Shape(p, w, t), Rel(i, p, q),
         v.nv = [w.nv EXCEPT ![i.a] = Last(w.stk)], v.stk = Front(w.stk)
  PROVE  Shape(q, v, t)
<1>1. Pops(i.a, p.at, q.at) /\ (q.h => p.h)
  BY DEF Rel
<1>2. /\ p.at \in {"back4", "back3", "back2", "back1"} /\ q.at \in {"back3", "back2", "back1", "left"}
      /\ Saved(p.at) \in Nat /\ Saved(p.at) # 0 /\ Saved(q.at) = Saved(p.at) - 1 /\ i.a = Frame[Saved(p.at)]
  BY <1>1 DEF Pops, Saved, Frame
<1>3. Free(p.at) = 0 /\ Free(q.at) = 0
  BY <1>2 DEF Free
<1>4. i.a \in NonVolatile /\ Restored(q.at) = Restored(p.at) \union {i.a}
  BY <1>1 DEF Restored, Outside, Pops, NonVolatile
<1>5. OnStack(w.stk, Saved(p.at), 0) /\ w.nv = [r \in NonVolatile |-> w.nv[r]]
      /\ \A r \in Restored(p.at) : w.nv[r] = r
  BY <1>3 DEF Shape
<1>6. OnStack(v.stk, Saved(q.at), Free(q.at)) /\ Last(w.stk) = i.a
  BY <1>2, <1>3, <1>5, StackFacts
<1>7. v.nv = [r \in NonVolatile |-> IF r = i.a THEN i.a ELSE w.nv[r]]
  BY <1>5, <1>6
<1>8. Restored(q.at) \subseteq NonVolatile
  BY <1>2 DEF Restored, Outside, NonVolatile
<1>9. v.nv = [r \in NonVolatile |-> v.nv[r]] /\ \A r \in Restored(q.at) : v.nv[r] = r
  BY <1>4, <1>5, <1>7, <1>8
<1>10. q.at \notin Working \union {"cpu", "bus"} /\ q.at # "out" /\ q.at \in Sites
  BY <1>2 DEF Working, Sites, Outside
<1> QED BY <1>1, <1>6, <1>9, <1>10 DEF Shape

\* Space below the saved registers, made and given back.
LEMMA SpaceShape ==
  ASSUME NEW i, i.op \in {"sub_rsp", "add_rsp"}, NEW p, NEW q, NEW w, NEW t, NEW v, Shape(p, w, t), Rel(i, p, q),
         v.nv = w.nv,
         v.stk = IF i.op = "sub_rsp" THEN w.stk \o [n \in 1 .. i.a |-> VolatileJunk]
                 ELSE SubSeq(w.stk, 1, Len(w.stk) - i.a)
  PROVE  Shape(q, v, t)
<1>0. /\ OnStack(w.stk, Saved(p.at), Free(p.at)) /\ w.nv = [r \in NonVolatile |-> w.nv[r]]
      /\ \A r \in Restored(p.at) : w.nv[r] = r
      /\ p.at \in Working \union {"cpu", "bus"} => w.nv["r15"] = "cpu"
      /\ p.at \in Working \union {"bus"} => w.nv["r14"] = "bus"
      /\ (q.h => p.h) /\ (p.h => t.halted)
  BY DEF Shape, Rel
<1>1. CASE i.op = "sub_rsp"
  <2>1. \/ i.a = 4 /\ p.at = "four" /\ q.at = "space"
        \/ i.a = 2 /\ p.at = "body" /\ q.at = "call"
    BY <1>1 DEF Rel
  <2>2. Saved(p.at) = 4 /\ Saved(q.at) = 4 /\ Free(p.at) \in Nat /\ i.a \in Nat /\ Free(q.at) = Free(p.at) + i.a
    BY <2>1 DEF Saved, Free
  <2>3. OnStack(v.stk, Saved(q.at), Free(q.at))
    <3>0. PICK a \in Nat, b \in Nat, c \in Nat : a = Saved(p.at) /\ b = Free(p.at) /\ c = i.a
      BY <2>2
    <3>1. PICK kept : kept = w.stk
      OBVIOUS
    <3>2. OnStack(kept, a, b)
      BY <3>0, <3>1, <1>0
    <3>3. OnStack(kept \o [n \in 1 .. c |-> VolatileJunk], a, b + c)
      <4>1. \A c2 \in Nat : \A v2 : OnStack(kept \o [n \in 1 .. c2 |-> v2], a, b + c2)
        BY <3>2, StackFacts
      <4> QED BY <4>1, Zenon
    <3>4. v.stk = kept \o [n \in 1 .. c |-> VolatileJunk]
      BY <3>0, <3>1, <1>1
    <3>5. a = Saved(q.at) /\ b + c = Free(q.at)
      BY <2>2, <3>0
    <3> QED BY <3>3, <3>4, <3>5
  <2>4. CASE q.at = "space"
    <3>1. q.at \in Outside /\ p.at \in Outside /\ q.at \in Sites /\ q.at \notin Working \union {"cpu", "bus"}
      BY <2>1, <2>4 DEF Outside, Sites, Working
    <3>2. Restored(q.at) = Restored(p.at)
      BY <2>1, <2>4 DEF Restored, Outside
    <3> QED BY <1>0, <2>3, <2>4, <3>1, <3>2 DEF Shape
  <2>5. CASE q.at = "call"
    <3>1. Restored(q.at) = {} /\ p.at = "body" /\ q.at \in Sites
      BY <2>1, <2>5 DEF Restored, Outside, Sites, Working
    <3> QED BY <1>0, <2>3, <2>5, <3>1 DEF Shape, Working
  <2> QED BY <2>1, <2>4, <2>5
<1>2. CASE i.op = "add_rsp"
  <2>1. \/ i.a = 4 /\ p.at = "body" /\ q.at = "back4"
        \/ i.a = 2 /\ p.at = "call" /\ q.at = "body"
    BY <1>2 DEF Rel
  <2>2. Saved(p.at) = 4 /\ Saved(q.at) = 4 /\ Free(p.at) \in Nat /\ i.a \in 0 .. Free(p.at) /\ Free(q.at) = Free(p.at) - i.a
    BY <2>1 DEF Saved, Free
  <2>3. OnStack(v.stk, Saved(q.at), Free(q.at))
    <3>0. PICK a \in Nat, b \in Nat, c \in Nat : a = Saved(p.at) /\ b = Free(p.at) /\ c = i.a
      BY <2>2
    <3>1. PICK kept : kept = w.stk
      OBVIOUS
    <3>2. OnStack(kept, a, b) /\ c \in 0 .. b
      BY <2>2, <3>0, <3>1, <1>0
    <3>3. OnStack(SubSeq(kept, 1, Len(kept) - c), a, b - c)
      BY <3>2, StackFacts
    <3>4. v.stk = SubSeq(kept, 1, Len(kept) - c)
      BY <3>0, <3>1, <1>2
    <3>5. a = Saved(q.at) /\ b - c = Free(q.at)
      BY <2>2, <3>0
    <3> QED BY <3>3, <3>4, <3>5
  <2>4. q.at \in Sites /\ Restored(q.at) = {} /\ q.at # "out"
    BY <2>1 DEF Restored, Outside, Sites, Working
  <2>5. q.at \in Working \union {"cpu", "bus"} => p.at \in Working
    BY <2>1 DEF Working
  <2> QED BY <1>0, <2>3, <2>4, <2>5 DEF Shape
<1> QED BY <1>1, <1>2

\* The thunk's own values in the saved registers.
LEMMA OwnShape ==
  ASSUME NEW i, i.op = "own", NEW p, NEW q, NEW w, NEW t, NEW v, Shape(p, w, t), Rel(i, p, q),
         v.nv = [w.nv EXCEPT ![i.a] = i.b], v.stk = w.stk
  PROVE  Shape(q, v, t)
<1>1. /\ q.h => p.h
      /\ \/ i.a = "r15" /\ i.b = "cpu" /\ p.at = "space" /\ q.at = "cpu"
         \/ i.a = "r14" /\ i.b = "bus" /\ p.at = "cpu" /\ q.at = "bus"
         \/ i.a = "rbx" /\ p.at = "bus" /\ q.at = "body"
  BY DEF Rel
<1>2. /\ OnStack(w.stk, Saved(p.at), Free(p.at)) /\ w.nv = [r \in NonVolatile |-> w.nv[r]]
      /\ p.at \in {"cpu", "bus"} => w.nv["r15"] = "cpu"
      /\ p.at = "bus" => w.nv["r14"] = "bus"
      /\ (p.h => t.halted)
  BY DEF Shape
<1>3. Saved(q.at) = Saved(p.at) /\ Free(q.at) = Free(p.at)
  BY <1>1 DEF Saved, Free
<1>4. Restored(q.at) = {} /\ q.at \in Sites /\ q.at # "out"
  BY <1>1 DEF Restored, Outside, Sites, Working
<1>5. v.nv = [r \in NonVolatile |-> IF r = i.a THEN i.b ELSE w.nv[r]]
  BY <1>2
<1>6. v.nv = [r \in NonVolatile |-> v.nv[r]]
  BY <1>5
<1>7. v.nv["r15"] = "cpu" /\ (q.at # "cpu" => v.nv["r14"] = "bus")
  BY <1>1, <1>2, <1>5 DEF NonVolatile
<1>8. q.at \in Working \union {"bus"} => q.at # "cpu"
  BY DEF Working
<1> QED BY <1>1, <1>2, <1>3, <1>4, <1>6, <1>7, <1>8 DEF Shape

\* FALSE is returned only by a halted core.
LEMMA ResultShape ==
  ASSUME NEW i, i.op = "mov_al", NEW p, NEW q, NEW w, NEW t, NEW v, Shape(p, w, t), Rel(i, p, q),
         v.nv = w.nv, v.stk = w.stk, v.result = i.a
  PROVE  Shape(q, v, t)
<1>1. (q.h => p.h) /\ (i.a \/ p.h) /\ p.at = "left" /\ q.at = "out"
  BY DEF Rel
<1>2. Saved(q.at) = Saved(p.at) /\ Free(q.at) = Free(p.at) /\ Restored(q.at) = Restored(p.at)
  BY <1>1 DEF Saved, Free, Restored, Outside
<1>3. q.at \in Sites /\ q.at \notin Working \union {"cpu", "bus"}
  BY <1>1 DEF Sites, Outside, Working
<1> QED BY <1>1, <1>2, <1>3 DEF Shape
-----------------------------------------------------------------------------
(* Each step of the host leads to the next instruction.                     *)

\* The host w is at an instruction of the thunk and as plan y says.
InThunk(y, w, t) == /\ Plan(thunk, y) /\ IsHost(w) /\ Shaped(t)
                    /\ w.rip \in 1 .. Len(thunk.code) /\ Shape(y.lev[w.rip], w, t)

\* The leg the host is about to do.
Leg(y, i, p, q) == /\ i = Op /\ p = y.lev[x.rip] /\ q = y.lev[x.rip + 1]
                   /\ Rel(i, p, q) /\ Shape(p, x, s)

\* The host is somewhere on its plan.
LEMMA LegHere ==
  ASSUME NEW y, InThunk(y, x, s)
  PROVE  Leg(y, Op, y.lev[x.rip], y.lev[x.rip + 1]) /\ LegAt(thunk.code, y.lev, y.off, x.rip, Len(thunk.code) + 1)
<1>1. Plan(thunk, y) /\ x.rip \in 1 .. Len(thunk.code) /\ Shape(y.lev[x.rip], x, s)
  BY DEF InThunk
<1>2. LegAt(thunk.code, y.lev, y.off, x.rip, Len(thunk.code) + 1)
  BY <1>1, PlanFacts
<1>3. Rel(Op, y.lev[x.rip], y.lev[x.rip + 1])
  BY <1>2 DEF LegAt, Op
<1> QED BY <1>1, <1>2, <1>3 DEF Leg

\* ... and further on than now.
Ahead(y, w, t) == InThunk(y, w, t) /\ w.rip > x.rip

\* A host that fits the next instruction may go there.
LEMMA Onward ==
  ASSUME NEW y, InThunk(y, x, s), NEW v, NEW t, IsHost(v), v.rip = x.rip, Shaped(t),
         Shape(y.lev[x.rip + 1], v, t)
  PROVE  Ahead(y, Advance(v), t)
<1>1. Plan(thunk, y) /\ x.rip \in 1 .. Len(thunk.code) /\ Len(thunk.code) \in Nat
  BY PlanFacts DEF InThunk
<1>2. y.lev[Len(thunk.code) + 1].at = "end" /\ y.lev[x.rip + 1].at \in Sites
  BY <1>1, PlanFacts DEF Shape, End
<1>3. x.rip + 1 # Len(thunk.code) + 1
  <2>1. "end" \notin Sites
    BY DEF Sites, Outside, Working
  <2> QED BY <2>1, <1>2
<1>4. x.rip + 1 \in 1 .. Len(thunk.code)
  BY <1>1, <1>3
<1>5. PICK w : w = Advance(v)
  OBVIOUS
<1>6. /\ IsHost(w) /\ w.rip = x.rip + 1 /\ w.nv = v.nv /\ w.stk = v.stk /\ w.result = v.result
  BY <1>5 DEF IsHost, Advance
<1>7. Shape(y.lev[x.rip + 1], w, t)
  BY <1>6 DEF Shape
<1>8. InThunk(y, w, t)
  BY <1>1, <1>4, <1>6, <1>7 DEF InThunk
<1> QED BY <1>1, <1>5, <1>6, <1>8 DEF Ahead

\* An instruction of the body that leaves the stack and the frame alone.
Ordinary(i) == i.op \notin {"push", "pop", "sub_rsp", "add_rsp", "own", "mov_al", "ret", "call", "ld_slot"}

\* An ordinary instruction leads to the next.
LEMMA OrdinaryStep ==
  ASSUME NEW y, InThunk(y, x, s), Ordinary(Op), NEW v, NEW t, Same(x, v), Shaped(t),
         s.halted => t.halted, Op.op = "halt" => t.halted
  PROVE  Ahead(y, Advance(v), t)
<1>1. PICK i, p, q : Leg(y, i, p, q)
  BY LegHere
<1>2. i = Op /\ Rel(i, p, q) /\ Shape(p, x, s) /\ q = y.lev[x.rip + 1]
  BY <1>1 DEF Leg
<1>3. p.at \in Working /\ q.at = p.at /\ (q.h => p.h \/ t.halted)
  BY <1>2 DEF Rel, Ordinary
<1>4. Saved(q.at) = 4 /\ Saved(p.at) = 4
  BY <1>3 DEF Saved, Working
<1>5. OnStack(v.stk, 4, Free(q.at)) /\ v.nv = x.nv /\ v.nv = [r \in NonVolatile |-> v.nv[r]]
  BY <1>2, <1>3, <1>4 DEF Shape, Same
<1>6. Shape(q, v, t)
  BY <1>2, <1>3, <1>5, WorkShape, ZenonT(40)
<1>7. IsHost(v) /\ v.rip = x.rip
  BY DEF Same
<1> QED BY <1>2, <1>6, <1>7, Onward

\* What the stack instructions and the frame's do to the host.
LEMMA FrameEdits ==
  ASSUME NEW w, IsHost(w)
  PROVE  /\ \A z : LET v == [w EXCEPT !.stk = z]
                   IN  IsHost(v) /\ v.rip = w.rip /\ v.nv = w.nv /\ v.stk = z
         /\ \A g : LET v == [w EXCEPT !.nv = g]
                   IN  IsHost(v) /\ v.rip = w.rip /\ v.nv = g /\ v.stk = w.stk
         /\ \A b : LET v == [w EXCEPT !.result = b]
                   IN  IsHost(v) /\ v.rip = w.rip /\ v.nv = w.nv /\ v.stk = w.stk /\ v.result = b
<1>1. w = [rip |-> w.rip, reg |-> w.reg, ah |-> w.ah, h |-> w.h, nv |-> w.nv, stk |-> w.stk, result |-> w.result]
  BY DEF IsHost
<1>2. ASSUME NEW z, NEW v, v = [w EXCEPT !.stk = z] PROVE IsHost(v) /\ v.rip = w.rip /\ v.nv = w.nv /\ v.stk = z
  BY <1>1, <1>2 DEF IsHost
<1>3. ASSUME NEW g, NEW v, v = [w EXCEPT !.nv = g] PROVE IsHost(v) /\ v.rip = w.rip /\ v.nv = g /\ v.stk = w.stk
  BY <1>1, <1>3 DEF IsHost
<1>4. ASSUME NEW b, NEW v, v = [w EXCEPT !.result = b]
      PROVE IsHost(v) /\ v.rip = w.rip /\ v.nv = w.nv /\ v.stk = w.stk /\ v.result = b
  BY <1>1, <1>4 DEF IsHost
<1> QED BY <1>2, <1>3, <1>4

\* An instruction of the body that overwrites rbx, the failure flag, or rsi, the
\* scratch register of the flag updates, leads to the next: the caller's values of
\* both are on the stack.
LEMMA ScratchStep ==
  ASSUME NEW y, InThunk(y, x, s), Ordinary(Op), Op.op # "halt",
         NEW r \in {"rbx", "rsi"}, NEW u, NEW g, g = [x.nv EXCEPT ![r] = u],
         NEW v, IsHost(v), v.rip = x.rip, v.stk = x.stk, v.nv = g,
         NEW t, Shaped(t), t.halted = s.halted
  PROVE  Ahead(y, Advance(v), t)
<1>1. PICK i, p, q : Leg(y, i, p, q)
  BY LegHere
<1>2. i = Op /\ Rel(i, p, q) /\ Shape(p, x, s) /\ q = y.lev[x.rip + 1]
  BY <1>1 DEF Leg
<1>3. p.at \in Working /\ q.at = p.at /\ (q.h => p.h)
  BY <1>2 DEF Rel, Ordinary
<1>4. Saved(p.at) = 4
  BY <1>3 DEF Saved, Working
<1>5. x.nv = [n \in NonVolatile |-> x.nv[n]] /\ OnStack(x.stk, Saved(p.at), Free(p.at))
  BY <1>2 DEF Shape
<1>6. g = [n \in NonVolatile |-> IF n = r THEN u ELSE x.nv[n]]
  BY <1>5
<1>7. g = [n \in NonVolatile |-> g[n]] /\ g["r15"] = x.nv["r15"] /\ g["r14"] = x.nv["r14"]
  BY <1>6 DEF NonVolatile
<1>8. OnStack(v.stk, 4, Free(q.at))
  BY <1>3, <1>4, <1>5
<1>9. v.nv = [n \in NonVolatile |-> v.nv[n]] /\ v.nv["r15"] = x.nv["r15"] /\ v.nv["r14"] = x.nv["r14"]
  BY <1>7
<1>10. Shape(q, v, t)
  BY <1>2, <1>3, <1>8, <1>9, WorkShape
<1> QED BY <1>2, <1>10, Onward

\* The actions of the host, one by one.
LEMMA ComputeKept ==
  ASSUME NEW y, InThunk(y, x, s), Compute
  PROVE  Ahead(y, x', s')
<1>1. Op.op \in ComputeOps /\ x' = Advance(HostResult) /\ s' = s
  BY DEF Compute, At, ComputeOps
<1>2. IsHost(x) /\ Shaped(s)
  BY DEF InThunk
<1>3. Same(x, HostResult)
  BY <1>1, <1>2, HostKept
<1>4. Ordinary(Op) /\ Op.op # "halt"
  BY <1>1 DEF Ordinary, ComputeOps
<1>5. Ahead(y, Advance(HostResult), s)
  BY <1>2, <1>3, <1>4, OrdinaryStep
<1> QED BY <1>1, <1>5

LEMMA LoadGuestKept ==
  ASSUME NEW y, InThunk(y, x, s), LoadGuest
  PROVE  Ahead(y, x', s')
<1>1. PICK r, u : x' = Advance(Into(r, u))
  <2>1. CASE Op.op = "ld"
    BY <2>1 DEF LoadGuest
  <2>2. CASE Op.op # "ld"
    BY <2>2 DEF LoadGuest
  <2> QED BY <2>1, <2>2
<1>2. Op.op \in {"ld", "ld_al_apsr"} /\ s' = s
  BY DEF LoadGuest, At
<1>3. IsHost(x) /\ Shaped(s)
  BY DEF InThunk
<1>4. PICK v : v = Into(r, u)
  OBVIOUS
<1>5. Same(x, v)
  BY <1>3, <1>4, HostEdits DEF Into
<1>6. Ordinary(Op) /\ Op.op # "halt"
  BY <1>2 DEF Ordinary
<1>7. Ahead(y, Advance(v), s)
  BY <1>3, <1>5, <1>6, OrdinaryStep
<1> QED BY <1>1, <1>2, <1>4, <1>7

\* What becomes of the guest.
LEMMA GuestEdits ==
  ASSUME NEW t, Shaped(t)
  PROVE  /\ \A r, v : Shaped([t EXCEPT !.r[r] = v]) /\ [t EXCEPT !.r[r] = v].halted = t.halted
         /\ \A f : Shaped([t EXCEPT !.f = f]) /\ [t EXCEPT !.f = f].halted = t.halted
         /\ \A m : Shaped([t EXCEPT !.m = m]) /\ [t EXCEPT !.m = m].halted = t.halted
         /\ Shaped([t EXCEPT !.halted = TRUE]) /\ [t EXCEPT !.halted = TRUE].halted
<1>1. t = [r |-> t.r, f |-> t.f, it |-> t.it, halted |-> t.halted, m |-> t.m]
  BY DEF Shaped
<1>2. ASSUME NEW r, NEW v PROVE Shaped([t EXCEPT !.r[r] = v]) /\ [t EXCEPT !.r[r] = v].halted = t.halted
  BY <1>1 DEF Shaped
<1>3. ASSUME NEW f PROVE Shaped([t EXCEPT !.f = f]) /\ [t EXCEPT !.f = f].halted = t.halted
  BY <1>1 DEF Shaped
<1>4. ASSUME NEW m PROVE Shaped([t EXCEPT !.m = m]) /\ [t EXCEPT !.m = m].halted = t.halted
  BY <1>1 DEF Shaped
<1>5. Shaped([t EXCEPT !.halted = TRUE]) /\ [t EXCEPT !.halted = TRUE].halted
  <2>1. ASSUME NEW b PROVE Shaped([t EXCEPT !.halted = b]) /\ [t EXCEPT !.halted = b].halted = b
    BY <1>1 DEF Shaped
  <2>2. \A b : Shaped([t EXCEPT !.halted = b]) /\ [t EXCEPT !.halted = b].halted = b
    BY <2>1
  <2> QED BY <2>2, Zenon
<1> QED BY <1>2, <1>3, <1>4, <1>5

LEMMA StoreGuestKept ==
  ASSUME NEW y, InThunk(y, x, s), StoreGuest
  PROVE  Ahead(y, x', s')
<1>1. Op.op \in {"st", "st_pc", "halt"} /\ x' = Advance(x)
  BY DEF StoreGuest, At
<1>2. IsHost(x) /\ Shaped(s) /\ Same(x, x)
  BY HostEdits DEF InThunk
<1>3. PICK t : t = s'
  OBVIOUS
<1>4. Shaped(t) /\ (s.halted => t.halted) /\ (Op.op = "halt" => t.halted)
  <2>1. CASE Op.op = "st"
    <3>1. PICK r, u : r = Op.a /\ u = x.reg[Op.b]
      OBVIOUS
    <3>2. t = [s EXCEPT !.r[r] = u]
      BY <2>1, <3>1, <1>3 DEF StoreGuest
    <3> QED BY <2>1, <3>2, <1>2, GuestEdits
  <2>2. CASE Op.op = "st_pc"
    <3>1. PICK r, u : r = Pc /\ u = Op.a
      OBVIOUS
    <3>2. t = [s EXCEPT !.r[r] = u]
      BY <2>2, <3>1, <1>3 DEF StoreGuest
    <3> QED BY <2>2, <3>2, <1>2, GuestEdits
  <2>3. CASE Op.op = "halt"
    <3>1. t = [s EXCEPT !.halted = TRUE]
      BY <2>3, <1>3 DEF StoreGuest
    <3> QED BY <3>1, <1>2, GuestEdits
  <2> QED BY <1>1, <2>1, <2>2, <2>3
<1>5. Ordinary(Op)
  BY <1>1 DEF Ordinary
<1>6. Ahead(y, Advance(x), t)
  BY <1>2, <1>4, <1>5, OrdinaryStep
<1> QED BY <1>1, <1>3, <1>6

LEMMA UpdateFlagsKept ==
  ASSUME NEW y, InThunk(y, x, s), UpdateFlags
  PROVE  Ahead(y, x', s')
<1>1. Op.op \in {"nzcv", "nz"}
  BY DEF UpdateFlags, At
<1>2. PICK e, h : x' = Advance([[x EXCEPT !.reg = e, !.h = h] EXCEPT !.nv = [@ EXCEPT !["rsi"] = "flags"]])
  BY DEF UpdateFlags
<1>3. PICK f : s' = [s EXCEPT !.f = f]
  BY DEF UpdateFlags
<1>4. IsHost(x) /\ Shaped(s)
  BY DEF InThunk
<1>5. PICK w, t : w = [x EXCEPT !.reg = e, !.h = h] /\ t = [s EXCEPT !.f = f]
  OBVIOUS
<1>6. Same(x, w)
  BY <1>4, <1>5, HostEdits
<1>7. IsHost(w) /\ w.rip = x.rip /\ w.nv = x.nv /\ w.stk = x.stk
  BY <1>6 DEF Same
<1>8. PICK g : g = [w.nv EXCEPT !["rsi"] = "flags"]
  OBVIOUS
<1>9. PICK v : v = [w EXCEPT !.nv = g]
  OBVIOUS
<1>10. IsHost(v) /\ v.rip = x.rip /\ v.nv = g /\ v.stk = x.stk
  BY <1>7, <1>9, FrameEdits
<1>11. Shaped(t) /\ t.halted = s.halted
  BY <1>4, <1>5, GuestEdits
<1>12. Ordinary(Op) /\ Op.op # "halt"
  BY <1>1 DEF Ordinary
<1>13. g = [x.nv EXCEPT !["rsi"] = "flags"]
  BY <1>7, <1>8
<1>14. Ahead(y, Advance(v), t)
  BY <1>10, <1>11, <1>12, <1>13, ScratchStep
<1>15. x' = Advance([w EXCEPT !.nv = [@ EXCEPT !["rsi"] = "flags"]])
  BY <1>2, <1>5
<1>16. x' = Advance(v)
  BY <1>15, <1>8, <1>9
<1> QED BY <1>3, <1>5, <1>14, <1>16

LEMMA HostAccessKept ==
  ASSUME NEW y, InThunk(y, x, s), HostAccess
  PROVE  Ahead(y, x', s')
<1>1. Op.op \in {"host_ld", "host_st"}
  BY DEF HostAccess, At
<1>2. IsHost(x) /\ Shaped(s) /\ Same(x, x)
  BY HostEdits DEF InThunk
<1>3. Ordinary(Op) /\ Op.op # "halt"
  BY <1>1 DEF Ordinary
<1>4. CASE Op.op = "host_ld"
  <2>1. PICK u : x' = Advance(Into("ecx", u)) /\ s' = s
    BY <1>4 DEF HostAccess
  <2>2. PICK v : v = Into("ecx", u)
    OBVIOUS
  <2>3. Same(x, v)
    BY <2>2, <1>2, HostEdits DEF Into
  <2>4. Ahead(y, Advance(v), s)
    BY <2>3, <1>2, <1>3, OrdinaryStep
  <2> QED BY <2>1, <2>2, <2>4
<1>5. CASE Op.op # "host_ld"
  <2>1. PICK m : x' = Advance(x) /\ s' = [s EXCEPT !.m = m]
    BY <1>5 DEF HostAccess
  <2>2. PICK t : t = [s EXCEPT !.m = m]
    OBVIOUS
  <2>3. Shaped(t) /\ t.halted = s.halted
    BY <2>2, <1>2, GuestEdits
  <2>4. Ahead(y, Advance(x), t)
    BY <2>3, <1>2, <1>3, OrdinaryStep
  <2> QED BY <2>1, <2>2, <2>4
<1> QED BY <1>4, <1>5

\* A step within a call's space.
LEMMA CallStep ==
  ASSUME NEW y, InThunk(y, x, s), Op.op \in {"call", "ld_slot"}, NEW v, NEW t, IsHost(v), v.rip = x.rip,
         v.nv = x.nv, Shaped(t), t.halted = s.halted,
         v.stk = x.stk \/ \E u : v.stk = [x.stk EXCEPT ![Len(x.stk)] = u]
  PROVE  Ahead(y, Advance(v), t)
<1>1. PICK i, p, q : Leg(y, i, p, q)
  BY LegHere
<1>2. i = Op /\ Rel(i, p, q) /\ Shape(p, x, s) /\ q = y.lev[x.rip + 1]
  BY <1>1 DEF Leg
<1>3. p.at = "call" /\ q.at = "call" /\ (q.h => p.h)
  BY <1>2 DEF Rel
<1>4. Saved(q.at) = 4 /\ Saved(p.at) = 4 /\ Free(q.at) = 6 /\ Free(p.at) = 6
  BY <1>3 DEF Saved, Free
<1>5. OnStack(x.stk, 4, 6) /\ v.nv = [r \in NonVolatile |-> v.nv[r]]
  BY <1>2, <1>4 DEF Shape
<1>6. OnStack(v.stk, 4, 6)
  <2>1. PICK z : z = x.stk
    OBVIOUS
  <2>2. OnStack(z, 4, 6) /\ 6 # 0 /\ 4 \in Nat /\ 6 \in Nat
    BY <2>1, <1>5
  <2>3. \A u : OnStack([z EXCEPT ![Len(z)] = u], 4, 6)
    BY <2>2, StackFacts
  <2> QED BY <2>1, <2>2, <2>3
<1>7. Shape(q, v, t)
  <2>1. p.at \in Working /\ q.at = p.at /\ OnStack(v.stk, 4, Free(q.at))
    BY <1>3, <1>4, <1>6 DEF Working
  <2>2. (s.halted => t.halted) /\ (q.h => p.h \/ t.halted)
    BY <1>3
  <2> QED BY <1>2, <1>5, <2>1, <2>2, WorkShape, ZenonT(40)
<1> QED BY <1>2, <1>7, Onward

LEMMA CallBusKept ==
  ASSUME NEW y, InThunk(y, x, s), CallBus
  PROVE  Ahead(y, x', s')
<1>1. Op.op = "call"
  BY DEF CallBus, At
<1>2. IsHost(x) /\ Shaped(s)
  BY DEF InThunk
<1>3. CASE Op.a = "bus_read"
  <2>1. PICK g, u : x' = Advance([x EXCEPT !.reg = g, !.stk = [@ EXCEPT ![Len(@)] = u]]) /\ s' = s
    BY <1>3 DEF CallBus
  <2>2. PICK z : z = [x.stk EXCEPT ![Len(x.stk)] = u]
    OBVIOUS
  <2>3. PICK v : v = [x EXCEPT !.reg = g, !.stk = z]
    OBVIOUS
  <2>4. x' = Advance(v)
    BY <2>1, <2>2, <2>3
  <2>5. v = [rip |-> x.rip, reg |-> g, ah |-> x.ah, h |-> x.h, nv |-> x.nv, stk |-> z, result |-> x.result]
    BY <2>3, <1>2 DEF IsHost
  <2>6. IsHost(v) /\ v.rip = x.rip /\ v.nv = x.nv /\ v.stk = z
    BY <2>5 DEF IsHost
  <2>7. Ahead(y, Advance(v), s)
    BY <2>2, <2>6, <1>1, <1>2, CallStep
  <2> QED BY <2>1, <2>4, <2>7, SMTT(40)
<1>4. CASE Op.a # "bus_read"
  <2>1. PICK g, m : x' = Advance([x EXCEPT !.reg = g]) /\ s' = [s EXCEPT !.m = m]
    BY <1>4 DEF CallBus
  <2>2. PICK v, t : v = [x EXCEPT !.reg = g] /\ t = [s EXCEPT !.m = m]
    OBVIOUS
  <2>3. Same(x, v) /\ Shaped(t) /\ t.halted = s.halted
    BY <2>2, <1>2, HostEdits, GuestEdits
  <2>4. Ahead(y, Advance(v), t)
    BY <2>3, <1>1, CallStep DEF Same
  <2> QED BY <2>1, <2>2, <2>4
<1> QED BY <1>3, <1>4

\* The stack.
LEMMA StackKept ==
  ASSUME NEW y, InThunk(y, x, s), Stack
  PROVE  Ahead(y, x', s')
<1>1. Op.op \in {"push", "pop", "sub_rsp", "add_rsp", "own", "ld_slot"} /\ s' = s
  BY DEF Stack, At
<1>2. IsHost(x) /\ Shaped(s)
  BY DEF InThunk
<1>3. PICK i, p, q : Leg(y, i, p, q)
  BY LegHere
<1>4. i = Op /\ Rel(i, p, q) /\ Shape(p, x, s) /\ q = y.lev[x.rip + 1]
  BY <1>3 DEF Leg
<1>5. CASE i.op = "push"
  <2>1. PICK z : z = Append(x.stk, x.nv[i.a])
    OBVIOUS
  <2>2. PICK v : v = [x EXCEPT !.stk = z]
    OBVIOUS
  <2>3. x' = Advance(v)
    BY <2>1, <2>2, <1>4, <1>5 DEF Stack
  <2>4. IsHost(v) /\ v.rip = x.rip /\ v.nv = x.nv /\ v.stk = z
    BY <2>2, <1>2, FrameEdits
  <2>5. Shape(q, v, s)
    BY <2>1, <2>4, <1>4, <1>5, PushShape
  <2> QED BY <2>3, <2>4, <2>5, <1>1, <1>2, <1>4, Onward
<1>6. CASE i.op = "pop"
  <2>1. PICK z, g : z = Front(x.stk) /\ g = [x.nv EXCEPT ![i.a] = Last(x.stk)]
    OBVIOUS
  <2>2. PICK u : u = [x EXCEPT !.stk = z]
    OBVIOUS
  <2>3. PICK v : v = [u EXCEPT !.nv = g]
    OBVIOUS
  <2>4. x' = Advance(v)
    BY <2>1, <2>2, <2>3, <1>4, <1>6 DEF Stack
  <2>5. IsHost(u) /\ u.rip = x.rip /\ u.nv = x.nv /\ u.stk = z
    BY <2>2, <1>2, FrameEdits
  <2>6. IsHost(v) /\ v.rip = x.rip /\ v.nv = g /\ v.stk = z
    BY <2>3, <2>5, FrameEdits
  <2>7. Shape(q, v, s)
    BY <2>1, <2>6, <1>4, <1>6, PopShape
  <2> QED BY <2>4, <2>6, <2>7, <1>1, <1>2, <1>4, Onward
<1>7. CASE i.op \in {"sub_rsp", "add_rsp"}
  <2>1. PICK z : z = IF i.op = "sub_rsp" THEN x.stk \o [n \in 1 .. i.a |-> VolatileJunk]
                     ELSE SubSeq(x.stk, 1, Len(x.stk) - i.a)
    OBVIOUS
  <2>2. PICK v : v = [x EXCEPT !.stk = z]
    OBVIOUS
  <2>3. x' = Advance(v)
    BY <2>1, <2>2, <1>4, <1>7 DEF Stack
  <2>4. IsHost(v) /\ v.rip = x.rip /\ v.nv = x.nv /\ v.stk = z
    BY <2>2, <1>2, FrameEdits
  <2>5. Shape(q, v, s)
    BY <2>1, <2>4, <1>4, <1>7, SpaceShape
  <2> QED BY <2>3, <2>4, <2>5, <1>1, <1>2, <1>4, Onward
<1>8. CASE i.op = "own"
  <2>1. PICK g : g = [x.nv EXCEPT ![i.a] = i.b]
    OBVIOUS
  <2>2. PICK v : v = [x EXCEPT !.nv = g]
    OBVIOUS
  <2>3. x' = Advance(v)
    BY <2>1, <2>2, <1>4, <1>8 DEF Stack
  <2>4. IsHost(v) /\ v.rip = x.rip /\ v.nv = g /\ v.stk = x.stk
    BY <2>2, <1>2, FrameEdits
  <2>5. Shape(q, v, s)
    BY <2>1, <2>4, <1>4, <1>8, OwnShape
  <2> QED BY <2>3, <2>4, <2>5, <1>1, <1>2, <1>4, Onward
<1>9. CASE i.op = "ld_slot"
  <2>1. PICK v : v = Into("ecx", Last(x.stk))
    OBVIOUS
  <2>2. x' = Advance(v)
    BY <2>1, <1>4, <1>9 DEF Stack
  <2>3. Same(x, v)
    BY <2>1, <1>2, HostEdits DEF Into
  <2>4. IsHost(v) /\ v.rip = x.rip /\ v.nv = x.nv /\ v.stk = x.stk
    BY <2>3 DEF Same
  <2>5. Ahead(y, Advance(v), s)
    BY <2>4, <1>2, <1>4, <1>9, CallStep
  <2> QED BY <2>2, <2>5, <1>1
<1> QED BY <1>1, <1>4, <1>5, <1>6, <1>7, <1>8, <1>9

\* The failure flag and the result.
LEMMA FailFlagKept ==
  ASSUME NEW y, InThunk(y, x, s), FailFlag
  PROVE  Ahead(y, x', s')
<1>1. Op.op \in {"or_bl", "test_bl", "mov_al"} /\ s' = s
  BY DEF FailFlag, At
<1>2. IsHost(x) /\ Shaped(s)
  BY DEF InThunk
<1>3. PICK i, p, q : Leg(y, i, p, q)
  BY LegHere
<1>4. i = Op /\ Rel(i, p, q) /\ Shape(p, x, s) /\ q = y.lev[x.rip + 1]
  BY <1>3 DEF Leg
<1>5. CASE i.op = "or_bl"
  <2>1. PICK one : one = "failed"
    OBVIOUS
  <2>2. PICK g : g = [x.nv EXCEPT !["rbx"] = one]
    OBVIOUS
  <2>3. PICK v : v = [x EXCEPT !.nv = g]
    OBVIOUS
  <2>4. x' = Advance(v)
    BY <2>1, <2>2, <2>3, <1>4, <1>5 DEF FailFlag
  <2>5. IsHost(v) /\ v.rip = x.rip /\ v.nv = g /\ v.stk = x.stk
    BY <2>3, <1>2, FrameEdits
  <2>6. Ordinary(Op) /\ Op.op # "halt"
    BY <1>4, <1>5 DEF Ordinary
  <2>7. Ahead(y, Advance(v), s)
    BY <2>2, <2>5, <2>6, <1>2, ScratchStep
  <2> QED BY <2>4, <2>7, <1>1
<1>6. CASE i.op = "test_bl"
  <2>1. PICK f : x' = Advance([x EXCEPT !.h = f])
    BY <1>4, <1>6 DEF FailFlag
  <2>2. PICK v : v = [x EXCEPT !.h = f]
    OBVIOUS
  <2>3. Same(x, v)
    BY <2>2, <1>2, HostEdits
  <2>4. Ordinary(Op) /\ Op.op # "halt"
    BY <1>4, <1>6 DEF Ordinary
  <2>5. Ahead(y, Advance(v), s)
    BY <2>3, <2>4, <1>2, OrdinaryStep
  <2> QED BY <2>1, <2>2, <2>5, <1>1
<1>7. CASE i.op = "mov_al"
  <2>1. PICK b : b = i.a
    OBVIOUS
  <2>2. PICK v : v = [x EXCEPT !.result = b]
    OBVIOUS
  <2>3. x' = Advance(v)
    BY <2>1, <2>2, <1>4, <1>7 DEF FailFlag
  <2>4. IsHost(v) /\ v.rip = x.rip /\ v.nv = x.nv /\ v.stk = x.stk /\ v.result = i.a
    BY <2>1, <2>2, <1>2, FrameEdits
  <2>5. Shape(q, v, s)
    BY <2>4, <1>4, <1>7, ResultShape
  <2> QED BY <2>3, <2>4, <2>5, <1>1, <1>2, <1>4, Onward
<1> QED BY <1>1, <1>4, <1>5, <1>6, <1>7

\* A jump arrives where the plan says, and its shape is that of the body.
LEMMA JumpKept ==
  ASSUME NEW y, InThunk(y, x, s), Jump
  PROVE  Ahead(y, x', s')
<1> DEFINE N == Len(thunk.code)
           p == x.rip
<1>1. Op.op \in Jumps /\ s' = s
  BY DEF Jump, At, Jumps
<1>2. Plan(thunk, y) /\ IsHost(x) /\ Shaped(s) /\ p \in 1 .. N /\ N \in Nat /\ Shape(y.lev[p], x, s)
  BY PlanFacts DEF InThunk
<1>3. PICK i : i = thunk.code[p]
  OBVIOUS
<1>4. /\ i.n \in Nat \ {0} /\ y.off[p + 1] = y.off[p] + i.n /\ Rel(i, y.lev[p], y.lev[p + 1])
      /\ y.lev[p] = Body /\ Distance(i) \in Nat
      /\ \E t \in 1 .. N + 1 : y.off[t] = y.off[p + 1] + Distance(i) /\ y.lev[t] = Body
  BY <1>1, <1>3, LegHere DEF LegAt, Op
<1>5. PICK d : x' = [x EXCEPT !.rip = Landing(d)] /\ (d = Distance(i) \/ (d = 0 /\ Op.op = "jcc"))
  BY <1>1, <1>3 DEF Jump, Distance, Op, Jumps
<1>6. \E t \in 1 .. N + 1 : /\ y.off[t] = y.off[p + 1] + d /\ d \in Nat
                            /\ y.lev[t].at = "body" /\ ~y.lev[t].h
  <2>1. CASE d = Distance(i)
    BY <2>1, <1>4 DEF Body
  <2>2. CASE d = 0
    <3>1. y.lev[p + 1].at = "body" /\ ~y.lev[p + 1].h
      <4>1. i.op \in {"jcc", "jmp"} /\ y.lev[p].at = "body" /\ ~y.lev[p].h
        BY <1>1, <1>3, <1>4 DEF Op, Jumps, Body
      <4> QED BY <4>1, <1>4 DEF Rel
    <3>2. p + 1 \in 1 .. N + 1 /\ y.off[p + 1] \in Nat
      BY <1>2, PlanFacts
    <3> QED BY <2>2, <3>1, <3>2
  <2> QED BY <1>5, <2>1, <2>2
<1>7. PICK t \in 1 .. N + 1 : /\ y.off[t] = y.off[p + 1] + d /\ d \in Nat
                              /\ y.lev[t].at = "body" /\ ~y.lev[t].h
  BY <1>6
<1>8. t \in 1 .. N
  <2>1. y.lev[N + 1].at = "end"
    BY <1>2, PlanFacts DEF End
  <2>2. t # N + 1
    BY <2>1, <1>7
  <2> QED BY <2>2, <1>2
<1>9. thunk.at[p] = y.off[p]
  BY <1>2 DEF Plan
<1>10. PICK e : e = thunk.at[p] + Op.n + d
  OBVIOUS
<1>11. e = y.off[t]
  BY <1>3, <1>4, <1>7, <1>9, <1>10 DEF Op
<1>12. Found(thunk.at, e) = t
  BY <1>2, <1>8, <1>11, LandingIs
<1>13. Landing(d) = t
  <2>1. Landing(d) = Found(thunk.at, thunk.at[x.rip] + Op.n + d)
    BY DEF Landing, Found
  <2> QED BY <2>1, <1>10, <1>12
<1>14. PICK v : v = [x EXCEPT !.rip = t]
  OBVIOUS
<1>15. IsHost(v) /\ v.rip = t /\ v.nv = x.nv /\ v.stk = x.stk
  BY <1>2, <1>14 DEF IsHost
<1>16. Shape(y.lev[t], v, s)
  <2>1. PICK q, q2 : q = y.lev[p] /\ q2 = y.lev[t]
    OBVIOUS
  <2>2. q.at = "body" /\ q2.at = "body" /\ ~q2.h /\ Shape(q, x, s)
    BY <2>1, <1>2, <1>4, <1>7 DEF Body
  <2>3. Saved(q.at) = 4
    BY <2>2 DEF Saved
  <2>4. q.at \in Working /\ q2.at = q.at
    BY <2>2 DEF Working
  <2>5. OnStack(v.stk, 4, Free(q2.at)) /\ v.nv = [r \in NonVolatile |-> v.nv[r]]
    BY <2>2, <2>3, <2>4, <1>15 DEF Shape
  <2>6. Shape(q2, v, s)
    BY <2>2, <2>4, <2>5, <1>15, WorkShape
  <2> QED BY <2>1, <2>6
<1>17. InThunk(y, v, s)
  BY <1>2, <1>8, <1>15, <1>16 DEF InThunk
<1>18. t > x.rip
  <2>1. y.off[x.rip] \in Nat /\ y.off[t] \in Nat /\ y.off[t] > y.off[x.rip]
    <3>1. y.off[x.rip] \in Nat /\ y.off[x.rip + 1] \in Nat
      BY <1>2, PlanFacts
    <3> QED BY <3>1, <1>4, <1>7
  <2>2. t < x.rip => y.off[t] < y.off[x.rip]
    BY <1>2, <1>8, Increasing
  <2> QED BY <2>1, <2>2, <1>2, <1>8
<1>19. Ahead(y, v, s)
  BY <1>15, <1>17, <1>18 DEF Ahead
<1> QED BY <1>1, <1>5, <1>13, <1>14, <1>19
-----------------------------------------------------------------------------
(* jit_run.                                                                 *)

\* The inductive invariant: while native code runs the host follows some plan of
\* the thunk, and the interpreter takes over from a thunk only once the core is
\* halted.
NativeInv ==
    /\ blk \in Blocks /\ thunk = Thunk(blk)
    /\ mode = "call" => x = Host /\ Shaped(s)
    /\ mode = "native" => thunk # NoThunk /\ \E y : InThunk(y, x, s)
    /\ mode = "interp" /\ thunk # NoThunk => s.halted

\* Every jump lands on an instruction, and no path leaves the thunk but by RET.
InsideThunk == mode = "native" => x.rip \in DOMAIN thunk.code

\* cpu_t and bus_t are where the accesses of a thunk look for them.
FrameHeld ==
    mode = "native" =>
        /\ Op.op \in {"ld", "ld_al_apsr", "st", "st_pc", "halt", "nzcv", "nz"} => x.nv["r15"] = "cpu"
        /\ Op.op = "call" => x.nv["r14"] = "bus"

\* No instruction of a thunk is executed twice.
OnlyForward == [][mode = "native" /\ mode' = "native" => x'.rip > x.rip]_vars

\* A block is executed by its thunk or by the interpreter, never by both.
NeverTwice == [][thunk # NoThunk => UNCHANGED k]_vars

\* What is assumed of the blocks.
LEMMA BlockFacts ==
  ASSUME NEW b \in Blocks
  PROVE  /\ Len(b) \in Nat /\ DOMAIN b = 1 .. Len(b) /\ Len(b) # 0
         /\ \A n \in DOMAIN b : b[n].cond \in 0 .. 15
         /\ \A t \in Starts(b) : Shaped(t)
<1>1. b \in Seq(insn_t) /\ b # << >> /\ \A t \in Starts(b) : IsMachine(t)
  BY BlocksAssumption
<1>2. Len(b) \in Nat /\ DOMAIN b = 1 .. Len(b) /\ Len(b) # 0 /\ \A n \in 1 .. Len(b) : b[n] \in insn_t
  BY <1>1
<1>3. \A i \in insn_t : i.cond \in 0 .. 15
  BY DEF insn_t
<1>4. \A t \in Starts(b) : Shaped(t)
  BY <1>1 DEF IsMachine, Shaped
<1> QED BY <1>2, <1>3, <1>4

\* Every thunk has a plan.
LEMMA ThunkPlan ==
  ASSUME NEW b \in Blocks, Thunk(b) # NoThunk
  PROVE  \E y : Plan(Thunk(b), y)
<1>1. Compilable(b) /\ Thunk(b) = Placed(codegen_emit(b))
  BY DEF Thunk
<1>2. \E m : Sound(codegen_emit(b), m, Enter, End)
  BY <1>1, BlockFacts, ThunkSound
<1>3. PICK c : c = codegen_emit(b)
  OBVIOUS
<1>4. PICK m, y : Fits(c, m, Enter, End, y)
  BY <1>2, <1>3 DEF Sound
<1>5. Plan(Placed(c), y)
  BY <1>4, PlacedPlan
<1> QED BY <1>1, <1>3, <1>5

\* jit_run enters a thunk in the shape it expects.
LEMMA EnterShape ==
  ASSUME NEW y, Plan(thunk, y), x = Host, Shaped(s)
  PROVE  InThunk(y, x, s)
<1>1. Len(thunk.code) \in Nat /\ Len(thunk.code) # 0 /\ y.lev[1] = Enter
  BY PlanFacts
<1>2. IsHost(x) /\ x.rip = 1 /\ x.stk = << >> /\ x.nv = [r \in NonVolatile |-> r]
  BY DEF IsHost, Host
<1>3. Enter.at = "enter" /\ ~Enter.h
  BY DEF Enter
<1>4. Saved("enter") = 0 /\ Free("enter") = 0 /\ Restored("enter") = NonVolatile
  BY DEF Saved, Free, Restored, Outside
<1>5. OnStack(x.stk, 0, 0)
  BY <1>2 DEF OnStack, IsSeq
<1>6. "enter" \in Sites /\ "enter" \notin Working \union {"cpu", "bus"}
  BY DEF Sites, Outside, Working
<1>7. PICK e : e = Enter
  OBVIOUS
<1>8. e.at = "enter" /\ ~e.h
  BY <1>3, <1>7
<1>9. Shape(e, x, s)
  BY <1>2, <1>4, <1>5, <1>6, <1>8 DEF Shape
<1> QED BY <1>1, <1>2, <1>7, <1>9 DEF InThunk

\* What a thunk leaves behind.
LEMMA ReturnFacts ==
  ASSUME NEW y, InThunk(y, x, s), Op.op = "ret"
  PROVE  x.stk = << >> /\ x.nv = Host.nv /\ (x.result \/ s.halted)
<1>1. PICK i, p, q : Leg(y, i, p, q)
  BY LegHere
<1>2. p.at = "out" /\ Shape(p, x, s)
  BY <1>1 DEF Leg, Rel
<1>3. Saved("out") = 0 /\ Free("out") = 0 /\ Restored("out") = NonVolatile
  BY DEF Saved, Free, Restored, Outside
<1>4. OnStack(x.stk, 0, 0) /\ x.nv = [r \in NonVolatile |-> x.nv[r]] /\ (\A r \in NonVolatile : x.nv[r] = r)
      /\ (x.result \/ s.halted)
  BY <1>2, <1>3 DEF Shape
<1>5. x.stk = << >>
  BY <1>4 DEF OnStack, IsSeq
<1>6. x.nv = [r \in NonVolatile |-> r]
  BY <1>4
<1>7. Host.nv = [r \in NonVolatile |-> r]
  BY DEF Host
<1> QED BY <1>4, <1>5, <1>6, <1>7

\* Whatever the host does next.
LEMMA NativeAhead ==
  ASSUME NEW y, InThunk(y, x, s), Native
  PROVE  Ahead(y, x', s')
BY ComputeKept, LoadGuestKept, StoreGuestKept, UpdateFlagsKept, HostAccessKept, CallBusKept, StackKept, FailFlagKept,
   JumpKept DEF Native

\* It holds at first, and every step keeps it.
LEMMA InvInit == Init => NativeInv
<1> SUFFICES ASSUME Init PROVE NativeInv
  OBVIOUS
<1>1. blk \in Blocks /\ thunk = Thunk(blk) /\ s \in Starts(blk) /\ x = Host /\ mode = "call"
  BY DEF Init
<1>2. Shaped(s)
  BY <1>1, BlockFacts
<1> QED BY <1>1, <1>2 DEF NativeInv

LEMMA InvNext == NativeInv /\ [Next]_vars => NativeInv'
<1> SUFFICES ASSUME NativeInv, [Next]_vars PROVE NativeInv'
  OBVIOUS
<1>0. /\ blk \in Blocks /\ thunk = Thunk(blk)
      /\ mode = "call" => x = Host /\ Shaped(s)
      /\ mode = "native" => thunk # NoThunk /\ \E y : InThunk(y, x, s)
      /\ mode = "interp" /\ thunk # NoThunk => s.halted
  BY DEF NativeInv
<1>1. CASE Call
  <2>1. mode = "call" /\ mode' = (IF thunk = NoThunk THEN "interp" ELSE "native")
        /\ blk' = blk /\ thunk' = thunk /\ s' = s /\ x' = x
    BY <1>1 DEF Call
  <2>2. CASE thunk = NoThunk
    BY <1>0, <2>1, <2>2 DEF NativeInv
  <2>3. CASE thunk # NoThunk
    <3>1. PICK y : Plan(thunk, y)
      BY <2>3, <1>0, ThunkPlan
    <3>2. InThunk(y, x, s)
      BY <3>1, <2>1, <1>0, EnterShape
    <3>3. InThunk(y, x, s)'
      BY <3>2, <2>1 DEF InThunk
    <3> QED BY <2>1, <2>3, <3>3, <1>0 DEF NativeInv
  <2> QED BY <2>2, <2>3
<1>2. CASE Native
  <2>1. mode = "native" /\ mode' = mode /\ blk' = blk /\ thunk' = thunk
    BY <1>2 DEF Native, Compute, LoadGuest, StoreGuest, UpdateFlags, HostAccess, CallBus, Stack, FailFlag, Jump, At
  <2>2. PICK y : InThunk(y, x, s)
    BY <1>0, <2>1
  <2>3. InThunk(y, x', s')
    BY <1>2, <2>2, NativeAhead DEF Ahead
  <2>4. InThunk(y, x, s)'
    BY <2>1, <2>3 DEF InThunk
  <2> QED BY <1>0, <2>1, <2>4 DEF NativeInv
<1>3. CASE Return
  <2>1. mode = "native" /\ Op.op = "ret" /\ mode' = (IF x.result THEN "done" ELSE "interp")
        /\ blk' = blk /\ thunk' = thunk /\ s' = s /\ x' = x
    BY <1>3 DEF Return, At
  <2>2. PICK y : InThunk(y, x, s)
    BY <1>0, <2>1
  <2>3. x.result \/ s.halted
    BY <2>1, <2>2, ReturnFacts
  <2> QED BY <1>0, <2>1, <2>3 DEF NativeInv
<1>4. CASE Interpret
  <2>1. mode = "interp" /\ ~s.halted /\ blk' = blk /\ thunk' = thunk /\ mode' \in {"interp", "done"}
    BY <1>4 DEF Interpret
  <2>2. thunk = NoThunk
    BY <1>0, <2>1
  <2> QED BY <1>0, <2>1, <2>2 DEF NativeInv
<1>5. CASE EndOfBlock
  BY <1>0, <1>5 DEF EndOfBlock, NativeInv
<1>6. CASE UNCHANGED vars
  <2>1. blk' = blk /\ thunk' = thunk /\ s' = s /\ x' = x /\ mode' = mode
    BY <1>6 DEF vars
  <2>2. \A y : InThunk(y, x, s) => InThunk(y, x, s)'
    BY <2>1 DEF InThunk
  <2> QED BY <1>0, <2>1, <2>2 DEF NativeInv
<1> QED BY <1>1, <1>2, <1>3, <1>4, <1>5, <1>6 DEF Next

LEMMA NativeInvariant == Spec => []NativeInv
BY InvInit, InvNext, PTL DEF Spec

\* At the RET of a thunk the stack is as it was at the call and the non-volatile
\* registers hold what the caller had in them, on the path that succeeds and on
\* the one that fails, for every block that is compiled.  The body keeps none of
\* them: r15, r14 and rbx are its own, and flags are gathered in rsi
\* (codegen.c:205-315).
THEOREM TheCallerGetsItsRegistersBack == Spec => []CalleeSaved
<1>1. NativeInv => CalleeSaved
  BY ReturnFacts DEF NativeInv, CalleeSaved
<1> QED BY <1>1, NativeInvariant, PTL

\* Every jump of a thunk, whose distance codegen.c adds up from byte counts of
\* code not yet emitted, lands on the first byte of an instruction, and no path
\* runs past the end of the thunk (codegen.c:498-995).
THEOREM JumpsLandOnInstructions == Spec => []InsideThunk
<1>1. NativeInv => InsideThunk
  <2> SUFFICES ASSUME NativeInv, mode = "native" PROVE x.rip \in DOMAIN thunk.code
    BY DEF InsideThunk
  <2>1. PICK y : InThunk(y, x, s)
    BY DEF NativeInv
  <2> QED BY <2>1, PlanFacts DEF InThunk
<1> QED BY <1>1, NativeInvariant, PTL

\* r15 holds the pointer to cpu_t at every access to it, and r14 the pointer to
\* the bus at every call of a helper, whichever path led there
\* (codegen.c:265-280).
THEOREM AccessesFindTheirStructures == Spec => []FrameHeld
<1>1. NativeInv => FrameHeld
  <2> SUFFICES ASSUME NativeInv, mode = "native"
               PROVE  /\ Op.op \in {"ld", "ld_al_apsr", "st", "st_pc", "halt", "nzcv", "nz"} => x.nv["r15"] = "cpu"
                      /\ Op.op = "call" => x.nv["r14"] = "bus"
    BY DEF FrameHeld
  <2>1. PICK y : InThunk(y, x, s)
    BY DEF NativeInv
  <2>2. PICK i, p, q : Leg(y, i, p, q)
    BY <2>1, LegHere
  <2>3. i = Op /\ Rel(i, p, q) /\ Shape(p, x, s)
    BY <2>2 DEF Leg
  <2>4. i.op \in {"ld", "ld_al_apsr", "st", "st_pc", "halt", "nzcv", "nz", "call"} => p.at \in Working
    BY <2>3 DEF Rel, Working
  <2> QED BY <2>3, <2>4 DEF Shape
<1> QED BY <1>1, NativeInvariant, PTL

\* The interpreter does no instruction of a block that has a thunk: a thunk that
\* reports failure, half way through its stores, leaves a halted core behind
\* (jit.c:83-92, codegen.c:294-315).
THEOREM ExecutedOnce == Spec => NeverTwice
<1>1. NativeInv /\ [Next]_vars => [thunk # NoThunk => UNCHANGED k]_vars
  <2> SUFFICES ASSUME NativeInv, Next, thunk # NoThunk PROVE k' = k
    BY DEF vars
  <2>1. ~Interpret
    BY DEF NativeInv, Interpret
  <2> QED BY <2>1 DEF Next, Call, Native, Compute, LoadGuest, StoreGuest, UpdateFlags, HostAccess, CallBus, Stack,
                 FailFlag, Jump, Return, EndOfBlock
<1> QED BY <1>1, NativeInvariant, PTL DEF Spec, NeverTwice

\* The host only goes forward in a thunk: with JumpsLandOnInstructions, a thunk
\* comes to its RET after at most as many steps as it has instructions
\* (codegen.c:265-315, 498-995).
THEOREM ThunksRunForward == Spec => OnlyForward
<1>1. NativeInv /\ [Next]_vars => [mode = "native" /\ mode' = "native" => x'.rip > x.rip]_vars
  <2> SUFFICES ASSUME NativeInv, Next, mode = "native", mode' = "native" PROVE x'.rip > x.rip
    BY DEF vars
  <2>1. PICK y : InThunk(y, x, s)
    BY DEF NativeInv
  <2>2. ~Call /\ ~Interpret /\ ~EndOfBlock /\ ~Return
    BY DEF Call, Interpret, EndOfBlock, Return
  <2>3. Native
    BY <2>2 DEF Next
  <2> QED BY <2>1, <2>3, NativeAhead DEF Ahead
<1> QED BY <1>1, NativeInvariant, PTL DEF Spec, OnlyForward
=============================================================================
