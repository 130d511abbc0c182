--------------------------- MODULE CodegenProofs ---------------------------
(***************************************************************************)
(* Whatever block codegen_emit compiles, its thunk is sound: the jump       *)
(* distances, added up by hand from byte counts, lead to instructions, and  *)
(* every path keeps the stack and the saved registers in step, from the     *)
(* caller's frame to the one RET, and halts the core before it reports a    *)
(* failure.                                                                 *)
(***************************************************************************)
EXTENDS Codegen, SequenceTheorems, WellFoundedInduction, TLAPS

\* A sequence, of whatever.
IsSeq(c) == Len(c) \in Nat /\ c = [j \in 1 .. Len(c) |-> c[j]]

\* A place in a thunk is a shape of the host: how far the frame is built or taken
\* down ("enter", "one", ... "body", ... "out"), and whether the core is halted.
\* The frame holds these, from the bottom.
Frame == << "r15", "r14", "rbx", "rsi" >>
Body == [at |-> "body", h |-> FALSE]
Working == {"body", "call"}

Jumps == {"jcc", "jmp"}
Distance(i) == IF i.op = "jmp" THEN i.a ELSE i.b

\* The order in which registers are saved, and given back.
Pushes(r, p, q) == \/ r = "r15" /\ p = "enter" /\ q = "one"
                   \/ r = "r14" /\ p = "one" /\ q = "two"
                   \/ r = "rbx" /\ p = "two" /\ q = "three"
                   \/ r = "rsi" /\ p = "three" /\ q = "four"
Pops(r, p, q) == \/ r = "rsi" /\ p = "back4" /\ q = "back3"
                 \/ r = "rbx" /\ p = "back3" /\ q = "back2"
                 \/ r = "r14" /\ p = "back2" /\ q = "back1"
                 \/ r = "r15" /\ p = "back1" /\ q = "left"
\* From shape p the instruction i leads to shape q.
Rel(i, p, q) ==
    /\ q.h => p.h \/ i.op = "halt"
    /\ CASE i.op = "push" -> Pushes(i.a, p.at, q.at)
         [] i.op = "pop" -> Pops(i.a, p.at, q.at)
         [] i.op = "sub_rsp" -> \/ i.a = 4 /\ p.at = "four" /\ q.at = "space"
                                \/ i.a = 2 /\ p.at = "body" /\ q.at = "call"
         [] i.op = "add_rsp" -> \/ i.a = 4 /\ p.at = "body" /\ q.at = "back4"
                                \/ i.a = 2 /\ p.at = "call" /\ q.at = "body"
         [] i.op = "own" -> \/ i.a = "r15" /\ i.b = "cpu" /\ p.at = "space" /\ q.at = "cpu"
                            \/ i.a = "r14" /\ i.b = "bus" /\ p.at = "cpu" /\ q.at = "bus"
                            \/ i.a = "rbx" /\ p.at = "bus" /\ q.at = "body"
         [] i.op = "mov_al" -> (i.a \/ p.h) /\ p.at = "left" /\ q.at = "out"
         [] i.op = "ret" -> p.at = "out"
         [] i.op \in {"call", "ld_slot"} -> p.at = "call" /\ q.at = "call"
         [] OTHER -> p.at \in Working /\ q.at = p.at

\* The instruction c[p] leads from its shape to the next one, off[p] is its
\* distance from the start, and a jump goes forward, from the body into the body,
\* to where an instruction starts.
LegAt(c, lev, off, p, last) ==
    /\ c[p].n \in Nat \ {0}
    /\ off[p + 1] = off[p] + c[p].n
    /\ Rel(c[p], lev[p], lev[p + 1])
    /\ c[p].op \in Jumps =>
         /\ lev[p] = Body
         /\ Distance(c[p]) \in Nat
         /\ \E t \in 1 .. last : off[t] = off[p + 1] + Distance(c[p]) /\ lev[t] = Body
Legs(c, lev, off) ==
    /\ \A p \in 1 .. Len(c) + 1 : off[p] \in Nat
    /\ \A p \in 1 .. Len(c) : LegAt(c, lev, off, p, Len(c) + 1)
\* From p to q in m bytes.
Ends(c, m, p, q, lev, off) ==
    off[1] = 0 /\ off[Len(c) + 1] = m /\ lev[1] = p /\ lev[Len(c) + 1] = q

\* A plan y of the code c: its shapes and its offsets.
Fits(c, m, p, q, y) == IsSeq(c) /\ Legs(c, y.lev, y.off) /\ Ends(c, m, p, q, y.lev, y.off)

\* m bytes of code that lead from p to q, whatever the jumps in it do.
Sound(c, m, p, q) == \E y : Fits(c, m, p, q, y)
\* An instruction of the body starts d bytes from the start, in some plan: a jump
\* in front may go there.
Lands(c, y, d) == \E t \in 1 .. Len(c) + 1 : y.off[t] = d /\ y.lev[t] = Body
Reaches(c, m, p, q, d) == \E y : Fits(c, m, p, q, y) /\ Lands(c, y, d)
-----------------------------------------------------------------------------
\* Sequences of any set are sequences.
LEMMA SeqIsSeq ==
  ASSUME NEW S, NEW c \in Seq(S)
  PROVE  IsSeq(c)
<1>1. Len(c) \in Nat /\ DOMAIN c = 1 .. Len(c) /\ c \in [1 .. Len(c) -> S]
  BY LenProperties
<1> QED BY <1>1 DEF IsSeq

\* Concatenations, element by element.
LEMMA ConcatFacts ==
  ASSUME NEW a, NEW b, IsSeq(a), IsSeq(b)
  PROVE  /\ IsSeq(a \o b)
         /\ Len(a) \in Nat /\ Len(b) \in Nat
         /\ Len(a \o b) = Len(a) + Len(b)
         /\ \A j \in 1 .. Len(a) : (a \o b)[j] = a[j]
         /\ \A j \in 1 .. Len(b) : (a \o b)[Len(a) + j] = b[j]
<1> DEFINE S == {a[j] : j \in 1 .. Len(a)} \union {b[j] : j \in 1 .. Len(b)}
<1>1. a \in Seq(S) /\ b \in Seq(S) /\ Len(a) \in Nat /\ Len(b) \in Nat
  BY DEF IsSeq
<1> HIDE DEF S
<1>2. /\ a \o b \in Seq(S)
      /\ Len(a \o b) = Len(a) + Len(b)
      /\ \A i \in 1 .. Len(a) + Len(b) : (a \o b)[i] = IF i <= Len(a) THEN a[i] ELSE b[i - Len(a)]
  BY <1>1, ConcatProperties
<1>3. IsSeq(a \o b)
  BY <1>2, SeqIsSeq
<1> QED BY <1>1, <1>2, <1>3

\* One instruction in front.
LEMMA ConsFacts ==
  ASSUME NEW i, NEW c, IsSeq(c)
  PROVE  /\ IsSeq(<< i >>)
         /\ IsSeq(<< i >> \o c) /\ Len(c) \in Nat /\ Len(<< i >> \o c) = Len(c) + 1
         /\ (<< i >> \o c)[1] = i
         /\ \A j \in 1 .. Len(c) : (<< i >> \o c)[1 + j] = c[j]
<1>1. IsSeq(<< i >>) /\ Len(<< i >>) = 1 /\ << i >>[1] = i
  BY DEF IsSeq
<1>2. \A e : IsSeq(e) => /\ IsSeq(e \o c)
                         /\ Len(c) \in Nat
                         /\ Len(e \o c) = Len(e) + Len(c)
                         /\ \A j \in 1 .. Len(e) : (e \o c)[j] = e[j]
                         /\ \A j \in 1 .. Len(c) : (e \o c)[Len(e) + j] = c[j]
  BY ConcatFacts
<1> QED BY <1>1, <1>2

\* Concatenation is associative, whatever the elements are.
LEMMA ConcatAssoc ==
  ASSUME NEW a, NEW b, NEW c, IsSeq(a), IsSeq(b), IsSeq(c)
  PROVE  (a \o b) \o c = a \o (b \o c)
<1> DEFINE S == {a[j] : j \in 1 .. Len(a)} \union {b[j] : j \in 1 .. Len(b)} \union {c[j] : j \in 1 .. Len(c)}
<1>1. a \in Seq(S) /\ b \in Seq(S) /\ c \in Seq(S)
  BY SMTT(40) DEF IsSeq
<1> HIDE DEF S
<1> QED BY <1>1, ConcatAssociative

\* The legs of two pieces of code, one behind the other.
Joined(k, f, g) == [j \in Nat |-> IF j <= k THEN f[j] ELSE g[j - k]]

\* Plans of two pieces of code make a plan of the two in a row.
LEMMA JoinLegs ==
  ASSUME NEW a, NEW b, NEW m, NEW n, NEW p, NEW q, NEW r, NEW y1, NEW y2,
         Fits(a, m, p, q, y1), Fits(b, n, q, r, y2)
  PROVE  \E y : /\ Fits(a \o b, m + n, p, r, y)
                /\ \A d : Lands(a, y1, d) => Lands(a \o b, y, d)
                /\ \A d : Lands(b, y2, d) => Lands(a \o b, y, m + d)
<1> DEFINE l1 == y1.lev
           o1 == y1.off
           l2 == y2.lev
           o2 == y2.off
<1>f. /\ IsSeq(a) /\ IsSeq(b) /\ Legs(a, l1, o1) /\ Ends(a, m, p, q, l1, o1)
      /\ Legs(b, l2, o2) /\ Ends(b, n, q, r, l2, o2)
  BY DEF Fits
<1>l. /\ \A d : Lands(a, y1, d) => \E t \in 1 .. Len(a) + 1 : o1[t] = d /\ l1[t] = Body
      /\ \A d : Lands(b, y2, d) => \E t \in 1 .. Len(b) + 1 : o2[t] = d /\ l2[t] = Body
  BY DEF Lands
<1> HIDE DEF l1, o1, l2, o2
<1> DEFINE A == Len(a)
           N == Len(b)
           C == a \o b
           lev == Joined(A, l1, l2)
           off == Joined(A, o1, [j \in Nat |-> m + o2[j]])
<1>0. /\ A \in Nat /\ N \in Nat /\ Len(C) = A + N
      /\ \A j \in 1 .. A : C[j] = a[j]
      /\ \A j \in 1 .. N : C[A + j] = b[j]
  BY ConcatFacts, <1>f
<1>1. m \in Nat /\ o1[A + 1] = m /\ l1[A + 1] = q /\ o2[1] = 0 /\ l2[1] = q
  BY <1>0, <1>f DEF Legs, Ends
<1>2. \A j \in 1 .. A : lev[j] = l1[j] /\ off[j] = o1[j]
  BY <1>0 DEF Joined
<1>3. \A j \in 1 .. N + 1 : lev[A + j] = l2[j] /\ off[A + j] = m + o2[j]
  BY <1>0 DEF Joined
<1>4. lev[A + 1] = l1[A + 1] /\ off[A + 1] = o1[A + 1]
  BY <1>3, <1>1, <1>0
<1>5. \A j \in 1 .. A + 1 : lev[j] = l1[j] /\ off[j] = o1[j]
  BY <1>2, <1>4, <1>0
<1> HIDE DEF lev, off, C, A, N
<1>6. \A j \in 1 .. A + N + 1 : off[j] \in Nat
  <2>1. \A j \in 1 .. A + 1 : off[j] \in Nat
    BY <1>5, <1>f DEF Legs, A
  <2>2. \A j \in 1 .. N + 1 : off[A + j] \in Nat
    BY <1>3, <1>1, <1>f DEF Legs, N
  <2>3. ASSUME NEW j \in 1 .. A + N + 1 PROVE off[j] \in Nat
    <3>1. CASE j <= A + 1
      BY <3>1, <2>1
    <3>2. CASE j > A + 1
      <4>1. j - A \in 1 .. N + 1 /\ A + (j - A) = j
        BY <3>2, <1>0
      <4> QED BY <4>1, <2>2
    <3> QED BY <3>1, <3>2, <1>0
  <2> QED BY <2>3
<1>7. ASSUME NEW j \in 1 .. A + N
      PROVE  LegAt(C, lev, off, j, A + N + 1)
  <2>1. CASE j \in 1 .. A
    <3>1. j + 1 \in 1 .. A + 1 /\ j \in 1 .. A + 1 /\ C[j] = a[j]
      BY <2>1, <1>0
    <3>2. off[j] = o1[j] /\ off[j + 1] = o1[j + 1] /\ lev[j] = l1[j] /\ lev[j + 1] = l1[j + 1]
      BY <3>1, <1>5
    <3>3. /\ a[j].n \in Nat \ {0}
          /\ o1[j + 1] = o1[j] + a[j].n
          /\ Rel(a[j], l1[j], l1[j + 1])
          /\ a[j].op \in Jumps =>
               /\ l1[j] = Body /\ Distance(a[j]) \in Nat
               /\ \E t \in 1 .. A + 1 : o1[t] = o1[j + 1] + Distance(a[j]) /\ l1[t] = Body
      BY <2>1, <1>f DEF Legs, A, LegAt
    <3>4. ASSUME NEW t \in 1 .. A + 1 PROVE t \in 1 .. A + N + 1 /\ off[t] = o1[t] /\ lev[t] = l1[t]
      BY <1>5, <1>0
    <3> QED BY <3>1, <3>2, <3>3, <3>4 DEF LegAt
  <2>2. CASE j \notin 1 .. A
    <3> DEFINE k == j - A
    <3>1. k \in 1 .. N /\ k + 1 \in 1 .. N + 1 /\ k \in 1 .. N + 1 /\ j = A + k /\ j + 1 = A + (k + 1)
      BY <2>2, <1>0
    <3> HIDE DEF k
    <3>2. /\ off[j] = m + o2[k] /\ off[j + 1] = m + o2[k + 1]
          /\ lev[j] = l2[k] /\ lev[j + 1] = l2[k + 1] /\ C[j] = b[k]
      BY <3>1, <1>3, <1>0
    <3>3. /\ b[k].n \in Nat \ {0}
          /\ o2[k + 1] = o2[k] + b[k].n
          /\ Rel(b[k], l2[k], l2[k + 1])
          /\ b[k].op \in Jumps =>
               /\ l2[k] = Body /\ Distance(b[k]) \in Nat
               /\ \E t \in 1 .. N + 1 : o2[t] = o2[k + 1] + Distance(b[k]) /\ l2[t] = Body
      BY <3>1, <1>f DEF Legs, N, LegAt
    <3>4. ASSUME C[j].op \in Jumps
          PROVE  Distance(C[j]) \in Nat /\ \E t \in 1 .. A + N + 1 : off[t] = off[j + 1] + Distance(C[j]) /\ lev[t] = Body
      <4>1. PICK t \in 1 .. N + 1 : o2[t] = o2[k + 1] + Distance(b[k]) /\ l2[t] = Body
        BY <3>4, <3>3, <3>2
      <4>2. off[A + t] = m + o2[t] /\ lev[A + t] = l2[t] /\ A + t \in 1 .. A + N + 1
        BY <1>3, <1>0
      <4>3. o2[t] \in Nat /\ o2[k + 1] \in Nat /\ Distance(b[k]) = Distance(C[j]) /\ Distance(b[k]) \in Nat
        BY <3>1, <3>2, <3>3, <3>4, <1>f DEF Legs, N
      <4>4. off[A + t] = m + (o2[k + 1] + Distance(b[k]))
        BY <4>1, <4>2
      <4>5. off[A + t] = off[j + 1] + Distance(C[j])
        BY <4>3, <4>4, <3>2, <1>1
      <4> QED BY <4>1, <4>2, <4>3, <4>5
    <3>5. o2[k] \in Nat /\ b[k].n \in Nat
      BY <3>1, <3>3, <1>f DEF Legs, N
    <3>6. off[j + 1] = off[j] + C[j].n
      BY <3>2, <3>3, <3>5, <1>1
    <3> QED BY <3>2, <3>3, <3>4, <3>6 DEF LegAt
  <2> QED BY <2>1, <2>2
<1>8. Legs(C, lev, off)
  BY <1>0, <1>6, <1>7 DEF Legs
<1>9. Ends(C, m + n, p, r, lev, off)
  <2>1. off[1] = 0 /\ lev[1] = p
    BY <1>5, <1>0, <1>f DEF Ends
  <2>2. off[A + (N + 1)] = m + n /\ lev[A + (N + 1)] = r
    BY <1>3, <1>0, <1>f DEF Ends, N
  <2>3. A + (N + 1) = Len(C) + 1
    BY <1>0
  <2> QED BY <2>1, <2>2, <2>3 DEF Ends
<1> DEFINE y == [lev |-> lev, off |-> off]
<1>10. Fits(C, m + n, p, r, y)
  BY <1>8, <1>9, <1>f, ConcatFacts DEF Fits, C
<1>11. ASSUME NEW d, Lands(a, y1, d) PROVE Lands(C, y, d)
  <2>1. PICK t \in 1 .. A + 1 : o1[t] = d /\ l1[t] = Body
    BY <1>11, <1>l DEF A
  <2>2. t \in 1 .. Len(C) + 1 /\ off[t] = d /\ lev[t] = Body
    BY <2>1, <1>5, <1>0
  <2> QED BY <2>2 DEF Lands
<1>12. ASSUME NEW d, Lands(b, y2, d) PROVE Lands(C, y, m + d)
  <2>1. PICK t \in 1 .. N + 1 : o2[t] = d /\ l2[t] = Body
    BY <1>12, <1>l DEF N
  <2>2. A + t \in 1 .. Len(C) + 1 /\ off[A + t] = m + d /\ lev[A + t] = Body
    BY <2>1, <1>3, <1>0
  <2> QED BY <2>2 DEF Lands
<1> HIDE DEF y
<1> QED BY <1>10, <1>11, <1>12 DEF C

\* Code that is sound stays so in a row.
LEMMA Concat ==
  ASSUME NEW a, NEW b, NEW m, NEW n, NEW p, NEW q, NEW r, Sound(a, m, p, q), Sound(b, n, q, r)
  PROVE  Sound(a \o b, m + n, p, r)
BY JoinLegs DEF Sound

\* Code behind moves the places it reaches.
LEMMA ConcatReaches ==
  ASSUME NEW a, NEW b, NEW m, NEW n, NEW p, NEW q, NEW r, NEW d, Sound(a, m, p, q), Reaches(b, n, q, r, d)
  PROVE  Reaches(a \o b, m + n, p, r, m + d)
<1>1. PICK y1 : Fits(a, m, p, q, y1)
  BY DEF Sound
<1>2. PICK y2 : Fits(b, n, q, r, y2) /\ Lands(b, y2, d)
  BY DEF Reaches
<1>3. PICK y : Fits(a \o b, m + n, p, r, y) /\ \A e : Lands(b, y2, e) => Lands(a \o b, y, m + e)
  BY <1>1, <1>2, JoinLegs
<1> QED BY <1>2, <1>3 DEF Reaches

\* The ends of sound code are places to land on when their shape is Body.
LEMMA LandsAtEnds ==
  ASSUME NEW c, NEW m, NEW p, NEW q, NEW y, Fits(c, m, p, q, y)
  PROVE  /\ p = Body => Lands(c, y, 0)
         /\ q = Body => Lands(c, y, m)
<1>1. Len(c) \in Nat
  BY DEF Fits, IsSeq
<1>2. 1 \in 1 .. Len(c) + 1 /\ Len(c) + 1 \in 1 .. Len(c) + 1
  BY <1>1
<1> QED BY <1>2 DEF Fits, Lands, Ends

\* Sound code that begins in the body reaches its own beginning.
LEMMA ReachesEnds ==
  ASSUME NEW c, NEW m, NEW p, NEW q, Sound(c, m, p, q)
  PROVE  /\ p = Body => Reaches(c, m, p, q, 0)
         /\ q = Body => Reaches(c, m, p, q, m)
BY LandsAtEnds DEF Sound, Reaches

\* No code at all.
LEMMA SoundEmpty == \A p : Sound(<< >>, 0, p, p)
<1> TAKE p
<1> DEFINE y == [lev |-> [j \in 1 .. 1 |-> p], off |-> [j \in 1 .. 1 |-> 0]]
<1>1. Fits(<< >>, 0, p, p, y)
  BY DEF Fits, IsSeq, Legs, Ends
<1> HIDE DEF y
<1> QED BY <1>1 DEF Sound

\* One instruction that does not jump.
LEMMA Single1 ==
  ASSUME NEW i, NEW p, NEW q, i.n \in Nat \ {0}, Rel(i, p, q), i.op \notin Jumps
  PROVE  Sound(<< i >>, i.n, p, q)
<1> DEFINE y == [lev |-> << p, q >>, off |-> << 0, i.n >>]
           c == << i >>
<1>1. IsSeq(c) /\ Len(c) = 1 /\ c[1] = i
  BY DEF IsSeq
<1>2. y.lev[1] = p /\ y.lev[2] = q /\ y.off[1] = 0 /\ y.off[2] = i.n
  OBVIOUS
<1> HIDE DEF y, c
<1>3. LegAt(c, y.lev, y.off, 1, Len(c) + 1)
  BY <1>1, <1>2 DEF LegAt
<1>4. Fits(c, i.n, p, q, y)
  BY <1>1, <1>2, <1>3 DEF Fits, Legs, Ends
<1> QED BY <1>4 DEF Sound, c

\* A jump over code to a place where it may land, with the code behind it.
LEMMA JumpOver ==
  ASSUME NEW i, NEW c, NEW m, NEW r, i.n \in Nat \ {0}, i.op \in Jumps,
         NEW d \in Nat, Distance(i) = d, Reaches(c, m, Body, r, d)
  PROVE  \E y : /\ Fits(<< i >> \o c, i.n + m, Body, r, y)
                /\ Lands(<< i >> \o c, y, i.n)
                /\ Lands(<< i >> \o c, y, i.n + d)
<1> DEFINE C == << i >> \o c
<1>1. PICK z : Fits(c, m, Body, r, z) /\ Lands(c, z, d)
  BY DEF Reaches
<1>3. IsSeq(c) /\ Legs(c, z.lev, z.off) /\ Ends(c, m, Body, r, z.lev, z.off)
  BY <1>1 DEF Fits
<1>4. IsSeq(C) /\ Len(c) \in Nat /\ Len(C) = Len(c) + 1 /\ C[1] = i /\ \A j \in 1 .. Len(c) : C[1 + j] = c[j]
  BY <1>3, ConsFacts
<1> DEFINE lev == [j \in Nat |-> IF j = 1 THEN Body ELSE z.lev[j - 1]]
           off == [j \in Nat |-> IF j = 1 THEN 0 ELSE i.n + z.off[j - 1]]
<1>5. /\ lev[1] = Body /\ off[1] = 0
      /\ \A j \in 1 .. Len(c) + 1 : lev[j + 1] = z.lev[j] /\ off[j + 1] = i.n + z.off[j]
  BY <1>4
<1> HIDE DEF C, lev, off
<1>6. ASSUME NEW j \in 1 .. Len(c) PROVE LegAt(C, lev, off, j + 1, Len(C) + 1)
  <2>1. LegAt(c, z.lev, z.off, j, Len(c) + 1) /\ z.off[j] \in Nat /\ z.off[j + 1] \in Nat
    BY <1>3, <1>4 DEF Legs
  <2>2. /\ lev[j + 1] = z.lev[j] /\ lev[(j + 1) + 1] = z.lev[j + 1]
        /\ off[j + 1] = i.n + z.off[j] /\ off[(j + 1) + 1] = i.n + z.off[j + 1] /\ C[j + 1] = c[j]
    BY <1>4, <1>5
  <2>3. ASSUME C[j + 1].op \in Jumps
        PROVE  /\ Distance(C[j + 1]) \in Nat
               /\ \E t \in 1 .. Len(C) + 1 : off[t] = off[(j + 1) + 1] + Distance(C[j + 1]) /\ lev[t] = Body
    <3>1. PICK t \in 1 .. Len(c) + 1 : z.off[t] = z.off[j + 1] + Distance(c[j]) /\ z.lev[t] = Body
      BY <2>1, <2>2, <2>3 DEF LegAt
    <3>2. Distance(c[j]) \in Nat /\ z.off[t] \in Nat
      BY <2>1, <2>2, <2>3, <1>3 DEF LegAt, Legs
    <3>3. off[t + 1] = i.n + z.off[t] /\ lev[t + 1] = Body /\ t + 1 \in 1 .. Len(C) + 1
      BY <3>1, <1>5, <1>4
    <3>4. off[t + 1] = off[(j + 1) + 1] + Distance(C[j + 1])
      <4>1. Distance(C[j + 1]) = Distance(c[j]) /\ off[(j + 1) + 1] = i.n + z.off[j + 1]
        BY <2>2
      <4>2. off[t + 1] = i.n + (z.off[j + 1] + Distance(c[j])) /\ z.off[j + 1] \in Nat /\ i.n \in Nat
        BY <3>1, <3>3, <2>1
      <4> QED BY <4>1, <4>2, <3>2
    <3> QED BY <3>2, <3>3, <3>4, <2>2
  <2>4. c[j].n \in Nat \ {0} /\ off[(j + 1) + 1] = off[j + 1] + c[j].n
    BY <2>1, <2>2 DEF LegAt
  <2>5. Rel(c[j], lev[j + 1], lev[(j + 1) + 1]) /\ (c[j].op \in Jumps => lev[j + 1] = Body)
    BY <2>1, <2>2 DEF LegAt
  <2> QED BY <2>2, <2>3, <2>4, <2>5 DEF LegAt
<1>7. PICK t \in 1 .. Len(c) + 1 : z.off[t] = d /\ z.lev[t] = Body
  BY <1>1 DEF Lands
<1>8. z.off[1] = 0 /\ z.lev[1] = Body /\ 1 \in 1 .. Len(c) + 1
  BY <1>3, <1>4 DEF Ends
<1>9. off[2] = i.n /\ lev[2] = Body /\ off[t + 1] = i.n + d /\ lev[t + 1] = Body
  BY <1>5, <1>7, <1>8
<1>10. LegAt(C, lev, off, 1, Len(C) + 1)
  <2>1. Rel(C[1], Body, Body)
    BY <1>4 DEF Rel, Jumps, Body, Working
  <2>2. t + 1 \in 1 .. Len(C) + 1
    BY <1>4
  <2> QED BY <2>1, <2>2, <1>4, <1>5, <1>9 DEF LegAt
<1>11. \A j \in 1 .. Len(C) : LegAt(C, lev, off, j, Len(C) + 1)
  <2> TAKE j \in 1 .. Len(C)
  <2>1. CASE j = 1
    BY <2>1, <1>10
  <2>2. CASE j # 1
    <3>1. j - 1 \in 1 .. Len(c) /\ (j - 1) + 1 = j
      BY <2>2, <1>4
    <3> QED BY <3>1, <1>6
  <2> QED BY <2>1, <2>2
<1>12. \A j \in 1 .. Len(C) + 1 : off[j] \in Nat
  <2> TAKE j \in 1 .. Len(C) + 1
  <2>1. CASE j = 1
    BY <2>1, <1>5
  <2>2. CASE j # 1
    <3>1. j - 1 \in 1 .. Len(c) + 1 /\ (j - 1) + 1 = j
      BY <2>2, <1>4
    <3>2. off[j] = i.n + z.off[j - 1] /\ z.off[j - 1] \in Nat
      BY <3>1, <1>5, <1>3 DEF Legs
    <3> QED BY <3>2
  <2> QED BY <2>1, <2>2
<1>13. Ends(C, i.n + m, Body, r, lev, off)
  <2>1. Len(C) + 1 = (Len(c) + 1) + 1 /\ Len(c) + 1 \in 1 .. Len(c) + 1
    BY <1>4
  <2> QED BY <2>1, <1>3, <1>5 DEF Ends
<1> DEFINE y == [lev |-> lev, off |-> off]
<1>14. Fits(C, i.n + m, Body, r, y)
  BY <1>4, <1>11, <1>12, <1>13 DEF Fits, Legs
<1>15. 2 \in 1 .. Len(C) + 1 /\ t + 1 \in 1 .. Len(C) + 1
  BY <1>4
<1>16. Lands(C, y, i.n) /\ Lands(C, y, i.n + d)
  BY <1>15, <1>9 DEF Lands
<1> HIDE DEF y
<1> QED BY <1>14, <1>16 DEF C

\* e is i, then c.
Consed(e, i, c) ==
    IsSeq(e) /\ Len(e) = Len(c) + 1 /\ e[1] = i /\ \A j \in 1 .. Len(c) : e[1 + j] = c[j]

\* What comes behind the first instruction.
LEMMA ConsIs ==
  ASSUME NEW i, NEW c, IsSeq(c), NEW e, e = << i >> \o c
  PROVE  Consed(e, i, c)
BY ConsFacts DEF Consed

\* t begins with i and goes on with c.
Begins(t, i, c) == t = << i >> \o c /\ IsSeq(t)

\* Literal sequences, one instruction after the other.
LEMMA Tuple1 == ASSUME NEW a PROVE IsSeq(<< a >>)
<1>1. << a >> \in Seq({a})
  OBVIOUS
<1> QED BY <1>1, SeqIsSeq

LEMMA Tuple2 ==
  ASSUME NEW a, NEW b
  PROVE  Begins(<< a, b >>, a, << b >>)
<1>0. << a, b >> \in Seq({a, b})
  OBVIOUS
<1>1. PICK x1 : x1 = << b >>
  OBVIOUS
<1>2. IsSeq(x1)
  BY <1>1, Tuple1
<1>3. Len(x1) = 1 /\ x1[1] = b
  BY <1>1
<1>4. PICK x2 : x2 = << a >> \o x1
  OBVIOUS
<1>5. Consed(x2, a, x1)
  BY <1>2, <1>4, ConsIs
<1>6. Len(x2) = 2 /\ x2[1] = a /\ x2[2] = b
  BY <1>3, <1>5 DEF Consed
<1>7. IsSeq(x2)
  BY <1>5 DEF Consed
<1>8. x2 = << a, b >>
  BY <1>6, <1>7 DEF IsSeq
<1>9. << a >> \o << b >> = << a, b >>
  BY <1>1, <1>4, <1>8
<1> QED BY <1>0, <1>9, SeqIsSeq DEF Begins

LEMMA Tuple3 ==
  ASSUME NEW a, NEW b, NEW c
  PROVE  Begins(<< a, b, c >>, a, << b, c >>)
<1>0. << a, b, c >> \in Seq({a, b, c})
  OBVIOUS
<1>1. PICK x1 : x1 = << b, c >>
  OBVIOUS
<1>2. IsSeq(x1)
  BY <1>1, Tuple2 DEF Begins
<1>3. Len(x1) = 2 /\ x1[1] = b /\ x1[2] = c
  BY <1>1
<1>4. PICK x2 : x2 = << a >> \o x1
  OBVIOUS
<1>5. Consed(x2, a, x1)
  BY <1>2, <1>4, ConsIs
<1>6. Len(x2) = 3 /\ x2[1] = a /\ x2[2] = b /\ x2[3] = c
  BY <1>3, <1>5 DEF Consed
<1>7. IsSeq(x2)
  BY <1>5 DEF Consed
<1>8. x2 = << a, b, c >>
  BY <1>6, <1>7 DEF IsSeq
<1>9. << a >> \o << b, c >> = << a, b, c >>
  BY <1>1, <1>4, <1>8
<1> QED BY <1>0, <1>9, SeqIsSeq DEF Begins

LEMMA Tuple4 ==
  ASSUME NEW a, NEW b, NEW c, NEW d
  PROVE  Begins(<< a, b, c, d >>, a, << b, c, d >>)
<1>0. << a, b, c, d >> \in Seq({a, b, c, d})
  OBVIOUS
<1>1. PICK x1 : x1 = << b, c, d >>
  OBVIOUS
<1>2. IsSeq(x1)
  BY <1>1, Tuple3 DEF Begins
<1>3. Len(x1) = 3 /\ x1[1] = b /\ x1[2] = c /\ x1[3] = d
  BY <1>1
<1>4. PICK x2 : x2 = << a >> \o x1
  OBVIOUS
<1>5. Consed(x2, a, x1)
  BY <1>2, <1>4, ConsIs
<1>6. Len(x2) = 4 /\ x2[1] = a /\ x2[2] = b /\ x2[3] = c /\ x2[4] = d
  BY <1>3, <1>5 DEF Consed
<1>7. IsSeq(x2)
  BY <1>5 DEF Consed
<1>8. x2 = << a, b, c, d >>
  BY <1>6, <1>7 DEF IsSeq
<1>9. << a >> \o << b, c, d >> = << a, b, c, d >>
  BY <1>1, <1>4, <1>8
<1> QED BY <1>0, <1>9, SeqIsSeq DEF Begins

LEMMA Tuple5 ==
  ASSUME NEW a, NEW b, NEW c, NEW d, NEW e
  PROVE  Begins(<< a, b, c, d, e >>, a, << b, c, d, e >>)
<1>0. << a, b, c, d, e >> \in Seq({a, b, c, d, e})
  OBVIOUS
<1>1. PICK x1 : x1 = << b, c, d, e >>
  OBVIOUS
<1>2. IsSeq(x1)
  BY <1>1, Tuple4 DEF Begins
<1>3. Len(x1) = 4 /\ x1[1] = b /\ x1[2] = c /\ x1[3] = d /\ x1[4] = e
  BY <1>1
<1>4. PICK x2 : x2 = << a >> \o x1
  OBVIOUS
<1>5. Consed(x2, a, x1)
  BY <1>2, <1>4, ConsIs
<1>6. Len(x2) = 5 /\ x2[1] = a /\ x2[2] = b /\ x2[3] = c /\ x2[4] = d /\ x2[5] = e
  BY <1>3, <1>5 DEF Consed
<1>7. IsSeq(x2)
  BY <1>5 DEF Consed
<1>8. x2 = << a, b, c, d, e >>
  BY <1>6, <1>7 DEF IsSeq
<1>9. << a >> \o << b, c, d, e >> = << a, b, c, d, e >>
  BY <1>1, <1>4, <1>8
<1> QED BY <1>0, <1>9, SeqIsSeq DEF Begins

LEMMA Tuple6 ==
  ASSUME NEW a, NEW b, NEW c, NEW d, NEW e, NEW f
  PROVE  Begins(<< a, b, c, d, e, f >>, a, << b, c, d, e, f >>)
<1>0. << a, b, c, d, e, f >> \in Seq({a, b, c, d, e, f})
  OBVIOUS
<1>1. PICK x1 : x1 = << b, c, d, e, f >>
  OBVIOUS
<1>2. IsSeq(x1)
  BY <1>1, Tuple5 DEF Begins
<1>3. Len(x1) = 5 /\ x1[1] = b /\ x1[2] = c /\ x1[3] = d /\ x1[4] = e /\ x1[5] = f
  BY <1>1
<1>4. PICK x2 : x2 = << a >> \o x1
  OBVIOUS
<1>5. Consed(x2, a, x1)
  BY <1>2, <1>4, ConsIs
<1>6. Len(x2) = 6 /\ x2[1] = a /\ x2[2] = b /\ x2[3] = c /\ x2[4] = d /\ x2[5] = e /\ x2[6] = f
  BY <1>3, <1>5 DEF Consed
<1>7. IsSeq(x2)
  BY <1>5 DEF Consed
<1>8. x2 = << a, b, c, d, e, f >>
  BY <1>6, <1>7 DEF IsSeq
<1>9. << a >> \o << b, c, d, e, f >> = << a, b, c, d, e, f >>
  BY <1>1, <1>4, <1>8
<1> QED BY <1>0, <1>9, SeqIsSeq DEF Begins

LEMMA Tuple7 ==
  ASSUME NEW a, NEW b, NEW c, NEW d, NEW e, NEW f, NEW g
  PROVE  Begins(<< a, b, c, d, e, f, g >>, a, << b, c, d, e, f, g >>)
<1>0. << a, b, c, d, e, f, g >> \in Seq({a, b, c, d, e, f, g})
  OBVIOUS
<1>1. PICK x1 : x1 = << b, c, d, e, f, g >>
  OBVIOUS
<1>2. IsSeq(x1)
  BY <1>1, Tuple6 DEF Begins
<1>3. Len(x1) = 6 /\ x1[1] = b /\ x1[2] = c /\ x1[3] = d /\ x1[4] = e /\ x1[5] = f /\ x1[6] = g
  BY <1>1
<1>4. PICK x2 : x2 = << a >> \o x1
  OBVIOUS
<1>5. Consed(x2, a, x1)
  BY <1>2, <1>4, ConsIs
<1>6. Len(x2) = 7 /\ x2[1] = a /\ x2[2] = b /\ x2[3] = c /\ x2[4] = d /\ x2[5] = e /\ x2[6] = f /\ x2[7] = g
  BY <1>3, <1>5 DEF Consed
<1>7. IsSeq(x2)
  BY <1>5 DEF Consed
<1>8. x2 = << a, b, c, d, e, f, g >>
  BY <1>6, <1>7 DEF IsSeq
<1>9. << a >> \o << b, c, d, e, f, g >> = << a, b, c, d, e, f, g >>
  BY <1>1, <1>4, <1>8
<1> QED BY <1>0, <1>9, SeqIsSeq DEF Begins

\* One instruction that is not a jump.
Step(i, p, q) == i.n \in Nat \ {0} /\ Rel(i, p, q) /\ i.op \notin Jumps

\* Straight code: each instruction leads from one shape to the next.
LEMMA Straight2 ==
  ASSUME NEW i1, NEW i2,
         NEW p0, NEW p1, NEW p2,
         Step(i1, p0, p1), Step(i2, p1, p2)
  PROVE  Sound(<< i1, i2 >>, i1.n + (i2.n), p0, p2)
<1>1. Sound(<< i2 >>, i2.n, p1, p2)
  BY Single1 DEF Step
<1>2. Sound(<< i1 >>, i1.n, p0, p1)
  BY Single1 DEF Step
<1>3. Sound(<< i1 >> \o << i2 >>, i1.n + (i2.n), p0, p2)
  BY <1>1, <1>2, Concat
<1>4. Begins(<< i1, i2 >>, i1, << i2 >>)
  BY Tuple2
<1>5. i2.n = i2.n
  BY DEF Step
<1> QED BY <1>3, <1>4, <1>5 DEF Begins

LEMMA Straight3 ==
  ASSUME NEW i1, NEW i2, NEW i3,
         NEW p0, NEW p1, NEW p2, NEW p3,
         Step(i1, p0, p1), Step(i2, p1, p2), Step(i3, p2, p3)
  PROVE  Sound(<< i1, i2, i3 >>, i1.n + (i2.n + i3.n), p0, p3)
<1>1. Sound(<< i2, i3 >>, i2.n + (i3.n), p1, p3)
  BY Straight2 DEF Step
<1>2. Sound(<< i1 >>, i1.n, p0, p1)
  BY Single1 DEF Step
<1>3. Sound(<< i1 >> \o << i2, i3 >>, i1.n + (i2.n + (i3.n)), p0, p3)
  BY <1>1, <1>2, Concat
<1>4. Begins(<< i1, i2, i3 >>, i1, << i2, i3 >>)
  BY Tuple3
<1>5. i2.n + (i3.n) = i2.n + i3.n
  BY DEF Step
<1> QED BY <1>3, <1>4, <1>5 DEF Begins

LEMMA Straight4 ==
  ASSUME NEW i1, NEW i2, NEW i3, NEW i4,
         NEW p0, NEW p1, NEW p2, NEW p3, NEW p4,
         Step(i1, p0, p1), Step(i2, p1, p2), Step(i3, p2, p3), Step(i4, p3, p4)
  PROVE  Sound(<< i1, i2, i3, i4 >>, i1.n + (i2.n + i3.n + i4.n), p0, p4)
<1>1. Sound(<< i2, i3, i4 >>, i2.n + (i3.n + i4.n), p1, p4)
  BY Straight3 DEF Step
<1>2. Sound(<< i1 >>, i1.n, p0, p1)
  BY Single1 DEF Step
<1>3. Sound(<< i1 >> \o << i2, i3, i4 >>, i1.n + (i2.n + (i3.n + i4.n)), p0, p4)
  BY <1>1, <1>2, Concat
<1>4. Begins(<< i1, i2, i3, i4 >>, i1, << i2, i3, i4 >>)
  BY Tuple4
<1>5. i2.n + (i3.n + i4.n) = i2.n + i3.n + i4.n
  BY DEF Step
<1> QED BY <1>3, <1>4, <1>5 DEF Begins

LEMMA Straight5 ==
  ASSUME NEW i1, NEW i2, NEW i3, NEW i4, NEW i5,
         NEW p0, NEW p1, NEW p2, NEW p3, NEW p4, NEW p5,
         Step(i1, p0, p1), Step(i2, p1, p2), Step(i3, p2, p3), Step(i4, p3, p4), Step(i5, p4, p5)
  PROVE  Sound(<< i1, i2, i3, i4, i5 >>, i1.n + (i2.n + i3.n + i4.n + i5.n), p0, p5)
<1>1. Sound(<< i2, i3, i4, i5 >>, i2.n + (i3.n + i4.n + i5.n), p1, p5)
  BY Straight4 DEF Step
<1>2. Sound(<< i1 >>, i1.n, p0, p1)
  BY Single1 DEF Step
<1>3. Sound(<< i1 >> \o << i2, i3, i4, i5 >>, i1.n + (i2.n + (i3.n + i4.n + i5.n)), p0, p5)
  BY <1>1, <1>2, Concat
<1>4. Begins(<< i1, i2, i3, i4, i5 >>, i1, << i2, i3, i4, i5 >>)
  BY Tuple5
<1>5. i2.n + (i3.n + i4.n + i5.n) = i2.n + i3.n + i4.n + i5.n
  BY DEF Step
<1> QED BY <1>3, <1>4, <1>5 DEF Begins

LEMMA Straight6 ==
  ASSUME NEW i1, NEW i2, NEW i3, NEW i4, NEW i5, NEW i6,
         NEW p0, NEW p1, NEW p2, NEW p3, NEW p4, NEW p5, NEW p6,
         Step(i1, p0, p1), Step(i2, p1, p2), Step(i3, p2, p3), Step(i4, p3, p4), Step(i5, p4, p5), Step(i6, p5, p6)
  PROVE  Sound(<< i1, i2, i3, i4, i5, i6 >>, i1.n + (i2.n + i3.n + i4.n + i5.n + i6.n), p0, p6)
<1>1. Sound(<< i2, i3, i4, i5, i6 >>, i2.n + (i3.n + i4.n + i5.n + i6.n), p1, p6)
  BY Straight5 DEF Step
<1>2. Sound(<< i1 >>, i1.n, p0, p1)
  BY Single1 DEF Step
<1>3. Sound(<< i1 >> \o << i2, i3, i4, i5, i6 >>, i1.n + (i2.n + (i3.n + i4.n + i5.n + i6.n)), p0, p6)
  BY <1>1, <1>2, Concat
<1>4. Begins(<< i1, i2, i3, i4, i5, i6 >>, i1, << i2, i3, i4, i5, i6 >>)
  BY Tuple6
<1>5. i2.n + (i3.n + i4.n + i5.n + i6.n) = i2.n + i3.n + i4.n + i5.n + i6.n
  BY DEF Step
<1> QED BY <1>3, <1>4, <1>5 DEF Begins

LEMMA Straight7 ==
  ASSUME NEW i1, NEW i2, NEW i3, NEW i4, NEW i5, NEW i6, NEW i7,
         NEW p0, NEW p1, NEW p2, NEW p3, NEW p4, NEW p5, NEW p6, NEW p7,
         Step(i1, p0, p1), Step(i2, p1, p2), Step(i3, p2, p3), Step(i4, p3, p4), Step(i5, p4, p5), Step(i6, p5, p6), Step(i7, p6, p7)
  PROVE  Sound(<< i1, i2, i3, i4, i5, i6, i7 >>, i1.n + (i2.n + i3.n + i4.n + i5.n + i6.n + i7.n), p0, p7)
<1>1. Sound(<< i2, i3, i4, i5, i6, i7 >>, i2.n + (i3.n + i4.n + i5.n + i6.n + i7.n), p1, p7)
  BY Straight6 DEF Step
<1>2. Sound(<< i1 >>, i1.n, p0, p1)
  BY Single1 DEF Step
<1>3. Sound(<< i1 >> \o << i2, i3, i4, i5, i6, i7 >>, i1.n + (i2.n + (i3.n + i4.n + i5.n + i6.n + i7.n)), p0, p7)
  BY <1>1, <1>2, Concat
<1>4. Begins(<< i1, i2, i3, i4, i5, i6, i7 >>, i1, << i2, i3, i4, i5, i6, i7 >>)
  BY Tuple7
<1>5. i2.n + (i3.n + i4.n + i5.n + i6.n + i7.n) = i2.n + i3.n + i4.n + i5.n + i6.n + i7.n
  BY DEF Step
<1> QED BY <1>3, <1>4, <1>5 DEF Begins

\* A set of natural numbers has a least element.
LEMMA Least ==
  ASSUME NEW T, T \subseteq Nat, T # {}
  PROVE  \E x \in T : \A y \in T : x <= y
<1> DEFINE R == OpToRel(<, Nat)
<1>1. IsWellFoundedOn(R, Nat)
  BY NatLessThanWellFounded
<1>2. \A x, y \in Nat : <<x, y>> \in R <=> x < y
  BY DEF OpToRel
<1> HIDE DEF R
<1>3. PICK x \in T : \A y \in T : ~(<<y, x>> \in R)
  BY <1>1, WFMin
<1>4. ASSUME NEW y \in T PROVE x <= y
  <2>1. x \in Nat /\ y \in Nat
    OBVIOUS
  <2>2. ~(y < x)
    BY <1>2, <1>3, <2>1
  <2>3. QED BY <2>1, <2>2
<1>5. QED BY <1>4

\* Induction, for a set of numbers.
LEMMA NatSetInduction ==
  ASSUME NEW T, 0 \in T, \A n \in Nat : n \in T => n + 1 \in T
  PROVE  Nat \subseteq T
<1> DEFINE U == Nat \ T
<1> SUFFICES ASSUME U # {} PROVE FALSE
  OBVIOUS
<1>1. PICK x \in U : \A y \in U : x <= y
  BY Least, U \subseteq Nat
<1>2. x # 0 /\ x - 1 \in Nat /\ x - 1 \in T
  BY <1>1
<1>3. QED BY <1>1, <1>2

-----------------------------------------------------------------------------
\* f is what FlattenSeq builds from the first k of some sequences.
Flattens(f, k, seqs) == f = [i \in 1 .. k |-> IF i = 1 THEN seqs[i] ELSE f[i - 1] \o seqs[i]]

\* The recursion of FlattenSeq has a solution.
LEMMA FlattenExists ==
  ASSUME NEW seqs
  PROVE  \A k \in Nat : \E f : Flattens(f, k, seqs)
<1> DEFINE T == {k \in Nat : \E f : Flattens(f, k, seqs)}
<1>1. 0 \in T
  <2> DEFINE f == [i \in 1 .. 0 |-> seqs[i]]
  <2>1. Flattens(f, 0, seqs)
    BY DEF Flattens
  <2> HIDE DEF f
  <2> QED BY <2>1
<1>2. ASSUME NEW k \in Nat, k \in T PROVE k + 1 \in T
  <2>1. PICK f : Flattens(f, k, seqs)
    BY <1>2
  <2> DEFINE g == [i \in 1 .. k + 1 |->
                     IF i = k + 1 THEN (IF i = 1 THEN seqs[i] ELSE f[i - 1] \o seqs[i]) ELSE f[i]]
  <2>2. ASSUME NEW i \in 1 .. k + 1 PROVE g[i] = IF i = 1 THEN seqs[i] ELSE g[i - 1] \o seqs[i]
    <3>1. CASE i = k + 1
      <4>1. CASE i = 1
        BY <3>1, <4>1
      <4>2. CASE i # 1
        <5>1. i - 1 \in 1 .. k + 1 /\ i - 1 # k + 1
          BY <4>2, <3>1
        <5>2. g[i - 1] = f[i - 1]
          BY <5>1
        <5> QED BY <5>2, <3>1, <4>2
      <4> QED BY <4>1, <4>2
    <3>2. CASE i # k + 1
      <4>1. i \in 1 .. k
        BY <3>2
      <4>2. g[i] = f[i] /\ f[i] = IF i = 1 THEN seqs[i] ELSE f[i - 1] \o seqs[i]
        BY <4>1, <3>2, <2>1 DEF Flattens
      <4>3. i # 1 => g[i - 1] = f[i - 1]
        BY <4>1
      <4> HIDE DEF g
      <4> QED BY <4>2, <4>3
    <3> QED BY <3>1, <3>2
  <2>3. g = [i \in 1 .. k + 1 |-> IF i = 1 THEN seqs[i] ELSE g[i - 1] \o seqs[i]]
    <3> DEFINE e == [i \in 1 .. k + 1 |-> IF i = 1 THEN seqs[i] ELSE g[i - 1] \o seqs[i]]
    <3>1. DOMAIN g = 1 .. k + 1 /\ DOMAIN e = 1 .. k + 1
      OBVIOUS
    <3>2. \A i \in 1 .. k + 1 : e[i] = IF i = 1 THEN seqs[i] ELSE g[i - 1] \o seqs[i]
      OBVIOUS
    <3> QED BY <2>2
  <2> HIDE DEF g
  <2>4. Flattens(g, k + 1, seqs)
    BY <2>3 DEF Flattens
  <2> QED BY <2>4
<1> HIDE DEF T
<1>3. Nat \subseteq T
  BY <1>1, <1>2, NatSetInduction
<1> QED BY <1>3 DEF T

\* What FlattenSeq returns: c is the last of the f[i], each one sequence longer.
Grows(f, k, seqs, c) == c = f[k] /\ f[1] = seqs[1] /\ \A i \in 2 .. k : f[i] = f[i - 1] \o seqs[i]

LEMMA FlattenIs ==
  ASSUME NEW seqs, Len(seqs) \in Nat, Len(seqs) # 0
  PROVE  \E f : Grows(f, Len(seqs), seqs, FlattenSeq(seqs))
<1> DEFINE N == Len(seqs)
           f == CHOOSE f : f = [i \in 1 .. N |-> IF i = 1 THEN seqs[i] ELSE f[i - 1] \o seqs[i]]
<1>1. \E f1 : f1 = [i \in 1 .. N |-> IF i = 1 THEN seqs[i] ELSE f1[i - 1] \o seqs[i]]
  BY FlattenExists, ZenonT(40) DEF Flattens
<1>2. f = [i \in 1 .. N |-> IF i = 1 THEN seqs[i] ELSE f[i - 1] \o seqs[i]]
  BY <1>1, ZenonT(40)
<1>3. FlattenSeq(seqs) = f[N]
  BY DEF FlattenSeq
<1> HIDE DEF f
<1>4. ASSUME NEW i \in 1 .. N PROVE f[i] = IF i = 1 THEN seqs[i] ELSE f[i - 1] \o seqs[i]
  BY <1>2
<1>5. f[1] = seqs[1]
  BY <1>4
<1>6. ASSUME NEW i \in 2 .. N PROVE f[i] = f[i - 1] \o seqs[i]
  <2>1. i \in 1 .. N /\ i # 1
    OBVIOUS
  <2> QED BY <2>1, <1>4
<1>7. Grows(f, N, seqs, FlattenSeq(seqs))
  BY <1>3, <1>5, <1>6 DEF Grows
<1> QED BY <1>7

\* The same for a sum.
Sums(f, k, sizes) == f = [i \in 0 .. k |-> IF i = 0 THEN 0 ELSE f[i - 1] + sizes[i]]

\* Sums have a solution too.
LEMMA SumExists ==
  ASSUME NEW sizes
  PROVE  \A k \in Nat : \E f : Sums(f, k, sizes)
<1> DEFINE T == {k \in Nat : \E f : Sums(f, k, sizes)}
<1>1. 0 \in T
  <2> DEFINE f == [i \in 0 .. 0 |-> 0]
  <2>1. Sums(f, 0, sizes)
    BY DEF Sums
  <2> HIDE DEF f
  <2> QED BY <2>1
<1>2. ASSUME NEW k \in Nat, k \in T PROVE k + 1 \in T
  <2>1. PICK f : Sums(f, k, sizes)
    BY <1>2
  <2> DEFINE g == [i \in 0 .. k + 1 |-> IF i = k + 1 THEN f[k] + sizes[k + 1] ELSE f[i]]
  <2>2. ASSUME NEW i \in 0 .. k + 1 PROVE g[i] = IF i = 0 THEN 0 ELSE g[i - 1] + sizes[i]
    <3>1. CASE i = k + 1
      <4>1. i # 0 /\ i - 1 = k /\ k \in 0 .. k + 1 /\ k # k + 1
        BY <3>1
      <4>2. g[k] = f[k]
        BY <4>1
      <4>3. g[i] = f[k] + sizes[i]
        BY <3>1
      <4> HIDE DEF g
      <4> QED BY <4>1, <4>2, <4>3
    <3>2. CASE i # k + 1
      <4>1. i \in 0 .. k
        BY <3>2
      <4>2. g[i] = f[i] /\ f[i] = IF i = 0 THEN 0 ELSE f[i - 1] + sizes[i]
        BY <4>1, <3>2, <2>1 DEF Sums
      <4>3. i # 0 => g[i - 1] = f[i - 1]
        BY <4>1
      <4> HIDE DEF g
      <4> QED BY <4>2, <4>3
    <3> QED BY <3>1, <3>2
  <2>3. g = [i \in 0 .. k + 1 |-> IF i = 0 THEN 0 ELSE g[i - 1] + sizes[i]]
    <3> DEFINE e == [i \in 0 .. k + 1 |-> IF i = 0 THEN 0 ELSE g[i - 1] + sizes[i]]
    <3>1. DOMAIN g = 0 .. k + 1 /\ DOMAIN e = 0 .. k + 1
      OBVIOUS
    <3>2. \A i \in 0 .. k + 1 : e[i] = IF i = 0 THEN 0 ELSE g[i - 1] + sizes[i]
      OBVIOUS
    <3> QED BY <2>2
  <2> HIDE DEF g
  <2>4. Sums(g, k + 1, sizes)
    BY <2>3 DEF Sums
  <2> QED BY <2>4
<1> HIDE DEF T
<1>3. Nat \subseteq T
  BY <1>1, <1>2, NatSetInduction
<1> QED BY <1>3 DEF T

IsSum(f, N, sizes) == f[0] = 0 /\ \A i \in 1 .. N : f[i] = f[i - 1] + sizes[i]

\* The chosen one is a sum.
LEMMA SumIs ==
  ASSUME NEW N \in Nat, NEW sizes
  PROVE  IsSum(CHOOSE g : g = [i \in 0 .. N |-> IF i = 0 THEN 0 ELSE g[i - 1] + sizes[i]], N, sizes)
<1> DEFINE f == CHOOSE g : g = [i \in 0 .. N |-> IF i = 0 THEN 0 ELSE g[i - 1] + sizes[i]]
<1>1. \E g : g = [i \in 0 .. N |-> IF i = 0 THEN 0 ELSE g[i - 1] + sizes[i]]
  BY SumExists DEF Sums
<1>2. f = [i \in 0 .. N |-> IF i = 0 THEN 0 ELSE f[i - 1] + sizes[i]]
  BY <1>1
<1> HIDE DEF f
<1>3. ASSUME NEW i \in 0 .. N PROVE f[i] = IF i = 0 THEN 0 ELSE f[i - 1] + sizes[i]
  BY <1>2
<1>4. f[0] = 0
  BY <1>3
<1>5. ASSUME NEW i \in 1 .. N PROVE f[i] = f[i - 1] + sizes[i]
  <2>1. i \in 0 .. N /\ i # 0
    OBVIOUS
  <2> QED BY <2>1, <1>3
<1>6. IsSum(f, N, sizes)
  BY <1>4, <1>5 DEF IsSum
<1> QED BY <1>6 DEF f

\* What Total returns.
LEMMA TotalIs ==
  ASSUME NEW sizes, Len(sizes) \in Nat
  PROVE  \E f : Total(sizes) = f[Len(sizes)] /\ IsSum(f, Len(sizes), sizes)
<1> DEFINE N == Len(sizes)
           h == CHOOSE g : g = [i \in 0 .. N |-> IF i = 0 THEN 0 ELSE g[i - 1] + sizes[i]]
<1>1. Total(sizes) = h[N]
  BY DEF Total
<1>2. IsSum(h, N, sizes)
  BY SumIs
<1> HIDE DEF h
<1> QED BY <1>1, <1>2

\* Pieces that are sound with the sizes given make sound code with their total.
LEMMA FlatSound ==
  ASSUME NEW N \in Nat, NEW codes, NEW sizes, Len(codes) = N, Len(sizes) = N, N = 0 => codes = << >>,
         \A i \in 1 .. N : Sound(codes[i], sizes[i], Body, Body)
  PROVE  Sound(FlattenSeq(codes), Total(sizes), Body, Body)
<1>0. PICK g : Total(sizes) = g[N] /\ IsSum(g, N, sizes)
  BY TotalIs
<1>1. Total(sizes) = g[N] /\ g[0] = 0 /\ \A i \in 1 .. N : g[i] = g[i - 1] + sizes[i]
  BY <1>0 DEF IsSum
<1>2. CASE N = 0
  <2>1. FlattenSeq(codes) = << >>
    BY <1>2 DEF FlattenSeq
  <2> QED BY <2>1, <1>1, <1>2, SoundEmpty
<1>3. CASE N # 0
  <2>0. PICK f : Grows(f, N, codes, FlattenSeq(codes))
    BY <1>3, FlattenIs
  <2>1. FlattenSeq(codes) = f[N] /\ f[1] = codes[1] /\ \A i \in 2 .. N : f[i] = f[i - 1] \o codes[i]
    BY <2>0 DEF Grows
  <2> DEFINE T == {k \in Nat : k \in 1 .. N => Sound(f[k], g[k], Body, Body)}
  <2>2. 0 \in T
    OBVIOUS
  <2>3. ASSUME NEW k \in Nat, k \in T PROVE k + 1 \in T
    <3>1. CASE k = 0
      <4>1. 1 \in 1 .. N /\ g[1] = g[0] + sizes[1]
        BY <1>1, <1>3
      <4>2. Sound(codes[1], sizes[1], Body, Body)
        BY <4>1
      <4>3. sizes[1] \in Nat
        BY <4>2 DEF Sound, Fits, Legs, Ends, IsSeq
      <4>4. g[1] = sizes[1]
        BY <4>1, <4>3, <1>1
      <4>5. Sound(f[1], g[1], Body, Body)
        BY <4>2, <4>4, <2>1
      <4>6. k + 1 = 1
        BY <3>1
      <4>7. Sound(f[k + 1], g[k + 1], Body, Body)
        BY <4>5, <4>6
      <4> QED BY <4>7
    <3>2. CASE k # 0 /\ k + 1 \in 1 .. N
      <4>1. k \in 1 .. N /\ k + 1 \in 2 .. N /\ (k + 1) - 1 = k
        BY <3>2
      <4>2. Sound(f[k], g[k], Body, Body) /\ Sound(codes[k + 1], sizes[k + 1], Body, Body)
        BY <4>1, <3>2, <2>3
      <4>3. f[k + 1] = f[k] \o codes[k + 1]
        BY <4>1, <2>1
      <4>4. g[k + 1] = g[k] + sizes[k + 1]
        BY <4>1, <3>2, <1>1
      <4>5. Sound(f[k] \o codes[k + 1], g[k] + sizes[k + 1], Body, Body)
        BY <4>2, Concat
      <4>6. Sound(f[k + 1], g[k + 1], Body, Body)
        BY <4>3, <4>4, <4>5
      <4> QED BY <4>6
    <3>3. CASE k + 1 \notin 1 .. N
      BY <3>3
    <3> QED BY <3>1, <3>2, <3>3
  <2> HIDE DEF T
  <2>4. N \in T
    BY <2>2, <2>3, NatSetInduction
  <2>5. Sound(f[N], g[N], Body, Body)
    BY <2>4, <1>3 DEF T
  <2> QED BY <2>1, <2>5, <1>1
<1> QED BY <1>2, <1>3

\* Code that begins and ends in the body.
Fine(c) == \E m : Sound(c, m, Body, Body)

\* Fine pieces in a row are fine.
LEMMA FlatFine ==
  ASSUME NEW N \in Nat, NEW codes, Len(codes) = N, N = 0 => codes = << >>,
         \A i \in 1 .. N : Fine(codes[i])
  PROVE  Fine(FlattenSeq(codes))
<1> DEFINE sizes == [i \in 1 .. N |-> CHOOSE m : Sound(codes[i], m, Body, Body)]
<1>1. Len(sizes) = N
  OBVIOUS
<1>2. ASSUME NEW i \in 1 .. N PROVE Sound(codes[i], sizes[i], Body, Body)
  BY DEF Fine
<1> HIDE DEF sizes
<1>3. Sound(FlattenSeq(codes), Total(sizes), Body, Body)
  BY <1>1, <1>2, FlatSound
<1> QED BY <1>3 DEF Fine

\* Equal sizes have equal totals.
LEMMA TotalEqual ==
  ASSUME NEW N \in Nat, NEW n \in Nat, NEW sizes, Len(sizes) = N, \A i \in 1 .. N : sizes[i] = n
  PROVE  Total(sizes) = N * n
<1>1. PICK g : Total(sizes) = g[N] /\ IsSum(g, N, sizes)
  BY TotalIs
<1> DEFINE T == {k \in Nat : k <= N => g[k] = k * n}
<1>2. 0 \in T
  BY <1>1 DEF IsSum
<1>3. ASSUME NEW k \in Nat, k \in T PROVE k + 1 \in T
  <2>1. CASE k + 1 <= N
    <3>1. k + 1 \in 1 .. N /\ (k + 1) - 1 = k /\ g[k] = k * n
      BY <2>1, <1>3
    <3>2. g[k + 1] = k * n + n
      BY <3>1, <1>1 DEF IsSum
    <3>3. k * n + n = (k + 1) * n
      OBVIOUS
    <3> QED BY <3>2, <3>3
  <2>2. CASE ~(k + 1 <= N)
    BY <2>2
  <2> QED BY <2>1, <2>2
<1> HIDE DEF T
<1>4. N \in T
  BY <1>2, <1>3, NatSetInduction
<1> QED BY <1>1, <1>4 DEF T

\* The registers of a list below a number.
Gathers(f, k, list) ==
    f = [n \in 0 .. k |-> IF n = 0 THEN << >>
                          ELSE IF n - 1 \in list THEN f[n - 1] \o << n - 1 >> ELSE f[n - 1]]

\* The recursion of Listed has a solution.
LEMMA ListExists ==
  ASSUME NEW list
  PROVE  \A k \in Nat : \E f : Gathers(f, k, list)
<1> DEFINE T == {k \in Nat : \E f : Gathers(f, k, list)}
<1>1. 0 \in T
  <2> DEFINE f == [i \in 0 .. 0 |-> << >>]
  <2>1. Gathers(f, 0, list)
    BY DEF Gathers
  <2> HIDE DEF f
  <2> QED BY <2>1
<1>2. ASSUME NEW k \in Nat, k \in T PROVE k + 1 \in T
  <2>1. PICK f : Gathers(f, k, list)
    BY <1>2
  <2> DEFINE g == [i \in 0 .. k + 1 |->
                     IF i = k + 1 THEN (IF k \in list THEN f[k] \o << k >> ELSE f[k]) ELSE f[i]]
  <2>2. ASSUME NEW i \in 0 .. k + 1
        PROVE g[i] = IF i = 0 THEN << >> ELSE IF i - 1 \in list THEN g[i - 1] \o << i - 1 >> ELSE g[i - 1]
    <3>1. CASE i = k + 1
      <4>1. i # 0 /\ i - 1 = k /\ k \in 0 .. k + 1 /\ k # k + 1
        BY <3>1
      <4>2. g[k] = f[k]
        BY <4>1
      <4>3. g[i] = IF k \in list THEN f[k] \o << k >> ELSE f[k]
        BY <3>1
      <4> HIDE DEF g
      <4> QED BY <4>1, <4>2, <4>3
    <3>2. CASE i # k + 1
      <4>1. i \in 0 .. k
        BY <3>2
      <4>2. g[i] = f[i] /\ f[i] = IF i = 0 THEN << >>
                                 ELSE IF i - 1 \in list THEN f[i - 1] \o << i - 1 >> ELSE f[i - 1]
        BY <4>1, <3>2, <2>1 DEF Gathers
      <4>3. i # 0 => g[i - 1] = f[i - 1]
        BY <4>1
      <4> HIDE DEF g
      <4> QED BY <4>2, <4>3
    <3> QED BY <3>1, <3>2
  <2>3. g = [i \in 0 .. k + 1 |-> IF i = 0 THEN << >>
                                 ELSE IF i - 1 \in list THEN g[i - 1] \o << i - 1 >> ELSE g[i - 1]]
    <3>1. DOMAIN g = 0 .. k + 1
      OBVIOUS
    <3> QED BY <2>2
  <2> HIDE DEF g
  <2>4. Gathers(g, k + 1, list)
    BY <2>3 DEF Gathers
  <2> QED BY <2>4
<1> HIDE DEF T
<1>3. Nat \subseteq T
  BY <1>1, <1>2, NatSetInduction
<1> QED BY <1>3 DEF T

\* A register list has a length.
LEMMA ListedIsSeq == \A i : Len(Listed(i)) \in Nat
<1> TAKE i
<1> DEFINE f == CHOOSE f : f = [n \in 0 .. 16 |-> IF n = 0 THEN << >>
                                ELSE IF n - 1 \in i.list THEN f[n - 1] \o << n - 1 >> ELSE f[n - 1]]
<1>1. \E e : e = [n \in 0 .. 16 |-> IF n = 0 THEN << >>
                                ELSE IF n - 1 \in i.list THEN e[n - 1] \o << n - 1 >> ELSE e[n - 1]]
  <2>1. PICK e : Gathers(e, 16, i.list)
    BY ListExists
  <2> QED BY <2>1, ZenonT(40) DEF Gathers
<1>2. f = [n \in 0 .. 16 |-> IF n = 0 THEN << >>
                             ELSE IF n - 1 \in i.list THEN f[n - 1] \o << n - 1 >> ELSE f[n - 1]]
  BY <1>1, ZenonT(40)
<1>3. Listed(i) = f[16]
  BY DEF Listed
<1> HIDE DEF f
<1> DEFINE T == {k \in Nat : k \in 0 .. 16 => IsSeq(f[k])}
<1>4. 0 \in T
  <2>1. f[0] = << >>
    BY <1>2
  <2> QED BY <2>1 DEF IsSeq
<1>5. ASSUME NEW k \in Nat, k \in T PROVE k + 1 \in T
  <2>1. CASE k + 1 \in 0 .. 16
    <3>1. k \in 0 .. 16 /\ k + 1 # 0 /\ (k + 1) - 1 = k
      BY <2>1
    <3>2. IsSeq(f[k]) /\ IsSeq(<< k >>)
      BY <3>1, <1>5, Tuple1, SMTT(40)
    <3>3. f[k + 1] = f[k] \o << k >> \/ f[k + 1] = f[k]
      BY <3>1, <2>1, <1>2
    <3>4. IsSeq(f[k] \o << k >>)
      BY <3>2, ConcatFacts
    <3>5. IsSeq(f[k + 1])
      BY <3>2, <3>3, <3>4
    <3> QED BY <3>5
  <2>2. CASE k + 1 \notin 0 .. 16
    BY <2>2
  <2> QED BY <2>1, <2>2
<1> HIDE DEF T
<1>6. 16 \in T
  BY <1>4, <1>5, NatSetInduction
<1> QED BY <1>3, <1>6 DEF T, IsSeq
-----------------------------------------------------------------------------
\* The instructions whose place matters, and all the others.
Special == {"push", "pop", "sub_rsp", "add_rsp", "own", "mov_al", "ret", "call", "ld_slot", "jcc", "jmp"}
Plain(i, n) == i.n = n /\ i.n \in Nat \ {0} /\ i.op \notin Special
InCall == [at |-> "call", h |-> FALSE]

\* Plain instructions leave the body, and a call, as they are.
LEMMA PlainStep ==
  ASSUME NEW i, NEW n, Plain(i, n)
  PROVE  i.n = n /\ Step(i, Body, Body) /\ Step(i, InCall, InCall)
BY DEF Plain, Special, Step, Rel, Body, InCall, Working, Jumps

\* The plain instructions of codegen.c.
LEMMA PlainInstructions ==
  /\ \A d, r : Plain(ld(d, r), 7) /\ Plain(st(d, r), 7)
  /\ \A v : Plain(st_pc(v), 11) /\ Plain(mov_eax_imm(v), 5) /\ Plain(op_ec(v), 2)
  /\ \A f, v : Plain(alu_imm(f, v), 5)
  /\ \A v : Plain(add_imm(v), 5) /\ Plain(sub_imm(v), 5)
  /\ Plain(test_eax, 2) /\ Plain(emit_flags_nz, 63)
BY DEF Plain, Special, ld, st, st_pc, mov_eax_imm, op_ec, alu_imm, add_imm, sub_imm, test_eax, emit_flags_nz, X

\* The plain ones around a call.
LEMMA PlainCalls ==
  /\ Plain(mov_rcx_r14, 3) /\ Plain(mov_edx_eax, 2) /\ Plain(lea_r9_rsp0, 4) /\ Plain(or_bl_1, 3)
  /\ \A v : /\ Plain(add_edx_imm(v), 6) /\ Plain(mov_r8d_imm(v), 6) /\ Plain(mov_r9d_reg(v), 7)
            /\ Plain(mov_r9d_imm(v), 6) /\ Plain(and_r9d_imm(v), 7) /\ Plain(and_ecx_imm(v), 6)
BY DEF Plain, Special, mov_rcx_r14, mov_edx_eax, lea_r9_rsp0, or_bl_1, add_edx_imm, mov_r8d_imm, mov_r9d_reg,
       mov_r9d_imm, and_r9d_imm, and_ecx_imm, X

\* The other plain ones.
LEMMA PlainOthers ==
  /\ \A v : Plain(cmp_eax_imm32(v), 5) /\ Plain(sub_r11_imm32(v), 7) /\ Plain(mov_ecx_r11_off(v), 7)
  /\ \A v, r : Plain(mov_r11_off(v, r), 7)
  /\ Plain(mov_r10_buf, 10) /\ Plain(mov_r11d_eax, 3) /\ Plain(add_r11_r10, 3)
  /\ Plain(ld_al_apsr_byte3, 7) /\ Plain(mov_ah_al, 2) /\ Plain(xor_al_ah, 2)
  /\ \A v : /\ Plain(shr_al(v), 3) /\ Plain(test_al_imm8(v), 2) /\ Plain(and_al_imm8(v), 2)
            /\ Plain(cmp_al_imm8(v), 2) /\ Plain(shr_ah(v), 3)
BY DEF Plain, Special, cmp_eax_imm32, sub_r11_imm32, mov_ecx_r11_off, mov_r11_off, mov_r10_buf, mov_r11d_eax,
       add_r11_r10, ld_al_apsr_byte3, mov_ah_al, xor_al_ah, shr_al, test_al_imm8, and_al_imm8, cmp_al_imm8, shr_ah, X

\* Both ways to set the flags.
LEMMA PlainFlags == \A b : \E n : Plain(emit_flags_nzcv(b), n)
BY DEF Plain, Special, emit_flags_nzcv, X

\* What gives and takes the space of a call, and what reads its slot.
LEMMA SpecialInstructions ==
  /\ Step(sub_rsp_16, Body, InCall) /\ sub_rsp_16.n = 4
  /\ Step(add_rsp_16, InCall, Body) /\ add_rsp_16.n = 4
  /\ Step(mov_ecx_rsp0, InCall, InCall) /\ mov_ecx_rsp0.n = 3
BY DEF Step, Rel, sub_rsp_16, add_rsp_16, mov_ecx_rsp0, X, Body, InCall, Jumps

\* A call of bus_read or bus_write.
LEMMA CallSound == \A helper : Sound(mov_rax_call(helper), 12, InCall, InCall)
<1> TAKE helper
<1> DEFINE a == X(10, "mov_helper", helper, 0)
           b == X(2, "call", helper, 0)
<1>1. Step(a, InCall, InCall) /\ Step(b, InCall, InCall) /\ a.n + b.n = 12
  BY DEF Step, Rel, X, InCall, Jumps, Working
<1>2. mov_rax_call(helper) = << a, b >>
  BY DEF mov_rax_call
<1> HIDE DEF a, b
<1>3. Sound(<< a, b >>, a.n + b.n, InCall, InCall)
  BY <1>1, Straight2
<1> QED BY <1>1, <1>2, <1>3
-----------------------------------------------------------------------------
\* A jump of n bytes over d bytes.
IsJump(i, n, d) == i.n = n /\ n \in Nat \ {0} /\ i.op \in Jumps /\ Distance(i) = d /\ d \in Nat

\* A jump over the code behind it, or into it.
LEMMA JumpSound ==
  ASSUME NEW i, NEW c, NEW m, NEW r, NEW n, NEW d, IsJump(i, n, d), Reaches(c, m, Body, r, d)
  PROVE  /\ Sound(<< i >> \o c, n + m, Body, r)
         /\ Reaches(<< i >> \o c, n + m, Body, r, n)
         /\ Reaches(<< i >> \o c, n + m, Body, r, n + d)
<1>0. i.n = n /\ i.n \in Nat \ {0} /\ i.op \in Jumps /\ Distance(i) = d /\ d \in Nat
  BY DEF IsJump
<1>1. PICK y : /\ Fits(<< i >> \o c, i.n + m, Body, r, y)
               /\ Lands(<< i >> \o c, y, i.n)
               /\ Lands(<< i >> \o c, y, i.n + d)
  BY <1>0, JumpOver
<1> QED BY <1>0, <1>1 DEF Sound, Reaches

\* A jump over code.
LEMMA GuardSound ==
  ASSUME NEW i, NEW c, NEW m, NEW n, IsJump(i, n, m), Sound(c, m, Body, Body)
  PROVE  Sound(<< i >> \o c, n + m, Body, Body)
BY ReachesEnds, JumpSound

\* Two ways: a jump over the first, which ends with a jump over the second.
LEMMA ChoiceSound ==
  ASSUME NEW i, NEW a, NEW j, NEW b, NEW m, NEW n, NEW in, NEW jn,
         Sound(a, m, Body, Body), Sound(b, n, Body, Body), IsJump(i, in, m + jn), IsJump(j, jn, n)
  PROVE  Sound(<< i >> \o (a \o (<< j >> \o b)), in + (m + (jn + n)), Body, Body)
<1>1. Reaches(<< j >> \o b, jn + n, Body, Body, jn)
  BY ReachesEnds, JumpSound
<1>2. Reaches(a \o (<< j >> \o b), m + (jn + n), Body, Body, m + jn)
  BY <1>1, ConcatReaches
<1> QED BY <1>2, JumpSound

\* The jumps of codegen.c, with their lengths and distances.
LEMMA JumpInstructions ==
  /\ \A n \in Nat : IsJump(jmp_short(n), 2, n) /\ IsJump(jmp_near(n), 5, n)
  /\ \A c, n : n \in Nat => IsJump(jcc_rel8(c, n), 2, n) /\ IsJump(jcc_rel32(c, n), 6, n)
BY DEF IsJump, Jumps, Distance, jmp_short, jmp_near, jcc_rel8, jcc_rel32, X
-----------------------------------------------------------------------------
(* The ways out of loads and stores.                                        *)

\* What follows the bus call of a load: the failure flag, or the register.
LEMMA LoadEnd == \A rd : Sound(test_al_jnz(5) \o << or_bl_1, jmp_short(7), st(rd, "ecx") >>, 16, Body, Body)
<1> TAKE rd
<1>1. PICK t, i, o, j, w : /\ t = X(2, "test_al", 0, 0) /\ i = X(2, "jcc", "nz", 5) /\ o = or_bl_1
                           /\ j = jmp_short(7) /\ w = st(rd, "ecx")
  OBVIOUS
<1>2. Plain(t, 2) /\ Plain(o, 3) /\ Plain(w, 7)
  BY <1>1, PlainInstructions, PlainCalls DEF Plain, Special, X
<1>3. IsJump(i, 2, 5) /\ IsJump(j, 2, 7)
  BY <1>1, JumpInstructions DEF IsJump, Jumps, Distance, X
<1>4. PICK e : e = << o, j, w >>
  OBVIOUS
<1>5. Sound(<< t >>, 2, Body, Body) /\ Sound(<< o >>, 3, Body, Body) /\ Sound(<< w >>, 7, Body, Body)
  BY <1>2, PlainStep, Single1 DEF Step
<1>6. Sound(<< i >> \o (<< o >> \o (<< j >> \o << w >>)), 2 + (3 + (2 + 7)), Body, Body)
  <2>1. IsJump(i, 2, 3 + 2)
    BY <1>3
  <2> QED BY <2>1, <1>3, <1>5, ChoiceSound
<1>7. << o >> \o (<< j >> \o << w >>) = e /\ IsSeq(e)
  <2>1. Begins(<< o, j, w >>, o, << j, w >>) /\ Begins(<< j, w >>, j, << w >>)
    BY Tuple2, Tuple3
  <2>2. Begins(e, o, << j, w >>)
    BY <2>1, <1>4
  <2> QED BY <2>1, <2>2 DEF Begins
<1>8. Sound(<< i >> \o e, 2 + (3 + (2 + 7)), Body, Body)
  BY <1>6, <1>7
<1>9. Sound(<< t >> \o (<< i >> \o e), 2 + (2 + (3 + (2 + 7))), Body, Body)
  BY <1>5, <1>8, Concat
<1>10. (<< t >> \o << i >>) \o e = << t >> \o (<< i >> \o e)
  BY <1>7, Tuple1, ConcatAssoc
<1>11. << t >> \o << i >> = << t, i >>
  BY Tuple2 DEF Begins
<1>12. 2 + (2 + (3 + (2 + 7))) = 16
  OBVIOUS
<1>13. Sound(<< t, i >> \o e, 16, Body, Body)
  BY <1>9, <1>10, <1>11, <1>12
<1>14. << t, i >> = test_al_jnz(5)
  BY <1>1 DEF test_al_jnz
<1>15. e = << or_bl_1, jmp_short(7), st(rd, "ecx") >>
  BY <1>1, <1>4
<1> QED BY <1>13, <1>14, <1>15

\* What follows the bus call of a store.
LEMMA StoreEnd == Sound(test_al_jnz(3) \o << or_bl_1 >>, 7, Body, Body)
<1>1. PICK t, i, o : t = X(2, "test_al", 0, 0) /\ i = X(2, "jcc", "nz", 3) /\ o = or_bl_1
  OBVIOUS
<1>2. Plain(t, 2) /\ Plain(o, 3) /\ IsJump(i, 2, 3)
  BY <1>1, PlainCalls DEF Plain, Special, X, IsJump, Jumps, Distance
<1>4. Sound(<< t >>, 2, Body, Body) /\ Sound(<< o >>, 3, Body, Body)
  BY <1>2, PlainStep, Single1 DEF Step
<1>5. Sound(<< i >> \o << o >>, 2 + 3, Body, Body)
  BY <1>2, <1>4, GuardSound
<1>6. Sound(<< t >> \o (<< i >> \o << o >>), 2 + (2 + 3), Body, Body)
  BY <1>4, <1>5, Concat
<1>7. (<< t >> \o << i >>) \o << o >> = << t >> \o (<< i >> \o << o >>)
  BY Tuple1, ConcatAssoc
<1>8. << t >> \o << i >> = << t, i >>
  BY Tuple2 DEF Begins
<1>9. 2 + (2 + 3) = 7
  OBVIOUS
<1>10. Sound(<< t, i >> \o << o >>, 7, Body, Body)
  BY <1>6, <1>7, <1>8, <1>9
<1>11. << t, i >> = test_al_jnz(3)
  BY <1>1 DEF test_al_jnz
<1>12. o = or_bl_1
  BY <1>1
<1> QED BY <1>10, <1>11, <1>12
-----------------------------------------------------------------------------
(* Loads and stores: the slow path, calls and the fast path.                *)

LEMMA SoundIsSeq ==
  ASSUME NEW c, NEW m, NEW p, NEW q, Sound(c, m, p, q)
  PROVE  IsSeq(c) /\ m \in Nat
BY DEF Sound, Fits, Legs, Ends, IsSeq

\* Regrouping around the first piece.
LEMMA ConcatTail ==
  ASSUME NEW x, NEW t, NEW e, NEW m, NEW n, NEW p, NEW q, NEW r,
         Sound(x, m, p, q), Sound(t \o e, n, q, r), IsSeq(t), IsSeq(e)
  PROVE  Sound((x \o t) \o e, m + n, p, r)
<1>1. (x \o t) \o e = x \o (t \o e)
  BY SoundIsSeq, ConcatAssoc, SMTT(40)
<1>2. Sound(x \o (t \o e), m + n, p, r)
  BY Concat
<1> QED BY <1>1, <1>2

\* The ends of loads and stores are sequences.
LEMMA EndsAreSeqs ==
  /\ \A n : IsSeq(test_al_jnz(n))
  /\ IsSeq(<< or_bl_1 >>)
  /\ \A r : IsSeq(<< or_bl_1, jmp_short(7), st(r, "ecx") >>)
BY Tuple1, Tuple2, Tuple3 DEF test_al_jnz, Begins

\* A load's call of bus_read, up to the word read in ecx.
LEMMA LoadCall ==
  ASSUME NEW x, NEW m, Sound(x, m, Body, InCall)
  PROVE  Sound(x \o mov_rax_call("bus_read") \o << mov_ecx_rsp0, add_rsp_16 >>, (m + 12) + 7, Body, Body)
<1>1. PICK a, b : a = mov_ecx_rsp0 /\ b = add_rsp_16
  OBVIOUS
<1>2. Step(a, InCall, InCall) /\ a.n = 3 /\ Step(b, InCall, Body) /\ b.n = 4
  BY <1>1, SpecialInstructions
<1>3. Sound(<< a, b >>, a.n + b.n, InCall, Body)
  BY <1>2, Straight2
<1>4. a.n + b.n = 7
  BY <1>2
<1>5. Sound(<< a, b >>, 7, InCall, Body)
  BY <1>3, <1>4
<1>6. Sound(x \o mov_rax_call("bus_read"), m + 12, Body, InCall)
  BY CallSound, Concat
<1>7. Sound((x \o mov_rax_call("bus_read")) \o << a, b >>, (m + 12) + 7, Body, Body)
  BY <1>5, <1>6, Concat
<1> QED BY <1>1, <1>7

\* The call of bus_write.
LEMMA StoreCall ==
  ASSUME NEW x, NEW m, Sound(x, m, Body, InCall)
  PROVE  Sound(x \o mov_rax_call("bus_write") \o << add_rsp_16 >>, (m + 12) + 4, Body, Body)
<1>1. PICK b : b = add_rsp_16
  OBVIOUS
<1>2. Step(b, InCall, Body) /\ b.n = 4
  BY <1>1, SpecialInstructions
<1>3. Sound(<< b >>, 4, InCall, Body)
  BY <1>2, Single1 DEF Step
<1>6. Sound(x \o mov_rax_call("bus_write"), m + 12, Body, InCall)
  BY CallSound, Concat
<1>7. Sound((x \o mov_rax_call("bus_write")) \o << b >>, (m + 12) + 4, Body, Body)
  BY <1>3, <1>6, Concat
<1> QED BY <1>1, <1>7

\* Instructions in front of the call: the stack is lowered, the arguments are set.
LEMMA Arguments5 ==
  ASSUME NEW i1, NEW i2, NEW i3, NEW i4, NEW i5, NEW n5, i1 = sub_rsp_16, i2 = mov_rcx_r14, i3 = mov_edx_eax,
         Plain(i4, 6), Plain(i5, n5)
  PROVE  Sound(<< i1, i2, i3, i4, i5 >>, 15 + n5, Body, InCall)
<1>1. Step(i1, Body, InCall) /\ i1.n = 4
  BY SpecialInstructions
<1>2. Plain(i2, 3) /\ Plain(i3, 2)
  BY PlainCalls
<1>3. Step(i2, InCall, InCall) /\ Step(i3, InCall, InCall) /\ Step(i4, InCall, InCall) /\ Step(i5, InCall, InCall)
  BY <1>2, PlainStep
<1>4. i2.n = 3 /\ i3.n = 2 /\ i4.n = 6 /\ i5.n = n5 /\ n5 \in Nat
  BY <1>2 DEF Plain
<1>5. Sound(<< i1, i2, i3, i4, i5 >>, i1.n + (i2.n + i3.n + i4.n + i5.n), Body, InCall)
  BY <1>1, <1>3, Straight5
<1>6. i1.n + (i2.n + i3.n + i4.n + i5.n) = 15 + n5
  BY <1>1, <1>4
<1> QED BY <1>5, <1>6

\* Six instructions that set up a call.
LEMMA Arguments6 ==
  ASSUME NEW i1, NEW i2, NEW i3, NEW i4, NEW i5, NEW i6, NEW n6, i1 = sub_rsp_16, i2 = mov_rcx_r14,
         i3 = mov_edx_eax, Plain(i4, 6), Plain(i5, 6), Plain(i6, n6)
  PROVE  Sound(<< i1, i2, i3, i4, i5, i6 >>, 21 + n6, Body, InCall)
<1>1. Step(i1, Body, InCall) /\ i1.n = 4
  BY SpecialInstructions
<1>2. Plain(i2, 3) /\ Plain(i3, 2)
  BY PlainCalls
<1>3. Step(i2, InCall, InCall) /\ Step(i3, InCall, InCall) /\ Step(i4, InCall, InCall) /\ Step(i5, InCall, InCall)
      /\ Step(i6, InCall, InCall)
  BY <1>2, PlainStep
<1>4. i2.n = 3 /\ i3.n = 2 /\ i4.n = 6 /\ i5.n = 6 /\ i6.n = n6 /\ n6 \in Nat
  BY <1>2 DEF Plain
<1>5. Sound(<< i1, i2, i3, i4, i5, i6 >>, i1.n + (i2.n + i3.n + i4.n + i5.n + i6.n), Body, InCall)
  BY <1>1, <1>3, Straight6
<1>6. i1.n + (i2.n + i3.n + i4.n + i5.n + i6.n) = 21 + n6
  BY <1>1, <1>4
<1> QED BY <1>5, <1>6

\* One word of a slow load is 60 bytes behind its address.
LEMMA SlowLoadSound ==
  ASSUME NEW address, NEW n, NEW off, NEW r, Sound(address, n, Body, Body)
  PROVE  Sound(SlowLoad(address, off, r), n + 60, Body, Body)
<1>1. PICK i1, i2, i3, i4, i5, i6 :
        /\ i1 = sub_rsp_16 /\ i2 = mov_rcx_r14 /\ i3 = mov_edx_eax
        /\ i4 = add_edx_imm(off) /\ i5 = mov_r8d_imm(4) /\ i6 = lea_r9_rsp0
  OBVIOUS
<1>2. Plain(i4, 6) /\ Plain(i5, 6) /\ Plain(i6, 4)
  BY <1>1, PlainCalls
<1>3. PICK g : g = << i1, i2, i3, i4, i5, i6 >>
  OBVIOUS
<1>4. Sound(g, 21 + 4, Body, InCall)
  BY <1>1, <1>2, <1>3, Arguments6
<1>5. Sound(address \o g, n + (21 + 4), Body, InCall)
  BY <1>4, Concat
<1>6. PICK y : y = (address \o g) \o mov_rax_call("bus_read") \o << mov_ecx_rsp0, add_rsp_16 >>
  OBVIOUS
<1>7. Sound(y, ((n + (21 + 4)) + 12) + 7, Body, Body)
  BY <1>5, <1>6, LoadCall
<1>8. PICK t, e : t = test_al_jnz(5) /\ e = << or_bl_1, jmp_short(7), st(r, "ecx") >>
  OBVIOUS
<1>9. Sound(t \o e, 16, Body, Body) /\ IsSeq(t) /\ IsSeq(e)
  BY <1>8, LoadEnd, EndsAreSeqs
<1>10. Sound((y \o t) \o e, (((n + (21 + 4)) + 12) + 7) + 16, Body, Body)
  BY <1>7, <1>9, ConcatTail
<1>11. (((n + (21 + 4)) + 12) + 7) + 16 = n + 60
  BY SoundIsSeq
<1>12. SlowLoad(address, off, r) = (y \o t) \o e
  BY <1>1, <1>3, <1>6, <1>8 DEF SlowLoad
<1> QED BY <1>10, <1>11, <1>12

\* A store through bus_write.
LEMMA SlowStoreSound ==
  ASSUME NEW address, NEW n, NEW off, NEW value, NEW v, Sound(address, n, Body, Body), Plain(value, v)
  PROVE  Sound(SlowStore(address, off, value), n + (44 + v), Body, Body)
<1>1. PICK i1, i2, i3, i4, i5 :
        /\ i1 = sub_rsp_16 /\ i2 = mov_rcx_r14 /\ i3 = mov_edx_eax
        /\ i4 = add_edx_imm(off) /\ i5 = mov_r8d_imm(4)
  OBVIOUS
<1>2. Plain(i4, 6) /\ Plain(i5, 6) /\ v \in Nat
  BY <1>1, PlainCalls DEF Plain
<1>3. PICK g : g = << i1, i2, i3, i4, i5, value >>
  OBVIOUS
<1>4. Sound(g, 21 + v, Body, InCall)
  BY <1>1, <1>2, <1>3, Arguments6
<1>5. Sound(address \o g, n + (21 + v), Body, InCall)
  BY <1>4, Concat
<1>6. PICK y : y = (address \o g) \o mov_rax_call("bus_write") \o << add_rsp_16 >>
  OBVIOUS
<1>7. Sound(y, ((n + (21 + v)) + 12) + 4, Body, Body)
  BY <1>5, <1>6, StoreCall
<1>8. PICK t, e : t = test_al_jnz(3) /\ e = << or_bl_1 >>
  OBVIOUS
<1>9. Sound(t \o e, 7, Body, Body) /\ IsSeq(t) /\ IsSeq(e)
  BY <1>8, StoreEnd, EndsAreSeqs
<1>10. Sound((y \o t) \o e, (((n + (21 + v)) + 12) + 4) + 7, Body, Body)
  BY <1>7, <1>9, ConcatTail
<1>11. (((n + (21 + v)) + 12) + 4) + 7 = n + (44 + v)
  BY <1>2, SoundIsSeq
<1>12. SlowStore(address, off, value) = (y \o t) \o e
  BY <1>1, <1>3, <1>6, <1>8 DEF SlowStore
<1> QED BY <1>10, <1>11, <1>12

\* One, two or three plain instructions.
LEMMA PlainSound ==
  ASSUME NEW i, NEW n, Plain(i, n)
  PROVE  Sound(<< i >>, n, Body, Body)
BY PlainStep, Single1 DEF Step

LEMMA PlainSound2 ==
  ASSUME NEW i, NEW j, NEW m, NEW n, Plain(i, m), Plain(j, n)
  PROVE  Sound(<< i, j >>, m + n, Body, Body)
<1>1. i.n = m /\ Step(i, Body, Body) /\ j.n = n /\ Step(j, Body, Body)
  BY PlainStep
<1>2. Sound(<< i, j >>, i.n + j.n, Body, Body)
  BY <1>1, Straight2
<1> QED BY <1>1, <1>2

LEMMA PlainSound3 ==
  ASSUME NEW i, NEW j, NEW k0, NEW l, NEW m, NEW n, Plain(i, l), Plain(j, m), Plain(k0, n)
  PROVE  Sound(<< i, j, k0 >>, l + (m + n), Body, Body)
<1>1. i.n = l /\ Step(i, Body, Body) /\ j.n = m /\ Step(j, Body, Body) /\ k0.n = n /\ Step(k0, Body, Body)
  BY PlainStep
<1>2. Sound(<< i, j, k0 >>, i.n + (j.n + k0.n), Body, Body)
  BY <1>1, Straight3
<1> QED BY <1>1, <1>2

\* Straight to the buffer, with its jump over the slow path.
LEMMA FastSound ==
  /\ \A n, r : Sound(FastLoad(n, r), 14, Body, Body)
  /\ \A n, r : Sound(FastStore(n, r), 14, Body, Body)
<1>1. ASSUME NEW n, NEW r PROVE Sound(FastLoad(n, r), 14, Body, Body)
  <2>1. PICK i, j : i = mov_ecx_r11_off(4 * (n - 1)) /\ j = st(r, "ecx")
    OBVIOUS
  <2>2. Plain(i, 7) /\ Plain(j, 7)
    BY <2>1, PlainInstructions, PlainOthers
  <2>3. Sound(<< i, j >>, 7 + 7, Body, Body)
    BY <2>2, PlainSound2
  <2>4. FastLoad(n, r) = << i, j >> /\ 7 + 7 = 14
    BY <2>1 DEF FastLoad
  <2> QED BY <2>3, <2>4
<1>2. ASSUME NEW n, NEW r PROVE Sound(FastStore(n, r), 14, Body, Body)
  <2>1. PICK i, j : i = ld("ecx", r) /\ j = mov_r11_off(4 * (n - 1), "ecx")
    OBVIOUS
  <2>2. Plain(i, 7) /\ Plain(j, 7)
    BY <2>1, PlainInstructions, PlainOthers
  <2>3. Sound(<< i, j >>, 7 + 7, Body, Body)
    BY <2>2, PlainSound2
  <2>4. FastStore(n, r) = << i, j >> /\ 7 + 7 = 14
    BY <2>1 DEF FastStore
  <2> QED BY <2>3, <2>4
<1> QED BY <1>1, <1>2

\* The base register, written back.
LEMMA AdjustedSound == \A r, fn, v : Sound(Adjusted(r, fn, v), 19, Body, Body)
<1> TAKE r, fn, v
<1>1. PICK i, j, w : i = ld("eax", r) /\ j = alu_imm(fn, v) /\ w = st(r, "eax")
  OBVIOUS
<1>2. Plain(i, 7) /\ Plain(j, 5) /\ Plain(w, 7)
  BY <1>1, PlainInstructions
<1>3. Sound(<< i, j, w >>, 7 + (5 + 7), Body, Body)
  BY <1>2, PlainSound3
<1>4. Adjusted(r, fn, v) = << i, j, w >> /\ 7 + (5 + 7) = 19
  BY <1>1 DEF Adjusted
<1> QED BY <1>3, <1>4

\* The comparison that chooses between the paths.
LEMMA SetupSound == \A v : Sound(FastSetup(v), 23, Body, Body)
<1> TAKE v
<1>1. PICK i, j, w, z : i = mov_r10_buf /\ j = mov_r11d_eax /\ w = add_r11_r10 /\ z = sub_r11_imm32(v)
  OBVIOUS
<1>2. Plain(i, 10) /\ Plain(j, 3) /\ Plain(w, 3) /\ Plain(z, 7)
  BY <1>1, PlainOthers
<1>3. /\ i.n = 10 /\ Step(i, Body, Body) /\ j.n = 3 /\ Step(j, Body, Body)
      /\ w.n = 3 /\ Step(w, Body, Body) /\ z.n = 7 /\ Step(z, Body, Body)
  BY <1>2, PlainStep
<1>4. Sound(<< i, j, w, z >>, i.n + (j.n + w.n + z.n), Body, Body)
  BY <1>3, Straight4
<1>5. FastSetup(v) = << i, j, w, z >>
  BY <1>1 DEF FastSetup
<1>6. i.n + (j.n + w.n + z.n) = 23
  BY <1>3
<1> QED BY <1>4, <1>5, <1>6
-----------------------------------------------------------------------------
(* Register lists: four ahead, and the fast path beside the slow one.       *)

\* Two ways to group the code of a list.
Regroups(h, a, b, c, d) == (((h \o a) \o b) \o c) \o d = h \o ((a \o b) \o (c \o d))

\* The code of a list, regrouped around its jumps.
LEMMA Regroup ==
  ASSUME NEW h, NEW a, NEW b, NEW c, NEW d, IsSeq(h), IsSeq(a), IsSeq(b), IsSeq(c), IsSeq(d)
  PROVE  Regroups(h, a, b, c, d)
<1>1. PICK ab, cd : ab = a \o b /\ cd = c \o d
  OBVIOUS
<1>2. IsSeq(ab) /\ IsSeq(cd)
  BY <1>1, ConcatFacts
<1>3. (h \o a) \o b = h \o ab
  BY <1>1, ConcatAssoc, SMTT(40)
<1>4. IsSeq(h \o ab)
  BY <1>2, ConcatFacts
<1>5. ((h \o ab) \o c) \o d = (h \o ab) \o cd
  <2>1. \A e : IsSeq(e) => (e \o c) \o d = e \o (c \o d)
    BY ConcatAssoc, SMTT(40)
  <2> QED BY <2>1, <1>1, <1>4
<1>6. (h \o ab) \o cd = h \o (ab \o cd)
  BY <1>2, ConcatAssoc, SMTT(40)
<1> QED BY <1>1, <1>3, <1>5, <1>6 DEF Regroups

\* Four instructions in front of a regrouped list.
LEMMA FourAhead ==
  ASSUME NEW a, NEW b, NEW c, NEW d, NEW t, IsSeq(t)
  PROVE  << a, b, c, d >> \o t = << a >> \o (<< b >> \o (<< c >> \o (<< d >> \o t)))
<1>1. PICK h2, h3, h4 : h2 = << c, d >> /\ h3 = << b, c, d >> /\ h4 = << a, b, c, d >>
  OBVIOUS
<1>2. Begins(h4, a, h3) /\ Begins(h3, b, h2) /\ Begins(h2, c, << d >>)
  BY <1>1, Tuple4, Tuple3, Tuple2
<1>3. IsSeq(h2) /\ IsSeq(h3) /\ IsSeq(h4)
  BY <1>2 DEF Begins
<1>4. IsSeq(<< a >>) /\ IsSeq(<< b >>) /\ IsSeq(<< c >>) /\ IsSeq(<< d >>)
  BY Tuple1
<1>5. (<< a >> \o h3) \o t = << a >> \o (h3 \o t)
  BY <1>3, <1>4, ConcatAssoc, SMTT(40)
<1>6. (<< b >> \o h2) \o t = << b >> \o (h2 \o t)
  BY <1>3, <1>4, ConcatAssoc, SMTT(40)
<1>7. (<< c >> \o << d >>) \o t = << c >> \o (<< d >> \o t)
  BY <1>4, ConcatAssoc
<1>8. h4 = << a >> \o h3 /\ h3 = << b >> \o h2 /\ h2 = << c >> \o << d >>
  BY <1>2 DEF Begins
<1>9. h4 \o t = << a >> \o (<< b >> \o (<< c >> \o (<< d >> \o t)))
  BY <1>5, <1>6, <1>7, <1>8
<1> QED BY <1>1, <1>9

\* The fast path of a register list: both guards jump to the slow path, and
\* the fast path ends with a jump over it.
LEMMA TwoPaths ==
  ASSUME NEW c1, NEW jb, NEW c2, NEW ja, NEW setup, NEW fast, NEW j, NEW slow,
         NEW f, NEW jn, NEW sb,
         Plain(c1, 5), Plain(c2, 5), Sound(setup, 23, Body, Body), Sound(fast, f, Body, Body),
         Sound(slow, sb, Body, Body), IsJump(j, jn, sb),
         IsJump(ja, 2, (23 + f) + jn), IsJump(jb, 2, 5 + (2 + ((23 + f) + jn)))
  PROVE  Fine((((<< c1, jb, c2, ja >> \o setup) \o fast) \o << j >>) \o slow)
<1>1. Reaches(<< j >> \o slow, jn + sb, Body, Body, jn)
  BY ReachesEnds, JumpSound
<1>2. Sound(setup \o fast, 23 + f, Body, Body)
  BY Concat
<1>3. Reaches((setup \o fast) \o (<< j >> \o slow), (23 + f) + (jn + sb), Body, Body, (23 + f) + jn)
  BY <1>1, <1>2, ConcatReaches
<1>4. PICK t, n : t = (setup \o fast) \o (<< j >> \o slow) /\ n = (23 + f) + (jn + sb)
  OBVIOUS
<1>5. Reaches(t, n, Body, Body, (23 + f) + jn)
  BY <1>3, <1>4
<1>6. Reaches(<< ja >> \o t, 2 + n, Body, Body, 2 + ((23 + f) + jn))
  BY <1>5, JumpSound
<1>7. Sound(<< c2 >>, 5, Body, Body) /\ Sound(<< c1 >>, 5, Body, Body)
  BY PlainSound
<1>8. Reaches(<< c2 >> \o (<< ja >> \o t), 5 + (2 + n), Body, Body, 5 + (2 + ((23 + f) + jn)))
  BY <1>6, <1>7, ConcatReaches
<1>9. Sound(<< jb >> \o (<< c2 >> \o (<< ja >> \o t)), 2 + (5 + (2 + n)), Body, Body)
  BY <1>8, JumpSound
<1>10. Sound(<< c1 >> \o (<< jb >> \o (<< c2 >> \o (<< ja >> \o t))), 5 + (2 + (5 + (2 + n))), Body, Body)
  BY <1>7, <1>9, Concat
<1>11. IsSeq(setup) /\ IsSeq(fast) /\ IsSeq(slow) /\ IsSeq(<< j >>)
  BY SoundIsSeq, Tuple1
<1>12. IsSeq(t)
  <2>1. IsSeq(setup \o fast) /\ IsSeq(<< j >> \o slow)
    BY <1>11, ConcatFacts
  <2> QED BY <2>1, <1>4, ConcatFacts
<1>13. PICK h : h = << c1, jb, c2, ja >>
  OBVIOUS
<1>14. IsSeq(h)
  <2>1. Begins(h, c1, << jb, c2, ja >>)
    BY <1>13, Tuple4
  <2> QED BY <2>1 DEF Begins
<1>15. (((h \o setup) \o fast) \o << j >>) \o slow = h \o t
  <2>1. PICK jj : jj = << j >>
    OBVIOUS
  <2>2. IsSeq(jj)
    BY <2>1, <1>11
  <2>3. Regroups(h, setup, fast, jj, slow)
    BY <2>2, <1>11, <1>14, Regroup
  <2> QED BY <2>1, <2>3, <1>4 DEF Regroups
<1>16. h \o t = << c1 >> \o (<< jb >> \o (<< c2 >> \o (<< ja >> \o t)))
  <2>1. << c1, jb, c2, ja >> \o t = << c1 >> \o (<< jb >> \o (<< c2 >> \o (<< ja >> \o t)))
    BY <1>12, FourAhead, SMTT(40)
  <2> QED BY <2>1, <1>13
<1>17. Sound((((h \o setup) \o fast) \o << j >>) \o slow, 5 + (2 + (5 + (2 + n))), Body, Body)
  BY <1>10, <1>15, <1>16
<1>18. Fine((((h \o setup) \o fast) \o << j >>) \o slow)
  BY <1>17 DEF Fine
<1> QED BY <1>13, <1>18

\* The two paths, whichever is taken.
LEMMA FastOrSlowFine ==
  ASSUME NEW cnt, NEW f, NEW fb, NEW sb, NEW fast, NEW slow,
         fb = 23 + f, Sound(fast, f, Body, Body), Sound(slow, sb, Body, Body)
  PROVE  Fine(FastOrSlow(cnt, fb, sb, fast, slow))
<1>0. f \in Nat /\ sb \in Nat
  BY SoundIsSeq
<1>1. PICK jn, kk : jn = (IF sb <= 127 THEN 2 ELSE 5) /\ kk = bus_find_flat(SramBase)
  OBVIOUS
<1>2. PICK j, hi : j = (IF sb <= 127 THEN jmp_short(sb) ELSE jmp_near(sb))
                   /\ hi = Mod(Regions[kk].base + Regions[kk].size - cnt * 4)
  OBVIOUS
<1>3. PICK c1, jb, c2, ja :
        /\ c1 = cmp_eax_imm32(SramBase) /\ jb = jcc_rel8("b", 5 + 2 + fb + jn)
        /\ c2 = cmp_eax_imm32(hi) /\ ja = jcc_rel8("a", fb + jn)
  OBVIOUS
<1>4. Plain(c1, 5) /\ Plain(c2, 5)
  BY <1>3, PlainOthers
<1>5. IsJump(j, jn, sb)
  BY <1>0, <1>1, <1>2, JumpInstructions
<1>6. (23 + f) + jn \in Nat /\ 5 + (2 + ((23 + f) + jn)) \in Nat /\ 5 + (2 + ((23 + f) + jn)) = 5 + 2 + fb + jn
      /\ (23 + f) + jn = fb + jn
  BY <1>0, <1>1
<1>7. IsJump(ja, 2, (23 + f) + jn) /\ IsJump(jb, 2, 5 + (2 + ((23 + f) + jn)))
  BY <1>3, <1>6, JumpInstructions
<1>8. PICK setup : setup = FastSetup(SramBase)
  OBVIOUS
<1>9. Sound(setup, 23, Body, Body)
  BY <1>8, SetupSound
<1>10. Fine((((<< c1, jb, c2, ja >> \o setup) \o fast) \o << j >>) \o slow)
  BY <1>4, <1>5, <1>7, <1>9, TwoPaths
<1>11. Fine(slow)
  BY DEF Fine
<1>12. FastOrSlow(cnt, fb, sb, fast, slow) = slow
       \/ FastOrSlow(cnt, fb, sb, fast, slow) = (((<< c1, jb, c2, ja >> \o setup) \o fast) \o << j >>) \o slow
  BY <1>1, <1>2, <1>3, <1>8, Zenon DEF FastOrSlow
<1> QED BY <1>10, <1>11, <1>12
-----------------------------------------------------------------------------
(* Register lists: PUSH and POP.                                            *)

LEMMA FlatEqual ==
  ASSUME NEW N \in Nat, NEW codes, NEW n \in Nat, Len(codes) = N, N # 0,
         \A i \in 1 .. N : Sound(codes[i], n, Body, Body)
  PROVE  Sound(FlattenSeq(codes), N * n, Body, Body)
<1> DEFINE sizes == [i \in 1 .. N |-> n]
<1>1. Len(sizes) = N /\ \A i \in 1 .. N : sizes[i] = n
  OBVIOUS
<1> HIDE DEF sizes
<1>2. \A i \in 1 .. N : Sound(codes[i], sizes[i], Body, Body)
  BY <1>1
<1>3. Sound(FlattenSeq(codes), Total(sizes), Body, Body)
  BY <1>1, <1>2, FlatSound
<1>4. Total(sizes) = N * n
  BY <1>1, TotalEqual
<1> QED BY <1>3, <1>4

\* Fine code in a row, and none.
LEMMA FineConcat ==
  ASSUME NEW a, NEW b, Fine(a), Fine(b)
  PROVE  Fine(a \o b)
BY Concat DEF Fine

LEMMA FineEmpty == Fine(<< >>)
BY SoundEmpty DEF Fine

\* Code that is sound in the body is fine.
LEMMA SoundFine ==
  ASSUME NEW c, NEW m, Sound(c, m, Body, Body)
  PROVE  Fine(c)
BY DEF Fine

\* The registers of a list on the fast path.
LEMMA EachFast ==
  ASSUME NEW regs, Len(regs) \in Nat, Len(regs) # 0
  PROVE  /\ Sound(Each(regs, FastStore), Len(regs) * 14, Body, Body)
         /\ Sound(Each(regs, FastLoad), Len(regs) * 14, Body, Body)
<1> DEFINE stores == [j \in 1 .. Len(regs) |-> FastStore(j, regs[j])]
           loads == [j \in 1 .. Len(regs) |-> FastLoad(j, regs[j])]
<1>1. /\ Len(stores) = Len(regs) /\ \A j \in 1 .. Len(regs) : Sound(stores[j], 14, Body, Body)
      /\ Len(loads) = Len(regs) /\ \A j \in 1 .. Len(regs) : Sound(loads[j], 14, Body, Body)
  BY FastSound
<1>2. Each(regs, FastStore) = FlattenSeq(stores) /\ Each(regs, FastLoad) = FlattenSeq(loads)
  BY DEF Each
<1> HIDE DEF stores, loads
<1> QED BY <1>1, <1>2, FlatEqual

\* The slow path of PUSH and of POP, each word with its own address.
LEMMA EachPush ==
  ASSUME NEW regs, Len(regs) \in Nat, Len(regs) # 0
  PROVE  Sound(FlattenSeq([j \in 1 .. Len(regs) |->
                 SlowStore(<< ld("eax", Sp) >>, 4 * (j - 1), mov_r9d_reg(regs[j]))]), Len(regs) * 58, Body, Body)
<1> DEFINE codes == [j \in 1 .. Len(regs) |-> SlowStore(<< ld("eax", Sp) >>, 4 * (j - 1), mov_r9d_reg(regs[j]))]
<1>1. PICK a : a = << ld("eax", Sp) >>
  OBVIOUS
<1>2. Sound(a, 7, Body, Body)
  BY <1>1, PlainSound, PlainInstructions
<1>3. ASSUME NEW j \in 1 .. Len(regs) PROVE Sound(codes[j], 58, Body, Body)
  <2>1. Plain(mov_r9d_reg(regs[j]), 7)
    BY PlainCalls
  <2>2. Sound(SlowStore(a, 4 * (j - 1), mov_r9d_reg(regs[j])), 7 + (44 + 7), Body, Body)
    BY <2>1, <1>2, SlowStoreSound
  <2>3. codes[j] = SlowStore(a, 4 * (j - 1), mov_r9d_reg(regs[j])) /\ 7 + (44 + 7) = 58
    BY <1>1
  <2> HIDE DEF codes
  <2> QED BY <2>2, <2>3
<1>4. Len(codes) = Len(regs)
  OBVIOUS
<1> HIDE DEF codes
<1>5. Sound(FlattenSeq(codes), Len(regs) * 58, Body, Body)
  BY <1>3, <1>4, FlatEqual
<1> QED BY <1>5 DEF codes

\* The registers of POP on the slow path.
LEMMA EachPop ==
  ASSUME NEW regs, Len(regs) \in Nat, Len(regs) # 0
  PROVE  Sound(FlattenSeq([j \in 1 .. Len(regs) |->
                 SlowLoad(<< ld("eax", Sp) >>, 4 * (j - 1), regs[j])]), Len(regs) * 67, Body, Body)
<1> DEFINE codes == [j \in 1 .. Len(regs) |-> SlowLoad(<< ld("eax", Sp) >>, 4 * (j - 1), regs[j])]
<1>1. PICK a : a = << ld("eax", Sp) >>
  OBVIOUS
<1>2. Sound(a, 7, Body, Body)
  BY <1>1, PlainSound, PlainInstructions
<1>3. ASSUME NEW j \in 1 .. Len(regs) PROVE Sound(codes[j], 67, Body, Body)
  <2>2. Sound(SlowLoad(a, 4 * (j - 1), regs[j]), 7 + 60, Body, Body)
    BY <1>2, SlowLoadSound
  <2>3. codes[j] = SlowLoad(a, 4 * (j - 1), regs[j]) /\ 7 + 60 = 67
    BY <1>1
  <2> HIDE DEF codes
  <2> QED BY <2>2, <2>3
<1>4. Len(codes) = Len(regs)
  OBVIOUS
<1> HIDE DEF codes
<1>5. Sound(FlattenSeq(codes), Len(regs) * 67, Body, Body)
  BY <1>3, <1>4, FlatEqual
<1> QED BY <1>5 DEF codes

\* PUSH.
LEMMA PushFine == \A i : Fine(emit_push_v(i))
<1> TAKE i
<1>1. PICK regs : regs = Listed(i)
  OBVIOUS
<1>2. PICK cnt : cnt = Len(regs)
  OBVIOUS
<1>3. cnt \in Nat
  BY <1>1, <1>2, ListedIsSeq
<1>4. CASE cnt = 0
  BY <1>1, <1>2, <1>4, FineEmpty DEF emit_push_v
<1>5. CASE cnt # 0
  <2>1. PICK fast, slow :
          /\ fast = Each(regs, FastStore)
          /\ slow = FlattenSeq([j \in 1 .. Len(regs) |->
                      SlowStore(<< ld("eax", Sp) >>, 4 * (j - 1), mov_r9d_reg(regs[j]))])
    OBVIOUS
  <2>2. Sound(fast, cnt * 14, Body, Body) /\ Sound(slow, cnt * 58, Body, Body)
    BY <2>1, <1>2, <1>3, <1>5, EachFast, EachPush
  <2>3. PICK fb, sb : fb = 23 + cnt * 14 /\ sb = cnt * 58
    OBVIOUS
  <2>4. Fine(FastOrSlow(cnt, fb, sb, fast, slow))
    BY <2>2, <2>3, FastOrSlowFine
  <2>5. Fine(Adjusted(Sp, "sub", 4 * cnt))
    BY AdjustedSound, SoundFine
  <2>6. Fine(Adjusted(Sp, "sub", 4 * cnt) \o FastOrSlow(cnt, fb, sb, fast, slow))
    BY <2>4, <2>5, FineConcat
  <2>7. emit_push_v(i) = Adjusted(Sp, "sub", 4 * cnt) \o FastOrSlow(cnt, fb, sb, fast, slow)
    BY <1>1, <1>2, <1>5, <2>1, <2>3 DEF emit_push_v, Each
  <2> QED BY <2>6, <2>7
<1> QED BY <1>4, <1>5

\* POP.
LEMMA PopFine == \A i : Fine(emit_pop(i))
<1> TAKE i
<1>1. PICK regs : regs = Listed(i)
  OBVIOUS
<1>2. PICK cnt : cnt = Len(regs)
  OBVIOUS
<1>3. cnt \in Nat
  BY <1>1, <1>2, ListedIsSeq
<1>4. CASE cnt = 0
  BY <1>1, <1>2, <1>4, FineEmpty DEF emit_pop
<1>5. CASE cnt # 0
  <2>0. PICK update : update = Adjusted(Sp, "add", 4 * cnt)
    OBVIOUS
  <2>1. PICK loads, pops :
          /\ loads = Each(regs, FastLoad)
          /\ pops = FlattenSeq([j \in 1 .. Len(regs) |-> SlowLoad(<< ld("eax", Sp) >>, 4 * (j - 1), regs[j])])
    OBVIOUS
  <2>2. Sound(loads, cnt * 14, Body, Body) /\ Sound(pops, cnt * 67, Body, Body)
    BY <2>1, <1>2, <1>3, <1>5, EachFast, EachPop
  <2>3. Sound(update, 19, Body, Body)
    BY <2>0, AdjustedSound
  <2>4. Sound(loads \o update, cnt * 14 + 19, Body, Body) /\ Sound(pops \o update, cnt * 67 + 19, Body, Body)
    BY <2>2, <2>3, Concat
  <2>5. PICK fb, sb : fb = 23 + cnt * 14 + 19 /\ sb = cnt * (7 + 60) + 7 + 5 + 7
    OBVIOUS
  <2>6. fb = 23 + (cnt * 14 + 19) /\ sb = cnt * 67 + 19
    BY <2>5, <1>3
  <2>7. PICK fast, slow : fast = loads \o update /\ slow = pops \o update
    OBVIOUS
  <2>8. Sound(fast, cnt * 14 + 19, Body, Body) /\ Sound(slow, sb, Body, Body)
    BY <2>4, <2>6, <2>7
  <2>9. Fine(FastOrSlow(cnt, fb, sb, fast, slow))
    BY <2>8, <2>6, FastOrSlowFine
  <2>10. Fine(<< ld("eax", Sp) >>)
    BY PlainInstructions, PlainSound, SoundFine
  <2>11. Fine(<< ld("eax", Sp) >> \o FastOrSlow(cnt, fb, sb, fast, slow))
    BY <2>9, <2>10, FineConcat
  <2>12. emit_pop(i) = << ld("eax", Sp) >> \o FastOrSlow(cnt, fb, sb, fast, slow)
    BY <1>1, <1>2, <1>5, <2>0, <2>1, <2>5, <2>7 DEF emit_pop, Each
  <2> QED BY <2>11, <2>12
<1> QED BY <1>4, <1>5
-----------------------------------------------------------------------------
(* Register lists: LDM and STM.                                             *)

\* The pieces of emit_ldm_stm.
MoveStart(i, cnt) == << ld("eax", i.rn) >> \o (IF i.add THEN << >> ELSE << sub_imm(cnt * 4) >>)
\* One register of LDM or STM on either path, and the way back to the base.
MoveFast(i, cnt, j, r) ==
    IF i.op = "T32_LDM" THEN FastLoad(j, r)
    ELSE IF r = Pc
         THEN << mov_eax_imm(i.pc + 4), mov_r11_off(4 * (j - 1), "eax") >> \o MoveStart(i, cnt)
         ELSE FastStore(j, r)
MoveFastBytes(i, r) == IF ~(i.op = "T32_LDM") /\ r = Pc THEN 5 + 7 + 7 + 5 - (IF i.add THEN 5 ELSE 0) ELSE 14
MoveSlow(i, cnt, j, r) ==
    IF i.op = "T32_LDM" THEN SlowLoad(MoveStart(i, cnt), 4 * (j - 1), r)
    ELSE SlowStore(MoveStart(i, cnt), 4 * (j - 1), IF r = Pc THEN mov_r9d_imm(i.pc + 4) ELSE mov_r9d_reg(r))
MoveSlowBytes(i, r) ==
    7 + (IF i.add THEN 0 ELSE 5) + (IF i.op = "T32_LDM" THEN 60 ELSE IF r = Pc THEN 50 ELSE 51)
MoveBack(i, cnt) ==
    IF i.writeback THEN Adjusted(i.rn, IF i.add THEN "add" ELSE "sub", cnt * 4) ELSE << >>

\* How LDM and STM find their address.
LEMMA MoveStartSound ==
  ASSUME NEW i, NEW cnt
  PROVE  Sound(MoveStart(i, cnt), 7 + (IF i.add THEN 0 ELSE 5), Body, Body)
<1>1. Sound(<< ld("eax", i.rn) >>, 7, Body, Body)
  BY PlainInstructions, PlainSound
<1>2. PICK d : d = IF i.add THEN << >> ELSE << sub_imm(cnt * 4) >>
  OBVIOUS
<1>3. Sound(d, IF i.add THEN 0 ELSE 5, Body, Body)
  <2>1. CASE i.add
    BY <2>1, <1>2, SoundEmpty
  <2>2. CASE ~i.add
    <3>1. Plain(sub_imm(cnt * 4), 5)
      BY PlainInstructions
    <3> QED BY <3>1, <2>2, <1>2, PlainSound
  <2> QED BY <2>1, <2>2
<1>4. Sound(<< ld("eax", i.rn) >> \o d, 7 + (IF i.add THEN 0 ELSE 5), Body, Body)
  BY <1>1, <1>3, Concat
<1> QED BY <1>2, <1>4 DEF MoveStart

\* LDM and STM on the fast path.
LEMMA MoveFastSound ==
  ASSUME NEW i, NEW cnt, NEW j, NEW r
  PROVE  Sound(MoveFast(i, cnt, j, r), MoveFastBytes(i, r), Body, Body)
<1>1. CASE i.op = "T32_LDM"
  <2>1. MoveFast(i, cnt, j, r) = FastLoad(j, r) /\ MoveFastBytes(i, r) = 14
    BY <1>1 DEF MoveFast, MoveFastBytes
  <2> QED BY <2>1, FastSound
<1>2. CASE i.op # "T32_LDM" /\ r # Pc
  <2>1. MoveFast(i, cnt, j, r) = FastStore(j, r) /\ MoveFastBytes(i, r) = 14
    BY <1>2 DEF MoveFast, MoveFastBytes
  <2> QED BY <2>1, FastSound
<1>3. CASE i.op # "T32_LDM" /\ r = Pc
  <2>1. PICK a, b : a = mov_eax_imm(i.pc + 4) /\ b = mov_r11_off(4 * (j - 1), "eax")
    OBVIOUS
  <2>2. Plain(a, 5) /\ Plain(b, 7)
    BY <2>1, PlainInstructions, PlainOthers
  <2>3. Sound(<< a, b >>, 5 + 7, Body, Body)
    BY <2>2, PlainSound2
  <2>4. PICK n : n = 7 + (IF i.add THEN 0 ELSE 5)
    OBVIOUS
  <2>5. Sound(MoveStart(i, cnt), n, Body, Body)
    BY <2>4, MoveStartSound
  <2>6. Sound(<< a, b >> \o MoveStart(i, cnt), 5 + 7 + n, Body, Body)
    BY <2>3, <2>5, Concat
  <2>7. 5 + 7 + n = MoveFastBytes(i, r)
    BY <2>4, <1>3 DEF MoveFastBytes
  <2>8. MoveFast(i, cnt, j, r) = << a, b >> \o MoveStart(i, cnt)
    BY <2>1, <1>3 DEF MoveFast
  <2> QED BY <2>6, <2>7, <2>8
<1> QED BY <1>1, <1>2, <1>3

\* LDM and STM on the slow path.
LEMMA MoveSlowSound ==
  ASSUME NEW i, NEW cnt, NEW j, NEW r
  PROVE  Sound(MoveSlow(i, cnt, j, r), MoveSlowBytes(i, r), Body, Body)
<1>1. PICK a, n : a = MoveStart(i, cnt) /\ n = 7 + (IF i.add THEN 0 ELSE 5)
  OBVIOUS
<1>2. Sound(a, n, Body, Body) /\ n \in Nat
  BY <1>1, MoveStartSound
<1>3. CASE i.op = "T32_LDM"
  <2>1. Sound(SlowLoad(a, 4 * (j - 1), r), n + 60, Body, Body)
    BY <1>2, SlowLoadSound
  <2>2. MoveSlow(i, cnt, j, r) = SlowLoad(a, 4 * (j - 1), r)
    BY <1>1, <1>3 DEF MoveSlow
  <2>3. MoveSlowBytes(i, r) = n + 60
    BY <1>1, <1>3 DEF MoveSlowBytes
  <2> QED BY <2>1, <2>2, <2>3
<1>4. CASE i.op # "T32_LDM"
  <2>1. PICK value, v : /\ value = (IF r = Pc THEN mov_r9d_imm(i.pc + 4) ELSE mov_r9d_reg(r))
                        /\ v = (IF r = Pc THEN 6 ELSE 7)
    OBVIOUS
  <2>2. Plain(value, v)
    BY <2>1, PlainCalls
  <2>3. Sound(SlowStore(a, 4 * (j - 1), value), n + (44 + v), Body, Body)
    BY <1>2, <2>2, SlowStoreSound
  <2>4. MoveSlow(i, cnt, j, r) = SlowStore(a, 4 * (j - 1), value)
    BY <1>1, <1>4, <2>1 DEF MoveSlow
  <2>5. MoveSlowBytes(i, r) = n + (44 + v)
    BY <1>1, <1>4, <2>1 DEF MoveSlowBytes
  <2> QED BY <2>3, <2>4, <2>5
<1> QED BY <1>3, <1>4

\* Their base register, written back.
LEMMA MoveBackSound ==
  ASSUME NEW i, NEW cnt
  PROVE  Sound(MoveBack(i, cnt), IF i.writeback THEN 7 + 5 + 7 ELSE 0, Body, Body)
<1>1. CASE i.writeback
  <2>1. MoveBack(i, cnt) = Adjusted(i.rn, IF i.add THEN "add" ELSE "sub", cnt * 4)
    BY <1>1 DEF MoveBack
  <2>2. (IF i.writeback THEN 7 + 5 + 7 ELSE 0) = 19
    BY <1>1
  <2> QED BY <2>1, <2>2, AdjustedSound
<1>2. CASE ~i.writeback
  BY <1>2, SoundEmpty DEF MoveBack
<1> QED BY <1>1, <1>2

\* Their registers on the slow path.
LEMMA EachMove ==
  ASSUME NEW i, NEW regs, Len(regs) \in Nat, Len(regs) # 0
  PROVE  /\ Sound(FlattenSeq([j \in 1 .. Len(regs) |-> MoveFast(i, Len(regs), j, regs[j])]),
                  Total([j \in 1 .. Len(regs) |-> MoveFastBytes(i, regs[j])]), Body, Body)
         /\ Sound(FlattenSeq([j \in 1 .. Len(regs) |-> MoveSlow(i, Len(regs), j, regs[j])]),
                  Total([j \in 1 .. Len(regs) |-> MoveSlowBytes(i, regs[j])]), Body, Body)
<1> DEFINE fasts == [j \in 1 .. Len(regs) |-> MoveFast(i, Len(regs), j, regs[j])]
           fsizes == [j \in 1 .. Len(regs) |-> MoveFastBytes(i, regs[j])]
           slows == [j \in 1 .. Len(regs) |-> MoveSlow(i, Len(regs), j, regs[j])]
           ssizes == [j \in 1 .. Len(regs) |-> MoveSlowBytes(i, regs[j])]
<1>1. ASSUME NEW j \in 1 .. Len(regs)
      PROVE  Sound(fasts[j], fsizes[j], Body, Body) /\ Sound(slows[j], ssizes[j], Body, Body)
  BY MoveFastSound, MoveSlowSound
<1>2. Len(fasts) = Len(regs) /\ Len(fsizes) = Len(regs) /\ Len(slows) = Len(regs) /\ Len(ssizes) = Len(regs)
  OBVIOUS
<1> HIDE DEF fasts, fsizes, slows, ssizes
<1>3. Sound(FlattenSeq(fasts), Total(fsizes), Body, Body)
  BY <1>1, <1>2, FlatSound
<1>4. Sound(FlattenSeq(slows), Total(ssizes), Body, Body)
  BY <1>1, <1>2, FlatSound
<1> QED BY <1>3, <1>4 DEF fasts, fsizes, slows, ssizes

\* LDM and STM.
LEMMA MoveFine == \A i : Fine(emit_ldm_stm(i))
<1> TAKE i
<1>1. PICK regs : regs = Listed(i)
  OBVIOUS
<1>2. PICK cnt : cnt = Len(regs)
  OBVIOUS
<1>3. cnt \in Nat
  BY <1>1, <1>2, ListedIsSeq
<1>4. CASE cnt = 0
  BY <1>1, <1>2, <1>4, FineEmpty DEF emit_ldm_stm
<1>5. CASE cnt # 0
  <2>0. PICK back, wb : back = MoveBack(i, cnt) /\ wb = (IF i.writeback THEN 7 + 5 + 7 ELSE 0)
    OBVIOUS
  <2>1. PICK f, s1, fn, sn :
          /\ f = FlattenSeq([j \in 1 .. Len(regs) |-> MoveFast(i, Len(regs), j, regs[j])])
          /\ s1 = FlattenSeq([j \in 1 .. Len(regs) |-> MoveSlow(i, Len(regs), j, regs[j])])
          /\ fn = Total([j \in 1 .. Len(regs) |-> MoveFastBytes(i, regs[j])])
          /\ sn = Total([j \in 1 .. Len(regs) |-> MoveSlowBytes(i, regs[j])])
    OBVIOUS
  <2>2. Sound(f, fn, Body, Body) /\ Sound(s1, sn, Body, Body)
    BY <2>1, <1>2, <1>3, <1>5, EachMove
  <2>3. Sound(back, wb, Body, Body)
    BY <2>0, MoveBackSound
  <2>4. Sound(f \o back, fn + wb, Body, Body) /\ Sound(s1 \o back, sn + wb, Body, Body)
    BY <2>2, <2>3, Concat
  <2>5. fn \in Nat /\ wb \in Nat
    BY <2>2, <2>3, SoundIsSeq
  <2>6. PICK fb, sb, fast, slow : fb = 23 + fn + wb /\ sb = sn + wb /\ fast = f \o back /\ slow = s1 \o back
    OBVIOUS
  <2>7. fb = 23 + (fn + wb)
    BY <2>5, <2>6
  <2>8. Sound(fast, fn + wb, Body, Body) /\ Sound(slow, sb, Body, Body)
    BY <2>4, <2>6
  <2>9. Fine(FastOrSlow(cnt, fb, sb, fast, slow))
    BY <2>7, <2>8, FastOrSlowFine
  <2>10. Fine(MoveStart(i, cnt))
    BY MoveStartSound, SoundFine
  <2>11. Fine(MoveStart(i, cnt) \o FastOrSlow(cnt, fb, sb, fast, slow))
    BY <2>9, <2>10, FineConcat, SMTT(40)
  <2>12. emit_ldm_stm(i) = MoveStart(i, cnt) \o FastOrSlow(cnt, fb, sb, fast, slow)
    BY ZenonT(40), <1>1, <1>2, <1>5, <2>0, <2>1, <2>6
       DEF emit_ldm_stm, Each, MoveStart, MoveFast, MoveSlow, MoveFastBytes, MoveSlowBytes, MoveBack
  <2> QED BY <2>11, <2>12
<1> QED BY <1>4, <1>5
-----------------------------------------------------------------------------
(* Every instruction the generator supports.                                *)

LEMMA MaskedFine ==
  ASSUME NEW x, NEW m, Sound(x, m, Body, Body), NEW masking, Plain(masking, 6), NEW size
  PROVE  \E n : Sound(x \o Masked(masking, size), n, Body, Body)
<1>1. Sound(Masked(masking, size), 0, Body, Body) \/ Sound(Masked(masking, size), 6, Body, Body)
  BY SoundEmpty, PlainSound DEF Masked
<1> QED BY <1>1, Concat

\* Loads.
LEMMA LoadFromEaxFine == \A rd, size : Fine(emit_load_from_eax(rd, size))
<1> TAKE rd, size
<1>1. PICK i1, i2, i3, i4, i5 :
        /\ i1 = sub_rsp_16 /\ i2 = mov_rcx_r14 /\ i3 = mov_edx_eax
        /\ i4 = mov_r8d_imm(size) /\ i5 = lea_r9_rsp0
  OBVIOUS
<1>2. Plain(i4, 6) /\ Plain(i5, 4)
  BY <1>1, PlainCalls
<1>3. PICK g : g = << i1, i2, i3, i4, i5 >>
  OBVIOUS
<1>4. Sound(g, 15 + 4, Body, InCall)
  BY <1>1, <1>2, <1>3, Arguments5
<1>5. PICK y : y = g \o mov_rax_call("bus_read") \o << mov_ecx_rsp0, add_rsp_16 >>
  OBVIOUS
<1>6. Sound(y, ((15 + 4) + 12) + 7, Body, Body)
  BY <1>4, <1>5, LoadCall
<1>7. PICK z : z = y \o Masked(and_ecx_imm(Byte ^ size - 1), size)
  OBVIOUS
<1>8. PICK n : Sound(z, n, Body, Body)
  BY <1>6, <1>7, MaskedFine, PlainCalls
<1>9. PICK t, e : t = test_al_jnz(5) /\ e = << or_bl_1, jmp_short(7), st(rd, "ecx") >>
  OBVIOUS
<1>10. Sound(t \o e, 16, Body, Body) /\ IsSeq(t) /\ IsSeq(e)
  BY <1>9, LoadEnd, EndsAreSeqs
<1>11. Sound((z \o t) \o e, n + 16, Body, Body)
  BY <1>8, <1>10, ConcatTail
<1>12. emit_load_from_eax(rd, size) = (z \o t) \o e
  BY <1>1, <1>3, <1>5, <1>7, <1>9 DEF emit_load_from_eax
<1> QED BY <1>11, <1>12 DEF Fine

\* Stores.
LEMMA StoreAtEaxFine == \A rd, size : Fine(StoreAtEax(rd, size))
<1> TAKE rd, size
<1>1. PICK i1, i2, i3, i4, i5 :
        /\ i1 = sub_rsp_16 /\ i2 = mov_rcx_r14 /\ i3 = mov_edx_eax
        /\ i4 = mov_r8d_imm(size) /\ i5 = mov_r9d_reg(rd)
  OBVIOUS
<1>2. Plain(i4, 6) /\ Plain(i5, 7)
  BY <1>1, PlainCalls
<1>3. PICK g : g = << i1, i2, i3, i4, i5 >>
  OBVIOUS
<1>4. Sound(g, 15 + 7, Body, InCall)
  BY <1>1, <1>2, <1>3, Arguments5
<1>5. PICK masking : masking = and_r9d_imm(Byte ^ size - 1)
  OBVIOUS
<1>6. Plain(masking, 7)
  BY <1>5, PlainCalls
<1>7. PICK h, m : h = Masked(masking, size) /\ Sound(h, m, InCall, InCall)
  <2>1. Sound(<< masking >>, 7, InCall, InCall)
    BY <1>6, PlainStep, Single1 DEF Step
  <2>2. Sound(Masked(masking, size), 0, InCall, InCall) \/ Sound(Masked(masking, size), 7, InCall, InCall)
    BY <2>1, SoundEmpty DEF Masked
  <2> QED BY <2>2
<1>8. Sound(g \o h, (15 + 7) + m, Body, InCall)
  BY <1>4, <1>7, Concat
<1>9. PICK y : y = (g \o h) \o mov_rax_call("bus_write") \o << add_rsp_16 >>
  OBVIOUS
<1>10. Sound(y, (((15 + 7) + m) + 12) + 4, Body, Body)
  BY <1>8, <1>9, StoreCall
<1>11. PICK t, e : t = test_al_jnz(3) /\ e = << or_bl_1 >>
  OBVIOUS
<1>12. Sound(t \o e, 7, Body, Body) /\ IsSeq(t) /\ IsSeq(e)
  BY <1>11, StoreEnd, EndsAreSeqs
<1>13. Sound((y \o t) \o e, ((((15 + 7) + m) + 12) + 4) + 7, Body, Body)
  BY <1>10, <1>12, ConcatTail
<1>14. StoreAtEax(rd, size) = (y \o t) \o e
  BY <1>1, <1>3, <1>5, <1>7, <1>9, <1>11 DEF StoreAtEax
<1> QED BY <1>13, <1>14 DEF Fine

\* A plain instruction.
LEMMA PlainFine == \A i, n : Plain(i, n) => Fine(<< i >>)
BY PlainSound, SoundFine

\* An address from a register and an offset.
LEMMA BasedFine == \A rn, imm : Fine(Based(rn, imm))
<1> TAKE rn, imm
<1>1. Fine(<< ld("eax", rn) >>) /\ Fine(<< add_imm(imm) >>)
  BY PlainInstructions, PlainFine
<1>2. PICK d : d = IF imm # 0 THEN << add_imm(imm) >> ELSE << >>
  OBVIOUS
<1>3. Fine(d)
  BY <1>1, <1>2, FineEmpty
<1>4. Fine(<< ld("eax", rn) >> \o d)
  BY <1>1, <1>3, FineConcat
<1> QED BY <1>2, <1>4 DEF Based

\* A load, with its address in front.
LEMMA LoadStoreFine ==
  /\ \A rd, rn, imm, size : Fine(emit_load(rd, rn, imm, size))
  /\ \A rd, rn, imm, size : Fine(emit_store(rd, rn, imm, size))
BY BasedFine, LoadFromEaxFine, StoreAtEaxFine, FineConcat DEF emit_load, emit_store

\* Two, three or four pieces.
LEMMA Fine2 ==
  ASSUME NEW i, NEW j, NEW m, NEW n, Plain(i, m), Plain(j, n)
  PROVE  Fine(<< i, j >>)
BY PlainSound2, SoundFine

LEMMA Fine3 ==
  ASSUME NEW i, NEW j, NEW k0, NEW l, NEW m, NEW n, Plain(i, l), Plain(j, m), Plain(k0, n)
  PROVE  Fine(<< i, j, k0 >>)
BY PlainSound3, SoundFine

LEMMA Fine4 ==
  ASSUME NEW i, NEW j, NEW k0, NEW l0, NEW l, NEW m, NEW n, NEW o, Plain(i, l), Plain(j, m), Plain(k0, n), Plain(l0, o)
  PROVE  Fine(<< i, j, k0, l0 >>)
<1>1. Step(i, Body, Body) /\ Step(j, Body, Body) /\ Step(k0, Body, Body) /\ Step(l0, Body, Body)
  BY PlainStep
<1>2. Sound(<< i, j, k0, l0 >>, i.n + (j.n + k0.n + l0.n), Body, Body)
  BY <1>1, Straight4
<1> QED BY <1>2, SoundFine

\* The test of a condition, for every condition there is.
LEMMA CondTestFine == \A cond \in 0 .. 13 : Fine(CondTest(cond))
<1> TAKE cond \in 0 .. 13
<1>1. \A m : Fine(<< test_al_imm8(m) >>)
  BY PlainOthers, PlainFine
<1>2. Fine(<< shr_al(4) >>)
  BY PlainOthers, PlainFine
<1>3. Fine(<< and_al_imm8(6), cmp_al_imm8(2) >>)
  BY PlainOthers, Fine2
<1>4. \A m : Fine(<< mov_ah_al, shr_ah(3), xor_al_ah, test_al_imm8(m) >>)
  BY PlainOthers, Fine4
<1>5. CASE cond \in 0 .. 7
  <2>1. \E m : CondTest(cond) = << test_al_imm8(m) >>
    BY <1>5 DEF CondTest
  <2> QED BY <2>1, <1>1
<1>6. CASE cond \in {8, 9}
  <2>1. CondTest(cond) = << shr_al(4) >> \o << and_al_imm8(6), cmp_al_imm8(2) >>
    BY <1>6 DEF CondTest
  <2> QED BY <2>1, <1>2, <1>3, FineConcat
<1>7. CASE cond \in 10 .. 13
  <2>1. PICK m : CondTest(cond) = << shr_al(4) >> \o << mov_ah_al, shr_ah(3), xor_al_ah, test_al_imm8(m) >>
    <3>1. CASE cond \in {10, 11}
      <4>1. CondTest(cond) = << shr_al(4) >> \o << mov_ah_al, shr_ah(3), xor_al_ah, test_al_imm8(1) >>
        BY <3>1 DEF CondTest
      <4> QED BY <4>1
    <3>2. CASE cond \in {12, 13}
      <4>1. CondTest(cond) = << shr_al(4) >> \o << mov_ah_al, shr_ah(3), xor_al_ah, test_al_imm8(5) >>
        BY <3>2 DEF CondTest
      <4> QED BY <4>1
    <3> QED BY <1>7, <3>1, <3>2
  <2>2. PICK c : c = << mov_ah_al, shr_ah(3), xor_al_ah, test_al_imm8(m) >>
    OBVIOUS
  <2>3. Fine(c)
    BY <2>2, <1>4
  <2>4. Fine(<< shr_al(4) >> \o c)
    BY <2>3, <1>2, FineConcat
  <2> QED BY <2>1, <2>2, <2>4
<1> QED BY <1>5, <1>6, <1>7

\* Branches.
LEMMA BranchFine ==
  ASSUME NEW i, i.cond \in 0 .. 15
  PROVE  Fine(emit_b_cond_fast(i))
<1>1. \A v : Fine(<< st_pc(v) >>)
  BY PlainInstructions, PlainFine
<1>2. CASE i.cond \in 0 .. 13
  <2>1. PICK j, a, e, b : /\ j = jcc_rel32(TakenWhen(i.cond), 13) /\ a = st_pc(i.pc + i.size)
                          /\ e = jmp_short(11) /\ b = st_pc(i.pc + 4 + i.imm)
    OBVIOUS
  <2>2. IsJump(j, 6, 11 + 2) /\ IsJump(e, 2, 11)
    <3>1. 11 + 2 = 13
      OBVIOUS
    <3> QED BY <3>1, <2>1, JumpInstructions
  <2>3. Sound(<< a >>, 11, Body, Body) /\ Sound(<< b >>, 11, Body, Body)
    BY <2>1, PlainInstructions, PlainSound
  <2>4. Sound(<< j >> \o (<< a >> \o (<< e >> \o << b >>)), 6 + (11 + (2 + 11)), Body, Body)
    BY <2>2, <2>3, ChoiceSound
  <2>5. << j >> \o (<< a >> \o (<< e >> \o << b >>)) = << j, a, e, b >>
    <3>1. Begins(<< j, a, e, b >>, j, << a, e, b >>) /\ Begins(<< a, e, b >>, a, << e, b >>)
          /\ Begins(<< e, b >>, e, << b >>)
      BY Tuple4, Tuple3, Tuple2
    <3> QED BY <3>1 DEF Begins
  <2>6. PICK c : c = << j, a, e, b >>
    OBVIOUS
  <2>7. Fine(c)
    BY <2>4, <2>5, <2>6, SoundFine
  <2>8. Fine(<< ld_al_apsr_byte3 >>)
    BY PlainOthers, PlainFine
  <2>9. Fine(<< ld_al_apsr_byte3 >> \o CondTest(i.cond))
    BY <2>8, <1>2, CondTestFine, FineConcat
  <2>10. Fine((<< ld_al_apsr_byte3 >> \o CondTest(i.cond)) \o c)
    BY <2>7, <2>9, FineConcat
  <2>11. emit_b_cond_fast(i) = (<< ld_al_apsr_byte3 >> \o CondTest(i.cond)) \o c
    BY <1>2, <2>1, <2>6, SMTT(40) DEF emit_b_cond_fast
  <2> QED BY <2>10, <2>11
<1>3. CASE i.cond = 14
  BY <1>1, <1>3 DEF emit_b_cond_fast
<1>4. CASE i.cond = 15
  BY <1>1, <1>4 DEF emit_b_cond_fast
<1> QED BY <1>2, <1>3, <1>4

\* BL.
LEMMA CallFine == \A i : Fine(emit_t32_bl(i))
BY PlainInstructions, Fine3 DEF emit_t32_bl

\* The computation of a data operation.
LEMMA ComputeFine == \A i, row : Fine(emit_compute(i, row))
<1> TAKE i, row
<1>1. Fine(<< mov_eax_imm(i.imm) >>) /\ Fine(<< ld("eax", i.rm) >>)
  BY PlainInstructions, PlainFine
<1>2. Fine(<< ld("eax", i.rn), alu_imm(HostOp(row.fn), i.imm) >>)
  BY PlainInstructions, Fine2
<1>3. Fine(<< ld("eax", i.rn), ld("ecx", i.rm), op_ec(HostOp(row.fn)) >>)
  BY PlainInstructions, Fine3
<1> QED BY <1>1, <1>2, <1>3, Zenon DEF emit_compute

\* Its flags.
LEMMA FlagsFine == \A host : Fine(emit_flags(host))
<1> TAKE host
<1>1. Fine(<< test_eax, emit_flags_nz >>)
  BY PlainInstructions, Fine2
<1>2. Fine(<< emit_flags_nz >>)
  BY PlainInstructions, PlainFine
<1>3. Fine(<< emit_flags_nzcv(host = "sub") >>)
  BY PlainFlags, PlainFine
<1> QED BY <1>1, <1>2, <1>3, Zenon DEF emit_flags

\* A data operation.
LEMMA DataFine == \A i, row : Fine(emit_data(i, row))
<1> TAKE i, row
<1>1. PICK f, d : /\ f = (IF SetsFlags(i, row.flags) THEN emit_flags(HostOp(row.fn)) ELSE << >>)
                  /\ d = (IF row.fn \in Comparisons THEN << >> ELSE << st(i.rd, "eax") >>)
  OBVIOUS
<1>2. Fine(<< st(i.rd, "eax") >>)
  BY PlainInstructions, PlainFine
<1>3. Fine(f) /\ Fine(d)
  BY <1>1, <1>2, FlagsFine, FineEmpty, Zenon
<1>4. Fine((emit_compute(i, row) \o f) \o d)
  BY <1>3, ComputeFine, FineConcat
<1> QED BY <1>1, <1>4 DEF emit_data

\* The address of an access.
LEMMA AddressFine == \A i, form : Fine(emit_address(i, form))
<1> TAKE i, form
<1>1. Fine(<< mov_eax_imm(Aligned(i.pc + 4) + i.imm) >>)
  BY PlainInstructions, PlainFine
<1>2. Fine(<< ld("eax", i.rn), ld("ecx", i.rm), op_ec("add") >>)
  BY PlainInstructions, Fine3
<1>3. Fine(Based(i.rn, i.imm)) /\ Fine(Based(Sp, i.imm))
  BY BasedFine
<1> QED BY <1>1, <1>2, <1>3, Zenon DEF emit_address

\* An access.
LEMMA AccessFine == \A i, a : Fine(emit_access(i, a))
<1> TAKE i, a
<1>1. PICK c : c = IF a.dir = "load" THEN emit_load_from_eax(i.rd, a.size) ELSE StoreAtEax(i.rd, a.size)
  OBVIOUS
<1>2. Fine(c)
  BY <1>1, LoadFromEaxFine, StoreAtEaxFine, Zenon
<1>3. Fine(emit_address(i, a.form) \o c)
  BY <1>2, AddressFine, FineConcat
<1> QED BY <1>1, <1>3 DEF emit_access

\* Whatever the instruction, the code generated for it is sound.
LEMMA InstructionFine ==
  ASSUME NEW i, codegen_supports(i.op), i.cond \in 0 .. 15
  PROVE  Fine(emit_op(i))
<1>1. CASE i.op \in NativeData
  <2>1. i.op \notin NativeAccess
    BY <1>1 DEF NativeAccess, NativeData
  <2>2. i.op \notin {"NOP", "T32_NOP", "T32_LDRD_IMM", "T32_STRD_IMM", "PUSH", "POP", "T32_LDM", "T32_STM",
                    "B_UNCOND", "B_COND", "T32_B_COND", "T32_BL"}
    BY <1>1 DEF NativeData
  <2>3. emit_op(i) = emit_data(i, Generated(i.op))
    BY <1>1, <2>1, <2>2 DEF emit_op
  <2> QED BY <2>3, DataFine
<1>2. CASE i.op \in NativeAccess
  <2>1. i.op \notin NativeData
    BY <1>2 DEF NativeAccess, NativeData
  <2>2. emit_op(i) = emit_access(i, Accesses[i.op])
    <3>1. i.op \notin {"NOP", "T32_NOP", "T32_LDRD_IMM", "T32_STRD_IMM", "PUSH", "POP", "T32_LDM", "T32_STM",
     "B_COND", "T32_B_COND", "B_UNCOND", "T32_BL"}
      BY <1>2 DEF NativeAccess
    <3> QED BY <3>1, <1>2, <2>1 DEF emit_op
  <2> QED BY <2>2, AccessFine
<1>3. CASE i.op \in NativeOther
  <2>1. i.op \notin NativeData /\ i.op \notin NativeAccess
    BY <1>3 DEF NativeAccess, NativeData, NativeOther
  <2>2. CASE i.op \in {"NOP", "T32_NOP"}
    <3>1. emit_op(i) = << >>
      BY <2>1, <2>2 DEF emit_op
    <3> QED BY <3>1, FineEmpty
  <2>3. CASE i.op = "T32_LDRD_IMM"
    <3>1. emit_op(i) = emit_load(i.rd, i.rn, i.imm, 4) \o emit_load(i.rs, i.rn, i.imm + 4, 4)
      BY <2>1, <2>3 DEF emit_op
    <3> QED BY <3>1, LoadStoreFine, FineConcat
  <2>4. CASE i.op = "T32_STRD_IMM"
    <3>1. emit_op(i) = emit_store(i.rd, i.rn, i.imm, 4) \o emit_store(i.rs, i.rn, i.imm + 4, 4)
      BY <2>1, <2>4 DEF emit_op
    <3> QED BY <3>1, LoadStoreFine, FineConcat
  <2>5. CASE i.op = "PUSH"
    <3>1. emit_op(i) = emit_push_v(i)
      BY <2>1, <2>5 DEF emit_op
    <3> QED BY <3>1, PushFine
  <2>6. CASE i.op = "POP"
    <3>1. emit_op(i) = emit_pop(i)
      BY <2>1, <2>6 DEF emit_op
    <3> QED BY <3>1, PopFine
  <2>7. CASE i.op \in {"T32_LDM", "T32_STM"}
    <3>1. emit_op(i) = emit_ldm_stm(i)
      BY <2>1, <2>7 DEF emit_op
    <3> QED BY <3>1, MoveFine
  <2>8. CASE i.op = "B_UNCOND"
    <3>1. emit_op(i) = << st_pc(i.pc + 4 + i.imm) >>
      BY <2>1, <2>8 DEF emit_op
    <3> QED BY <3>1, PlainInstructions, PlainFine
  <2>9. CASE i.op \in {"B_COND", "T32_B_COND"}
    <3>1. emit_op(i) = emit_b_cond_fast(i)
      BY <2>1, <2>9 DEF emit_op
    <3> QED BY <3>1, BranchFine
  <2>10. CASE i.op = "T32_BL"
    <3>1. emit_op(i) = emit_t32_bl(i)
      BY <2>1, <2>10 DEF emit_op
    <3> QED BY <3>1, CallFine
  <2> QED BY <1>3, <2>2, <2>3, <2>4, <2>5, <2>6, <2>7, <2>8, <2>9, <2>10 DEF NativeOther
<1> QED BY <1>1, <1>2, <1>3 DEF codegen_supports
-----------------------------------------------------------------------------
(* The whole thunk.                                                         *)

\* Where a thunk begins and ends, and two places on its way.
Enter == [at |-> "enter", h |-> FALSE]
End == [at |-> "end", h |-> FALSE]
Bus == [at |-> "bus", h |-> FALSE]
Failed == [at |-> "body", h |-> TRUE]

\* From the caller's frame to the body.
LEMMA PrologueSound == \E m : Sound(emit_prologue \o emit_clear_fail, m, Enter, Body)
<1>1. PICK i1, i2, i3, i4 : i1 = push("r15") /\ i2 = push("r14") /\ i3 = push("rbx") /\ i4 = push("rsi")
  OBVIOUS
<1>2. PICK i5, i6, i7, i8 : /\ i5 = X(4, "sub_rsp", 4, 0) /\ i6 = X(3, "own", "r15", "cpu")
                            /\ i7 = X(3, "own", "r14", "bus") /\ i8 = X(2, "own", "rbx", "ok")
  OBVIOUS
<1>3. /\ Step(i1, Enter, [at |-> "one", h |-> FALSE])
      /\ Step(i2, [at |-> "one", h |-> FALSE], [at |-> "two", h |-> FALSE])
      /\ Step(i3, [at |-> "two", h |-> FALSE], [at |-> "three", h |-> FALSE])
      /\ Step(i4, [at |-> "three", h |-> FALSE], [at |-> "four", h |-> FALSE])
  BY <1>1 DEF Step, Rel, Pushes, push, X, Enter, Jumps
<1>4. /\ Step(i5, [at |-> "four", h |-> FALSE], [at |-> "space", h |-> FALSE])
      /\ Step(i6, [at |-> "space", h |-> FALSE], [at |-> "cpu", h |-> FALSE])
      /\ Step(i7, [at |-> "cpu", h |-> FALSE], Bus)
      /\ Step(i8, Bus, Body)
  BY <1>2 DEF Step, Rel, X, Bus, Body, Jumps
<1>5. \E m : Sound(<< i1, i2, i3, i4, i5, i6, i7 >>, m, Enter, Bus)
  BY <1>3, <1>4, Straight7
<1>6. \E m : Sound(<< i8 >>, m, Bus, Body)
  BY <1>4, Single1 DEF Step
<1>7. PICK c : c = << i1, i2, i3, i4, i5, i6, i7 >>
  OBVIOUS
<1>8. \E m : Sound(c \o << i8 >>, m, Enter, Body)
  BY <1>5, <1>6, <1>7, Concat
<1>9. emit_prologue = c /\ emit_clear_fail = << i8 >>
  BY <1>1, <1>2, <1>7 DEF emit_prologue, emit_clear_fail
<1> QED BY <1>8, <1>9

\* The way out from the body, with the halted flag where FALSE is returned.
LEMMA UnwindSound ==
  ASSUME NEW result \in BOOLEAN, NEW h \in BOOLEAN, result \/ h, NEW q, ~q.h
  PROVE  Sound(Unwind(result), 13, [at |-> "body", h |-> h], q)
<1>1. PICK i1, i2, i3, i4 : i1 = X(4, "add_rsp", 4, 0) /\ i2 = pop("rsi") /\ i3 = pop("rbx") /\ i4 = pop("r14")
  OBVIOUS
<1>2. PICK i5, i6, i7 : i5 = pop("r15") /\ i6 = X(2, "mov_al", result, 0) /\ i7 = X(1, "ret", 0, 0)
  OBVIOUS
<1>3. /\ Step(i1, [at |-> "body", h |-> h], [at |-> "back4", h |-> h]) /\ i1.n = 4
      /\ Step(i2, [at |-> "back4", h |-> h], [at |-> "back3", h |-> h]) /\ i2.n = 1
      /\ Step(i3, [at |-> "back3", h |-> h], [at |-> "back2", h |-> h]) /\ i3.n = 1
      /\ Step(i4, [at |-> "back2", h |-> h], [at |-> "back1", h |-> h]) /\ i4.n = 2
  BY <1>1 DEF Step, Rel, Pops, pop, X, Jumps
<1>4. /\ Step(i5, [at |-> "back1", h |-> h], [at |-> "left", h |-> h]) /\ i5.n = 2
      /\ Step(i6, [at |-> "left", h |-> h], [at |-> "out", h |-> h]) /\ i6.n = 2
      /\ Step(i7, [at |-> "out", h |-> h], q) /\ i7.n = 1
  BY <1>2 DEF Step, Rel, Pops, pop, X, Jumps
<1>5. Sound(<< i1, i2, i3, i4, i5, i6, i7 >>, i1.n + (i2.n + i3.n + i4.n + i5.n + i6.n + i7.n), [at |-> "body", h |-> h], q)
  BY <1>3, <1>4, Straight7
<1>6. i1.n + (i2.n + i3.n + i4.n + i5.n + i6.n + i7.n) = 13
  BY <1>3, <1>4
<1>7. PICK c : c = << i1, i2, i3, i4, i5, i6, i7 >>
  OBVIOUS
<1>8. Sound(c, 13, [at |-> "body", h |-> h], q)
  BY <1>5, <1>6, <1>7
<1>9. Unwind(result) = c
  BY <1>1, <1>2, <1>7 DEF Unwind
<1> QED BY <1>8, <1>9

\* From the body to the RET, on both ways out.
LEMMA EpilogueSound == \E m : Sound(emit_epilogue_check, m, Body, End)
<1>1. PICK t, j, i : t = X(2, "test_bl", 0, 0) /\ j = jcc_rel8("z", 21) /\ i = X(8, "halt", 0, 0)
  OBVIOUS
<1>2. PICK f, u : f = Unwind(FALSE) /\ u = Unwind(TRUE)
  OBVIOUS
<1>3. Sound(f, 13, Failed, Body) /\ Sound(u, 13, Body, End)
  BY <1>2, UnwindSound DEF Failed, Body, End
<1>4. Sound(<< i >>, 8, Body, Failed)
  <2>1. Step(i, Body, Failed) /\ i.n = 8
    BY <1>1 DEF Step, Rel, X, Body, Failed, Jumps, Working
  <2> QED BY <2>1, Single1 DEF Step
<1>5. Sound(<< i >> \o f, 8 + 13, Body, Body)
  BY <1>3, <1>4, Concat
<1>6. Reaches(u, 13, Body, End, 0)
  BY <1>3, ReachesEnds
<1>7. Reaches((<< i >> \o f) \o u, (8 + 13) + 13, Body, End, (8 + 13) + 0)
  BY <1>5, <1>6, ConcatReaches
<1>8. IsJump(j, 2, (8 + 13) + 0)
  <2>1. (8 + 13) + 0 = 21
    OBVIOUS
  <2> QED BY <2>1, <1>1, JumpInstructions
<1>9. Sound(<< j >> \o ((<< i >> \o f) \o u), 2 + ((8 + 13) + 13), Body, End)
  BY <1>7, <1>8, JumpSound
<1>10. Sound(<< t >>, 2, Body, Body)
  <2>1. Plain(t, 2)
    BY <1>1 DEF Plain, Special, X
  <2> QED BY <2>1, PlainSound
<1>11. Sound(<< t >> \o (<< j >> \o ((<< i >> \o f) \o u)), 2 + (2 + ((8 + 13) + 13)), Body, End)
  BY <1>9, <1>10, Concat
<1>12. IsSeq(f) /\ IsSeq(u)
  BY <1>3, SoundIsSeq
<1>13. PICK h : h = << t, j, i >>
  OBVIOUS
<1>14. (h \o f) \o u = << t >> \o (<< j >> \o ((<< i >> \o f) \o u))
  <2>1. PICK h2 : h2 = << j, i >>
    OBVIOUS
  <2>2. Begins(h, t, h2) /\ Begins(h2, j, << i >>)
    BY <2>1, <1>13, Tuple3, Tuple2
  <2>3. IsSeq(h) /\ IsSeq(h2) /\ IsSeq(<< t >>) /\ IsSeq(<< j >>) /\ IsSeq(<< i >>)
    BY <2>2, Tuple1 DEF Begins
  <2>4. h = << t >> \o h2 /\ h2 = << j >> \o << i >>
    BY <2>2 DEF Begins
  <2>5. PICK fu : fu = f \o u
    OBVIOUS
  <2>6. IsSeq(fu)
    BY <2>5, <1>12, ConcatFacts
  <2>7. (h \o f) \o u = h \o fu /\ (<< i >> \o f) \o u = << i >> \o fu
    <3>1. \A e : IsSeq(e) => (e \o f) \o u = e \o (f \o u)
      BY <1>12, ConcatAssoc, SMTT(40)
    <3> QED BY <3>1, <2>3, <2>5
  <2>8. (<< t >> \o h2) \o fu = << t >> \o (h2 \o fu)
    BY <2>3, <2>6, ConcatAssoc, SMTT(40)
  <2>9. (<< j >> \o << i >>) \o fu = << j >> \o (<< i >> \o fu)
    BY <2>3, <2>6, ConcatAssoc
  <2> QED BY <2>4, <2>7, <2>8, <2>9
<1>15. emit_epilogue_check = (h \o f) \o u
  BY <1>1, <1>2, <1>13 DEF emit_epilogue_check
<1> QED BY <1>11, <1>14, <1>15

\* Whatever block the generator compiles, the thunk is sound: it is entered
\* with the caller's frame, and every way through it comes to the one RET.
THEOREM ThunkSound ==
  ASSUME NEW ins, Len(ins) \in Nat, DOMAIN ins = 1 .. Len(ins), Len(ins) # 0,
         Compilable(ins), \A n \in DOMAIN ins : ins[n].cond \in 0 .. 15
  PROVE  \E m : Sound(codegen_emit(ins), m, Enter, End)
<1> DEFINE codes == [n \in 1 .. Len(ins) |-> emit_op(ins[n])]
<1>1. \A n \in 1 .. Len(ins) : Fine(codes[n])
  BY InstructionFine DEF Compilable
<1>2. Len(codes) = Len(ins)
  OBVIOUS
<1>3. PICK body : body = FlattenSeq(codes)
  OBVIOUS
<1>4. body = FlattenSeq([n \in DOMAIN ins |-> emit_op(ins[n])])
  BY <1>3
<1> HIDE DEF codes
<1>5. Fine(body)
  BY <1>1, <1>2, <1>3, FlatFine
<1>6. PICK tail : tail = IF wrote_pc(Last(ins)) THEN << >> ELSE << st_pc(Last(ins).pc + Last(ins).size) >>
  OBVIOUS
<1>7. Fine(tail)
  <2>1. Fine(<< st_pc(Last(ins).pc + Last(ins).size) >>)
    BY PlainInstructions, PlainFine
  <2> QED BY <2>1, <1>6, FineEmpty
<1>8. PICK start0 : start0 = emit_prologue \o emit_clear_fail
  OBVIOUS
<1>9. \E m : Sound(start0, m, Enter, Body)
  BY <1>8, PrologueSound
<1>10. \E m : Sound(start0 \o body, m, Enter, Body)
  BY <1>5, <1>9, Concat DEF Fine
<1>11. \E m : Sound((start0 \o body) \o tail, m, Enter, Body)
  BY <1>7, <1>10, Concat DEF Fine
<1>12. \E m : Sound(((start0 \o body) \o tail) \o emit_epilogue_check, m, Enter, End)
  BY <1>11, EpilogueSound, Concat
<1>13. codegen_emit(ins) = ((start0 \o body) \o tail) \o emit_epilogue_check
  BY <1>4, <1>6, <1>8 DEF codegen_emit
<1> QED BY <1>12, <1>13
=============================================================================
