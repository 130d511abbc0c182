------------------------------ MODULE GdbProofs ------------------------------
(***************************************************************************)
(* The debugger and the stub keep in step, and the program stops as it was *)
(* asked to: for every program, table size, run, and any number of packets *)
(* and interrupt bytes.                                                     *)
(***************************************************************************)
EXTENDS Gdb, FiniteSetTheorems, SequenceTheorems, WellFoundedInduction, TLAPS

-----------------------------------------------------------------------------
(* Values.                                                                  *)

Bytes == {Ack, CtrlC} \union Commands
Names == {"stop", "int", "Z0", "z0", "P", "c", "s", "k", "g", "?"}
Texts == {"S05", "", "data", "OK", "E16"}
Replies == {Ack} \union [kind : {"packet"}, to : Names, text : Texts]
Phases == {"start", "loop", "turn", "chain", "block", "interp", "end", "ack", "packet"}

Typed ==
    /\ g \in [active : BOOLEAN, stepping : BOOLEAN, halted_for_gdb : BOOLEAN, bp : Seq(Addrs)]
    /\ pc \in Addrs /\ halted \in BOOLEAN
    /\ phase \in Phases /\ back \in {"loop", "turn"}
    /\ i \in Nat /\ total \in Nat
    /\ inbox \in Seq(Bytes) /\ outbox \in Seq(Replies)
    /\ client \in [state : {"prompt", "sent", "await", "running", "gone"},
                   sent : Nat, asked : Commands, breaks : [Addrs -> Nat]]
    /\ resumed \in [how : {"none", "c", "s"}, done : 0 .. 2, at_start : BOOLEAN]

-----------------------------------------------------------------------------
(* The conversation.                                                        *)

Serving == phase \in {"ack", "packet"}

\* The one acknowledgement on its way to the debugger is at k; the one command
\* on its way to the stub is at n.  Zero: there is none.
AckAt(k) == \A j \in 1 .. Len(outbox) : outbox[j] = Ack <=> j = k
CommandAt(n) == \A j \in 1 .. Len(inbox) : inbox[j].kind = "packet" <=> j = n

\* What comes before a command ends with an acknowledgement, and there is one
\* left for the byte gdb_send reads.
Covered(n) ==
    /\ n > 0 => inbox[n] = Ack
    /\ phase \in {"start", "ack"} => n > 0

\* The stub serves, or is about to.
Listening ==
    /\ Serving \/ phase = "start"
    /\ phase = "start" => g.active /\ g.halted_for_gdb

\* What follows place k: the answer to the command, or, to one that resumes the
\* program, the report of the stop once there is one.
AnswerAfter(k) ==
    IF client.asked.cmd \in Resuming
    THEN /\ k < Len(outbox) => Serving /\ outbox[k + 1].to = "stop"
         /\ k = Len(outbox) => ~Serving /\ phase # "start"
    ELSE Serving /\ k < Len(outbox) /\ outbox[k + 1].to = client.asked.cmd

Prompted == AckAt(0) /\ CommandAt(0) /\ Covered(Len(inbox)) /\ Listening
OnItsWay ==
    \E n \in 1 .. Len(inbox) :
        /\ inbox[n] = client.asked /\ CommandAt(n)
        /\ Covered(n - 1) /\ AckAt(0) /\ Listening
Acknowledged ==
    /\ CommandAt(0)
    /\ \E k \in 1 .. Len(outbox) : AckAt(k) /\ AnswerAfter(k)
Expecting == CommandAt(0) /\ AckAt(0) /\ AnswerAfter(0)

Conversation ==
    /\ client.state = "prompt" => Prompted
    /\ client.state = "sent" => client.asked.cmd # "k" /\ (OnItsWay \/ Acknowledged)
    /\ client.state = "await" => Expecting /\ client.asked.cmd \notin Resuming \union {"k"}
    /\ client.state = "running" => Expecting /\ client.asked.cmd \in Resuming

SyncInv == Typed /\ (client.state = "gone" \/ Conversation)

-----------------------------------------------------------------------------
(* The table, and where the program is.                                     *)

\* How often an address is in a table.
Times(bp, a) == Cardinality({ k \in 1 .. Len(bp) : bp[k] = a })

\* The breakpoints the debugger will know of once it has the answer under way.
Told(text, a) ==
    IF a # client.asked.addr THEN client.breaks[a]
    ELSE IF client.asked.cmd = "Z0" /\ text = "OK" THEN client.breaks[a] + 1
    ELSE IF client.asked.cmd = "z0" /\ client.breaks[a] > 0 THEN client.breaks[a] - 1
    ELSE client.breaks[a]
Agree(k) == \A a \in Addrs : Times(g.bp, a) = Told(outbox[k + 1].text, a)
SameBreaks == \A a \in Addrs : Times(g.bp, a) = client.breaks[a]

BreaksAgree ==
    /\ client.state \in {"prompt", "running"} => SameBreaks
    /\ client.state = "await" => Agree(0)
    /\ client.state = "sent" => /\ AckAt(0) => SameBreaks
                                /\ \A k \in 1 .. Len(outbox) : AckAt(k) => Agree(k)

\* How the program was resumed, and what it has done since.
Underway ==
    LET how == resumed.how  done == resumed.done
    IN  /\ phase \notin {"start", "ack", "packet", "end"} =>
               how \in Resuming /\ (g.stepping <=> how = "s")
        /\ phase = "loop" /\ how = "s" => done = (IF resumed.at_start THEN 0 ELSE 1)
        /\ phase \in {"turn", "interp"} /\ how = "s" => done = 0 /\ ~resumed.at_start
        /\ phase \in {"chain", "block"} => how = "c"
        /\ phase \in {"turn", "interp"} \/ (phase = "chain" /\ total = 0) =>
               done = 0 \/ pc \notin ToSet(g.bp)

StopInv == SyncInv /\ (client.state = "gone" \/ (g.active /\ BreaksAgree /\ Underway))
-----------------------------------------------------------------------------
(* Sequences.                                                               *)

\* The parts of a sequence that is not empty.
LEMMA Parts ==
  ASSUME NEW S, NEW s \in Seq(S), s # << >>
  PROVE  /\ Len(s) \in Nat \ {0} /\ Head(s) = s[1] /\ Head(s) \in S
         /\ Tail(s) \in Seq(S) /\ Len(Tail(s)) = Len(s) - 1
         /\ \A j \in 1 .. Len(s) - 1 : Tail(s)[j] = s[j + 1]
<1>1. Len(s) \in Nat \ {0} /\ Head(s) = s[1]
  BY EmptySeq
<1> QED  BY <1>1, HeadTailProperties

\* One more at the end.
LEMMA OneMore ==
  ASSUME NEW S, NEW s \in Seq(S), NEW e \in S
  PROVE  /\ s \o << e >> = Append(s, e)
         /\ Append(s, e) \in Seq(S) /\ Len(s) \in Nat /\ Len(Append(s, e)) = Len(s) + 1
         /\ \A j \in 1 .. Len(s) : Append(s, e)[j] = s[j]
         /\ Append(s, e)[Len(s) + 1] = e
BY AppendProperties, AppendIsConcat, LenProperties

\* Two more at the end.
LEMMA TwoMore ==
  ASSUME NEW S, NEW s \in Seq(S), NEW e \in S, NEW f \in S
  PROVE  s \o (<< e >> \o << f >>) = Append(Append(s, e), f)
<1>1. << e >> \in Seq(S) /\ << f >> \in Seq(S)
  OBVIOUS
<1>2. s \o (<< e >> \o << f >>) = (s \o << e >>) \o << f >>
  BY <1>1, ConcatAssociative
<1>3. s \o << e >> = Append(s, e) /\ Append(s, e) \in Seq(S)
  BY OneMore
<1> QED  BY <1>2, <1>3, OneMore

-----------------------------------------------------------------------------
(* The table.                                                               *)

\* A set of positions has a least one.
LEMMA LeastPlace ==
  ASSUME NEW I, I \subseteq Nat, I # {}
  PROVE  Min(I) \in I
<1>1. PICK x \in I : \A y \in I : <<y, x>> \notin OpToRel(<, Nat)
  BY WFMin, NatLessThanWellFounded, Zenon
<1>2. \A y \in I : ~(y < x)
  BY <1>1, Zenon DEF OpToRel
<1>3. \A y \in I : x <= y
  BY <1>2
<1> QED  BY <1>3 DEF Min

\* The entry that is overwritten, and the table one shorter.
LEMMA RemovedParts ==
  ASSUME NEW bp \in Seq(Addrs), NEW a
  PROVE  \/ Removed(bp, a) = bp /\ \A j \in 1 .. Len(bp) : bp[j] # a
         \/ /\ Len(bp) \in Nat \ {0}
            /\ Removed(bp, a) \in Seq(Addrs) /\ Len(Removed(bp, a)) = Len(bp) - 1
            /\ \E k \in 1 .. Len(bp) :
                   /\ bp[k] = a
                   /\ \A j \in 1 .. Len(bp) - 1 :
                          Removed(bp, a)[j] = IF j = k THEN bp[Len(bp)] ELSE bp[j]
<1> DEFINE I == { j \in 1 .. Len(bp) : bp[j] = a }
           k == SelectInSeq(bp, LAMBDA b : b = a)
<1>0. Len(bp) \in Nat
  BY LenProperties
<1>1. k = IF I # {} THEN Min(I) ELSE 0
  BY DEF SelectInSeq
<1>2. Removed(bp, a) = IF k = 0 THEN bp ELSE SubSeq([bp EXCEPT ![k] = Last(bp)], 1, Len(bp) - 1)
  BY DEF Removed
<1>3. CASE I = {}
  BY <1>1, <1>2, <1>3
<1>4. CASE I # {}
  <2>0. I \subseteq Nat
    OBVIOUS
  <2>1. k \in I
    <3>1. Min(I) \in I
      BY <1>4, <2>0, LeastPlace, Zenon
    <3>2. k = Min(I)
      BY <1>1, <1>4
    <3> QED  BY <3>1, <3>2, Zenon
  <2>2. k \in 1 .. Len(bp) /\ bp[k] = a /\ Len(bp) \in Nat \ {0} /\ k # 0
    BY <1>0, <2>1
  <2> DEFINE t == [bp EXCEPT ![k] = Last(bp)]
  <2> HIDE DEF k
  <2>3. Last(bp) = bp[Len(bp)] /\ Last(bp) \in Addrs
    BY <2>2, ElementOfSeq DEF Last
  <2>4. t \in Seq(Addrs) /\ Len(t) = Len(bp)
        /\ \A j \in 1 .. Len(bp) : t[j] = IF j = k THEN bp[Len(bp)] ELSE bp[j]
    BY <2>2, <2>3, ExceptSeq
  <2> HIDE DEF t
  <2>5. \A j \in 1 .. Len(bp) - 1 : t[j] \in Addrs
    BY <2>2, <2>4, ElementOfSeq
  <2> DEFINE u == SubSeq(t, 1, Len(bp) - 1)
  <2>6. u \in Seq(Addrs) /\ Len(u) = Len(bp) - 1 /\ \A j \in 1 .. Len(bp) - 1 : u[j] = t[j]
    <3> DEFINE n == Len(bp) - 1
    <3>1. n \in Nat /\ n \in Int /\ 1 \in Int /\ \A j \in 1 .. n : t[j] \in Addrs
      BY <2>2, <2>5
    <3> HIDE DEF n
    <3>2. /\ SubSeq(t, 1, n) \in Seq(Addrs)
          /\ Len(SubSeq(t, 1, n)) = IF 1 <= n THEN n - 1 + 1 ELSE 0
          /\ \A j \in 1 .. n - 1 + 1 : SubSeq(t, 1, n)[j] = t[1 + j - 1]
      BY <3>1, SubSeqProperties
    <3>3. Len(SubSeq(t, 1, n)) = n /\ \A j \in 1 .. n : SubSeq(t, 1, n)[j] = t[j]
      BY <3>1, <3>2
    <3> QED  BY <3>2, <3>3 DEF n
  <2>7. Removed(bp, a) = u
    BY <1>2, <2>2 DEF t
  <2> HIDE DEF u
  <2> QED  BY <2>2, <2>4, <2>6, <2>7
<1> QED  BY <1>3, <1>4

\* How often an address is in a table is a number.
LEMMA TimesType ==
  ASSUME NEW bp \in Seq(Addrs), NEW a
  PROVE  /\ Times(bp, a) \in Nat
         /\ IsFiniteSet({ k \in 1 .. Len(bp) : bp[k] = a })
         /\ Times(bp, a) = 0 <=> a \notin ToSet(bp)
<1> DEFINE I == { k \in 1 .. Len(bp) : bp[k] = a }
<1>0. Len(bp) \in Nat /\ DOMAIN bp = 1 .. Len(bp)
  BY LenProperties
<1>1. IsFiniteSet(1 .. Len(bp))
  BY <1>0, FS_Interval
<1>2. IsFiniteSet(I)
  BY <1>1, FS_Subset
<1>3. Cardinality(I) \in Nat /\ (Cardinality(I) = 0 <=> I = {})
  BY <1>2, FS_CardinalityType, FS_EmptySet
<1>4. I = {} <=> a \notin ToSet(bp)
  BY <1>0 DEF ToSet
<1> QED  BY <1>2, <1>3, <1>4 DEF Times

\* A breakpoint that is set is there once more.
LEMMA TimesAppend ==
  ASSUME NEW bp \in Seq(Addrs), NEW a \in Addrs, NEW b
  PROVE  Times(Append(bp, a), b) = IF b = a THEN Times(bp, b) + 1 ELSE Times(bp, b)
<1> DEFINE I == { k \in 1 .. Len(bp) : bp[k] = b }
           J == { k \in 1 .. Len(Append(bp, a)) : Append(bp, a)[k] = b }
<1>1. /\ Len(bp) \in Nat /\ Len(Append(bp, a)) = Len(bp) + 1
      /\ \A j \in 1 .. Len(bp) : Append(bp, a)[j] = bp[j]
      /\ Append(bp, a)[Len(bp) + 1] = a
  BY OneMore
<1>2. J = IF b = a THEN I \cup {Len(bp) + 1} ELSE I
  BY <1>1
<1>3. Len(bp) + 1 \notin I
  BY <1>1
<1>4. IsFiniteSet(I)
  BY TimesType
<1>5. Cardinality(I \cup {Len(bp) + 1}) = Cardinality(I) + 1
  BY <1>3, <1>4, FS_AddElement
<1> QED  BY <1>2, <1>5 DEF Times

\* One that is removed is there once less, and the others as often.
LEMMA TimesRemoved ==
  ASSUME NEW bp \in Seq(Addrs), NEW a, NEW b
  PROVE  Times(Removed(bp, a), b)
           = IF b = a /\ Times(bp, b) > 0 THEN Times(bp, b) - 1 ELSE Times(bp, b)
<1> DEFINE I == { k \in 1 .. Len(bp) : bp[k] = b }
           r == Removed(bp, a)
           J == { k \in 1 .. Len(r) : r[k] = b }
           n == Len(bp)
<1>0. IsFiniteSet(I) /\ Times(bp, b) = Cardinality(I) /\ Cardinality(I) \in Nat
      /\ (Cardinality(I) = 0 <=> I = {})
  <2>1. IsFiniteSet(I)
    BY TimesType
  <2> QED  BY <2>1, FS_CardinalityType, FS_EmptySet DEF Times
<1>1. CASE r = bp /\ \A j \in 1 .. n : bp[j] # a
  <2>1. b = a => I = {}
    BY <1>1
  <2>2. b = a => ~(Times(bp, b) > 0)
    BY <1>0, <2>1
  <2> QED  BY <1>1, <2>2
<1>2. CASE /\ n \in Nat \ {0}
           /\ r \in Seq(Addrs) /\ Len(r) = n - 1
           /\ \E k \in 1 .. n :
                  /\ bp[k] = a
                  /\ \A j \in 1 .. n - 1 : r[j] = IF j = k THEN bp[n] ELSE bp[j]
  <2>1. PICK k \in 1 .. n : /\ bp[k] = a
                            /\ \A j \in 1 .. n - 1 : r[j] = IF j = k THEN bp[n] ELSE bp[j]
    BY <1>2
  <2>2. n \in Nat \ {0} /\ Len(r) = n - 1
    BY <1>2
  <2>3. Times(r, b) = Cardinality(J)
    BY DEF Times
  <2> HIDE DEF n, r
  <2>4. CASE b = a /\ bp[n] = a
    <3>1. J = I \ {n} /\ n \in I
      BY <2>1, <2>2, <2>4 DEF n
    <3>2. Cardinality(I \ {n}) = Cardinality(I) - 1 /\ Cardinality(I) # 0
      BY <1>0, <3>1, FS_RemoveElement
    <3> HIDE DEF I, J
    <3>3. Times(r, b) = Cardinality(I) - 1
      BY <2>3, <3>1, <3>2
    <3>4. Times(bp, b) > 0
      BY <1>0, <3>2
    <3> QED  BY <1>0, <2>4, <3>3, <3>4 DEF r
  <2>5. CASE b = a /\ bp[n] # a
    <3>1. J = I \ {k} /\ k \in I
      BY <2>1, <2>2, <2>5 DEF n
    <3>2. Cardinality(I \ {k}) = Cardinality(I) - 1 /\ Cardinality(I) # 0
      BY <1>0, <3>1, FS_RemoveElement
    <3> HIDE DEF I, J
    <3>3. Times(r, b) = Cardinality(I) - 1
      BY <2>3, <3>1, <3>2
    <3>4. Times(bp, b) > 0
      BY <1>0, <3>2
    <3> QED  BY <1>0, <2>5, <3>3, <3>4 DEF r
  <2>6. CASE b # a /\ bp[n] # b
    <3>1. J = I
      BY <2>1, <2>2, <2>6 DEF n
    <3> QED  BY <1>0, <2>3, <2>6, <3>1 DEF r
  <2>7. CASE b # a /\ bp[n] = b
    <3>1. J = (I \ {n}) \cup {k} /\ n \in I /\ k \notin I
      BY <2>1, <2>2, <2>7 DEF n
    <3>2. IsFiniteSet(I \ {n}) /\ Cardinality(I \ {n}) = Cardinality(I) - 1
      BY <1>0, <3>1, FS_RemoveElement
    <3>3. k \notin I \ {n}
      BY <3>1
    <3>4. Cardinality(J) = Cardinality(I) - 1 + 1
      BY <3>1, <3>2, <3>3, FS_AddElement
    <3> QED  BY <1>0, <2>3, <2>7, <3>4 DEF r
  <2> QED  BY <2>4, <2>5, <2>6, <2>7
<1> HIDE DEF I, J
<1> QED  BY <1>1, <1>2, RemovedParts

-----------------------------------------------------------------------------
(* Types.                                                                   *)

\* Commands and replies are packets, and acknowledgements are not.
LEMMA Kinds ==
  /\ Ack.kind = "ack" /\ CtrlC.kind = "ctrlc"
  /\ \A p \in Commands : /\ p.kind = "packet"
                         /\ p.cmd \in {"Z0", "z0", "P", "c", "s", "k", "g", "?"}
                         /\ p.cmd \in {"Z0", "z0", "P"} => p.addr \in Addrs
  /\ \A p \in Bytes : p.kind = "packet" => p \in Commands
  /\ \A to \in Names, text \in Texts : /\ Reply(to, text) \in Replies /\ Reply(to, text) # Ack
                              /\ Reply(to, text).kind = "packet"
                              /\ Reply(to, text).to = to /\ Reply(to, text).text = text
  /\ \A r \in Replies : r # Ack => r.kind = "packet"
  /\ Ack \in Replies /\ Ack \in Bytes /\ CtrlC \in Bytes /\ Commands \subseteq Bytes
<1>1. Ack.kind = "ack" /\ CtrlC.kind = "ctrlc"
  BY DEF Ack, CtrlC
<1>2. \A p \in Commands : /\ p.kind = "packet"
                          /\ p.cmd \in {"Z0", "z0", "P", "c", "s", "k", "g", "?"}
                          /\ p.cmd \in {"Z0", "z0", "P"} => p.addr \in Addrs
  BY DEF Commands, Packet
<1>3. \A p \in Bytes : p.kind = "packet" => p \in Commands
  BY <1>1 DEF Bytes
<1>4. \A to \in Names, text \in Texts : /\ Reply(to, text) \in Replies
                               /\ Reply(to, text).kind = "packet"
                               /\ Reply(to, text).to = to /\ Reply(to, text).text = text
  BY DEF Reply, Replies
<1>5. \A r \in Replies : r # Ack => r.kind = "packet"
  BY DEF Replies
<1>6. Ack \in Replies /\ Ack \in Bytes /\ CtrlC \in Bytes /\ Commands \subseteq Bytes
  BY DEF Replies, Bytes
<1> QED  BY <1>1, <1>2, <1>3, <1>4, <1>5, <1>6

\* gdb_send.
LEMMA Sending ==
  ASSUME outbox \in Seq(Replies), NEW to \in Names, NEW text \in Texts, Sent(gdb_send(to, text))
  PROVE  /\ outbox' \in Seq(Replies) /\ Len(outbox) \in Nat /\ Len(outbox') = Len(outbox) + 1
         /\ \A j \in 1 .. Len(outbox) : outbox'[j] = outbox[j]
         /\ outbox'[Len(outbox) + 1] = Reply(to, text)
<1>1. outbox' = outbox \o << Reply(to, text) >> /\ Reply(to, text) \in Replies
  BY Kinds DEF Sent, gdb_send
<1> DEFINE r == Reply(to, text)
<1> HIDE DEF r
<1>0. outbox \in Seq(Replies) /\ r \in Replies
  BY <1>1, Zenon DEF r
<1>2. /\ outbox \o << r >> = Append(outbox, r)
      /\ Append(outbox, r) \in Seq(Replies) /\ Len(outbox) \in Nat
      /\ Len(Append(outbox, r)) = Len(outbox) + 1
      /\ \A j \in 1 .. Len(outbox) : Append(outbox, r)[j] = outbox[j]
      /\ Append(outbox, r)[Len(outbox) + 1] = r
  BY <1>0, OneMore, SMT
<1>3. outbox' = Append(outbox, r)
  BY <1>1, <1>2, Zenon DEF r
<1> QED  BY <1>2, <1>3, Zenon DEF r

\* An acknowledgement.
LEMMA Acknowledging ==
  ASSUME outbox \in Seq(Replies), Sent(NoAnswer)
  PROVE  /\ outbox' \in Seq(Replies) /\ Len(outbox) \in Nat /\ Len(outbox') = Len(outbox) + 1
         /\ \A j \in 1 .. Len(outbox) : outbox'[j] = outbox[j]
         /\ outbox'[Len(outbox) + 1] = Ack
<1>1. outbox' = outbox \o << Ack >> /\ Ack \in Replies
  BY Kinds DEF Sent, NoAnswer
<1> QED  BY <1>1, OneMore

\* An acknowledgement and a reply.
LEMMA Answering ==
  ASSUME outbox \in Seq(Replies), NEW to \in Names, NEW text \in Texts, Sent(Answer(to, text))
  PROVE  /\ outbox' \in Seq(Replies) /\ Len(outbox) \in Nat /\ Len(outbox') = Len(outbox) + 2
         /\ \A j \in 1 .. Len(outbox) : outbox'[j] = outbox[j]
         /\ outbox'[Len(outbox) + 1] = Ack
         /\ outbox'[Len(outbox) + 2] = Reply(to, text)
<1>1. Reply(to, text) \in Replies /\ Ack \in Replies
  BY Kinds
<1>2. outbox' = Append(Append(outbox, Ack), Reply(to, text))
  <2>1. outbox' = outbox \o Answer(to, text)
    BY Zenon DEF Sent
  <2>2. Answer(to, text) = << Ack >> \o << Reply(to, text) >>
    BY DEF Answer, gdb_send
  <2>3. outbox \o (<< Ack >> \o << Reply(to, text) >>) = Append(Append(outbox, Ack), Reply(to, text))
    <3> DEFINE a == Ack
               r == Reply(to, text)
    <3> HIDE DEF a, r
    <3>1. a \in Replies /\ r \in Replies
      BY <1>1 DEF a, r
    <3>2. outbox \o (<< a >> \o << r >>) = Append(Append(outbox, a), r)
      BY <3>1, TwoMore
    <3> QED  BY <3>2 DEF a, r
  <2> QED  BY <2>1, <2>2, <2>3, Zenon
<1>3. /\ Append(outbox, Ack) \in Seq(Replies) /\ Len(outbox) \in Nat
      /\ Len(Append(outbox, Ack)) = Len(outbox) + 1
      /\ \A j \in 1 .. Len(outbox) : Append(outbox, Ack)[j] = outbox[j]
      /\ Append(outbox, Ack)[Len(outbox) + 1] = Ack
  BY <1>1, OneMore
<1> DEFINE s == Append(outbox, Ack)
<1> HIDE DEF s
<1>4. /\ Append(s, Reply(to, text)) \in Seq(Replies)
      /\ Len(Append(s, Reply(to, text))) = Len(s) + 1
      /\ \A j \in 1 .. Len(s) : Append(s, Reply(to, text))[j] = s[j]
      /\ Append(s, Reply(to, text))[Len(s) + 1] = Reply(to, text)
  BY <1>1, <1>3, OneMore DEF s
<1> DEFINE r == Reply(to, text)
<1> HIDE DEF r
<1>5. outbox' = Append(s, r)
  BY <1>2, Zenon DEF s, r
<1>6. s \in Seq(Replies) /\ Len(outbox) \in Nat /\ Len(s) = Len(outbox) + 1
      /\ (\A j \in 1 .. Len(outbox) : s[j] = outbox[j]) /\ s[Len(outbox) + 1] = Ack
  BY <1>3, Zenon DEF s
<1>7. /\ Append(s, r) \in Seq(Replies)
      /\ Len(Append(s, r)) = Len(s) + 1
      /\ \A j \in 1 .. Len(s) : Append(s, r)[j] = s[j]
      /\ Append(s, r)[Len(s) + 1] = r
  BY <1>4, Zenon DEF r
<1> DEFINE u == Append(s, r)
<1> HIDE DEF u
<1>8. outbox' = u
  BY <1>5, Zenon DEF u
<1>9. /\ u \in Seq(Replies) /\ Len(u) = Len(s) + 1
      /\ (\A j \in 1 .. Len(s) : u[j] = s[j]) /\ u[Len(s) + 1] = r
  BY <1>7, Zenon DEF u
<1>10. \A j \in 1 .. Len(outbox) : u[j] = outbox[j]
  BY <1>6, <1>9
<1>11. u[Len(outbox) + 1] = Ack /\ u[Len(outbox) + 2] = r /\ Len(u) = Len(outbox) + 2
  BY <1>6, <1>9
<1> QED  BY <1>6, <1>8, <1>9, <1>10, <1>11, Zenon DEF r

\* A command that has arrived.
LEMMA Arrival ==
  ASSUME Typed, NEW cmd, Received(cmd)
  PROVE  /\ Head(inbox) \in Commands /\ Head(inbox).cmd = cmd /\ inbox[1] = Head(inbox)
         /\ Head(inbox).kind = "packet"
         /\ inbox' \in Seq(Bytes) /\ cmd \in Names
<1>1. inbox # << >> /\ inbox \in Seq(Bytes) /\ inbox' = Tail(inbox)
      /\ Head(inbox).kind = "packet" /\ Head(inbox).cmd = cmd
  BY DEF Typed, Received
<1>2. Head(inbox) \in Bytes /\ Head(inbox) = inbox[1] /\ Tail(inbox) \in Seq(Bytes)
  BY <1>1, Parts
<1> DEFINE p == Head(inbox)
<1> HIDE DEF p
<1>3. p \in Bytes /\ p.kind = "packet" /\ p.cmd = cmd
  BY <1>1, <1>2, Zenon DEF p
<1>4. p \in Commands
  BY <1>3, Kinds, Zenon
<1>5. p.cmd \in Names
  <2>1. p.cmd \in {"Z0", "z0", "P", "c", "s", "k", "g", "?"}
    BY <1>4, Kinds, Zenon
  <2> QED  BY <2>1 DEF Names
<1> QED  BY <1>1, <1>2, <1>3, <1>4, <1>5, Zenon DEF p

\* The parts of the record of the stub.
LEMMA StubParts ==
  ASSUME Typed
  PROVE  /\ g.active \in BOOLEAN /\ g.stepping \in BOOLEAN /\ g.halted_for_gdb \in BOOLEAN
         /\ g.bp \in Seq(Addrs)
         /\ \A v : /\ [g EXCEPT !.bp = v].bp = v
                   /\ [g EXCEPT !.bp = v].active = g.active
                   /\ [g EXCEPT !.bp = v].stepping = g.stepping
         /\ \A s \in Seq(Addrs) : [g EXCEPT !.bp = s] \in
               [active : BOOLEAN, stepping : BOOLEAN, halted_for_gdb : BOOLEAN, bp : Seq(Addrs)]
BY DEF Typed

\* and of the debugger.
LEMMA ClientParts ==
  ASSUME Typed
  PROVE  /\ client.state \in {"prompt", "sent", "await", "running", "gone"}
         /\ client.sent \in Nat /\ client.asked \in Commands /\ client.breaks \in [Addrs -> Nat]
BY DEF Typed

\* Serving keeps the types.
LEMMA ServeTyped == Typed /\ Serve => Typed'
<1> SUFFICES ASSUME Typed, Serve PROVE Typed'
  OBVIOUS
<1> DEFINE Stubs == [active : BOOLEAN, stepping : BOOLEAN, halted_for_gdb : BOOLEAN, bp : Seq(Addrs)]
<1>1. CASE ReadAck
  <2>1. inbox' \in Seq(Bytes)
    BY <1>1, Parts, Zenon DEF ReadAck, Typed
  <2> QED  BY <1>1, <2>1 DEF ReadAck, Typed, Phases
<1>2. CASE SkipByte
  <2>1. inbox' \in Seq(Bytes)
    BY <1>2, Parts, Zenon DEF SkipByte, Arrived, Typed
  <2> QED  BY <1>2, <2>1 DEF SkipByte, core, Typed, Phases
<1>3. CASE Interrupted
  <2>1. inbox' \in Seq(Bytes)
    BY <1>3, Parts, Zenon DEF Interrupted, Arrived, Typed
  <2>2. outbox' \in Seq(Replies)
    BY <1>3, Sending DEF Interrupted, Typed, Names, Texts
  <2> QED  BY <1>3, <2>1, <2>2 DEF Interrupted, Typed, Phases
<1>4. ASSUME NEW cmd, Received(cmd), NEW text \in Texts, Answered(text)
      PROVE  /\ inbox' \in Seq(Bytes) /\ outbox' \in Seq(Replies) /\ phase' = "ack"
             /\ UNCHANGED <<halted, back, i, total, resumed, client>>
  <2>1. inbox' \in Seq(Bytes) /\ Head(inbox).cmd = cmd /\ cmd \in Names
    BY <1>4, Arrival
  <2>2. Sent(Answer(cmd, text))
    BY <1>4, <2>1 DEF Answered
  <2>3. outbox' \in Seq(Replies)
    BY <2>1, <2>2, Answering DEF Typed
  <2> QED  BY <1>4, <2>1, <2>3 DEF Answered
<1>5. ASSUME inbox' \in Seq(Bytes), outbox' \in Seq(Replies), phase' = "ack",
             UNCHANGED <<halted, back, i, total, resumed, client>>,
             g' \in Stubs, pc' \in Addrs
      PROVE  Typed'
  BY <1>5 DEF Typed, Phases
<1>6. CASE Read
  <2>1. PICK cmd \in {"g", "?"} : Received(cmd) /\ Answered("data") /\ UNCHANGED <<g, pc>>
    BY <1>6 DEF Read
  <2>2. g' \in Stubs /\ pc' \in Addrs /\ "data" \in Texts
    BY <2>1 DEF Typed, Texts
  <2> QED  BY <1>4, <1>5, <2>1, <2>2
<1>7. CASE WriteReg
  <2>1. Received("P") /\ Answered("OK") /\ pc' = Asked /\ g' = g
    BY <1>7 DEF WriteReg
  <2>2. Head(inbox) \in Commands /\ Head(inbox).cmd = "P"
    BY <2>1, Arrival
  <2>3. g' \in Stubs /\ pc' \in Addrs /\ "OK" \in Texts
    BY <2>1, <2>2, Kinds DEF Typed, Texts, Asked
  <2> QED  BY <1>4, <1>5, <2>1, <2>3
<1>8. CASE SetBreak
  <2>1. Received("Z0") /\ pc' = pc
    BY <1>8 DEF SetBreak
  <2>2. Head(inbox) \in Commands /\ Head(inbox).cmd = "Z0"
    BY <2>1, Arrival
  <2>3. Asked \in Addrs
    BY <2>2, Kinds DEF Asked
  <2>4. Append(g.bp, Asked) \in Seq(Addrs) /\ pc' \in Addrs
    BY <2>1, <2>3, StubParts, OneMore DEF Typed
  <2>5. g' \in Stubs /\ (Answered("OK") \/ Answered("E16"))
    <3>1. \/ g' = [g EXCEPT !.bp = Append(g.bp, Asked)] /\ Answered("OK")
          \/ g' = g /\ Answered("E16")
      BY <1>8 DEF SetBreak
    <3>2. CASE g' = g
      BY <3>1, <3>2 DEF Typed
    <3>3. CASE g' = [g EXCEPT !.bp = Append(g.bp, Asked)]
      BY <3>1, <3>3, <2>4, StubParts, Zenon
    <3> QED  BY <3>1, <3>2, <3>3
  <2>6. "OK" \in Texts /\ "E16" \in Texts
    BY DEF Texts
  <2> QED  BY <1>4, <1>5, <2>1, <2>4, <2>5, <2>6
<1>9. CASE ClearBreak
  <2>1. Received("z0") /\ pc' = pc /\ Answered("OK") /\ g' = [g EXCEPT !.bp = Removed(g.bp, Asked)]
    BY <1>9 DEF ClearBreak
  <2>2. Removed(g.bp, Asked) \in Seq(Addrs)
    BY StubParts, RemovedParts, Zenon
  <2>3. g' \in Stubs /\ pc' \in Addrs /\ "OK" \in Texts
    <3>1. g' \in Stubs
      BY <2>1, <2>2, StubParts, Zenon
    <3> QED  BY <2>1, <3>1 DEF Typed, Texts
  <2> QED  BY <1>4, <1>5, <2>1, <2>3
<1>10. CASE Resume
  <2>1. PICK cmd \in Resuming :
          /\ Received(cmd) /\ Sent(NoAnswer)
          /\ g' = [g EXCEPT !.stepping = (cmd = "s"), !.halted_for_gdb = FALSE]
          /\ phase' = back
          /\ resumed' = [how |-> cmd, done |-> 0, at_start |-> back = "loop"]
          /\ UNCHANGED <<pc, halted, back, i, total, client>>
    BY <1>10 DEF Resume
  <2>2. inbox' \in Seq(Bytes) /\ outbox' \in Seq(Replies)
    BY <2>1, Arrival, Acknowledging DEF Typed
  <2>3. g' \in Stubs
    <3>1. (cmd = "s") \in BOOLEAN /\ g \in Stubs
      BY DEF Typed
    <3> QED  BY <2>1, <3>1
  <2>4. resumed' \in [how : {"none", "c", "s"}, done : 0 .. 2, at_start : BOOLEAN]
    BY <2>1 DEF Resuming
  <2> QED  BY <2>1, <2>2, <2>3, <2>4 DEF Typed, Phases
<1>11. g \in Stubs => [g EXCEPT !.active = FALSE] \in Stubs
  OBVIOUS
<1>12. CASE Kill
  <2>1. inbox' \in Seq(Bytes)
    BY <1>12, Arrival DEF Kill
  <2> QED  BY <1>11, <1>12, <2>1 DEF Kill, gdb_close, Typed, Phases
<1>13. CASE Lost
  BY <1>11, <1>13 DEF Lost, gdb_close, Typed, Phases
<1> QED  BY <1>1, <1>2, <1>3, <1>6, <1>7, <1>8, <1>9, <1>10, <1>12, <1>13 DEF Serve

\* Running keeps the types.
LEMMA RunTyped == Typed /\ Run => Typed'
<1> SUFFICES ASSUME Typed, Run PROVE Typed'
  OBVIOUS
<1>0. ASSUME NEW to, ServeStart(to) PROVE outbox' \in Seq(Replies) /\ phase' = "ack" /\ back' = to
  BY <1>0, Sending DEF ServeStart, Typed, Names, Texts
<1>1. CASE RunStart
  <2>1. outbox' \in Seq(Replies) /\ phase' \in Phases /\ back' \in {"loop", "turn"}
    BY <1>0, <1>1 DEF RunStart, Typed, Phases
  <2> QED  BY <1>1, <2>1 DEF RunStart, Typed
<1>2. CASE Stop
  <2>1. outbox' \in Seq(Replies) /\ phase' \in Phases /\ back' \in {"loop", "turn"}
    BY <1>0, <1>2 DEF Stop, Phases
  <2>2. g' \in [active : BOOLEAN, stepping : BOOLEAN, halted_for_gdb : BOOLEAN, bp : Seq(Addrs)]
    BY <1>2 DEF Stop, Typed
  <2> QED  BY <1>2, <2>1, <2>2 DEF Stop, Typed
<1>3. CASE GoOn
  BY <1>3 DEF GoOn, Typed, Phases
<1>4. CASE Turn
  BY <1>4 DEF Turn, Typed, Phases
<1>5. CASE Compiled
  BY <1>5 DEF Compiled, Typed, Phases
<1>6. ASSUME Counted
      PROVE  resumed' \in [how : {"none", "c", "s"}, done : 0 .. 2, at_start : BOOLEAN]
  <2> DEFINE d == IF resumed.done < 2 THEN resumed.done + 1 ELSE resumed.done
  <2>1. resumed \in [how : {"none", "c", "s"}, done : 0 .. 2, at_start : BOOLEAN]
    BY DEF Typed
  <2>2. d \in 0 .. 2
    BY <2>1
  <2>3. resumed' = [resumed EXCEPT !.done = d]
    BY <1>6 DEF Counted
  <2> HIDE DEF d
  <2> QED  BY <2>1, <2>2, <2>3
<1>7. pc \in Addrs /\ Flow(pc) \subseteq Addrs /\ Handlers \subseteq Addrs
  BY ProgramClosed DEF Typed
<1>8. CASE BlockInstr
  BY <1>6, <1>7, <1>8 DEF BlockInstr, Typed, Phases
<1>9. CASE ChainReturns
  BY <1>7, <1>9 DEF ChainReturns, Checked, Typed, Phases
<1>10. CASE ChainEmpty
  BY <1>10 DEF ChainEmpty, Typed, Phases
<1>11. CASE Interpret
  BY <1>6, <1>7, <1>11 DEF Interpret, Checked, Typed, Phases
<1>12. CASE InterpretFails
  BY <1>12 DEF InterpretFails, Typed, Phases
<1>13. CASE RunEnds
  BY <1>13 DEF RunEnds, Typed, Phases
<1> QED  BY <1>1, <1>2, <1>3, <1>4, <1>5, <1>8, <1>9, <1>10, <1>11, <1>12, <1>13 DEF Run

\* The debugger keeps the types.
LEMMA DebuggerTyped == Typed /\ (Ask \/ Break \/ Hear \/ Leave) => Typed'
<1> SUFFICES ASSUME Typed, Ask \/ Break \/ Hear \/ Leave PROVE Typed'
  OBVIOUS
<1> DEFINE Clients == [state : {"prompt", "sent", "await", "running", "gone"},
                       sent : Nat, asked : Commands, breaks : [Addrs -> Nat]]
<1>0. ASSUME client' \in Clients, inbox' \in Seq(Bytes), outbox' \in Seq(Replies), UNCHANGED core
      PROVE  Typed'
  BY <1>0 DEF core, Typed
<1>1. client \in Clients /\ inbox \in Seq(Bytes) /\ outbox \in Seq(Replies)
  BY DEF Typed
<1>2. CASE Ask
  <2>1. PICK p \in Commands :
           /\ inbox' = Append(inbox, p)
           /\ client' = [client EXCEPT !.sent = @ + 1, !.asked = p,
                                       !.state = IF p.cmd = "k" THEN "gone" ELSE "sent"]
           /\ UNCHANGED <<core, outbox>>
    BY <1>2 DEF Ask
  <2>2. inbox' \in Seq(Bytes)
    BY <1>1, <2>1, OneMore, Kinds
  <2>3. client' \in Clients
    <3> DEFINE st == IF p.cmd = "k" THEN "gone" ELSE "sent"
    <3>1. st \in {"prompt", "sent", "await", "running", "gone"}
      OBVIOUS
    <3>2. client' = [client EXCEPT !.sent = @ + 1, !.asked = p, !.state = st]
      BY <2>1
    <3> HIDE DEF st
    <3>3. client = [state |-> client.state, sent |-> client.sent, asked |-> client.asked,
                    breaks |-> client.breaks]
      BY <1>1
    <3>4. client' = [state |-> st, sent |-> client.sent + 1, asked |-> p, breaks |-> client.breaks]
      BY <3>2, <3>3, Zenon
    <3>5. client.sent + 1 \in Nat /\ client.breaks \in [Addrs -> Nat]
      BY <1>1
    <3> QED  BY <3>1, <3>4, <3>5
  <2> QED  BY <1>0, <1>1, <2>1, <2>2, <2>3
<1>3. CASE Break
  <2>2. inbox' \in Seq(Bytes)
    BY <1>1, <1>3, OneMore, Kinds DEF Break
  <2>3. client' \in Clients
    BY <1>1, <1>3 DEF Break
  <2> QED  BY <1>0, <1>1, <1>3, <2>2, <2>3 DEF Break
<1>4. CASE Hear
  <2> DEFINE m == Head(outbox)
  <2>1. outbox' \in Seq(Replies) /\ m \in Replies
    BY <1>1, <1>4, Parts DEF Hear
  <2>2. inbox' \in Seq(Bytes)
    <3>1. inbox' = inbox \/ inbox' = Append(inbox, Ack)
      BY <1>4, Zenon DEF Hear
    <3>2. Append(inbox, Ack) \in Seq(Bytes)
      BY <1>1, OneMore, Kinds
    <3> QED  BY <1>1, <3>1, <3>2
  <2>3. client.breaks \in [Addrs -> Nat] /\ client.asked \in Commands
    BY ClientParts
  <2>4. Known(client.asked, m) \in [Addrs -> Nat]
    <3>1. CASE client.asked.cmd = "Z0" /\ m.text = "OK"
      <4>1. client.asked.addr \in Addrs
        BY <2>3, <3>1, Kinds
      <4> QED  BY <2>3, <3>1, <4>1 DEF Known
    <3>2. CASE ~(client.asked.cmd = "Z0" /\ m.text = "OK") /\ client.asked.cmd = "z0"
      <4>1. client.asked.addr \in Addrs
        BY <2>3, <3>2, Kinds
      <4> QED  BY <2>3, <3>2, <4>1 DEF Known
    <3>3. CASE ~(client.asked.cmd = "Z0" /\ m.text = "OK") /\ client.asked.cmd # "z0"
      BY <2>3, <3>3 DEF Known
    <3> QED  BY <3>1, <3>2, <3>3
  <2>5. client' \in Clients
    <3> DEFINE b == Known(client.asked, m)
    <3>1. b \in [Addrs -> Nat]
      BY <2>4
    <3>2. \/ client' = client
          \/ client' = [client EXCEPT !.state = "running"]
          \/ client' = [client EXCEPT !.state = "await"]
          \/ client' = [client EXCEPT !.state = "prompt"]
          \/ client' = [client EXCEPT !.state = "prompt", !.breaks = b]
      BY <1>4 DEF Hear
    <3> HIDE DEF b
    <3> QED  BY <1>1, <3>1, <3>2
  <2>6. UNCHANGED core
    BY <1>4 DEF Hear
  <2> QED  BY <1>0, <2>1, <2>2, <2>5, <2>6
<1>5. CASE Leave
  <2>1. client' \in Clients
    BY <1>1, <1>5 DEF Leave
  <2> QED  BY <1>0, <1>1, <1>5, <2>1 DEF Leave
<1> QED  BY <1>2, <1>3, <1>4, <1>5

\* The types are kept.
LEMMA TypedStep == Typed /\ [Next]_vars => Typed'
<1> SUFFICES ASSUME Typed, [Next]_vars PROVE Typed'
  OBVIOUS
<1>1. CASE UNCHANGED vars
  BY <1>1 DEF vars, core, Typed
<1>2. CASE Next
  BY <1>2, ServeTyped, RunTyped, DebuggerTyped, Zenon DEF Next
<1> QED  BY <1>1, <1>2

-----------------------------------------------------------------------------
(* The conversation.                                                        *)

\* A byte that is read is no command, and leaves an acknowledgement before one.
LEMMA ByteRead ==
  ASSUME Typed, inbox # << >>, inbox' = Tail(inbox), Serving,
         phase' \in {"ack", "packet"},
         phase' = "ack" => Head(inbox) = CtrlC,
         Head(inbox).kind = "packet" => phase = "ack"
  PROVE  /\ CommandAt(0) => CommandAt(0)'
         /\ CommandAt(0) /\ Covered(Len(inbox)) => Covered(Len(inbox))'
         /\ \A n \in 1 .. Len(inbox) :
               CommandAt(n) /\ Covered(n - 1) =>
                   /\ n - 1 \in 1 .. Len(inbox') /\ CommandAt(n - 1)'
                   /\ Covered(n - 2)' /\ inbox'[n - 1] = inbox[n]
<1>1. /\ Len(inbox) \in Nat \ {0} /\ Head(inbox) = inbox[1] /\ Len(inbox') = Len(inbox) - 1
      /\ \A j \in 1 .. Len(inbox) - 1 : inbox'[j] = inbox[j + 1]
  BY Parts DEF Typed
<1>2. Ack.kind = "ack" /\ CtrlC.kind = "ctrlc"
  BY Kinds
<1>3. CommandAt(0) => CommandAt(0)'
  BY <1>1 DEF CommandAt
<1>4. ASSUME Covered(Len(inbox))
      PROVE  Covered(Len(inbox))'
  <2>1. inbox[Len(inbox)] = Ack
    BY <1>1, <1>4 DEF Covered
  <2>2. Len(inbox') > 0 => inbox'[Len(inbox')] = Ack
    BY <1>1, <2>1
  <2>3. phase' = "ack" => Len(inbox) # 1
    BY <1>1, <1>2, <2>1
  <2>4. phase' \in {"start", "ack"} => Len(inbox') > 0
    BY <1>1, <2>3
  <2> QED  BY <2>2, <2>4 DEF Covered
<1>5. ASSUME NEW n \in 1 .. Len(inbox), CommandAt(n), Covered(n - 1)
      PROVE  /\ n - 1 \in 1 .. Len(inbox') /\ CommandAt(n - 1)'
             /\ Covered(n - 2)' /\ inbox'[n - 1] = inbox[n]
  <2>1. inbox[n].kind = "packet"
    BY <1>5 DEF CommandAt
  <2>2. n # 1
    BY <1>1, <1>5, <2>1 DEF Covered
  <2>3. inbox[n - 1] = Ack
    BY <1>1, <1>5, <2>2 DEF Covered
  <2>4. n - 1 \in 1 .. Len(inbox') /\ inbox'[n - 1] = inbox[n]
    BY <1>1, <1>5, <2>2
  <2>5. CommandAt(n - 1)'
    <3> SUFFICES ASSUME NEW j \in 1 .. Len(inbox')
                 PROVE  inbox'[j].kind = "packet" <=> j = n - 1
      BY DEF CommandAt
    <3>1. j + 1 \in 1 .. Len(inbox) /\ inbox'[j] = inbox[j + 1]
      BY <1>1
    <3>2. inbox[j + 1].kind = "packet" <=> j + 1 = n
      BY <1>5, <3>1 DEF CommandAt
    <3> QED  BY <1>1, <3>1, <3>2
  <2>6. n - 2 > 0 => inbox'[n - 2] = Ack
    BY <1>1, <1>5, <2>3
  <2>7. phase' = "ack" => n - 2 > 0
    BY <1>1, <1>2, <1>5, <2>2, <2>3
  <2>8. Covered(n - 2)'
    BY <2>6, <2>7 DEF Covered
  <2> QED  BY <2>4, <2>5, <2>8
<1> QED  BY <1>3, <1>4, <1>5

\* One more byte for the stub.
LEMMA ByteSent ==
  ASSUME Typed, NEW p \in Bytes, inbox' = Append(inbox, p), phase' = phase
  PROVE  /\ Len(inbox) \in Nat /\ Len(inbox') = Len(inbox) + 1
         /\ inbox'[Len(inbox) + 1] = p
         /\ \A j \in 1 .. Len(inbox) : inbox'[j] = inbox[j]
         /\ p.kind = "packet" /\ CommandAt(0) => CommandAt(Len(inbox))'
         /\ \A n \in 0 .. Len(inbox) : /\ p.kind # "packet" /\ CommandAt(n) => CommandAt(n)'
                                       /\ Covered(n) => Covered(n)'
<1>1. /\ Len(inbox) \in Nat /\ Len(inbox') = Len(inbox) + 1
      /\ inbox'[Len(inbox) + 1] = p
      /\ \A j \in 1 .. Len(inbox) : inbox'[j] = inbox[j]
  BY OneMore DEF Typed
<1>2. p.kind = "packet" /\ CommandAt(0) => CommandAt(Len(inbox))'
  <2> SUFFICES ASSUME p.kind = "packet", CommandAt(0), NEW j \in 1 .. Len(inbox')
               PROVE  inbox'[j].kind = "packet" <=> j = Len(inbox) + 1
    BY <1>1 DEF CommandAt
  <2>1. CASE j = Len(inbox) + 1
    BY <1>1, <2>1
  <2>2. CASE j # Len(inbox) + 1
    <3>1. j \in 1 .. Len(inbox)
      BY <1>1, <2>2
    <3>2. inbox[j].kind # "packet"
      BY <3>1 DEF CommandAt
    <3> QED  BY <1>1, <2>2, <3>1, <3>2
  <2> QED  BY <2>1, <2>2
<1>3. ASSUME NEW n \in 0 .. Len(inbox)
      PROVE  /\ p.kind # "packet" /\ CommandAt(n) => CommandAt(n)'
             /\ Covered(n) => Covered(n)'
  <2>1. p.kind # "packet" /\ CommandAt(n) => CommandAt(n)'
    BY <1>1, <1>3 DEF CommandAt
  <2>2. Covered(n) => Covered(n)'
    BY <1>1, <1>3 DEF Covered
  <2> QED  BY <2>1, <2>2
<1> QED  BY <1>1, <1>2, <1>3

\* A packet from a stub that serves, or that reports a stop, moves no answer.
LEMMA PacketSent ==
  ASSUME Typed, NEW to \in Names, NEW text \in Texts, Sent(gdb_send(to, text)),
         phase' \in {"ack", "packet"}, phase # "start" => Serving \/ to = "stop", client' = client,
         NEW k \in 0 .. Len(outbox)
  PROVE  /\ k \in 0 .. Len(outbox')
         /\ AckAt(k) => AckAt(k)'
         /\ AnswerAfter(k) => AnswerAfter(k)'
<1>1. /\ Len(outbox) \in Nat /\ Len(outbox') = Len(outbox) + 1
      /\ \A j \in 1 .. Len(outbox) : outbox'[j] = outbox[j]
      /\ outbox'[Len(outbox) + 1] = Reply(to, text)
  BY Sending DEF Typed
<1>2. Reply(to, text) # Ack /\ Reply(to, text).to = to
  BY Kinds
<1>3. AckAt(k) => AckAt(k)'
  BY <1>1, <1>2 DEF AckAt
<1>4. AnswerAfter(k) => AnswerAfter(k)'
  <2> SUFFICES ASSUME AnswerAfter(k) PROVE AnswerAfter(k)'
    OBVIOUS
  <2>1. Serving'
    BY DEF Serving
  <2>2. k < Len(outbox) => outbox'[k + 1] = outbox[k + 1]
    BY <1>1
  <2>3. k = Len(outbox) => outbox'[k + 1].to = to
    BY <1>1, <1>2
  <2>4. CASE client.asked.cmd \in Resuming
    <3>1. k = Len(outbox) => to = "stop"
      BY <2>4 DEF AnswerAfter
    <3>2. k < Len(outbox) => outbox[k + 1].to = "stop"
      BY <2>4 DEF AnswerAfter
    <3>3. outbox'[k + 1].to = "stop" /\ k < Len(outbox')
      BY <1>1, <2>2, <2>3, <3>1, <3>2
    <3> QED  BY <2>1, <2>4, <3>3, <1>1 DEF AnswerAfter
  <2>5. CASE client.asked.cmd \notin Resuming
    <3>1. k < Len(outbox) /\ outbox[k + 1].to = client.asked.cmd
      BY <2>5 DEF AnswerAfter
    <3>2. k < Len(outbox') /\ outbox'[k + 1].to = client.asked.cmd
      BY <1>1, <2>2, <3>1
    <3> QED  BY <2>1, <2>5, <3>2 DEF AnswerAfter
  <2> QED  BY <2>4, <2>5
<1> QED  BY <1>1, <1>3, <1>4

\* A packet the debugger takes.
LEMMA PacketHeard ==
  ASSUME Typed, outbox # << >>, outbox' = Tail(outbox), phase' = phase,
         client'.asked = client.asked
  PROVE  /\ Head(outbox) = outbox[1] /\ Len(outbox) \in Nat \ {0}
         /\ Len(outbox') = Len(outbox) - 1
         /\ \A j \in 1 .. Len(outbox) - 1 : outbox'[j] = outbox[j + 1]
         /\ AckAt(0) => AckAt(0)' /\ Head(outbox) # Ack
         /\ \A k \in 1 .. Len(outbox) :
               /\ AckAt(k) => AckAt(k - 1)' /\ (Head(outbox) = Ack <=> k = 1)
               /\ AnswerAfter(k) => AnswerAfter(k - 1)'
<1>1. /\ Head(outbox) = outbox[1] /\ Len(outbox) \in Nat \ {0}
      /\ Len(outbox') = Len(outbox) - 1
      /\ \A j \in 1 .. Len(outbox) - 1 : outbox'[j] = outbox[j + 1]
  BY Parts DEF Typed
<1>2. AckAt(0) => AckAt(0)' /\ Head(outbox) # Ack
  BY <1>1 DEF AckAt
<1>3. ASSUME NEW k \in 1 .. Len(outbox), AckAt(k)
      PROVE  AckAt(k - 1)' /\ (Head(outbox) = Ack <=> k = 1)
  <2>1. ASSUME NEW j \in 1 .. Len(outbox')
        PROVE  outbox'[j] = Ack <=> j = k - 1
    <3>1. j + 1 \in 1 .. Len(outbox) /\ outbox'[j] = outbox[j + 1]
      BY <1>1
    <3>2. outbox[j + 1] = Ack <=> j + 1 = k
      BY <1>3, <3>1 DEF AckAt
    <3> QED  BY <1>1, <3>1, <3>2
  <2> QED  BY <1>1, <1>3, <2>1 DEF AckAt
<1>4. ASSUME NEW k \in 1 .. Len(outbox), AnswerAfter(k)
      PROVE  AnswerAfter(k - 1)'
  <2>1. k < Len(outbox) => outbox'[k - 1 + 1] = outbox[k + 1]
    BY <1>1
  <2>2. Serving' = Serving /\ client'.asked.cmd = client.asked.cmd
    BY DEF Serving
  <2>3. (k < Len(outbox) <=> k - 1 < Len(outbox')) /\ (k = Len(outbox) <=> k - 1 = Len(outbox'))
    BY <1>1
  <2> QED  BY <1>4, <2>1, <2>2, <2>3, Zenon DEF AnswerAfter
<1> QED  BY <1>1, <1>2, <1>3, <1>4

\* A command that arrives is the one the debugger waits for.
LEMMA CommandArrives ==
  ASSUME Typed, client.state # "gone", Conversation, NEW cmd, Received(cmd)
  PROVE  /\ client.state = "sent" /\ OnItsWay /\ AckAt(0) /\ client.asked = Head(inbox)
         /\ client.asked.cmd = cmd /\ cmd # "k" /\ CommandAt(0)'
<1>1. /\ inbox[1] = Head(inbox) /\ inbox[1].kind = "packet" /\ inbox[1].cmd = cmd
      /\ Len(inbox) \in Nat \ {0} /\ Len(inbox') = Len(inbox) - 1
      /\ \A j \in 1 .. Len(inbox) - 1 : inbox'[j] = inbox[j + 1]
  <2>1. inbox # << >> /\ inbox' = Tail(inbox) /\ inbox \in Seq(Bytes)
    BY DEF Received, Typed
  <2> QED  BY <2>1, Arrival, Parts
<1>2. ~CommandAt(0)
  BY <1>1 DEF CommandAt
<1>3. client.state = "sent" /\ OnItsWay /\ client.asked.cmd # "k"
  BY <1>2, ClientParts DEF Conversation, Prompted, Acknowledged, Expecting
<1>4. PICK n \in 1 .. Len(inbox) : inbox[n] = client.asked /\ CommandAt(n) /\ AckAt(0)
  BY <1>3 DEF OnItsWay
<1>5. n = 1
  BY <1>1, <1>4 DEF CommandAt
<1>6. CommandAt(0)'
  <2> SUFFICES ASSUME NEW j \in 1 .. Len(inbox')
               PROVE  inbox'[j].kind # "packet"
    BY DEF CommandAt
  <2>1. j + 1 \in 1 .. Len(inbox) /\ inbox'[j] = inbox[j + 1] /\ j + 1 # 1
    BY <1>1
  <2> QED  BY <1>4, <1>5, <2>1 DEF CommandAt
<1> QED  BY <1>1, <1>3, <1>4, <1>5, <1>6

\* Reading a byte.
LEMMA ReadKeeps ==
  ASSUME Typed, client.state # "gone", Conversation, ReadAck \/ SkipByte
  PROVE  Conversation'
<1>1. /\ inbox # << >> /\ inbox' = Tail(inbox) /\ outbox' = outbox /\ client' = client
      /\ Serving /\ Serving' /\ phase' = "packet"
      /\ Head(inbox).kind = "packet" => phase = "ack"
  BY Kinds DEF ReadAck, SkipByte, Closed, Arrived, core, Serving
<1>2. /\ CommandAt(0) => CommandAt(0)'
      /\ CommandAt(0) /\ Covered(Len(inbox)) => Covered(Len(inbox))'
      /\ \A n \in 1 .. Len(inbox) :
            CommandAt(n) /\ Covered(n - 1) =>
                /\ n - 1 \in 1 .. Len(inbox') /\ CommandAt(n - 1)'
                /\ Covered(n - 2)' /\ inbox'[n - 1] = inbox[n]
  BY <1>1, ByteRead
<1>3. \A k \in Nat : (AckAt(k) => AckAt(k)') /\ (AnswerAfter(k) => AnswerAfter(k)')
  BY <1>1 DEF AckAt, AnswerAfter, Serving
<1>4. AckAt(0) => AckAt(0)'
  BY <1>3
<1>5. Listening'
  BY <1>1 DEF Listening, Serving
<1>6. Prompted => Prompted'
  BY <1>2, <1>4, <1>5 DEF Prompted
<1>7. OnItsWay => OnItsWay'
  <2> SUFFICES ASSUME NEW n \in 1 .. Len(inbox), inbox[n] = client.asked,
                      CommandAt(n), Covered(n - 1), AckAt(0)
               PROVE  OnItsWay'
    BY DEF OnItsWay
  <2>1. /\ n - 1 \in 1 .. Len(inbox') /\ CommandAt(n - 1)'
        /\ Covered(n - 2)' /\ inbox'[n - 1] = client'.asked
    BY <1>1, <1>2
  <2>2. PICK m : m = n - 1
    OBVIOUS
  <2>3. m - 1 = n - 2
    BY <2>2
  <2>4. m \in 1 .. Len(inbox') /\ CommandAt(m)' /\ Covered(m - 1)' /\ inbox'[m] = client'.asked
    BY <2>1, <2>2, <2>3, Zenon
  <2> QED  BY <1>4, <1>5, <2>4 DEF OnItsWay
<1>8. Acknowledged => Acknowledged'
  <2> SUFFICES ASSUME CommandAt(0), NEW k \in 1 .. Len(outbox), AckAt(k), AnswerAfter(k)
               PROVE  Acknowledged'
    BY DEF Acknowledged
  <2>1. AckAt(k)' /\ AnswerAfter(k)' /\ k \in 1 .. Len(outbox')
    BY <1>1, <1>3
  <2> QED  BY <1>2, <2>1 DEF Acknowledged
<1>9. Expecting => Expecting'
  BY <1>2, <1>3 DEF Expecting
<1> QED  BY <1>1, <1>6, <1>7, <1>8, <1>9, Zenon DEF Conversation

\* A packet that the stub sends unasked, while it serves or as it begins to;
\* before it the stub may have taken an interrupt byte.
LEMMA ReportKeeps ==
  ASSUME Typed, client.state # "gone", Conversation,
         NEW to \in Names, NEW text \in Texts, Sent(gdb_send(to, text)),
         phase' = "ack", client' = client,
         \/ phase = "packet" /\ inbox # << >> /\ Head(inbox) = CtrlC /\ inbox' = Tail(inbox)
         \/ ~Serving /\ to = "stop" /\ inbox' = inbox
  PROVE  Conversation'
<1>1. Serving' /\ Listening' /\ phase' \in {"ack", "packet"}
  BY DEF Serving, Listening
<1>2. \A k \in 0 .. Len(outbox) : /\ k \in 0 .. Len(outbox')
                                  /\ AckAt(k) => AckAt(k)'
                                  /\ AnswerAfter(k) => AnswerAfter(k)'
  <2>1. phase # "start" => Serving \/ to = "stop"
    BY DEF Serving
  <2> QED  BY <1>1, <2>1, PacketSent
<1>3. Len(outbox) \in Nat /\ 0 \in 0 .. Len(outbox)
  BY LenProperties DEF Typed
<1>4. /\ CommandAt(0) => CommandAt(0)'
      /\ Prompted => Covered(Len(inbox))'
      /\ OnItsWay => \E m \in 1 .. Len(inbox') :
                        inbox'[m] = client'.asked /\ CommandAt(m)' /\ Covered(m - 1)'
  <2>1. CASE phase = "packet" /\ inbox # << >> /\ Head(inbox) = CtrlC /\ inbox' = Tail(inbox)
    <3>1. /\ CommandAt(0) => CommandAt(0)'
          /\ CommandAt(0) /\ Covered(Len(inbox)) => Covered(Len(inbox))'
          /\ \A n \in 1 .. Len(inbox) :
                CommandAt(n) /\ Covered(n - 1) =>
                    /\ n - 1 \in 1 .. Len(inbox') /\ CommandAt(n - 1)'
                    /\ Covered(n - 2)' /\ inbox'[n - 1] = inbox[n]
      <4>1. Serving /\ (Head(inbox).kind = "packet" => phase = "ack")
        BY <2>1, Kinds DEF Serving
      <4> QED  BY <1>1, <2>1, <4>1, ByteRead
    <3>2. ASSUME OnItsWay
          PROVE  \E m \in 1 .. Len(inbox') :
                    inbox'[m] = client'.asked /\ CommandAt(m)' /\ Covered(m - 1)'
      <4>1. PICK n \in 1 .. Len(inbox) : inbox[n] = client.asked /\ CommandAt(n) /\ Covered(n - 1)
        BY <3>2 DEF OnItsWay
      <4>2. PICK m : m = n - 1
        OBVIOUS
      <4>3. m - 1 = n - 2
        BY <4>2
      <4>4. m \in 1 .. Len(inbox') /\ CommandAt(m)' /\ Covered(m - 1)' /\ inbox'[m] = client'.asked
        BY <3>1, <4>1, <4>2, <4>3, Zenon
      <4> QED  BY <4>4
    <3> QED  BY <3>1, <3>2 DEF Prompted
  <2>2. CASE ~Serving /\ to = "stop" /\ inbox' = inbox
    <3>1. CommandAt(0) => CommandAt(0)'
      BY <2>2 DEF CommandAt
    <3>2. \A n \in Nat : Covered(n) /\ phase = "start" => Covered(n)'
      BY <2>2 DEF Covered
    <3>3. Len(inbox) \in Nat
      BY LenProperties DEF Typed
    <3>4. Prompted => Covered(Len(inbox))'
      BY <2>2, <3>3 DEF Prompted, Covered, Listening
    <3>5. ASSUME OnItsWay
          PROVE  \E m \in 1 .. Len(inbox') :
                    inbox'[m] = client'.asked /\ CommandAt(m)' /\ Covered(m - 1)'
      <4>1. PICK n \in 1 .. Len(inbox) : inbox[n] = client.asked /\ CommandAt(n) /\ Covered(n - 1)
                                         /\ Listening
        BY <3>5 DEF OnItsWay
      <4>2. n - 1 \in Nat /\ phase = "start"
        BY <2>2, <4>1 DEF Listening
      <4>3. Covered(n - 1)'
        BY <3>2, <4>1, <4>2
      <4>4. CommandAt(n)'
        BY <2>2, <4>1 DEF CommandAt
      <4> QED  BY <2>2, <4>1, <4>3, <4>4
    <3> QED  BY <3>1, <3>4, <3>5
  <2> QED  BY <2>1, <2>2
<1>5. Prompted => Prompted'
  BY <1>1, <1>2, <1>3, <1>4 DEF Prompted
<1>6. OnItsWay => OnItsWay'
  <2> SUFFICES ASSUME OnItsWay PROVE OnItsWay'
    OBVIOUS
  <2>1. AckAt(0)'
    BY <1>2, <1>3 DEF OnItsWay
  <2> QED  BY <1>1, <1>4, <2>1 DEF OnItsWay
<1>7. Acknowledged => Acknowledged'
  <2> SUFFICES ASSUME CommandAt(0), NEW k \in 1 .. Len(outbox), AckAt(k), AnswerAfter(k)
               PROVE  Acknowledged'
    BY DEF Acknowledged
  <2>1. k \in 0 .. Len(outbox) /\ k \in 1 .. Len(outbox)
    BY <1>3
  <2>2. k \in 0 .. Len(outbox') /\ AckAt(k)' /\ AnswerAfter(k)'
    BY <1>2, <2>1
  <2>3. k \in 1 .. Len(outbox')
    BY <2>1, <2>2
  <2> QED  BY <1>4, <2>2, <2>3 DEF Acknowledged
<1>8. Expecting => Expecting'
  BY <1>2, <1>3, <1>4 DEF Expecting
<1> QED  BY <1>5, <1>6, <1>7, <1>8, Zenon DEF Conversation

\* A program that runs.
LEMMA QuietKeeps ==
  ASSUME Typed, client.state # "gone", Conversation,
         UNCHANGED <<inbox, outbox, client>>,
         phase \notin {"start", "ack", "packet"}, phase' \notin {"start", "ack", "packet"}
  PROVE  Conversation'
<1>1. ~Listening /\ ~Serving /\ ~Serving' /\ phase # "start" /\ phase' # "start"
  BY DEF Listening, Serving
<1>2. \A k : (AckAt(k) => AckAt(k)') /\ (CommandAt(k) => CommandAt(k)')
  BY DEF AckAt, CommandAt
<1>3. \A k : AnswerAfter(k) => AnswerAfter(k)'
  BY <1>1, Zenon DEF AnswerAfter
<1>4. ~Prompted /\ ~OnItsWay
  BY <1>1, Zenon DEF Prompted, OnItsWay
<1>5. (Acknowledged => Acknowledged') /\ (Expecting => Expecting')
  BY <1>2, <1>3, Zenon DEF Acknowledged, Expecting
<1> QED  BY <1>4, <1>5, Zenon DEF Conversation

\* A command that is answered.
LEMMA AnswerKeeps ==
  ASSUME Typed, client.state # "gone", Conversation,
         NEW cmd \in Names \ (Resuming \union {"k"}), Received(cmd), NEW text \in Texts, Answered(text)
  PROVE  Conversation' /\ client.state = "sent" /\ client.asked = Head(inbox)
         /\ AckAt(0) /\ outbox'[Len(outbox) + 1] = Ack /\ Len(outbox) \in Nat
         /\ Len(outbox) + 1 \in 1 .. Len(outbox')
         /\ outbox'[Len(outbox) + 2].text = text
<1>1. client.state = "sent" /\ AckAt(0) /\ client.asked = Head(inbox) /\ client.asked.cmd = cmd
      /\ CommandAt(0)'
  BY CommandArrives
<1>2. Sent(Answer(cmd, text)) /\ phase' = "ack" /\ client' = client
  BY <1>1 DEF Answered
<1>3. /\ Len(outbox) \in Nat /\ Len(outbox') = Len(outbox) + 2
      /\ \A j \in 1 .. Len(outbox) : outbox'[j] = outbox[j]
      /\ outbox'[Len(outbox) + 1] = Ack
      /\ outbox'[Len(outbox) + 2] = Reply(cmd, text)
  BY <1>2, Answering DEF Typed
<1>4. Reply(cmd, text) # Ack /\ Reply(cmd, text).to = cmd /\ Reply(cmd, text).text = text
  BY Kinds
<1>5. PICK k : k = Len(outbox) + 1
  OBVIOUS
<1>6. k \in 1 .. Len(outbox') /\ AckAt(k)'
  BY <1>1, <1>3, <1>4, <1>5 DEF AckAt
<1>7. AnswerAfter(k)'
  BY <1>1, <1>2, <1>3, <1>4, <1>5 DEF AnswerAfter, Serving
<1>8. Acknowledged'
  BY <1>1, <1>6, <1>7 DEF Acknowledged
<1>9. Conversation'
  BY <1>1, <1>2, <1>8 DEF Conversation
<1> QED  BY <1>1, <1>3, <1>4, <1>5, <1>6, <1>9

\* A command that resumes the program.
LEMMA ResumeKeeps ==
  ASSUME Typed, client.state # "gone", Conversation, Resume
  PROVE  Conversation' /\ client.state = "sent" /\ AckAt(0)
         /\ outbox'[Len(outbox) + 1] = Ack /\ Len(outbox') = Len(outbox) + 1 /\ Len(outbox) \in Nat
         /\ client.asked.cmd \in Resuming
<1>1. PICK cmd \in Resuming : Received(cmd) /\ Sent(NoAnswer) /\ phase' = back /\ client' = client
  BY DEF Resume
<1>2. client.state = "sent" /\ AckAt(0) /\ client.asked.cmd = cmd /\ cmd # "k" /\ CommandAt(0)'
  BY <1>1, CommandArrives
<1>3. /\ Len(outbox) \in Nat /\ Len(outbox') = Len(outbox) + 1
      /\ \A j \in 1 .. Len(outbox) : outbox'[j] = outbox[j]
      /\ outbox'[Len(outbox) + 1] = Ack
  BY <1>1, Acknowledging DEF Typed
<1>4. PICK k : k = Len(outbox) + 1
  OBVIOUS
<1>5. k \in 1 .. Len(outbox') /\ AckAt(k)'
  BY <1>2, <1>3, <1>4 DEF AckAt
<1>6. AnswerAfter(k)'
  BY <1>1, <1>2, <1>3, <1>4 DEF AnswerAfter, Serving, Typed
<1>7. Acknowledged'
  BY <1>2, <1>5, <1>6 DEF Acknowledged
<1>8. Conversation'
  BY <1>1, <1>2, <1>7 DEF Conversation
<1> QED  BY <1>1, <1>2, <1>3, <1>8

\* What the debugger hears, state by state: an acknowledgement, and what it
\* passes over before that; an answer or the report of a stop.
LEMMA HearKeeps ==
  ASSUME Typed, client.state # "gone", Conversation, Hear
  PROVE  Conversation'
<1> DEFINE m == Head(outbox)
<1>1. /\ outbox # << >> /\ outbox' = Tail(outbox) /\ UNCHANGED core
      /\ client.state \in {"sent", "await", "running"}
  BY DEF Hear
<1>2. phase' = phase /\ g' = g /\ client \in [state : {"prompt", "sent", "await", "running", "gone"},
                   sent : Nat, asked : Commands, breaks : [Addrs -> Nat]]
  BY <1>1 DEF core, Typed
<1>3. client'.asked = client.asked
  <2>1. \/ client' = client
        \/ \E s, b : client' = [client EXCEPT !.state = s, !.breaks = b]
        \/ \E s : client' = [client EXCEPT !.state = s]
    BY Zenon DEF Hear
  <2> QED  BY <1>2, <2>1
<1>4. /\ m = outbox[1] /\ Len(outbox) \in Nat \ {0}
      /\ Len(outbox') = Len(outbox) - 1
      /\ AckAt(0) => AckAt(0)' /\ m # Ack
      /\ \A k \in 1 .. Len(outbox) :
            /\ AckAt(k) => AckAt(k - 1)' /\ (m = Ack <=> k = 1)
            /\ AnswerAfter(k) => AnswerAfter(k - 1)'
  BY <1>1, <1>2, <1>3, PacketHeard
<1>5. inbox \in Seq(Bytes) /\ Ack \in Bytes /\ Ack.kind # "packet" /\ Len(inbox) \in Nat
  BY Kinds, LenProperties DEF Typed
<1>6. ASSUME inbox' = Append(inbox, Ack)
      PROVE  /\ Len(inbox') = Len(inbox) + 1 /\ inbox'[Len(inbox) + 1] = Ack
             /\ \A j \in 1 .. Len(inbox) : inbox'[j] = inbox[j]
             /\ \A n \in 0 .. Len(inbox) : /\ CommandAt(n) => CommandAt(n)'
                                           /\ Covered(n) => Covered(n)'
  BY <1>2, <1>5, <1>6, ByteSent
<1>7. Listening => Listening'
  BY <1>2 DEF Listening, Serving
<1>8. CASE client.state = "sent" /\ OnItsWay
  <2>1. PICK n \in 1 .. Len(inbox) : /\ inbox[n] = client.asked /\ CommandAt(n)
                                     /\ Covered(n - 1) /\ AckAt(0) /\ Listening
    BY <1>8 DEF OnItsWay
  <2>2. m # Ack
    BY <1>4, <2>1
  <2>3. inbox' = Append(inbox, Ack) /\ client' = client
    BY <1>8, <2>2 DEF Hear
  <2>4. n \in 0 .. Len(inbox) /\ n - 1 \in 0 .. Len(inbox) /\ n \in 1 .. Len(inbox')
    BY <1>5, <1>6, <2>3
  <2>5. inbox'[n] = client'.asked /\ CommandAt(n)' /\ Covered(n - 1)'
    BY <1>6, <2>1, <2>3, <2>4
  <2>6. OnItsWay'
    BY <1>4, <1>7, <2>1, <2>4, <2>5 DEF OnItsWay
  <2> QED  BY <1>8, <2>3, <2>6 DEF Conversation
<1>9. CASE client.state = "sent" /\ Acknowledged
  <2>1. PICK k \in 1 .. Len(outbox) : AckAt(k) /\ AnswerAfter(k)
    BY <1>9 DEF Acknowledged
  <2>2. PICK l : l = k - 1
    OBVIOUS
  <2>3. AckAt(l)' /\ AnswerAfter(l)' /\ (m = Ack <=> k = 1)
    BY <1>4, <2>1, <2>2, Zenon
  <2>4. CommandAt(0) /\ client.asked.cmd # "k"
    BY <1>9 DEF Acknowledged, Conversation
  <2>5. CASE k = 1
    <3>1. m = Ack /\ l = 0
      BY <2>2, <2>3, <2>5
    <3>2. /\ inbox' = inbox
          /\ client' = [client EXCEPT !.state = IF client.asked.cmd \in Resuming
                                                THEN "running" ELSE "await"]
      BY <1>9, <3>1 DEF Hear
    <3>3. Expecting'
      BY <2>3, <2>4, <3>1, <3>2 DEF Expecting, CommandAt
    <3>4. client'.state = IF client.asked.cmd \in Resuming THEN "running" ELSE "await"
      BY <1>2, <3>2
    <3> QED  BY <1>3, <2>4, <3>3, <3>4 DEF Conversation
  <2>6. CASE k # 1
    <3>1. m # Ack /\ l \in 1 .. Len(outbox')
      BY <1>4, <2>2, <2>3, <2>6
    <3>2. inbox' = Append(inbox, Ack) /\ client' = client
      BY <1>9, <3>1 DEF Hear
    <3>3. CommandAt(0)'
      BY <1>5, <1>6, <2>4, <3>2
    <3>4. Acknowledged'
      BY <2>3, <3>1, <3>3 DEF Acknowledged
    <3> QED  BY <1>9, <2>4, <3>2, <3>4 DEF Conversation
  <2> QED  BY <2>5, <2>6
<1>10. CASE client.state \in {"await", "running"}
  <2>1. Expecting
    BY <1>10 DEF Conversation
  <2>2. m # Ack /\ AckAt(0)' /\ CommandAt(0)
    BY <1>4, <2>1 DEF Expecting
  <2>3. inbox' = Append(inbox, Ack)
    BY <2>2 DEF Hear
  <2>4. CommandAt(0)' /\ Len(inbox') = Len(inbox) + 1 /\ inbox'[Len(inbox) + 1] = Ack
    BY <1>5, <1>6, <2>2, <2>3
  <2>5. Covered(Len(inbox))'
    BY <1>5, <2>4 DEF Covered
  <2>6. Serving
    BY <1>4, <1>10, <2>1 DEF Expecting, AnswerAfter, Conversation
  <2>7. Listening'
    BY <1>2, <2>6 DEF Listening, Serving
  <2>8. client'.state = "prompt"
    <3>1. \/ client' = [client EXCEPT !.state = "prompt"]
          \/ \E b : client' = [client EXCEPT !.state = "prompt", !.breaks = b]
      BY <1>10, <2>2, Zenon DEF Hear
    <3> QED  BY <1>2, <3>1
  <2>9. Prompted'
    BY <2>2, <2>4, <2>5, <2>7 DEF Prompted
  <2> QED  BY <2>8, <2>9 DEF Conversation
<1> QED  BY <1>1, <1>8, <1>9, <1>10 DEF Conversation

\* A command that the debugger sends.
LEMMA AskKeeps ==
  ASSUME Typed, client.state # "gone", Conversation, Ask
  PROVE  client'.state = "gone" \/ Conversation'
<1>1. PICK p \in Commands :
         /\ inbox' = Append(inbox, p)
         /\ client' = [client EXCEPT !.sent = @ + 1, !.asked = p,
                                     !.state = IF p.cmd = "k" THEN "gone" ELSE "sent"]
         /\ UNCHANGED <<core, outbox>> /\ client.state = "prompt"
  BY DEF Ask
<1>2. client \in [state : {"prompt", "sent", "await", "running", "gone"},
                   sent : Nat, asked : Commands, breaks : [Addrs -> Nat]]
  BY DEF Typed
<1>3. client'.asked = p /\ client'.state = IF p.cmd = "k" THEN "gone" ELSE "sent"
  <2> DEFINE st == IF p.cmd = "k" THEN "gone" ELSE "sent"
  <2>1. client' = [client EXCEPT !.sent = @ + 1, !.asked = p, !.state = st]
    BY <1>1
  <2> HIDE DEF st
  <2>2. client = [state |-> client.state, sent |-> client.sent, asked |-> client.asked,
                  breaks |-> client.breaks]
    BY <1>2
  <2>3. client' = [state |-> st, sent |-> client.sent + 1, asked |-> p, breaks |-> client.breaks]
    BY <2>1, <2>2, Zenon
  <2>4. client'.asked = p /\ client'.state = st
    BY <2>3
  <2> QED  BY <2>4 DEF st
<1>4. p \in Bytes /\ p.kind = "packet" /\ phase' = phase /\ g' = g
  BY <1>1, Kinds DEF core
<1>5. Prompted
  BY <1>1 DEF Conversation
<1>6. /\ Len(inbox) \in Nat /\ Len(inbox') = Len(inbox) + 1
      /\ inbox'[Len(inbox) + 1] = p
      /\ CommandAt(Len(inbox))'
      /\ \A n \in 0 .. Len(inbox) : Covered(n) => Covered(n)'
  BY <1>1, <1>4, <1>5, ByteSent DEF Prompted
<1>7. PICK n : n = Len(inbox) + 1
  OBVIOUS
<1>8. n \in 1 .. Len(inbox') /\ inbox'[n] = client'.asked /\ CommandAt(n)'
  BY <1>3, <1>6, <1>7
<1>9. Covered(n - 1)'
  <2>1. PICK l : l = Len(inbox)
    OBVIOUS
  <2>2. Covered(l) /\ l \in 0 .. Len(inbox) /\ l = n - 1
    BY <1>5, <1>6, <1>7, <2>1 DEF Prompted
  <2>3. Covered(l)'
    BY <1>6, <2>2
  <2> QED  BY <2>2, <2>3
<1>10. AckAt(0)' /\ Listening'
  BY <1>1, <1>4, <1>5 DEF Prompted, AckAt, Listening, Serving
<1>11. OnItsWay'
  BY <1>8, <1>9, <1>10 DEF OnItsWay
<1> QED  BY <1>3, <1>11 DEF Conversation

\* An interrupt byte.
LEMMA BreakKeeps ==
  ASSUME Typed, client.state # "gone", Conversation, Break
  PROVE  Conversation'
<1>1. /\ inbox' = Append(inbox, CtrlC) /\ client.state = "running"
      /\ client' = [client EXCEPT !.sent = @ + 1] /\ UNCHANGED <<core, outbox>>
  BY DEF Break
<1>2. client'.state = "running" /\ client'.asked = client.asked /\ phase' = phase
  BY <1>1 DEF Typed, core
<1>3. Expecting /\ client.asked.cmd \in Resuming
  BY <1>1 DEF Conversation
<1>4. CommandAt(0)'
  <2>1. CtrlC \in Bytes /\ CtrlC.kind # "packet" /\ 0 \in 0 .. Len(inbox)
    BY Kinds, LenProperties DEF Typed
  <2> QED  BY <1>1, <1>2, <1>3, <2>1, ByteSent DEF Expecting
<1>5. AckAt(0)' /\ AnswerAfter(0)'
  BY <1>1, <1>2, <1>3 DEF Expecting, AckAt, AnswerAfter, Serving
<1> QED  BY <1>2, <1>3, <1>4, <1>5 DEF Conversation, Expecting

\* Every step leaves the conversation in step.
LEMMA ConversationKept ==
  ASSUME Typed, client.state # "gone", Conversation, Next
  PROVE  client'.state = "gone" \/ Conversation'
<1>1. CASE ReadAck \/ SkipByte
  BY <1>1, ReadKeeps
<1>2. CASE Interrupted
  <2>1. /\ Sent(gdb_send("int", "")) /\ "int" \in Names /\ "" \in Texts
        /\ phase' = "ack" /\ client' = client /\ phase = "packet"
        /\ inbox # << >> /\ Head(inbox) = CtrlC /\ inbox' = Tail(inbox)
    BY <1>2 DEF Interrupted, Arrived, Names, Texts
  <2> QED  BY <2>1, ReportKeeps
<1>3. CASE Read \/ WriteReg \/ SetBreak \/ ClearBreak
  <2>1. \E cmd \in {"g", "?", "P", "Z0", "z0"}, text \in {"data", "OK", "E16"} :
           Received(cmd) /\ Answered(text)
    BY <1>3, Zenon DEF Read, WriteReg, SetBreak, ClearBreak
  <2>2. {"g", "?", "P", "Z0", "z0"} \subseteq Names \ (Resuming \union {"k"})
        /\ {"data", "OK", "E16"} \subseteq Texts
    BY DEF Names, Texts, Resuming
  <2> QED  BY <2>1, <2>2, AnswerKeeps
<1>4. CASE Resume
  BY <1>4, ResumeKeeps
<1>5. CASE Kill
  BY <1>5, CommandArrives DEF Kill
<1>6. CASE Lost
  BY <1>6 DEF Lost, Closed
<1>7. ASSUME ServeStart(back'), UNCHANGED <<inbox, client>>, ~Serving
      PROVE  Conversation'
  <2>1. /\ Sent(gdb_send("stop", "S05")) /\ "stop" \in Names /\ "S05" \in Texts
        /\ phase' = "ack" /\ client' = client /\ inbox' = inbox
    BY <1>7 DEF ServeStart, Names, Texts
  <2> QED  BY <1>7, <2>1, ReportKeeps
<1>8. CASE RunStart
  <2>1. phase = "start" /\ ~Serving /\ UNCHANGED <<inbox, client>>
    BY <1>8 DEF RunStart, Serving
  <2>2. g.active /\ g.halted_for_gdb
    BY <2>1, ClientParts DEF Conversation, Prompted, OnItsWay, Acknowledged, Expecting,
          AnswerAfter, Listening
  <2>3. ServeStart(back')
    BY <1>8, <2>2 DEF RunStart, ServeStart
  <2> QED  BY <1>7, <2>1, <2>3
<1>9. CASE Stop
  <2>1. phase = "loop" /\ ~Serving /\ UNCHANGED <<inbox, client>> /\ ServeStart(back')
    BY <1>9 DEF Stop, Serving, ServeStart
  <2> QED  BY <1>7, <2>1
<1>10. CASE \/ GoOn \/ Turn \/ Compiled \/ BlockInstr \/ ChainReturns \/ ChainEmpty
            \/ Interpret \/ InterpretFails \/ RunEnds
  <2>1. /\ UNCHANGED <<inbox, outbox, client>>
        /\ phase \notin {"start", "ack", "packet"} /\ phase' \notin {"start", "ack", "packet"}
    BY <1>10 DEF GoOn, Turn, Compiled, BlockInstr, ChainReturns, ChainEmpty,
          Interpret, InterpretFails, RunEnds, Checked
  <2> QED  BY <2>1, QuietKeeps
<1>11. CASE Ask
  BY <1>11, AskKeeps
<1>12. CASE Break
  BY <1>12, BreakKeeps
<1>13. CASE Hear
  BY <1>13, HearKeeps
<1>14. CASE Leave
  BY <1>14 DEF Leave, Typed
<1> QED  BY <1>1, <1>2, <1>3, <1>4, <1>5, <1>6, <1>8, <1>9, <1>10, <1>11, <1>12, <1>13, <1>14
         DEF Next, Serve, Run

\* The debugger that has gone does not come back.
LEMMA GoneForGood == Typed /\ client.state = "gone" /\ [Next]_vars => client'.state = "gone"
<1> SUFFICES ASSUME Typed, client.state = "gone", [Next]_vars PROVE client'.state = "gone"
  OBVIOUS
<1>1. client' = client \/ Ask \/ Break \/ Hear \/ Leave
  BY Zenon DEF Next, vars, Serve, Run, ReadAck, SkipByte, Interrupted, Read, WriteReg, SetBreak,
       ClearBreak, Answered, Resume, Kill, Lost, RunStart, Stop, GoOn, Turn, Compiled, BlockInstr,
       ChainReturns, ChainEmpty, Interpret, InterpretFails, RunEnds
<1>2. ~Ask /\ ~Break /\ ~Hear /\ ~Leave
  BY DEF Ask, Break, Hear, Leave
<1> QED  BY <1>1, <1>2

LEMMA SyncStart == Init => SyncInv
<1> SUFFICES ASSUME Init PROVE SyncInv
  OBVIOUS
<1>1. PICK a \in BOOLEAN : g = [active |-> a, stepping |-> FALSE, halted_for_gdb |-> a, bp |-> << >>]
  BY DEF Init
<1>2. Packet("?", 0) \in Commands /\ << Ack >> \in Seq(Bytes) /\ << >> \in Seq(Replies)
  BY Kinds DEF Commands
<1>3. client = [state |-> IF a THEN "prompt" ELSE "gone", sent |-> 0,
                asked |-> Packet("?", 0), breaks |-> [b \in Addrs |-> 0]]
  BY <1>1 DEF Init
<1>4. Typed
  <2>1. g \in [active : BOOLEAN, stepping : BOOLEAN, halted_for_gdb : BOOLEAN, bp : Seq(Addrs)]
    BY <1>1
  <2>2. client \in [state : {"prompt", "sent", "await", "running", "gone"},
                    sent : Nat, asked : Commands, breaks : [Addrs -> Nat]]
    <3> DEFINE st == IF a THEN "prompt" ELSE "gone"
               none == [b \in Addrs |-> 0]
    <3>1. st \in {"prompt", "sent", "await", "running", "gone"} /\ none \in [Addrs -> Nat]
      OBVIOUS
    <3> HIDE DEF st, none
    <3>2. client = [state |-> st, sent |-> 0, asked |-> Packet("?", 0), breaks |-> none]
      BY <1>3 DEF st, none
    <3> QED  BY <1>2, <3>1, <3>2
  <2>3. resumed \in [how : {"none", "c", "s"}, done : 0 .. 2, at_start : BOOLEAN]
    BY DEF Init
  <2>4. inbox \in Seq(Bytes) /\ outbox \in Seq(Replies)
    BY <1>2, Zenon DEF Init
  <2>5. /\ pc \in Addrs /\ halted \in BOOLEAN /\ phase \in Phases /\ back \in {"loop", "turn"}
        /\ i \in Nat /\ total \in Nat
    BY DEF Init, Phases
  <2> QED  BY <2>1, <2>2, <2>3, <2>4, <2>5, Zenon DEF Typed
<1>5. CASE ~a
  BY <1>3, <1>4, <1>5 DEF SyncInv
<1>6. CASE a
  <2>1. client.state = "prompt"
    BY <1>3, <1>6
  <2>2. inbox = << Ack >> /\ outbox = << >> /\ phase = "start" /\ g.active /\ g.halted_for_gdb
    BY <1>1, <1>6 DEF Init
  <2>3. Len(inbox) = 1 /\ inbox[1] = Ack /\ Len(outbox) = 0 /\ Ack.kind = "ack"
    BY <2>2, Kinds
  <2>4. AckAt(0) /\ CommandAt(0) /\ Covered(Len(inbox)) /\ Listening
    BY <2>2, <2>3 DEF AckAt, CommandAt, Covered, Listening, Serving
  <2> QED  BY <1>4, <2>1, <2>4 DEF SyncInv, Conversation, Prompted
<1> QED  BY <1>5, <1>6

LEMMA SyncStep == SyncInv /\ [Next]_vars => SyncInv'
<1> SUFFICES ASSUME SyncInv, [Next]_vars PROVE SyncInv'
  OBVIOUS
<1>1. Typed /\ Typed'
  BY TypedStep DEF SyncInv
<1>2. CASE client.state = "gone"
  BY <1>1, <1>2, GoneForGood DEF SyncInv
<1>3. CASE client.state # "gone" /\ Next
  BY <1>1, <1>3, ConversationKept DEF SyncInv
<1>4. CASE client.state # "gone" /\ UNCHANGED vars
  <2>1. Conversation => Conversation'
    BY <1>4 DEF vars, core, Conversation, Prompted, OnItsWay, Acknowledged, Expecting, AckAt,
          CommandAt, Covered, Listening, Serving, AnswerAfter
  <2> QED  BY <1>1, <1>4, <2>1 DEF SyncInv
<1> QED  BY <1>2, <1>3, <1>4

\* The debugger takes every answer for that of its last command, and every
\* report of a stop for one, whatever it sends and whenever the stub reports
\* unasked (gdb.c:26-60, 158-286): for any number of packets and interrupt bytes.
THEOREM StaysInSync == Spec => []InSync
<1>1. SyncInv => InSync
  <2> SUFFICES ASSUME SyncInv, outbox # << >>, client.state \in {"await", "running"}
               PROVE  /\ client.state = "await" => Head(outbox).to = client.asked.cmd
                      /\ client.state = "running" => Head(outbox).to = "stop"
    BY Zenon DEF InSync
  <2>1. Expecting /\ (client.state = "await" <=> client.asked.cmd \notin Resuming)
    BY DEF SyncInv, Conversation
  <2>2. Head(outbox) = outbox[1] /\ Len(outbox) \in Nat \ {0} /\ AnswerAfter(0)
    BY <2>1, Parts DEF SyncInv, Typed, Expecting
  <2> QED  BY <2>1, <2>2 DEF AnswerAfter
<1> QED  BY SyncStart, SyncStep, <1>1, PTL DEF Spec

-----------------------------------------------------------------------------
(* Breakpoints on both sides.                                               *)

\* There is one acknowledgement at most, and none is a packet.
LEMMA OneAck ==
  ASSUME Typed, NEW k \in 1 .. Len(outbox), AckAt(k)
  PROVE  ~AckAt(0) /\ \A l \in 1 .. Len(outbox) : AckAt(l) => l = k
<1>1. outbox[k] = Ack /\ Len(outbox) \in Nat
  BY LenProperties DEF AckAt, Typed
<1> QED  BY <1>1 DEF AckAt

\* A command that resumes changes no breakpoint.
LEMMA ToldResuming ==
  ASSUME client.asked.cmd \notin {"Z0", "z0"}, NEW text, NEW a
  PROVE  Told(text, a) = client.breaks[a]
BY DEF Told

\* The acknowledgement, and an answer after it unless the program is resumed.
LEMMA AckPlace ==
  ASSUME Typed, Conversation, client.state = "sent", NEW k \in 1 .. Len(outbox), AckAt(k)
  PROVE  AnswerAfter(k) /\ (client.asked.cmd \notin Resuming => k < Len(outbox))
<1>1. Acknowledged
  BY OneAck DEF Conversation, OnItsWay
<1>2. PICK l \in 1 .. Len(outbox) : AckAt(l) /\ AnswerAfter(l)
  BY <1>1 DEF Acknowledged
<1>3. l = k
  BY <1>2, OneAck
<1> QED  BY <1>2, <1>3 DEF AnswerAfter

\* Steps that leave the table, the debugger and its packets alone.
LEMMA AgreeQuiet ==
  ASSUME Typed, BreaksAgree, UNCHANGED <<outbox, client>>, g'.bp = g.bp
  PROVE  BreaksAgree'
<1>1. SameBreaks => SameBreaks'
  BY Zenon DEF SameBreaks
<1>2. \A k : Agree(k) => Agree(k)'
  BY Zenon DEF Agree, Told
<1>3. \A k : AckAt(k)' => AckAt(k)
  BY DEF AckAt
<1> QED  BY <1>1, <1>2, <1>3, Zenon DEF BreaksAgree

\* A packet sent unasked.
LEMMA AgreeReport ==
  ASSUME Typed, client.state # "gone", Conversation, BreaksAgree,
         NEW to \in Names, NEW text \in Texts, Sent(gdb_send(to, text)),
         client' = client, g'.bp = g.bp
  PROVE  BreaksAgree'
<1>1. /\ Len(outbox) \in Nat /\ Len(outbox') = Len(outbox) + 1
      /\ \A j \in 1 .. Len(outbox) : outbox'[j] = outbox[j]
      /\ outbox'[Len(outbox) + 1] = Reply(to, text)
  BY Sending DEF Typed
<1>2. Reply(to, text) # Ack
  BY Kinds
<1>3. SameBreaks => SameBreaks'
  BY Zenon DEF SameBreaks
<1>4. ASSUME NEW k \in 0 .. Len(outbox), Agree(k), k < Len(outbox) \/ client.asked.cmd \in Resuming
      PROVE  Agree(k)'
  <2>1. CASE k < Len(outbox)
    <3>1. outbox'[k + 1] = outbox[k + 1]
      BY <1>1, <2>1
    <3> QED  BY <1>4, <3>1, Zenon DEF Agree, Told
  <2>2. CASE client.asked.cmd \in Resuming
    <3>1. client.asked.cmd \notin {"Z0", "z0"} /\ client'.asked.cmd \notin {"Z0", "z0"}
      BY <2>2 DEF Resuming
    <3>2. \A t, a : Told(t, a) = client.breaks[a] /\ Told(t, a)' = client.breaks[a]
      BY <3>1 DEF Told
    <3> QED  BY <1>4, <3>1, <3>2, Zenon DEF Agree, Told
  <2> QED  BY <1>4, <2>1, <2>2
<1>5. AckAt(0)' => AckAt(0)
  BY <1>1 DEF AckAt
<1>6. ASSUME NEW k \in 1 .. Len(outbox'), AckAt(k)'
      PROVE  k \in 1 .. Len(outbox) /\ AckAt(k)
  <2>1. outbox'[k] = Ack
    BY <1>6 DEF AckAt
  <2>2. k \in 1 .. Len(outbox)
    BY <1>1, <1>2, <2>1
  <2> QED  BY <1>1, <1>6, <2>2 DEF AckAt
<1>7. ASSUME client.state = "sent", NEW k \in 1 .. Len(outbox'), AckAt(k)'
      PROVE  Agree(k)'
  <2>1. k \in 1 .. Len(outbox) /\ AckAt(k) /\ k \in 0 .. Len(outbox)
    BY <1>1, <1>6, <1>7
  <2>2. k < Len(outbox) \/ client.asked.cmd \in Resuming
    BY <1>7, <2>1, AckPlace
  <2>3. Agree(k)
    BY <1>7, <2>1 DEF BreaksAgree
  <2> QED  BY <1>4, <2>1, <2>2, <2>3
<1>8. ASSUME client.state = "await"
      PROVE  Agree(0)'
  <2>1. Agree(0) /\ 0 < Len(outbox) /\ 0 \in 0 .. Len(outbox)
    BY <1>1, <1>8 DEF BreaksAgree, Conversation, Expecting, AnswerAfter
  <2> QED  BY <1>4, <2>1
<1> QED  BY <1>3, <1>5, <1>7, <1>8, Zenon DEF BreaksAgree

\* The place of the acknowledgement of a command just met.
LEMMA AgreeMet ==
  ASSUME Typed, NEW L \in Nat, L = Len(outbox), AckAt(0), L + 1 \in 1 .. Len(outbox'),
         \A j \in 1 .. L : outbox'[j] = outbox[j], outbox'[L + 1] = Ack,
         client' = client, client.state = "sent",
         NEW k, k = L + 1, Agree(k)'
  PROVE  BreaksAgree'
<1>1. ~AckAt(0)'
  BY DEF AckAt
<1>2. ASSUME NEW l \in 1 .. Len(outbox'), AckAt(l)' PROVE l = k
  BY <1>2 DEF AckAt
<1> QED  BY <1>1, <1>2 DEF BreaksAgree

\* A command that is answered: what the table becomes is what the answer says.
LEMMA AgreeAnswer ==
  ASSUME Typed, client.state # "gone", Conversation, BreaksAgree,
         Read \/ WriteReg \/ SetBreak \/ ClearBreak
  PROVE  BreaksAgree'
<1>1. PICK cmd \in {"g", "?", "P", "Z0", "z0"}, text \in {"data", "OK", "E16"} :
        /\ Received(cmd) /\ Answered(text)
        /\ \/ cmd \in {"g", "?", "P"} /\ g' = g
           \/ cmd = "Z0" /\ text = "OK" /\ g' = [g EXCEPT !.bp = Append(g.bp, Asked)]
           \/ cmd = "Z0" /\ text = "E16" /\ g' = g
           \/ cmd = "z0" /\ text = "OK" /\ g' = [g EXCEPT !.bp = Removed(g.bp, Asked)]
  <2>1. CASE Read
    BY <2>1 DEF Read
  <2>2. CASE WriteReg
    BY <2>2 DEF WriteReg
  <2>3. CASE SetBreak
    BY <2>3 DEF SetBreak
  <2>4. CASE ClearBreak
    BY <2>4 DEF ClearBreak
  <2> QED  BY <2>1, <2>2, <2>3, <2>4
<1>2. cmd \in Names \ (Resuming \union {"k"}) /\ text \in Texts
  BY DEF Names, Texts, Resuming
<1>3. /\ client.state = "sent" /\ client.asked = Head(inbox) /\ AckAt(0)
      /\ outbox'[Len(outbox) + 1] = Ack /\ Len(outbox) \in Nat
      /\ Len(outbox) + 1 \in 1 .. Len(outbox') /\ outbox'[Len(outbox) + 2].text = text
  BY <1>1, <1>2, AnswerKeeps
<1>4. client' = client /\ \A j \in 1 .. Len(outbox) : outbox'[j] = outbox[j]
  <2>1. Head(inbox).cmd = cmd /\ cmd \in Names
    BY <1>1, Arrival
  <2>2. Sent(Answer(cmd, text)) /\ client' = client
    BY <1>1, <2>1 DEF Answered
  <2> QED  BY <1>2, <2>1, <2>2, Answering DEF Typed
<1>5. PICK k : k = Len(outbox) + 1
  OBVIOUS
<1>6. SameBreaks /\ client.asked.cmd = cmd /\ Asked = client.asked.addr
      /\ client.breaks \in [Addrs -> Nat]
  BY <1>1, <1>3, Arrival, ClientParts DEF BreaksAgree, Asked
<1>7. outbox'[k + 1].text = text
  BY <1>3, <1>5
<1>8. ASSUME NEW a \in Addrs PROVE Times(g'.bp, a) = Told(text, a)
  <2>1. Times(g.bp, a) = client.breaks[a] /\ g.bp \in Seq(Addrs) /\ client.breaks[a] \in Nat
    BY <1>6, StubParts DEF SameBreaks
  <2>2. CASE cmd \in {"g", "?", "P"} /\ g' = g
    <3>1. client.asked.cmd \notin {"Z0", "z0"}
      BY <1>6, <2>2
    <3> QED  BY <2>1, <2>2, <3>1, ToldResuming
  <2>5. CASE cmd = "Z0" /\ text = "E16" /\ g' = g
    BY <1>6, <2>1, <2>5 DEF Told
  <2>3. CASE cmd = "Z0" /\ text = "OK" /\ g' = [g EXCEPT !.bp = Append(g.bp, Asked)]
    <3>1. Asked \in Addrs
      BY <1>1, <2>3, Arrival, Kinds DEF Asked
    <3>2. g'.bp = Append(g.bp, Asked)
      BY <2>3, StubParts, Zenon
    <3>3. Times(g'.bp, a) = IF a = Asked THEN client.breaks[a] + 1 ELSE client.breaks[a]
      BY <2>1, <3>1, <3>2, TimesAppend
    <3> QED  BY <1>6, <2>3, <3>3 DEF Told
  <2>4. CASE cmd = "z0" /\ text = "OK" /\ g' = [g EXCEPT !.bp = Removed(g.bp, Asked)]
    <3>1. g'.bp = Removed(g.bp, Asked)
      BY <2>4, StubParts, Zenon
    <3>2. Times(g'.bp, a) = IF a = Asked /\ client.breaks[a] > 0
                            THEN client.breaks[a] - 1 ELSE client.breaks[a]
      BY <2>1, <3>1, TimesRemoved
    <3> QED  BY <1>6, <2>4, <3>2 DEF Told
  <2> QED  BY <1>1, <2>2, <2>3, <2>4, <2>5, Zenon
<1>9. Agree(k)'
  BY <1>4, <1>7, <1>8, Zenon DEF Agree, Told
<1> QED  BY <1>3, <1>4, <1>5, <1>9, AgreeMet

\* A command that resumes.
LEMMA AgreeResume ==
  ASSUME Typed, client.state # "gone", Conversation, BreaksAgree, Resume
  PROVE  BreaksAgree'
<1>1. /\ client.state = "sent" /\ AckAt(0) /\ outbox'[Len(outbox) + 1] = Ack
      /\ Len(outbox') = Len(outbox) + 1 /\ Len(outbox) \in Nat /\ client.asked.cmd \in Resuming
  BY ResumeKeeps
<1>2. Sent(NoAnswer) /\ client' = client /\ g'.bp = g.bp
  BY DEF Resume, Typed
<1>3. \A j \in 1 .. Len(outbox) : outbox'[j] = outbox[j]
  BY <1>2, Acknowledging DEF Typed
<1>4. PICK k : k = Len(outbox) + 1
  OBVIOUS
<1>5. client.asked.cmd \notin {"Z0", "z0"} /\ SameBreaks
  BY <1>1 DEF Resuming, BreaksAgree
<1>6. Agree(k)'
  BY <1>2, <1>5, Zenon DEF Agree, Told, SameBreaks
<1> QED  BY <1>1, <1>2, <1>3, <1>4, <1>6, AgreeMet

\* What the debugger hears.
LEMMA AgreeHear ==
  ASSUME Typed, client.state # "gone", Conversation, BreaksAgree, Hear
  PROVE  BreaksAgree'
<1> DEFINE m == Head(outbox)
<1>1. /\ outbox # << >> /\ outbox' = Tail(outbox) /\ g' = g
      /\ client.state \in {"sent", "await", "running"}
  BY DEF Hear, core
<1>2. client \in [state : {"prompt", "sent", "await", "running", "gone"},
                  sent : Nat, asked : Commands, breaks : [Addrs -> Nat]]
  BY DEF Typed
<1>3. /\ m = outbox[1] /\ Len(outbox) \in Nat \ {0} /\ Len(outbox') = Len(outbox) - 1
      /\ \A j \in 1 .. Len(outbox) - 1 : outbox'[j] = outbox[j + 1]
  BY <1>1, Parts DEF Typed
<1>4. CASE client.state = "sent" /\ m # Ack
  <2>1. client' = client
    BY <1>4 DEF Hear
  <2>2. AckAt(0)' => AckAt(0)
    <3> SUFFICES ASSUME AckAt(0)', NEW j \in 1 .. Len(outbox) PROVE outbox[j] # Ack
      BY DEF AckAt
    <3>1. CASE j = 1
      BY <1>3, <1>4, <3>1
    <3>2. CASE j # 1
      <4>1. j - 1 \in 1 .. Len(outbox') /\ outbox'[j - 1] = outbox[j]
        BY <1>3, <3>2
      <4> QED  BY <4>1 DEF AckAt
    <3> QED  BY <3>1, <3>2
  <2>3. SameBreaks => SameBreaks'
    BY <1>1, <2>1, Zenon DEF SameBreaks
  <2>4. ASSUME NEW k \in 1 .. Len(outbox'), AckAt(k)' PROVE Agree(k)'
    <3>1. PICK l : l = k + 1
      OBVIOUS
    <3>2. l \in 1 .. Len(outbox) /\ AckAt(l)
      <4>1. l \in 1 .. Len(outbox)
        BY <1>3, <3>1
      <4>2. ASSUME NEW j \in 1 .. Len(outbox) PROVE outbox[j] = Ack <=> j = l
        <5>1. CASE j = 1
          BY <1>3, <1>4, <3>1, <5>1
        <5>2. CASE j # 1
          <6>1. j - 1 \in 1 .. Len(outbox') /\ outbox'[j - 1] = outbox[j]
            BY <1>3, <5>2
          <6>2. outbox'[j - 1] = Ack <=> j - 1 = k
            BY <2>4, <6>1 DEF AckAt
          <6> QED  BY <3>1, <6>1, <6>2
        <5> QED  BY <5>1, <5>2
      <4> QED  BY <4>1, <4>2 DEF AckAt
    <3>3. Agree(l) /\ (client.asked.cmd \notin Resuming => l < Len(outbox))
      BY <1>4, <3>2, AckPlace DEF BreaksAgree
    <3>4. CASE client.asked.cmd \in Resuming
      <4>1. client.asked.cmd \notin {"Z0", "z0"}
        BY <3>4 DEF Resuming
      <4> QED  BY <1>1, <2>1, <3>3, <4>1, Zenon DEF Agree, Told
    <3>5. CASE l < Len(outbox)
      <4>1. outbox'[k + 1] = outbox[l + 1]
        BY <1>3, <3>1, <3>5
      <4> QED  BY <1>1, <2>1, <3>3, <4>1, Zenon DEF Agree, Told
    <3> QED  BY <3>3, <3>4, <3>5
  <2> QED  BY <1>4, <2>1, <2>2, <2>3, <2>4, Zenon DEF BreaksAgree
<1>5. CASE client.state = "sent" /\ m = Ack
  <2>1. ~AckAt(0) /\ 1 \in 1 .. Len(outbox)
    BY <1>3, <1>5 DEF AckAt
  <2>2. PICK k \in 1 .. Len(outbox) : AckAt(k)
    BY <1>5, <2>1 DEF Conversation, OnItsWay, Acknowledged
  <2>3. k = 1
    BY <1>3, <1>5, <2>1, <2>2 DEF AckAt
  <2>4. Agree(1) /\ (client.asked.cmd \notin Resuming => 1 < Len(outbox))
    BY <1>5, <2>2, <2>3, AckPlace DEF BreaksAgree
  <2>5. client' = [client EXCEPT !.state = IF client.asked.cmd \in Resuming
                                           THEN "running" ELSE "await"]
    BY <1>5 DEF Hear
  <2>6. /\ client'.state = IF client.asked.cmd \in Resuming THEN "running" ELSE "await"
        /\ client'.asked = client.asked /\ client'.breaks = client.breaks
    BY <1>2, <2>5
  <2>7. CASE client.asked.cmd \in Resuming
    <3>1. client.asked.cmd \notin {"Z0", "z0"}
      BY <2>7 DEF Resuming
    <3>2. SameBreaks'
      BY <1>1, <2>4, <2>6, <3>1, Zenon DEF SameBreaks, Agree, Told
    <3> QED  BY <2>6, <2>7, <3>2 DEF BreaksAgree
  <2>8. CASE client.asked.cmd \notin Resuming
    <3>1. outbox'[0 + 1] = outbox[1 + 1]
      BY <1>3, <2>4, <2>8
    <3>2. Agree(0)'
      BY <1>1, <2>4, <2>6, <3>1, Zenon DEF Agree, Told
    <3> QED  BY <2>6, <2>8, <3>2 DEF BreaksAgree
  <2> QED  BY <2>7, <2>8
<1>6. CASE client.state \in {"await", "running"}
  <2>1. Expecting
    BY <1>6 DEF Conversation
  <2>2. m # Ack
    BY <1>3, <2>1 DEF Expecting, AckAt
  <2>3. CASE client.state = "running"
    <3>1. client' = [client EXCEPT !.state = "prompt"] /\ SameBreaks
      BY <2>2, <2>3 DEF Hear, BreaksAgree
    <3>2. client'.state = "prompt" /\ client'.breaks = client.breaks
      BY <1>2, <3>1
    <3>3. SameBreaks'
      BY <1>1, <3>1, <3>2, Zenon DEF SameBreaks
    <3> QED  BY <3>2, <3>3 DEF BreaksAgree
  <2>4. CASE client.state = "await"
    <3>1. client' = [client EXCEPT !.state = "prompt", !.breaks = Known(client.asked, m)]
      BY <2>2, <2>4 DEF Hear
    <3>2. client'.state = "prompt" /\ client'.breaks = Known(client.asked, m)
      <4>1. client = [state |-> client.state, sent |-> client.sent, asked |-> client.asked,
                      breaks |-> client.breaks]
        BY <1>2
      <4>2. client' = [state |-> "prompt", sent |-> client.sent, asked |-> client.asked,
                       breaks |-> Known(client.asked, m)]
        BY <3>1, <4>1, Zenon
      <4> QED  BY <4>2
    <3>3. Agree(0)
      BY <2>4 DEF BreaksAgree
    <3>4. ASSUME NEW a \in Addrs PROVE Known(client.asked, m)[a] = Told(m.text, a)
      <4>1. client.breaks \in [Addrs -> Nat] /\ client.asked \in Commands
        BY ClientParts
      <4>2. client.asked.cmd \in {"Z0", "z0"} => client.asked.addr \in Addrs
        BY <4>1, Kinds
      <4>3. CASE client.asked.cmd = "Z0" /\ m.text = "OK"
        BY <4>1, <4>2, <4>3 DEF Known, Told
      <4>4. CASE client.asked.cmd = "z0"
        BY <4>1, <4>2, <4>4 DEF Known, Told
      <4>5. CASE ~(client.asked.cmd = "Z0" /\ m.text = "OK") /\ client.asked.cmd # "z0"
        BY <4>1, <4>5 DEF Known, Told
      <4> QED  BY <4>3, <4>4, <4>5
    <3>5. m.text = outbox[0 + 1].text
      BY <1>3
    <3>6. SameBreaks'
      <4> SUFFICES ASSUME NEW a \in Addrs PROVE Times(g.bp, a) = client'.breaks[a]
        BY <1>1 DEF SameBreaks
      <4>1. Times(g.bp, a) = Told(m.text, a)
        BY <3>3, <3>5 DEF Agree
      <4> QED  BY <3>2, <3>4, <4>1
    <3> QED  BY <3>2, <3>6 DEF BreaksAgree
  <2> QED  BY <1>6, <2>3, <2>4
<1> QED  BY <1>1, <1>4, <1>5, <1>6

-----------------------------------------------------------------------------
(* Stops.                                                                   *)

\* Every step leaves the breakpoints of both sides in agreement.
LEMMA AgreeKept ==
  ASSUME Typed, client.state # "gone", Conversation, BreaksAgree, Next
  PROVE  client'.state = "gone" \/ BreaksAgree'
<1>1. CASE ReadAck \/ SkipByte
  <2>1. UNCHANGED <<outbox, client>> /\ g'.bp = g.bp
    BY <1>1 DEF ReadAck, SkipByte, core
  <2> QED  BY <2>1, AgreeQuiet
<1>2. CASE Interrupted
  <2>1. /\ Sent(gdb_send("int", "")) /\ "int" \in Names /\ "" \in Texts
        /\ client' = client /\ g'.bp = g.bp
    BY <1>2 DEF Interrupted, Names, Texts
  <2> QED  BY <2>1, AgreeReport
<1>3. CASE Read \/ WriteReg \/ SetBreak \/ ClearBreak
  BY <1>3, AgreeAnswer
<1>4. CASE Resume
  BY <1>4, AgreeResume
<1>5. CASE Kill
  BY <1>5, CommandArrives DEF Kill
<1>6. CASE Lost
  BY <1>6 DEF Lost, Closed
<1>7. CASE RunStart \/ Stop
  <2>1. client' = client /\ g'.bp = g.bp /\ (Sent(gdb_send("stop", "S05")) \/ outbox' = outbox)
    BY <1>7 DEF RunStart, Stop, ServeStart, Typed
  <2>2. "stop" \in Names /\ "S05" \in Texts
    BY DEF Names, Texts
  <2> QED  BY <2>1, <2>2, AgreeQuiet, AgreeReport
<1>8. CASE \/ GoOn \/ Turn \/ Compiled \/ BlockInstr \/ ChainReturns \/ ChainEmpty
           \/ Interpret \/ InterpretFails \/ RunEnds
  <2>1. UNCHANGED <<outbox, client>> /\ g'.bp = g.bp
    BY <1>8 DEF GoOn, Turn, Compiled, BlockInstr, ChainReturns, ChainEmpty,
          Interpret, InterpretFails, RunEnds
  <2> QED  BY <2>1, AgreeQuiet
<1>9. CASE Ask
  <2>1. PICK p \in Commands :
           /\ client' = [client EXCEPT !.sent = @ + 1, !.asked = p,
                                       !.state = IF p.cmd = "k" THEN "gone" ELSE "sent"]
           /\ UNCHANGED <<core, outbox>> /\ client.state = "prompt"
    BY <1>9 DEF Ask
  <2>2. client'.breaks = client.breaks /\ client'.state \in {"gone", "sent"}
    <3> DEFINE st == IF p.cmd = "k" THEN "gone" ELSE "sent"
    <3>1. client' = [client EXCEPT !.sent = @ + 1, !.asked = p, !.state = st]
      BY <2>1
    <3>2. st \in {"gone", "sent"}
      OBVIOUS
    <3> HIDE DEF st
    <3>3. client = [state |-> client.state, sent |-> client.sent, asked |-> client.asked,
                    breaks |-> client.breaks]
      BY DEF Typed
    <3>4. client' = [state |-> st, sent |-> client.sent + 1, asked |-> p, breaks |-> client.breaks]
      BY <3>1, <3>3, Zenon
    <3> QED  BY <3>2, <3>4
  <2>3. SameBreaks /\ AckAt(0)
    BY <2>1 DEF BreaksAgree, Conversation, Prompted
  <2>4. SameBreaks' /\ AckAt(0)'
    BY <2>1, <2>2, <2>3 DEF SameBreaks, AckAt, core
  <2>5. \A k \in 1 .. Len(outbox') : ~AckAt(k)'
    BY <2>4 DEF AckAt
  <2> QED  BY <2>2, <2>4, <2>5 DEF BreaksAgree
<1>10. CASE Break
  <2>1. /\ client' = [client EXCEPT !.sent = @ + 1] /\ UNCHANGED <<core, outbox>>
        /\ client.state = "running"
    BY <1>10 DEF Break
  <2>2. client'.breaks = client.breaks /\ client'.state = "running"
    BY <2>1 DEF Typed
  <2>3. SameBreaks'
    BY <2>1, <2>2 DEF BreaksAgree, SameBreaks, core
  <2> QED  BY <2>2, <2>3 DEF BreaksAgree
<1>11. CASE Hear
  BY <1>11, AgreeHear
<1>12. CASE Leave
  BY <1>12 DEF Leave, Typed
<1> QED  BY <1>1, <1>2, <1>3, <1>4, <1>5, <1>6, <1>7, <1>8, <1>9, <1>10, <1>11, <1>12
         DEF Next, Serve, Run

\* Every step leaves the loop knowing how the program was resumed.
LEMMA UnderwayKept ==
  ASSUME Typed, client.state # "gone", Conversation, g.active, Underway, Next
  PROVE  client'.state = "gone" \/ (g'.active /\ Underway')
<1>0. /\ g \in [active : BOOLEAN, stepping : BOOLEAN, halted_for_gdb : BOOLEAN, bp : Seq(Addrs)]
      /\ resumed \in [how : {"none", "c", "s"}, done : 0 .. 2, at_start : BOOLEAN]
      /\ total \in Nat
  BY DEF Typed
<1>1. ASSUME phase' \in {"ack", "packet", "end"} PROVE Underway'
  BY <1>1 DEF Underway
<1>2. CASE ReadAck \/ SkipByte \/ Interrupted
  <2>1. phase' \in {"ack", "packet"} /\ g' = g
    BY <1>2 DEF ReadAck, SkipByte, Interrupted, core
  <2> QED  BY <1>1, <2>1
<1>3. CASE Read \/ WriteReg \/ SetBreak \/ ClearBreak
  <2>1. phase' = "ack"
    BY <1>3 DEF Read, WriteReg, SetBreak, ClearBreak, Answered
  <2>2. g' = g \/ \E s : g' = [g EXCEPT !.bp = s]
    BY <1>3 DEF Read, WriteReg, SetBreak, ClearBreak
  <2>3. g'.active
    BY <1>0, <2>2
  <2> QED  BY <1>1, <2>1, <2>3
<1>4. CASE Resume
  <2>1. PICK cmd \in Resuming :
          /\ g' = [g EXCEPT !.stepping = (cmd = "s"), !.halted_for_gdb = FALSE]
          /\ phase' = back /\ back \in {"loop", "turn"}
          /\ resumed' = [how |-> cmd, done |-> 0, at_start |-> back = "loop"]
    BY <1>4 DEF Resume, Typed
  <2>2. g'.active /\ g'.stepping = (cmd = "s")
    BY <1>0, <2>1
  <2>3. resumed'.how = cmd /\ resumed'.done = 0 /\ resumed'.at_start = (back = "loop")
    BY <2>1
  <2>4. Underway'
    BY <2>1, <2>2, <2>3 DEF Underway
  <2> QED  BY <2>2, <2>4
<1>5. CASE Kill
  BY <1>5, CommandArrives DEF Kill
<1>6. CASE Lost
  BY <1>6 DEF Lost, Closed
<1>7. CASE RunStart
  <2>1. phase = "start" /\ g' = g
    BY <1>7 DEF RunStart
  <2>2. g.halted_for_gdb
    BY <2>1, ClientParts DEF Conversation, Prompted, OnItsWay, Acknowledged, Expecting,
          AnswerAfter, Listening, Serving
  <2>3. phase' = "ack"
    BY <1>7, <2>2 DEF RunStart, ServeStart
  <2> QED  BY <1>1, <2>1, <2>3
<1>8. CASE Stop
  <2>1. phase' = "ack" /\ g' = [g EXCEPT !.stepping = FALSE, !.halted_for_gdb = TRUE]
    BY <1>8 DEF Stop, ServeStart
  <2>2. g'.active
    BY <1>0, <2>1
  <2> QED  BY <1>1, <2>1, <2>2
<1>9. CASE GoOn
  <2>1. /\ phase = "loop" /\ phase' = "turn" /\ UNCHANGED <<g, pc, total, resumed>>
        /\ ~g.stepping /\ pc \notin ToSet(g.bp)
    BY <1>9 DEF GoOn, gdb_should_stop
  <2> QED  BY <2>1 DEF Underway
<1>10. CASE Turn
  <2>1. /\ phase = "turn" /\ total' = 0 /\ UNCHANGED <<g, pc, resumed>>
        /\ phase' = IF g.stepping THEN "interp" ELSE "chain"
    BY <1>10 DEF Turn
  <2>2. resumed.how \in Resuming
    BY <2>1 DEF Underway
  <2> QED  BY <2>1, <2>2 DEF Underway, Resuming
<1>11. CASE Compiled
  <2>1. phase = "chain" /\ phase' = "block" /\ UNCHANGED <<g, pc, total, resumed>>
    BY <1>11 DEF Compiled
  <2> QED  BY <2>1 DEF Underway
<1>12. ASSUME Counted
       PROVE  /\ resumed'.how = resumed.how /\ resumed'.at_start = resumed.at_start
              /\ resumed.done = 0 => resumed'.done = 1
  BY <1>0, <1>12 DEF Counted
<1>13. CASE BlockInstr
  <2>1. phase = "block" /\ phase' \in {"chain", "block"} /\ total' = total + 1 /\ g' = g
        /\ resumed'.how = resumed.how
    BY <1>12, <1>13 DEF BlockInstr
  <2>2. total' # 0
    BY <1>0, <2>1
  <2> QED  BY <2>1, <2>2 DEF Underway
<1>14. CASE ChainReturns
  <2>1. phase = "chain" /\ phase' = "loop" /\ UNCHANGED <<g, resumed>>
    BY <1>14 DEF ChainReturns, Checked
  <2> QED  BY <2>1 DEF Underway
<1>15. CASE ChainEmpty
  <2>1. phase = "chain" /\ total = 0 /\ phase' = "interp" /\ UNCHANGED <<g, pc, total, resumed>>
    BY <1>15 DEF ChainEmpty
  <2> QED  BY <2>1 DEF Underway
<1>16. CASE Interpret
  <2>1. phase = "interp" /\ phase' = "loop" /\ g' = g /\ Counted
    BY <1>16 DEF Interpret, Checked
  <2>2. /\ resumed'.how = resumed.how /\ resumed'.at_start = resumed.at_start
        /\ resumed.done = 0 => resumed'.done = 1
    BY <1>12, <2>1
  <2> QED  BY <2>1, <2>2 DEF Underway
<1>17. CASE InterpretFails \/ RunEnds
  <2>1. phase' = "end" /\ g' = g
    BY <1>17 DEF InterpretFails, RunEnds
  <2> QED  BY <1>1, <2>1
<1>18. CASE Ask \/ Break \/ Hear \/ Leave
  <2>1. UNCHANGED core
    BY <1>18 DEF Ask, Break, Hear, Leave
  <2> QED  BY <2>1 DEF core, Underway
<1> QED  BY <1>2, <1>3, <1>4, <1>5, <1>6, <1>7, <1>8, <1>9, <1>10, <1>11, <1>13, <1>14, <1>15,
            <1>16, <1>17, <1>18 DEF Next, Serve, Run

LEMMA StopStart == Init => StopInv
<1> SUFFICES ASSUME Init, client.state # "gone" PROVE StopInv
  BY SyncStart DEF StopInv
<1>1. SyncInv
  BY SyncStart
<1>2. PICK a \in BOOLEAN : g = [active |-> a, stepping |-> FALSE, halted_for_gdb |-> a, bp |-> << >>]
  BY DEF Init
<1>3. client = [state |-> IF a THEN "prompt" ELSE "gone", sent |-> 0,
                asked |-> Packet("?", 0), breaks |-> [b \in Addrs |-> 0]]
  BY <1>2 DEF Init
<1>4. a /\ client.state = "prompt"
  BY <1>3
<1>5. g.active /\ g.bp = << >> /\ phase = "start"
  BY <1>2, <1>4 DEF Init
<1>6. ASSUME NEW b \in Addrs PROVE Times(g.bp, b) = client.breaks[b]
  <2>1. client.breaks[b] = 0
    <3> DEFINE none == [c \in Addrs |-> 0]
    <3>1. none[b] = 0
      OBVIOUS
    <3> HIDE DEF none
    <3>2. client.breaks = none
      BY <1>3 DEF none
    <3> QED  BY <3>1, <3>2
  <2>2. << >> \in Seq(Addrs) /\ Times(<< >>, b) = 0
    <3>1. << >> \in Seq(Addrs) /\ b \notin ToSet(<< >>)
      BY DEF ToSet
    <3> QED  BY <3>1, TimesType
  <2> QED  BY <1>5, <2>1, <2>2
<1>7. BreaksAgree
  BY <1>4, <1>6 DEF BreaksAgree, SameBreaks
<1>8. Underway
  BY <1>5 DEF Underway
<1> QED  BY <1>1, <1>5, <1>7, <1>8 DEF StopInv

LEMMA StopStep == StopInv /\ [Next]_vars => StopInv'
<1> SUFFICES ASSUME StopInv, [Next]_vars PROVE StopInv'
  OBVIOUS
<1>1. SyncInv /\ SyncInv' /\ Typed
  BY SyncStep DEF StopInv, SyncInv
<1>2. CASE client.state = "gone"
  BY <1>1, <1>2, GoneForGood DEF StopInv
<1>3. CASE client.state # "gone" /\ Next
  <2>1. Conversation /\ BreaksAgree /\ g.active /\ Underway
    BY <1>3 DEF StopInv, SyncInv
  <2> QED  BY <1>1, <1>3, <2>1, AgreeKept, UnderwayKept DEF StopInv
<1>4. CASE client.state # "gone" /\ UNCHANGED vars
  <2>1. BreaksAgree /\ g.active /\ Underway
    BY <1>4 DEF StopInv
  <2>2. BreaksAgree'
    BY <1>1, <1>4, <2>1, AgreeQuiet DEF vars, core
  <2>3. g'.active /\ Underway'
    BY <1>4, <2>1 DEF vars, core, Underway
  <2> QED  BY <1>1, <2>2, <2>3 DEF StopInv
<1> QED  BY <1>2, <1>3, <1>4

\* While the program runs, the table holds what the debugger believes it to.
LEMMA SameWhileRunning ==
  ASSUME StopInv, client.state # "gone", phase \notin {"start", "ack", "packet"}
  PROVE  SameBreaks
<1>1. Typed /\ Conversation /\ BreaksAgree /\ ~Serving /\ ~Listening
  BY DEF StopInv, SyncInv, Serving, Listening
<1>2. CASE client.state = "sent"
  <2>1. Acknowledged
    BY <1>1, <1>2 DEF Conversation, OnItsWay
  <2>2. PICK k \in 1 .. Len(outbox) : AckAt(k) /\ AnswerAfter(k)
    BY <2>1 DEF Acknowledged
  <2>3. client.asked.cmd \notin {"Z0", "z0"} /\ Agree(k)
    BY <1>1, <1>2, <2>2 DEF AnswerAfter, Resuming, BreaksAgree
  <2> QED  BY <2>3, ToldResuming DEF Agree, SameBreaks
<1>3. CASE client.state # "sent"
  <2>1. client.state \notin {"prompt", "await"}
    BY <1>1 DEF Conversation, Prompted, Expecting, AnswerAfter
  <2> QED  BY <1>1, <1>3, <2>1, ClientParts DEF BreaksAgree
<1> QED  BY <1>2, <1>3

\* Breakpoints set twice, removed by moving the last entry down or refused when
\* the table is full; steps, continues and exceptions in between: no instruction
\* is interpreted at a breakpoint without a stop, no program stops elsewhere, and
\* a step is one instruction (run.c:153-190, gdb.c:117-124, 241-286).  For every
\* program, table and run.
THEOREM StopsWhereAsked == Spec => StopsAsAsked
<1> DEFINE A == client.state # "gone" =>
                  /\ Interpret /\ client.breaks[pc] > 0 => resumed.done = 0
                  /\ Stop =>
                       \/ resumed.how = "s" /\ resumed.done = (IF resumed.at_start THEN 0 ELSE 1)
                       \/ resumed.how = "c" /\ client.breaks[pc] > 0
<1>1. StopInv => A
  <2> SUFFICES ASSUME StopInv, client.state # "gone" PROVE A
    OBVIOUS
  <2>1. pc \in Addrs /\ g.bp \in Seq(Addrs) /\ g.active /\ Underway
        /\ client.breaks \in [Addrs -> Nat]
    BY StubParts, ClientParts DEF StopInv, SyncInv, Typed
  <2>2. SameBreaks => (client.breaks[pc] > 0 <=> pc \in ToSet(g.bp))
    <3>1. Times(g.bp, pc) \in Nat /\ (Times(g.bp, pc) = 0 <=> pc \notin ToSet(g.bp))
      BY <2>1, TimesType
    <3> QED  BY <2>1, <3>1 DEF SameBreaks
  <2>3. ASSUME Interpret, client.breaks[pc] > 0 PROVE resumed.done = 0
    <3>1. phase = "interp"
      BY <2>3 DEF Interpret
    <3>2. pc \in ToSet(g.bp)
      BY <2>2, <2>3, <3>1, SameWhileRunning
    <3> QED  BY <2>1, <3>1, <3>2 DEF Underway
  <2>4. ASSUME Stop
        PROVE  \/ resumed.how = "s" /\ resumed.done = (IF resumed.at_start THEN 0 ELSE 1)
               \/ resumed.how = "c" /\ client.breaks[pc] > 0
    <3>1. phase = "loop" /\ (g.stepping \/ pc \in ToSet(g.bp))
      BY <2>4 DEF Stop, gdb_should_stop
    <3>2. /\ resumed.how \in Resuming /\ (g.stepping <=> resumed.how = "s")
          /\ resumed.how = "s" => resumed.done = (IF resumed.at_start THEN 0 ELSE 1)
      BY <2>1, <3>1 DEF Underway
    <3>3. pc \in ToSet(g.bp) => client.breaks[pc] > 0
      BY <2>2, <3>1, SameWhileRunning
    <3> QED  BY <3>1, <3>2, <3>3 DEF Resuming
  <2> QED  BY <2>3, <2>4
<1>2. StopInv /\ [Next]_vars => [A]_vars
  BY <1>1
<1> QED  BY StopStart, StopStep, <1>2, PTL DEF Spec, StopsAsAsked

=============================================================================
