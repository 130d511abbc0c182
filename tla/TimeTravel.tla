------------------------------ MODULE TimeTravel ------------------------------
(***************************************************************************)
(* Record, snapshot, rewind and replay (core/tt.c) with the loop           *)
(* run_until_cycle of core/run.c, over firmware that remembers everything  *)
(* it observes: what two such machines agree on, any two agree on.         *)
(*                                                                         *)
(* The host is one thread: between two steps of the core it may inject an  *)
(* interrupt or a frame, take a snapshot, or make one of the calls that    *)
(* go back.  Such a call is followed step by step.                         *)
(***************************************************************************)
EXTENDS Integers, Sequences

CONSTANTS
  Irqs,        \* NVIC lines the host raises
  Frames,      \* Ethernet frames the host injects
  Steps,       \* bound: the firmware halts after so many instructions
  Costs,       \* cycles an instruction may take: SVC, exception returns and
               \* undefined instructions take none, the others one
  Stride, MaxSnaps,
  LogMax, EthMax, \* TT_LOG_MAX and TT_ETH_MAX
  MaxEvents,   \* bound on the host's injections
  After        \* what the host does after it went back: "run", "inject"

None == "none"

ASSUME TimeTravelAssumption ==
  /\ Irqs \subseteq 0..239 /\ None \notin Frames
  /\ Steps \in Nat /\ Costs \subseteq {0, 1}
  /\ Stride \in Nat \ {0} /\ MaxSnaps \in Nat \ {0}
  /\ LogMax \in Nat /\ EthMax \in Nat /\ MaxEvents \in Nat
  /\ After \subseteq {"run", "inject"}

VARIABLES
  prog,        \* the cost of each instruction of the firmware
  m,           \* cpu_t, memory and devices
  log,         \* tt_t.log
  frames,      \* tt_t.frames, the n_frames in use
  snaps,       \* tt_t.snaps and tt_t.idx
  blob,        \* a snapshot the host keeps for tt_replay, if any
  call,        \* the tt_rewind or tt_replay in progress
  ret,         \* what the last such call returned
  \* History:
  past,        \* states the recording went through
  inputs,      \* injections so far
  wentBack     \* a call has gone back

host == <<log, frames, snaps, blob>>
vars == <<prog, m, host, call, ret, past, inputs, wentBack>>

-----------------------------------------------------------------------------
(* The machine *)

\* seen: what firmware observed, and after how many instructions.
Boot == [cyc |-> 0, n |-> 0, pend |-> {}, rx |-> None, seen |-> {}]
Halted(x) == x.n = Steps

\* One iteration of the run loop: firmware sees what is pending and takes it.
Ran(x) ==
  [cyc |-> x.cyc + prog[x.n + 1], n |-> x.n + 1, pend |-> {}, rx |-> None,
   seen |-> IF x.pend = {} /\ x.rx = None THEN x.seen ELSE x.seen \cup {<<x.n, x.pend, x.rx>>}]

\* nvic_set_pending and eth_inject_rx: a frame overwrites the one before it.
Pended(x, irq) == [x EXCEPT !.pend = @ \cup {irq}]
Received(x, frame) == [x EXCEPT !.rx = frame]

-----------------------------------------------------------------------------
(* The event log *)

Event(cycle, type, payload) == [cycle |-> cycle, type |-> type, payload |-> payload]

\* Nothing is appended to a full log, and most callers do not look.  Mutant:
\* the limit is not there.
AppendUnbounded(lg, e) == Append(lg, e)
ev_log_append(lg, e) == IF Len(lg) >= LogMax THEN lg ELSE Append(lg, e)

\* A loop: n rounds, each a step from what the one before has left.
Iterated(n, start, step) ==
  LET round[k \in 0..n] == IF k = 0 THEN start ELSE step[round[k - 1]]
  IN round[n]

\* ev_log_seek: a round of the search, none when the range is empty.  Mutant:
\* goes past the events of the cycle itself.
Middle(r) == r.lo + (r.hi - r.lo) \div 2
HalvedPast(lg, cycle, r) ==
  IF r.lo >= r.hi THEN r
  ELSE IF lg[Middle(r) + 1].cycle <= cycle
       THEN [r EXCEPT !.lo = Middle(r) + 1] ELSE [r EXCEPT !.hi = Middle(r)]
Halved(lg, cycle, r) ==
  IF r.lo >= r.hi THEN r
  ELSE IF lg[Middle(r) + 1].cycle < cycle
       THEN [r EXCEPT !.lo = Middle(r) + 1] ELSE [r EXCEPT !.hi = Middle(r)]

\* The range shrinks with every round: as many as there are entries empty it.
LogRanges(lg) == [lo : 0..Len(lg), hi : 0..Len(lg)]
ev_log_seek(lg, cycle) ==
  Iterated(Len(lg), [lo |-> 0, hi |-> Len(lg)],
           [r \in LogRanges(lg) |-> Halved(lg, cycle, r)]).lo

\* tt_inject_event; a frame that is not in the side store is skipped.
Injected(x, e) ==
  CASE e.type = "irq" -> Pended(x, e.payload)
    [] e.type = "eth" -> IF e.payload >= Len(frames) THEN x
                         ELSE Received(x, frames[e.payload + 1])

\* tt_record_eth_rx: the frame's slot is given back when the log is full.
\* Mutant: it is kept.
RecordEthKeeping(frame) ==
  IF Len(frames) >= EthMax THEN UNCHANGED <<log, frames>>
  ELSE /\ log' = ev_log_append(log, Event(m.cyc, "eth", Len(frames)))
       /\ frames' = Append(frames, frame)
tt_record_eth_rx(frame) ==
  IF Len(frames) >= EthMax \/ Len(log) >= LogMax THEN UNCHANGED <<log, frames>>
  ELSE /\ log' = ev_log_append(log, Event(m.cyc, "eth", Len(frames)))
       /\ frames' = Append(frames, frame)

-----------------------------------------------------------------------------
(* The host, live *)

Idle == [op |-> None, target |-> 0, pos |-> 0, left |-> 0, prev |-> 0]
Between == call.op = None
May(what) == wentBack => what \in After

\* The recording is what happens before the host first goes back.
Recorded == past' = IF wentBack THEN past ELSE past \cup {m'}

\* run_steps_full_g, one step at a time.
Run ==
  /\ Between /\ May("run") /\ ~Halted(m)
  /\ m' = Ran(m) /\ Recorded
  /\ UNCHANGED <<prog, host, call, ret, inputs, wentBack>>

\* nvic_set_pending_ext: recorded at the current cycle, then set pending.
RaiseIrq ==
  /\ Between /\ May("inject") /\ inputs < MaxEvents
  /\ \E irq \in Irqs :
       /\ log' = ev_log_append(log, Event(m.cyc, "irq", irq))
       /\ m' = Pended(m, irq)
  /\ Recorded /\ inputs' = inputs + 1
  /\ UNCHANGED <<prog, frames, snaps, blob, call, ret, wentBack>>

\* tt_record_eth_rx and eth_inject_rx, which the host calls together.
InjectFrame ==
  /\ Between /\ May("inject") /\ inputs < MaxEvents
  /\ \E frame \in Frames : tt_record_eth_rx(frame) /\ m' = Received(m, frame)
  /\ Recorded /\ inputs' = inputs + 1
  /\ UNCHANGED <<prog, snaps, blob, call, ret, wentBack>>

\* tt_on_cycle: the next snapshot is due a stride after the last one.  Mutant
\* of Due: at every multiple of the stride, also one already behind.
DueAgain == m.cyc >= Stride
Due == m.cyc >= IF snaps = << >> THEN Stride ELSE snaps[Len(snaps)].cycle + Stride

OnCycle ==
  /\ Between /\ May("run") /\ Due /\ Len(snaps) < MaxSnaps
  /\ snaps' = Append(snaps, [cycle |-> m.cyc, m |-> m])
  /\ UNCHANGED <<prog, m, log, frames, blob, call, ret, past, inputs, wentBack>>

\* snap_save into a blob of the host's.
SnapSave ==
  /\ Between /\ May("run") /\ m \notin blob
  /\ blob' = {m}
  /\ UNCHANGED <<prog, m, log, frames, snaps, call, ret, past, inputs, wentBack>>

-----------------------------------------------------------------------------
(* Going back *)

\* The last snapshot at or before a cycle, counted from 1; 0: none.  Mutant:
\* the last one there is.
LastSnap(cycle) == Len(snaps)
SnapHalved(cycle, r) ==
  IF r.lo > r.hi THEN r
  ELSE IF snaps[Middle(r) + 1].cycle <= cycle
       THEN [lo |-> Middle(r) + 1, hi |-> r.hi, best |-> Middle(r)] ELSE [r EXCEPT !.hi = Middle(r) - 1]
SnapRanges == [lo : 0..Len(snaps), hi : -1 .. Len(snaps) - 1, best : -1 .. Len(snaps) - 1]
tt_bsearch_le(cycle) ==
  Iterated(Len(snaps), [lo |-> 0, hi |-> Len(snaps) - 1, best |-> -1],
           [r \in SnapRanges |-> SnapHalved(cycle, r)]).best + 1

\* snap_restore and the start of run_until_cycle.
Restored(op, x, target) ==
  /\ m' = x
  /\ call' = [op |-> op, target |-> target, pos |-> ev_log_seek(log, x.cyc), left |-> 0,
              prev |-> -1]
  /\ wentBack' = TRUE
  /\ UNCHANGED <<prog, host, ret, past, inputs>>

Refused == ret' = FALSE /\ UNCHANGED <<prog, host, call, past, inputs>>

\* tt_rewind.
RewindTo(target) ==
  LET i == tt_bsearch_le(target)
  IN IF i = 0 THEN Refused /\ UNCHANGED <<m, wentBack>>
     ELSE Restored("rewind", snaps[i].m, target)

Rewind == Between /\ \E target \in 0..Steps : RewindTo(target)

\* tt_step_back.
StepBack == Between /\ \E n \in 0..m.cyc : RewindTo(m.cyc - n)

\* tt_replay looks at the target only after it has restored the snapshot.
Replay ==
  /\ Between
  /\ \E x \in blob, target \in 0..Steps :
       IF target < x.cyc THEN Refused /\ m' = x /\ wentBack' = TRUE
       ELSE Restored("replay", x, target)

\* An event the head of the loop injects before it runs on.
EventDue == call.pos < Len(log) /\ log[call.pos + 1].cycle <= m.cyc

\* Steps to the next event, or to the target.  Mutant: the target only.
GapToTarget == call.target - m.cyc
Gap ==
  (IF call.pos < Len(log) /\ log[call.pos + 1].cycle < call.target
   THEN log[call.pos + 1].cycle ELSE call.target) - m.cyc

\* run_steps_full_g has run its steps, or the core has halted.
RanOut == call.left = 0 \/ Halted(m)

\* The watchdog.  Mutant: there is none.
NeverStuck == FALSE
Stuck == call.prev = m.cyc

\* At the head of the loop: inject what is due, then run on.
AtHead == call.op # None /\ RanOut /\ ~Stuck /\ m.cyc < call.target

InjectEvent ==
  /\ AtHead /\ EventDue
  /\ m' = Injected(m, log[call.pos + 1])
  /\ call' = [call EXCEPT !.pos = @ + 1]
  /\ UNCHANGED <<prog, host, ret, past, inputs, wentBack>>

GoOn ==
  /\ AtHead /\ ~EventDue
  /\ call' = [call EXCEPT !.left = Gap, !.prev = m.cyc]
  /\ UNCHANGED <<prog, m, host, ret, past, inputs, wentBack>>

ReplayStep ==
  /\ call.op # None /\ ~RanOut
  /\ m' = Ran(m)
  /\ call' = [call EXCEPT !.left = @ - 1]
  /\ UNCHANGED <<prog, host, ret, past, inputs, wentBack>>

\* The call returns true, whether the target was reached or not.
Return ==
  /\ call.op # None /\ RanOut /\ (Stuck \/ m.cyc >= call.target)
  /\ call' = Idle /\ ret' = TRUE
  /\ UNCHANGED <<prog, m, host, past, inputs, wentBack>>

Init ==
  /\ prog \in [1..Steps -> Costs]
  /\ m = Boot /\ log = << >> /\ frames = << >> /\ snaps = << >> /\ blob = {}
  /\ call = Idle /\ ret = TRUE
  /\ past = {Boot} /\ inputs = 0 /\ wentBack = FALSE

Back == InjectEvent \/ GoOn \/ ReplayStep \/ Return
Next == Run \/ RaiseIrq \/ InjectFrame \/ OnCycle \/ SnapSave \/ Rewind \/ StepBack \/ Replay \/ Back

Spec == Init /\ [][Next]_vars

\* A call runs on: it is a loop of the host's own thread.
FairSpec == Spec /\ WF_vars(Back)

-----------------------------------------------------------------------------
(* Properties *)

\* What the fields of the core can be.
Observed == (0..Steps) \X (SUBSET Irqs) \X (Frames \cup {None})
Machines == {x \in [cyc : 0..Steps, n : 0..Steps, pend : SUBSET Irqs, rx : Frames \cup {None},
                    seen : SUBSET Observed] : x.cyc <= x.n}
Events == [cycle : 0..Steps, type : {"irq"}, payload : Irqs]
          \cup [cycle : 0..Steps, type : {"eth"}, payload : 0 .. EthMax - 1]
Calls == [op : {None, "rewind", "replay"}, target : 0..Steps, pos : 0..LogMax, left : 0..Steps,
          prev : -1 .. Steps]

TypeOK ==
  /\ prog \in [1..Steps -> Costs]
  /\ m \in Machines
  /\ log \in Seq(Events) /\ Len(log) <= LogMax
  /\ frames \in Seq(Frames) /\ Len(frames) <= EthMax
  /\ snaps \in Seq([cycle : 0..Steps, m : Machines]) /\ Len(snaps) <= MaxSnaps
  /\ blob \subseteq Machines
  /\ call \in Calls /\ call.pos <= Len(log)
  /\ ret \in BOOLEAN /\ past \subseteq Machines /\ inputs \in 0..MaxEvents /\ wentBack \in BOOLEAN

Latest == CHOOSE c \in 0..Steps : (\E x \in past : x.cyc = c) /\ \A x \in past : x.cyc <= c

\* Going back to a cycle of the recording leads to a state it was in, with the
\* same inputs seen at the same instructions, whatever was injected before or
\* after the snapshot it starts from and however often the host goes back:
\* README.md:87, "a pure function of (initial state, ARM cycles, external
\* events)".  True as long as no instruction takes zero cycles.
BackToThePast ==
  [][ call.op # None /\ call'.op = None /\ call.target <= Latest => m \in past ]_vars

\* and that state is the one of the cycle asked for.
BackInTime ==
  [][ call.op # None /\ call'.op = None /\ call.target <= Latest => m.cyc = call.target ]_vars

\* Snapshots are ordered and a stride apart, also when the host goes back and
\* runs again: the binary search finds the last one that is not too late.
SnapsSpaced ==
  \A i, j \in DOMAIN snaps : i < j => snaps[j].cycle - snaps[i].cycle >= Stride

\* ev_log_seek finds the first event at or after a cycle.
SeekExact ==
  \A c \in 0..Steps :
    /\ \A i \in 1 .. ev_log_seek(log, c) : log[i].cycle < c
    /\ \A i \in ev_log_seek(log, c) + 1 .. Len(log) : log[i].cycle >= c

\* The side store holds a frame for every frame event of the log, in their
\* order, and no other: also when the log or the store is full.
FrameEvents == {i \in DOMAIN log : log[i].type = "eth"}
FramesMatch ==
  /\ \A i, j \in FrameEvents : i < j => log[i].payload < log[j].payload
  /\ {log[i].payload : i \in FrameEvents} = 0 .. Len(frames) - 1

\* A call that goes back returns, also when the firmware halts or its
\* instructions take no cycles.
CallReturns == call.op # None ~> call.op = None
=============================================================================
