--------------------------------- MODULE Gdb ---------------------------------
(***************************************************************************)
(* The stub for a remote debugger (src/core/gdb.c) and the run loop that    *)
(* serves it (run_steps_full_gdb of run.c), with the debugger at the other  *)
(* end of the connection: packets, acknowledgements and the interrupt byte  *)
(* travel in order, and the debugger may go away at any moment.             *)
(*                                                                          *)
(* The program is a graph of addresses.  Whether a block of it is compiled, *)
(* and when an exception is taken, is left open.                            *)
(***************************************************************************)
EXTENDS Naturals, SequencesExt

CONSTANTS
  Addrs,        \* addresses of the program
  Flow(_),      \* where an instruction may lead: more than one place, or none
                \*   but the next one
  Terminators,  \* the addresses of terminators: blocks end there
  Handlers,     \* the handlers of exceptions
  BpMax,        \* breakpoints the table holds: 32
  MaxLen,       \* JIT_MAX_BLOCK_LEN
  MaxSteps,     \* max_steps of the run
  MaxSent       \* bound: packets and interrupt bytes the debugger sends

\* Instructions and exceptions lead to addresses of the program.
ASSUME ProgramClosed == Handlers \subseteq Addrs /\ \A a \in Addrs : Flow(a) \subseteq Addrs

VARIABLES
  g,            \* gdb_t
  pc, halted,   \* of cpu_t
  phase,        \* where run_steps_full_gdb is
  back,         \* where gdb_serve returns to
  i, total,     \* the loop's counter; instructions of the chain
  inbox,        \* bytes and packets on their way to the stub
  outbox,       \* acknowledgements and replies on their way to the debugger
  client,       \* the debugger: what it waits for, and its breakpoints
  resumed       \* history: how the program was resumed, and what it has done

core == <<g, pc, halted, phase, back, i, total, resumed>>
vars == <<core, inbox, outbox, client>>
-----------------------------------------------------------------------------
(* Bytes and packets.                                                       *)

Ack == [kind |-> "ack"]
CtrlC == [kind |-> "ctrlc"]
Packet(cmd, addr) == [kind |-> "packet", cmd |-> cmd, addr |-> addr]
Reply(to, text) == [kind |-> "packet", to |-> to, text |-> text]

\* The commands: breakpoints, resuming, killing, writing PC; "g" stands for
\* all that reads or writes and is answered.
Commands == { Packet(cmd, a) : cmd \in {"Z0", "z0", "P"}, a \in Addrs }
              \union { Packet(cmd, 0) : cmd \in {"c", "s", "k", "g", "?"} }
Resuming == {"c", "s"}

\* gdb_send, up to its read of one byte, whatever that is.
Sent(replies) == outbox' = outbox \o replies
gdb_send(to, text) == << Reply(to, text) >>

\* What a command is met with: its acknowledgement and a reply, or none when
\* the program is resumed.  Mutants: the reply first; a reply.
AnswerFirst(to, text) == gdb_send(to, text) \o << Ack >>
Answer(to, text) == << Ack >> \o gdb_send(to, text)
ResumeAnswered == << Ack >> \o gdb_send("c", "OK")
NoAnswer == << Ack >>

\* The head of the connection, or its end once the debugger has gone.
Arrived(p) == inbox # << >> /\ Head(inbox) = p
Closed == inbox = << >> /\ client.state = "gone"
-----------------------------------------------------------------------------
(* The breakpoint table.                                                    *)

\* The first match is overwritten with the last entry.  Mutant: the last entry
\* goes.
RemovedLast(bp, a) == IF a \in ToSet(bp) THEN Front(bp) ELSE bp
Removed(bp, a) ==
    LET k == SelectInSeq(bp, LAMBDA b : b = a)
    IN  IF k = 0 THEN bp ELSE SubSeq([bp EXCEPT ![k] = Last(bp)], 1, Len(bp) - 1)

gdb_should_stop == g.active /\ (g.stepping \/ pc \in ToSet(g.bp))
-----------------------------------------------------------------------------
(* gdb_serve.                                                               *)

ServeStart(to) ==
    /\ phase' = "ack" /\ back' = to
    /\ Sent(gdb_send("stop", "S05"))

\* The byte gdb_send reads after a packet.
ReadAck ==
    /\ phase = "ack"
    /\ inbox # << >> \/ Closed
    /\ inbox' = IF Closed THEN inbox ELSE Tail(inbox)
    /\ phase' = "packet"
    /\ UNCHANGED <<g, pc, halted, back, i, total, resumed, outbox, client>>

\* gdb_recv_packet looks for a packet, or an interrupt byte, which is answered
\* like any unknown command.
SkipByte ==
    /\ phase = "packet" /\ Arrived(Ack)
    /\ inbox' = Tail(inbox)
    /\ UNCHANGED <<core, outbox, client>>

Interrupted ==
    /\ phase = "packet" /\ Arrived(CtrlC)
    /\ inbox' = Tail(inbox)
    /\ phase' = "ack"
    /\ Sent(gdb_send("int", ""))
    /\ UNCHANGED <<g, pc, halted, back, i, total, resumed, client>>

Received(cmd) ==
    /\ phase = "packet" /\ inbox # << >>
    /\ Head(inbox).kind = "packet" /\ Head(inbox).cmd = cmd
    /\ inbox' = Tail(inbox)
Answered(text) ==
    /\ phase' = "ack"
    /\ Sent(Answer(Head(inbox).cmd, text))
    /\ UNCHANGED <<halted, back, i, total, resumed, client>>
Asked == Head(inbox).addr

Read == \E cmd \in {"g", "?"} : Received(cmd) /\ Answered("data") /\ UNCHANGED <<g, pc>>
WriteReg == Received("P") /\ Answered("OK") /\ pc' = Asked /\ UNCHANGED g

SetBreak ==
    /\ Received("Z0")
    /\ UNCHANGED pc
    /\ IF Len(g.bp) < BpMax
       THEN g' = [g EXCEPT !.bp = Append(@, Asked)] /\ Answered("OK")
       ELSE UNCHANGED g /\ Answered("E16")
ClearBreak ==
    /\ Received("z0")
    /\ g' = [g EXCEPT !.bp = Removed(@, Asked)]
    /\ Answered("OK")
    /\ UNCHANGED pc

\* The command is acknowledged and not answered.
Resume ==
    \E cmd \in Resuming :
        /\ Received(cmd)
        /\ Sent(NoAnswer)
        /\ g' = [g EXCEPT !.stepping = (cmd = "s"), !.halted_for_gdb = FALSE]
        /\ phase' = back
        /\ resumed' = [how |-> cmd, done |-> 0, at_start |-> back = "loop"]
        /\ UNCHANGED <<pc, halted, back, i, total, client>>

gdb_close == g' = [g EXCEPT !.active = FALSE]
Kill ==
    /\ Received("k")
    /\ gdb_close
    /\ phase' = "end"            \* exit(0)
    /\ UNCHANGED <<pc, halted, back, i, total, resumed, outbox, client>>
Lost ==
    /\ phase = "packet" /\ Closed
    /\ gdb_close
    /\ phase' = back
    /\ UNCHANGED <<pc, halted, back, i, total, resumed, inbox, outbox, client>>

Serve == ReadAck \/ SkipByte \/ Interrupted \/ Read \/ WriteReg \/ SetBreak \/ ClearBreak
           \/ Resume \/ Kill \/ Lost
-----------------------------------------------------------------------------
(* run_steps_full_gdb.                                                      *)

RunStart ==
    /\ phase = "start"
    /\ IF g.active /\ g.halted_for_gdb
       THEN ServeStart("loop")
       ELSE phase' = "loop" /\ UNCHANGED <<back, outbox>>
    /\ UNCHANGED <<g, pc, halted, i, total, inbox, client, resumed>>

Stop ==
    /\ phase = "loop" /\ i < MaxSteps /\ ~halted
    /\ gdb_should_stop
    /\ g' = [g EXCEPT !.stepping = FALSE, !.halted_for_gdb = TRUE]
    /\ ServeStart("turn")
    /\ UNCHANGED <<pc, halted, i, total, inbox, client, resumed>>

GoOn ==
    /\ phase = "loop" /\ i < MaxSteps /\ ~halted
    /\ ~gdb_should_stop
    /\ phase' = "turn"
    /\ UNCHANGED <<g, pc, halted, back, i, total, resumed, inbox, outbox, client>>

\* The chain is tried unless the program is stepped; its budget may be less
\* than the rest of the run.
Turn ==
    /\ phase = "turn"
    /\ phase' = IF g.stepping THEN "interp" ELSE "chain"
    /\ total' = 0
    /\ UNCHANGED <<g, pc, halted, back, i, resumed, inbox, outbox, client>>

Counted == resumed' = [resumed EXCEPT !.done = IF @ < 2 THEN @ + 1 ELSE @]

\* A block of the chain runs to its terminator, or to its full length, or stops
\* where an instruction halts the core.
Compiled == /\ phase = "chain" /\ MaxSteps - i - total >= MaxLen /\ ~halted
            /\ phase' = "block"
            /\ UNCHANGED <<g, pc, halted, back, i, total, resumed, inbox, outbox, client>>
BlockInstr ==
    /\ phase = "block"
    /\ pc' \in Flow(pc)
    /\ total' = total + 1
    /\ halted' \in BOOLEAN
    /\ phase' \in IF halted' \/ pc \in Terminators THEN {"chain"} ELSE {"chain", "block"}
    /\ Counted
    /\ UNCHANGED <<g, back, i, inbox, outbox, client>>

\* check_irqs_gdb, and the increment of the loop.
Checked(n) ==
    /\ phase' = "loop"
    /\ i' = i + n
ChainReturns ==
    /\ phase = "chain" /\ total > 0
    /\ pc' \in {pc} \union Handlers
    /\ Checked(total)
    /\ total' = 0
    /\ UNCHANGED <<g, halted, back, resumed, inbox, outbox, client>>
ChainEmpty ==
    /\ phase = "chain" /\ total = 0
    /\ phase' = "interp"
    /\ UNCHANGED <<g, pc, halted, back, i, total, resumed, inbox, outbox, client>>

Interpret ==
    /\ phase = "interp"
    /\ pc' \in Flow(pc) \union Handlers
    /\ halted' \in BOOLEAN
    /\ Checked(1)
    /\ Counted
    /\ UNCHANGED <<g, back, total, inbox, outbox, client>>
InterpretFails ==
    /\ phase = "interp"
    /\ halted' = TRUE /\ phase' = "end"
    /\ UNCHANGED <<g, pc, back, i, total, resumed, inbox, outbox, client>>

RunEnds ==
    /\ phase = "loop" /\ (i >= MaxSteps \/ halted)
    /\ phase' = "end"
    /\ UNCHANGED <<g, pc, halted, back, i, total, resumed, inbox, outbox, client>>

Run == RunStart \/ Stop \/ GoOn \/ Turn \/ Compiled \/ BlockInstr \/ ChainReturns
         \/ ChainEmpty \/ Interpret \/ InterpretFails \/ RunEnds
-----------------------------------------------------------------------------
(* The debugger.                                                            *)

\* Packets are sent at its prompt; while one is out it waits for the
\* acknowledgement, and discards what comes before it.
Ask ==
    /\ client.state = "prompt" /\ client.sent < MaxSent
    /\ \E p \in Commands :
           /\ inbox' = Append(inbox, p)
           /\ client' = [client EXCEPT !.sent = @ + 1, !.asked = p,
                                       !.state = IF p.cmd = "k" THEN "gone" ELSE "sent"]
    /\ UNCHANGED <<core, outbox>>

Break ==
    /\ client.state = "running" /\ client.sent < MaxSent
    /\ inbox' = Append(inbox, CtrlC)
    /\ client' = [client EXCEPT !.sent = @ + 1]
    /\ UNCHANGED <<core, outbox>>

\* Its breakpoints, when one is set or removed: with their multiplicity.
Known(p, reply) ==
    LET n == client.breaks[p.addr]
    IN  CASE p.cmd = "Z0" /\ reply.text = "OK" -> [client.breaks EXCEPT ![p.addr] = n + 1]
          [] p.cmd = "z0" /\ n > 0 -> [client.breaks EXCEPT ![p.addr] = n - 1]
          [] OTHER -> client.breaks

Hear ==
    /\ client.state \in {"sent", "await", "running"} /\ outbox # << >>
    /\ outbox' = Tail(outbox)
    /\ LET m == Head(outbox)
       IN  IF m = Ack
           THEN /\ client' = IF client.state # "sent" THEN client
                             ELSE [client EXCEPT !.state = IF client.asked.cmd \in Resuming
                                                           THEN "running" ELSE "await"]
                /\ UNCHANGED inbox
           ELSE /\ inbox' = Append(inbox, Ack)
                /\ client' = CASE client.state = "sent" -> client
                               [] client.state = "running" -> [client EXCEPT !.state = "prompt"]
                               [] client.state = "await" ->
                                     [client EXCEPT !.state = "prompt",
                                                    !.breaks = Known(client.asked, m)]
    /\ UNCHANGED core

\* Its user leaves, or the connection breaks.
Leave ==
    /\ client.state # "gone"
    /\ client' = [client EXCEPT !.state = "gone"]
    /\ UNCHANGED <<core, inbox, outbox>>
-----------------------------------------------------------------------------
\* gdb_listen has returned with a connection, or without; the debugger begins
\* with an acknowledgement.
Init ==
    /\ g \in { [active |-> a, stepping |-> FALSE, halted_for_gdb |-> a, bp |-> << >>] :
                   a \in BOOLEAN }
    /\ pc \in Addrs /\ halted = FALSE
    /\ phase = "start" /\ back = "loop"
    /\ i = 0 /\ total = 0
    /\ inbox = << Ack >> /\ outbox = << >>
    /\ client = [state |-> IF g.active THEN "prompt" ELSE "gone", sent |-> 0,
                 asked |-> Packet("?", 0), breaks |-> [a \in Addrs |-> 0]]
    /\ resumed = [how |-> "none", done |-> 0, at_start |-> TRUE]

Next == Serve \/ Run \/ Ask \/ Break \/ Hear \/ Leave

\* The stub and the loop are code of one thread; the debugger reads what comes.
Fairness == WF_vars(Serve \/ Run) /\ WF_vars(Hear)
Spec == Init /\ [][Next]_vars /\ Fairness
-----------------------------------------------------------------------------
(* Properties.                                                              *)

\* What the debugger takes for the answer to a command, or for the report that
\* the program has stopped, is that one, although a stop is reported unasked at
\* the start, an interrupt byte is answered, and gdb_send reads any one byte as
\* the acknowledgement (gdb.c:26-60, 158-286).
InSync ==
    (outbox # << >> /\ Head(outbox).kind = "packet") =>
        /\ client.state = "await" => Head(outbox).to = client.asked.cmd
        /\ client.state = "running" => Head(outbox).to = "stop"

\* With a debugger listening, an instruction interpreted at one of its
\* breakpoints is the first one after a stop; a step is one instruction (none,
\* for a step from the stop at the connection); and a program told to continue
\* stops at a breakpoint only (run.c:153-190, gdb.c:117-124).
StopsAsAsked ==
    [][client.state # "gone" =>
         /\ Interpret /\ client.breaks[pc] > 0 => resumed.done = 0
         /\ Stop =>
              \/ resumed.how = "s" /\ resumed.done = (IF resumed.at_start THEN 0 ELSE 1)
              \/ resumed.how = "c" /\ client.breaks[pc] > 0]_vars

\* A command is answered, or resumes the program: whatever interrupt bytes are
\* under way, stub and debugger never both wait (gdb.c:26-60).
Replied == client.state \in {"sent", "await"} ~> client.state \notin {"sent", "await"}

\* gdb.h:24-25: should_stop is asked before every instruction, so none at a
\* breakpoint runs without a stop.
BreaksAlways ==
    [][(BlockInstr \/ Interpret) /\ client.state # "gone" /\ client.breaks[pc] > 0
         => resumed.done = 0]_vars
=============================================================================
