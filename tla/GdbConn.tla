-------------------------------- MODULE GdbConn --------------------------------
(* The reference QEMU of differential testing (nemu/tools/qemu-diff/src): the   *)
(* four calls of difftest-def.h turned into commands of the GDB remote protocol *)
(* (diff-test.c, gdb-host.c), and the connection under them (protocol.c), which *)
(* checks sums, resends what is refused and expands escapes and runs. A byte    *)
(* received is a step. QEMU's stub and the line are external: a reply may come  *)
(* with a run shortened, a byte between its '$' and the end of its sum, other   *)
(* than the '#', may be damaged, and a command may come as one to be refused.   *)
(* Not damaged are the bytes that frame a packet and the acks, because the code *)
(* has no answer to that: recv_packet has no timeout, so without '$' or '#' it  *)
(* waits for ever, and a '+' that comes as anything else makes gdb_send repeat  *)
(* a command that was executed.                                                 *)
EXTENDS Integers, Sequences, FiniteSets

CONSTANTS Addr,       \* guest memory: 0..n
          Datum,      \* contents of a cell
          NrReg, RegVal, \* registers and their values (bytes)
          mtu,        \* longest piece of memory sent at once
          MaxCalls, MaxExec, MaxFaults, \* bounds: calls of the DUT, instructions
                                        \* in one call, damages of the line
          Noise       \* what a damaged byte of a reply turns into

ASSUME GdbConnAssumption ==
  /\ mtu \in Nat \ {0} /\ MaxCalls \in Nat /\ MaxExec \in Nat /\ MaxFaults \in Nat
  /\ IsFiniteSet(Addr) /\ Addr = 0..Cardinality(Addr) - 1 /\ Datum # {} /\ NrReg \in Nat \ {0}
  /\ RegVal \subseteq 0..255 /\ Noise \subseteq 0..255
  /\ \A v \in RegVal : \E w \in RegVal : w # v   \* an instruction has an effect
  /\ 35 \notin Noise   \* a false '#' cuts a packet short: not every sum finds that

VARIABLES
  todo,     \* commands the running call has still to send
  cl,       \* receiver: phase, reply so far, sum, escape, first sum digit
  toClient, toStub,
  stub,     \* QEMU: memory, registers, instructions executed, reply not yet acked
  want,     \* history: what the DUT's calls ask of the reference
  got,      \* the last reply gdb_recv returned, and what the stub had answered
  calls, faults

gdbVars == <<todo, cl, toClient, toStub, stub, want, got, calls, faults>>

Dollar == 36   Hash == 35   Brace == 125   Star == 42   Plus == 43   Minus == 45
OK == <<79, 75>>   T05 == <<84, 48, 53>>
QemuState == [mem : [Addr -> Datum], regs : [1..NrReg -> RegVal], steps : Nat]

-------------------------------------------------------------------------------
(* Conversions of protocol.c.                                                 *)
xor20(c) == IF (c \div 32) % 2 = 1 THEN c - 32 ELSE c + 32

hex_encode(d) == IF d > 9 THEN 97 + d - 10 ELSE 48 + d

isxdigit(h) == h \in 48..57 \cup 65..70 \cup 97..102
hex_nibble(h) == IF h \in 48..57 THEN h - 48 ELSE (IF h < 97 THEN h - 65 ELSE h - 97) + 10

gdb_decode_hex(msb, lsb) ==
  IF isxdigit(msb) /\ isxdigit(lsb) THEN 16 * hex_nibble(msb) + hex_nibble(lsb) ELSE 65535

RegsText(r) ==
  [i \in 1..2 * NrReg |->
     hex_encode(IF i % 2 = 1 THEN r[(i + 1) \div 2] \div 16 ELSE r[i \div 2] % 16)]
RegsOf(text) == [i \in 1..NrReg |-> gdb_decode_hex(text[2 * i - 1], text[2 * i])]

-------------------------------------------------------------------------------
(* QEMU's stub.                                                               *)
\* A reply as it is, or with one run of equal characters shortened: the i-th one and
\* n more.  Replies are letters and digits, of which none needs an escape.
Runs(s) ==
  {x \in (1..Len(s)) \X (3..5) :
     x[1] + x[2] <= Len(s) /\ \A j \in x[1]..x[1] + x[2] : s[j] = s[x[1]]}
Shortened(s, i, n) == SubSeq(s, 1, i) \o <<Star, 29 + n>> \o SubSeq(s, i + n + 1, Len(s))
Encodings(s) == {s} \cup {Shortened(s, x[1], x[2]) : x \in Runs(s)}

\* Sums(s)[i] is the sum of the first i bytes.
Sums(s) == LET f[i \in 0..Len(s)] == IF i = 0 THEN 0 ELSE (f[i - 1] + s[i]) % 256 IN f
Sum(s) == Sums(s)[Len(s)]
Packet(body) == <<Dollar>> \o body \o
                <<Hash, hex_encode(Sum(body) \div 16), hex_encode(Sum(body) % 16)>>

\* The sum of a reply finds that a false '$' has cut off its start.
Answers == {OK, T05} \cup {RegsText(r) : r \in [1..NrReg -> RegVal]}
NoEcho ==
  Dollar \in Noise =>
    \A s \in Answers : \A body \in Encodings(s) : \A i \in 1..Len(body) : Sums(body)[i] # 0

Answer(m, cmd) == IF cmd.k = "g" THEN RegsText(m.regs) ELSE IF cmd.k = "s" THEN T05 ELSE OK

Stored(mem, cmd) ==
  [a \in Addr |-> IF a \in cmd.dest..cmd.dest + Len(cmd.data) - 1
                  THEN cmd.data[a - cmd.dest + 1] ELSE mem[a]]
Executed(m, cmd) ==
  [mem |-> IF cmd.k = "M" THEN Stored(m.mem, cmd) ELSE m.mem,
   regs |-> IF cmd.k = "s" THEN [m.regs EXCEPT ![1] = CHOOSE v \in RegVal : v # @]
            ELSE IF cmd.k = "G" THEN cmd.regs ELSE m.regs,
   steps |-> IF cmd.k = "s" THEN m.steps + 1 ELSE m.steps]

\* The ways a line damages a packet: one byte of its body or sum.
Damaged(p) ==
  {[p EXCEPT ![i] = n] : i \in {j \in 2..Len(p) : p[j] # Hash}, n \in Noise}

Sent(ack, body) ==
  \/ toClient' = toClient \o ack \o Packet(body) /\ UNCHANGED faults
  \/ /\ faults < MaxFaults
     /\ faults' = faults + 1
     /\ \E p \in Damaged(Packet(body)) : toClient' = toClient \o ack \o p

stub_command ==
  /\ toStub # <<>> /\ Head(toStub).k \in {"s", "M", "g", "G"}
  /\ toStub' = Tail(toStub)
  /\ LET m == Executed(stub.m, Head(toStub))
         answer == Answer(m, Head(toStub)) IN
     \/ /\ stub' = [m |-> m, reply |-> answer]
        /\ \E body \in Encodings(answer) : Sent(<<Plus>>, body)
     \/ /\ faults < MaxFaults   \* the command came damaged
        /\ faults' = faults + 1
        /\ toClient' = Append(toClient, Minus)
        /\ UNCHANGED stub
  /\ UNCHANGED <<todo, cl, want, got, calls>>

stub_ack ==
  /\ toStub # <<>> /\ Head(toStub).k \in {"+", "-"}
  /\ toStub' = Tail(toStub)
  /\ IF Head(toStub).k = "-" THEN \E body \in Encodings(stub.reply) : Sent(<<>>, body)
     ELSE UNCHANGED <<toClient, faults>>
  /\ UNCHANGED <<todo, cl, stub, want, got, calls>>

-------------------------------------------------------------------------------
(* The calls of the DUT.                                                      *)
Phase(ph) == [ph |-> ph, reply |-> <<>>, sum |-> 0, escape |-> FALSE, msb |-> 0]

GdbInit ==
  /\ todo = <<>> /\ cl = Phase("idle")
  /\ toClient = <<>> /\ toStub = <<[k |-> "+"]>>
  /\ \E r \in RegVal :
       want = [mem |-> [x \in Addr |-> CHOOSE d \in Datum : TRUE], regs |-> [x \in 1..NrReg |-> r], steps |-> 0]
  /\ stub = [m |-> want, reply |-> <<>>]
  /\ got = [reply |-> <<>>, answer |-> <<>>, regs |-> want.regs, ref_regs |-> want.regs]
  /\ calls = 0 /\ faults = 0

call(commands, machine) ==
  /\ cl.ph = "idle" /\ calls < MaxCalls
  /\ todo' = commands
  /\ want' = machine
  /\ calls' = calls + 1
  /\ cl' = Phase("send")
  /\ UNCHANGED <<toClient, toStub, stub, got, faults>>

difftest_exec(n) ==
  LET si == [k |-> "s"]
      after[i \in 0..n] == IF i = 0 THEN want ELSE Executed(after[i - 1], si) IN
  call([i \in 1..n |-> si], after[n])

\* Mutant of next_dest: every piece goes to the same place.
next_dest_same(dest) == dest

next_dest(dest) == dest + mtu

\* gdb_memcpy_to_qemu: pieces of mtu while more than mtu is left, then the rest.
pieces(dest, data) ==
  LET f[k \in 0..Len(data)] ==   \* k pieces are done
        LET d == IF k = 0 THEN dest ELSE f[k - 1].next IN
        [next |-> next_dest(d),
         cmd |-> [k |-> "M", dest |-> d,
                  data |-> SubSeq(data, k * mtu + 1, IF Len(data) - k * mtu > mtu
                                                     THEN (k + 1) * mtu ELSE Len(data))]]
      n == IF Len(data) = 0 THEN 1 ELSE (Len(data) + mtu - 1) \div mtu
  IN  [k \in 1..n |-> f[k - 1].cmd]

difftest_memcpy(dest, data) ==
  call(pieces(dest, data), Executed(want, [k |-> "M", dest |-> dest, data |-> data]))

difftest_regcpy_to_ref(r) ==
  call(<<[k |-> "g"], [k |-> "G", regs |-> r]>>, [want EXCEPT !.regs = r])

difftest_regcpy_to_dut == call(<<[k |-> "g"]>>, want)

-------------------------------------------------------------------------------
(* gdb_send and gdb_recv.                                                     *)
send_packet ==
  /\ cl.ph = "send"
  /\ toStub' = Append(toStub, Head(todo))
  /\ cl' = Phase("ack")
  /\ UNCHANGED <<todo, toClient, stub, want, got, calls, faults>>

\* Mutant of acked: whatever comes is an ack.
acked_any(byte) == TRUE

acked(byte) == byte = Plus

new_sum(sum, byte) == (sum + byte) % 256

\* recv_packet adds a byte to the reply, unescaped.
add(byte) == [cl EXCEPT !.ph = "body", !.escape = FALSE,
                        !.reply = Append(@, IF cl.escape THEN xor20(byte) ELSE byte)]

sum_ok(lsb) == cl.sum = gdb_decode_hex(cl.msb, lsb)

fgetc(ph) ==
  /\ cl.ph = ph /\ toClient # <<>>
  /\ toClient' = Tail(toClient)
  /\ UNCHANGED <<want, stub, calls, faults>>
char == Head(toClient)

wait_ack ==
  /\ fgetc("ack")
  /\ cl' = Phase(IF acked(char) THEN "hunt" ELSE "send")
  /\ UNCHANGED <<todo, toStub, got>>

fast_forward ==
  /\ fgetc("hunt")
  /\ cl' = Phase(IF char = Dollar THEN "body" ELSE "hunt")
  /\ UNCHANGED <<todo, toStub, got>>

repeats == char = Star /\ cl.reply # <<>>

recv_char ==
  /\ fgetc("body")
  /\ LET counted == [cl EXCEPT !.sum = new_sum(@, char)] IN
     \/ char = Dollar /\ cl' = Phase("body")
     \/ char = Hash /\ cl' = [cl EXCEPT !.ph = "msb"]
     \/ char = Brace /\ cl' = [counted EXCEPT !.escape = TRUE]
     \/ repeats /\ cl' = [counted EXCEPT !.ph = "run"]
     \/ /\ char \notin {Dollar, Hash, Brace} /\ ~repeats
        /\ cl' = [add(char) EXCEPT !.sum = counted.sum]
  /\ UNCHANGED <<todo, toStub, got>>

\* Mutant of run_length: one too many.
run_length_29(c2) == c2 - 28

run_length(c2) == c2 - 29

valid_count(c2) == c2 \in 29..126 /\ c2 \notin {Dollar, Hash}

recv_run ==
  \/ /\ fgetc("run") /\ valid_count(char)
     /\ cl' = [cl EXCEPT !.ph = "body", !.sum = new_sum(@, char),
                         !.reply = @ \o [i \in 1..run_length(char) |-> @[Len(@)]]]
     /\ UNCHANGED <<todo, toStub, got>>
  \/ /\ cl.ph = "run" /\ toClient # <<>> /\ ~valid_count(char)   \* ungetc
     /\ cl' = add(Star)
     /\ UNCHANGED <<todo, toClient, toStub, stub, want, got, calls, faults>>

recv_msb ==
  /\ fgetc("msb")
  /\ cl' = [cl EXCEPT !.ph = "lsb", !.msb = char]
  /\ UNCHANGED <<todo, toStub, got>>

\* The sum decides between '+', which ends the command, and '-'.
recv_lsb ==
  /\ fgetc("lsb")
  /\ IF sum_ok(char)
     THEN /\ toStub' = Append(toStub, [k |-> "+"])
          /\ todo' = Tail(todo)
          /\ got' = [reply |-> cl.reply, answer |-> stub.reply,
                     regs |-> IF Head(todo).k = "g" THEN RegsOf(cl.reply) ELSE stub.m.regs,
                     ref_regs |-> stub.m.regs]
          /\ cl' = Phase(IF Tail(todo) = <<>> THEN "idle" ELSE "send")
     ELSE /\ toStub' = Append(toStub, [k |-> "-"])
          /\ cl' = Phase("hunt")
          /\ UNCHANGED <<todo, got>>

Client == send_packet \/ wait_ack \/ fast_forward \/ recv_char \/ recv_run \/ recv_msb \/ recv_lsb
Stub == stub_command \/ stub_ack

Call ==
  \/ \E n \in 1..MaxExec : difftest_exec(n)
  \/ \E dest \in Addr : \E n \in 0..Cardinality(Addr) - dest : \E data \in [1..n -> Datum] :
       difftest_memcpy(dest, data)
  \/ \E r \in [1..NrReg -> RegVal] : difftest_regcpy_to_ref(r)
  \/ difftest_regcpy_to_dut

GdbNext == Client \/ Stub \/ Call

\* The reference's thread blocks in fgetc only; QEMU serves its socket.
GdbSpec == GdbInit /\ [][GdbNext]_gdbVars /\ WF_gdbVars(Client) /\ WF_gdbVars(Stub)

-------------------------------------------------------------------------------
GdbTypeOK ==
  /\ cl.ph \in {"idle", "send", "ack", "hunt", "body", "run", "msb", "lsb"}
  /\ cl.sum \in 0..255 /\ cl.escape \in BOOLEAN /\ cl.msb \in 0..255
  /\ \A i \in 1..Len(cl.reply) : cl.reply[i] \in 0..255
  /\ \A i \in 1..Len(toClient) : toClient[i] \in 0..255
  /\ stub.m \in QemuState /\ want \in QemuState
  /\ calls \in 0..MaxCalls /\ faults \in 0..MaxFaults

\* gdb_recv returns exactly what the stub answered, whatever encoding it chose and
\* although a byte of the body or the sum, or of an earlier copy of it, was damaged; so
\* gdb_memcpy_to_qemu's comparison with "OK" never fails difftest_memcpy's assert, and
\* gdb_getregs reads the reference's registers.
ReplyIntact == got.reply = got.answer /\ got.regs = got.ref_regs

\* Between two calls of the DUT the reference is where the calls have put it: each
\* difftest_exec executed its instructions once, although refused commands were sent
\* again and damaged replies asked for again, and each memcpy landed whole, although it
\* went in pieces. Acks arrive as they were sent (see Damaged).
RefInStep == GdbTypeOK /\ (cl.ph = "idle" => stub.m = want)

\* Every call returns while packets keep their '$' and '#': no ack is taken for
\* something else and nobody waits for a packet that is not sent again.
CallsReturn == cl.ph # "idle" ~> cl.ph = "idle"
===============================================================================
