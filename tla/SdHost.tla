------------------------------- MODULE SdHost -------------------------------
(***************************************************************************)
(* The Linux driver of the SD card, nemu/resource/sdcard/nemu.c, with the  *)
(* card.  A request of the kernel's block layer is served to its end by    *)
(* one call of nemu_request, under the host's mutex: an optional CMD23     *)
(* (sbc), the command, its data word by word, and an optional CMD12 (stop).*)
(* One register access or one function is a step.                          *)
(*                                                                         *)
(* Sizes are in bytes.  A request's scatter list is the set of offsets at  *)
(* which its segments end.                                                 *)
(***************************************************************************)
EXTENDS SdCard, FiniteSetsExt, Sequences

CONSTANTS
  WordBytes,        \* 4 in the code
  MaxBlocks         \* most sectors of a request

ASSUME SdHostAssumption ==
  /\ WordBytes \in Nat \ {0}
  /\ MaxBlocks \in 1 .. Sectors

VARIABLES
  pc,               \* where the thread inside nemu_request is
  mutex,            \* TRUE: host->mutex is held
  mrq,              \* the request; its error field is data->error # 0
  host,             \* [mrq, cmd, data, data_complete, use_sbc] of nemu_host
  pio,              \* [blk, blksize, off, words] of the PIO loops
  detected,         \* the kernel has read the extended CSD of this card
  buf,              \* history: the words read, by their offset in the buffer
  sent,             \* history: the commands sent for this request
  done,             \* history: calls of mmc_request_done for this request
  warned,           \* history: a WARN_ON has fired
  before            \* history: the image when the request began

hostVars == <<pc, mutex, mrq, host, pio, detected, buf, sent, done, warned, before>>
vars == <<cardVars, hostVars>>

None == "none"
BlockBytes == BlockWords * WordBytes
NoData == [blocks |-> 0, sg |-> {}]

\* mrq->cmd, and what the block layer puts around it.
Opcode(kind) ==
  CASE kind = "read"    -> "READ_MULTIPLE_BLOCK"
    [] kind = "write"   -> "WRITE_MULTIPLE_BLOCK"
    [] kind = "ext_csd" -> "SEND_EXT_CSD"
    [] kind = "if_cond" -> "SEND_EXT_CSD"      \* SD's CMD8 has the same number
    [] kind = "status"  -> "SEND_STATUS"

Request(kind, sbc, stop, arg, blocks, sg) ==
  [kind |-> kind, sbc |-> sbc, stop |-> stop, arg |-> arg, blocks |-> blocks,
   sg |-> sg, error |-> FALSE]

\* Scatter lists for n blocks: of one or two segments, which need not be made of
\* whole words, and may be too short.
ScatterLists(n) ==
  {{e} \cup {s} : s \in 1 .. n * BlockBytes, e \in {BlockBytes, n * BlockBytes}}

\* What the kernel asks for.  Transfers lie within the card, have more than one
\* block, of a size that is a power of two, and follow the detection of the card;
\* commands without data have no stop.  The extended CSD is read into one buffer.
Transfers(n) ==
  [kind : {"read", "write"}, sbc : BOOLEAN, stop : {TRUE}, arg : 0 .. Sectors - n,
   blocks : {n}, sg : ScatterLists(n), error : {FALSE}]

Requests ==
  {Request("if_cond", FALSE, FALSE, 0, 0, {}),
   Request("status", FALSE, FALSE, 0, 0, {}),
   Request("ext_csd", FALSE, FALSE, 0, 1, {BlockBytes})}
  \cup
  IF detected THEN UNION {Transfers(n) : n \in 2 .. MaxBlocks} ELSE {}

HasData(r) == r.blocks > 0
IsRead(r) == r.kind \in {"read", "ext_csd"}

NoRequest == Request("status", FALSE, FALSE, 0, 0, {})

IdleHost ==
  [mrq |-> FALSE, cmd |-> None, data |-> FALSE, data_complete |-> FALSE, use_sbc |-> FALSE]

Init ==
  /\ SdInit
  /\ pc = "idle"
  /\ mutex = FALSE
  /\ mrq = NoRequest
  /\ host = IdleHost
  /\ pio = [blk |-> 0, blksize |-> 0, off |-> 0, words |-> 0]
  /\ detected = FALSE
  /\ buf = <<>>
  /\ sent = <<>>
  /\ done = 0
  /\ warned = FALSE
  /\ before = card

-----------------------------------------------------------------------------
\* nemu_send_command up to the store of SDARG, for the command c, called with the
\* host's fields h after the warning w; nemu_prepare_data sets host->data.
send_command(c, h, w) ==
  /\ warned' = (warned \/ w \/ h.cmd # None \/ h.data)
  /\ host' = [h EXCEPT !.cmd = c,
                       !.data = c = "cmd" /\ HasData(mrq'),
                       !.data_complete = IF c = "cmd" /\ HasData(mrq') THEN FALSE ELSE @]
  /\ set_arg(IF c = "cmd" THEN mrq'.arg ELSE IF c = "sbc" THEN mrq'.blocks ELSE 0)
  /\ pc' = "issue"

\* use_sbc: CMD23 is sent before reads only.
uses_sbc(r) == r.sbc /\ HasData(r) /\ IsRead(r)

\* nemu_request: takes the mutex and sends CMD23 or the command.  A request whose
\* block size is not a power of two is answered before, and touches nothing here.
nemu_request(r) ==
  /\ ~mutex
  /\ mutex' = TRUE
  /\ mrq' = r
  /\ send_command(IF uses_sbc(r) THEN "sbc" ELSE "cmd",
                  [host EXCEPT !.mrq = TRUE, !.use_sbc = uses_sbc(r)],
                  host.mrq)
  /\ detected' = (detected /\ r.kind # "if_cond")
  /\ pio' = [blk |-> 0, blksize |-> BlockBytes, off |-> 0, words |-> 0]
  /\ buf' = <<>>
  /\ sent' = <<>>
  /\ done' = 0
  /\ before' = card

\* The store of SDCMD that ends nemu_send_command; data is moved right after.
issue_command ==
  /\ pc = "issue"
  /\ sdcard_handle_cmd(CASE host.cmd = "sbc" -> "SET_BLOCK_COUNT"
                         [] host.cmd = "stop" -> "STOP_TRANSMISSION"
                         [] OTHER -> Opcode(mrq.kind))
  /\ sent' = Append(sent, host.cmd)
  /\ pc' = IF host.cmd = "cmd" /\ host.data THEN "pio" ELSE "finish_command"
  /\ UNCHANGED <<mutex, mrq, host, pio, detected, buf, done, warned, before>>

-----------------------------------------------------------------------------
\* sg_miter_next: what is left of the segment at offset off, 0 past the end.
sg_miter_next(sg, off) ==
  LET later == {e \in sg : e > off} IN IF later = {} THEN 0 ELSE Min(later) - off

\* len = min(sg_miter.length, blksize)
chunk(length, blksize) == IF length < blksize THEN length ELSE blksize

\* Mutant of break_block: the loop retries the failed segment.
retry_block(blksize) == blksize

\* An error leaves the loop of nemu_transfer_block_pio; the next block goes on.
break_block(blksize) == 0

pio_segment ==
  /\ pc = "pio" /\ pio.words = 0 /\ pio.blksize > 0
  /\ LET length == sg_miter_next(mrq.sg, pio.off)
         len == chunk(length, pio.blksize)
     IN  IF length = 0 \/ len % WordBytes # 0 THEN
           /\ mrq' = [mrq EXCEPT !.error = TRUE]
           /\ pio' = [pio EXCEPT !.blksize = break_block(@), !.off = @ + length]
         ELSE
           /\ pio' = [pio EXCEPT !.blksize = @ - len, !.words = len \div WordBytes]
           /\ UNCHANGED mrq
  /\ UNCHANGED <<cardVars, pc, mutex, host, detected, buf, sent, done, warned, before>>

\* One load or store of SDDATA.
pio_word ==
  /\ pc = "pio" /\ pio.words > 0
  /\ sdcard_data_io(Buf(pio.off))
  /\ buf' = IF IsRead(mrq) THEN [o \in DOMAIN buf \cup {pio.off} |->
                                   IF o = pio.off THEN sddata' ELSE buf[o]]
                           ELSE buf
  /\ pio' = [pio EXCEPT !.off = @ + WordBytes, !.words = @ - 1]
  /\ UNCHANGED <<pc, mutex, mrq, host, detected, sent, done, warned, before>>

\* The next block of the request's loop.
pio_block ==
  /\ pc = "pio" /\ pio.words = 0 /\ pio.blksize = 0
  /\ pio.blk + 1 < mrq.blocks
  /\ pio' = [pio EXCEPT !.blk = @ + 1, !.blksize = BlockBytes]
  /\ UNCHANGED <<cardVars, pc, mutex, mrq, host, detected, buf, sent, done, warned, before>>

-----------------------------------------------------------------------------
finish_request(h) ==
  /\ host' = [h EXCEPT !.mrq = FALSE, !.cmd = None, !.data = FALSE]
  /\ done' = done + 1
  /\ detected' = (detected \/ (mrq.kind = "ext_csd" /\ ~mrq.error))
  /\ pc' = "unlock"

\* Mutant of needs_stop: an error after CMD23 is not followed by CMD12.
needs_stop_open_ended(h) == mrq.stop /\ ~h.use_sbc

needs_stop(h) == mrq.stop /\ (mrq.error \/ ~h.use_sbc)

transfer_complete(h) ==
  IF needs_stop(h) THEN
    /\ mrq' = mrq
    /\ send_command("stop", [h EXCEPT !.data = FALSE], ~h.data_complete)
    /\ UNCHANGED <<detected, done>>
  ELSE
    /\ finish_request([h EXCEPT !.data = FALSE])
    /\ warned' = (warned \/ ~h.data_complete)
    /\ UNCHANGED <<cardVars, mrq>>

\* Mutant of data_complete: nemu_finish_data does not set the flag.
data_incomplete == FALSE

data_complete == TRUE

\* nemu_finish_data, after the last block.  The command has not completed yet
\* (NoWarning), so the request goes on in nemu_finish_command.
nemu_finish_data ==
  /\ pc = "pio" /\ pio.words = 0 /\ pio.blksize = 0
  /\ pio.blk + 1 = mrq.blocks
  /\ host' = [host EXCEPT !.data_complete = data_complete]
  /\ pc' = "finish_command"
  /\ UNCHANGED <<cardVars, mutex, mrq, pio, detected, buf, sent, done, warned, before>>

\* host->cmd = NULL
complete_command(h) == [h EXCEPT !.cmd = None]

\* nemu_finish_command for CMD23: the actual command is next.
finish_sbc ==
  /\ pc = "finish_command" /\ host.cmd = "sbc"
  /\ mrq' = mrq
  /\ send_command("cmd", complete_command(host), FALSE)
  /\ UNCHANGED <<mutex, pio, detected, buf, sent, done, before>>

\* nemu_finish_command for CMD12.
finish_stop ==
  /\ pc = "finish_command" /\ host.cmd = "stop"
  /\ finish_request(host)
  /\ UNCHANGED <<cardVars, mutex, mrq, pio, buf, sent, warned, before>>

\* nemu_finish_command for the request's own command.
finish_command ==
  /\ pc = "finish_command" /\ host.cmd \notin {"sbc", "stop"}
  /\ LET h == complete_command(host) IN
       IF ~h.data THEN
         /\ finish_request(h)
         /\ UNCHANGED <<cardVars, mrq, warned>>
       ELSE IF h.data_complete THEN
         transfer_complete(h)
       ELSE
         /\ host' = h
         /\ pc' = "unlock"
         /\ UNCHANGED <<cardVars, mrq, detected, done, warned>>
  /\ UNCHANGED <<mutex, pio, buf, sent, before>>

\* mutex_unlock, the return of nemu_request.
unlock ==
  /\ pc = "unlock"
  /\ pc' = "idle"
  /\ mutex' = FALSE
  /\ UNCHANGED <<cardVars, mrq, host, pio, detected, buf, sent, done, warned, before>>

Step ==
  \/ issue_command
  \/ pio_segment \/ pio_word \/ pio_block \/ nemu_finish_data
  \/ finish_sbc \/ finish_stop \/ finish_command
  \/ unlock

Next == Step \/ \E r \in Requests : nemu_request(r)

\* The thread inside nemu_request keeps running.
Spec == Init /\ [][Next]_vars /\ WF_vars(Step)

-----------------------------------------------------------------------------
(* Properties                                                              *)

\* The type invariant.
TypeOK ==
  /\ sdarg \in 0 .. Sectors
  /\ fpos \in 0 .. CardWords
  /\ addr \in 0 .. MaxBlocks * BlockWords
  /\ write_cmd \in BOOLEAN /\ read_ext_csd \in BOOLEAN
  /\ DOMAIN card = 0 .. CardWords - 1
  /\ pc \in {"idle", "issue", "pio", "finish_command", "unlock"}
  /\ mutex = (pc # "idle")
  /\ host \in [mrq : BOOLEAN, cmd : {None, "sbc", "cmd", "stop"}, data : BOOLEAN,
               data_complete : BOOLEAN, use_sbc : BOOLEAN]
  /\ pio \in [blk : 0 .. MaxBlocks, blksize : 0 .. BlockBytes,
              off : 0 .. MaxBlocks * BlockBytes, words : 0 .. BlockWords]
  /\ detected \in BOOLEAN /\ warned \in BOOLEAN

Area(r) == {p \in 0 .. CardWords - 1 :
              p >= r.arg * BlockWords /\ p < (r.arg + r.blocks) * BlockWords}

\* What a read that reports no error delivered is what the card held, word by
\* word and in order, whatever was sent to the card before: an aborted transfer,
\* CMD8 without data, a transfer in the other direction.
ReadsCard ==
  pc = "unlock" /\ HasData(mrq) /\ IsRead(mrq) /\ ~mrq.error =>
    \A i \in 0 .. mrq.blocks * BlockWords - 1 :
      /\ i * WordBytes \in DOMAIN buf
      /\ buf[i * WordBytes] =
           IF mrq.kind = "ext_csd" THEN Csd(i) ELSE before[mrq.arg * BlockWords + i]

\* At no time has a request, even one that fails half way, changed a word outside the
\* sectors it writes.
WritesConfined ==
  \A p \in 0 .. CardWords - 1 :
    card[p] # before[p] => mrq.kind = "write" /\ p \in Area(mrq)

\* The ranges of the loops hold; a write that reports no error put its buffer on the
\* card, and no write goes astray.
WritesCard ==
  /\ TypeOK
  /\ pc = "unlock" /\ mrq.kind = "write" /\ ~mrq.error =>
       \A p \in Area(mrq) : card[p] = Buf((p - mrq.arg * BlockWords) * WordBytes)
  /\ WritesConfined

\* The driver's own consistency checks (its WARN_ONs) never fire, and data never
\* finishes without a command to complete, which would answer the request twice.
NoWarning == ~warned /\ (pc = "pio" => host.cmd = "cmd")

\* The driver's own checks hold throughout; and when nemu_request returns, the block
\* layer has been told once, and the host is free for the next request.
DoneOnce ==
  /\ NoWarning
  /\ pc = "unlock" => done = 1 /\ ~host.mrq /\ ~host.data /\ host.cmd = None

\* The commands of a request: CMD12 is sent after an open-ended transfer (no
\* CMD23) and after an error, and only then.
StopWhenNeeded ==
  pc = "unlock" /\ HasData(mrq) /\ mrq.stop =>
    LET Sent(c) == \E i \in DOMAIN sent : sent[i] = c
    IN  Sent("stop") <=> mrq.error \/ ~Sent("sbc")

\* Every request is answered.
RequestAnswered == pc # "idle" ~> pc = "idle"
=============================================================================
