---------------------------- MODULE SdHostProofs ----------------------------
(***************************************************************************)
(* The driver and the card, for every size of card, sector, word, request  *)
(* and scatter list.  HostInv: the driver's own checks never fire, each    *)
(* request is answered once, and CMD12 is sent exactly when a transfer     *)
(* needs it.  CardInv: the card's position stays within the request.       *)
(* DataInv: a request that reports no error moved its data.                *)
(***************************************************************************)
EXTENDS SdHost, SequenceTheorems, TLAPS

Cmds == {None, "sbc", "cmd", "stop"}

HostType ==
  [mrq : BOOLEAN, cmd : Cmds, data : BOOLEAN,
   data_complete : BOOLEAN, use_sbc : BOOLEAN]

MrqType ==
  [kind : {"read", "write", "ext_csd", "if_cond", "status"}, sbc : BOOLEAN, stop : BOOLEAN,
   arg : Int, blocks : Int, sg : SUBSET Int, error : BOOLEAN]

WasSent(c) == \E i \in DOMAIN sent : sent[i] = c

\* CMD23 was sent if the request uses it; CMD12 was not sent, or it was.
NotStopped == (WasSent("sbc") <=> host.use_sbc) /\ ~WasSent("stop")
Stopped == (WasSent("sbc") <=> host.use_sbc) /\ WasSent("stop")

Free == ~host.mrq /\ ~host.data /\ host.cmd = None

\* The next command to be sent, and what was sent before it.
IssueOK ==
  pc = "issue" =>
    /\ host.mrq /\ done = 0
    /\ host.cmd = "sbc"  => ~host.data /\ host.use_sbc /\ sent = <<>>
    /\ host.cmd = "cmd"  => host.data = HasData(mrq) /\ NotStopped
    /\ host.cmd = "stop" => ~host.data /\ HasData(mrq) /\ needs_stop(host) /\ NotStopped
    /\ host.cmd # None

PioOK ==
  pc = "pio" =>
    /\ host.mrq /\ done = 0
    /\ host.cmd = "cmd" /\ host.data /\ HasData(mrq) /\ NotStopped

\* The command that completes, with its data.
FinishOK ==
  pc = "finish_command" =>
    /\ host.mrq /\ done = 0
    /\ host.cmd = "sbc"  => ~host.data /\ host.use_sbc /\ NotStopped
    /\ host.cmd = "cmd"  => host.data = HasData(mrq) /\ NotStopped
    /\ host.cmd = "cmd" /\ host.data => host.data_complete
    /\ host.cmd = "stop" => ~host.data /\ HasData(mrq) /\ needs_stop(host) /\ Stopped
    /\ host.cmd # None

UnlockOK ==
  pc = "unlock" =>
    /\ Free /\ done = 1
    /\ HasData(mrq) => IF needs_stop(host) THEN Stopped ELSE NotStopped

HostInv ==
  /\ pc \in {"idle", "issue", "pio", "finish_command", "unlock"}
  /\ mutex = (pc # "idle")
  /\ host \in HostType /\ mrq \in MrqType /\ sent \in Seq(Cmds)
  /\ ~warned
  /\ pc = "idle" => Free
  /\ IssueOK /\ PioOK /\ FinishOK /\ UnlockOK

-----------------------------------------------------------------------------
\* What the kernel asks for is a request, without an error.
LEMMA RequestType ==
  ASSUME NEW r \in Requests
  PROVE  r \in MrqType /\ ~r.error
<1>1. CASE r \in {Request("if_cond", FALSE, FALSE, 0, 0, {}),
                 Request("status", FALSE, FALSE, 0, 0, {}),
                 Request("ext_csd", FALSE, FALSE, 0, 1, {BlockBytes})}
  <2>1. BlockBytes \in Int
    BY SdCardAssumption, SdHostAssumption DEF BlockBytes
  <2>2. {BlockBytes} \in SUBSET Int /\ {} \in SUBSET Int
    BY <2>1
  <2>3. CASE r = Request("if_cond", FALSE, FALSE, 0, 0, {})
    BY <2>2, <2>3 DEF Request, MrqType
  <2>4. CASE r = Request("status", FALSE, FALSE, 0, 0, {})
    BY <2>2, <2>4 DEF Request, MrqType
  <2>5. CASE r = Request("ext_csd", FALSE, FALSE, 0, 1, {BlockBytes})
    BY <2>2, <2>5 DEF Request, MrqType
  <2> QED
    BY <1>1, <2>3, <2>4, <2>5
<1>2. ASSUME NEW n \in 2 .. MaxBlocks, r \in Transfers(n) PROVE r \in MrqType /\ ~r.error
  <2>1. n \in Int /\ n * BlockBytes \in Int /\ BlockBytes \in Int /\ Sectors - n \in Int
    BY SdCardAssumption, SdHostAssumption DEF BlockBytes
  <2>2. ScatterLists(n) \subseteq SUBSET Int
    <3> SUFFICES ASSUME NEW sg \in ScatterLists(n) PROVE sg \in SUBSET Int
      OBVIOUS
    <3>1. PICK t \in 1 .. n * BlockBytes, e \in {BlockBytes, n * BlockBytes} : sg = {e} \cup {t}
      BY DEF ScatterLists
    <3> QED
      BY <2>1, <3>1
  <2>3. /\ r = [kind |-> r.kind, sbc |-> r.sbc, stop |-> r.stop, arg |-> r.arg,
                blocks |-> r.blocks, sg |-> r.sg, error |-> r.error]
        /\ r.kind \in {"read", "write"} /\ r.sbc \in BOOLEAN /\ r.stop = TRUE
        /\ r.arg \in 0 .. Sectors - n /\ r.blocks = n /\ r.sg \in ScatterLists(n)
        /\ r.error = FALSE
    BY <1>2 DEF Transfers
  <2>4. r.kind \in {"read", "write", "ext_csd", "if_cond", "status"} /\ r.arg \in Int
    BY <2>1, <2>3
  <2> QED
    BY <2>1, <2>2, <2>3, <2>4 DEF MrqType
<1>3. \/ r \in {Request("if_cond", FALSE, FALSE, 0, 0, {}),
               Request("status", FALSE, FALSE, 0, 0, {}),
               Request("ext_csd", FALSE, FALSE, 0, 1, {BlockBytes})}
      \/ \E n \in 2 .. MaxBlocks : r \in Transfers(n)
  BY DEF Requests
<1> QED
  BY <1>1, <1>2, <1>3

\* A command that is sent is one more that was sent.
LEMMA AppendSent ==
  ASSUME sent \in Seq(Cmds), NEW c \in Cmds, sent' = Append(sent, c)
  PROVE  /\ sent' \in Seq(Cmds)
         /\ \A d : WasSent(d)' <=> WasSent(d) \/ d = c
<1>1. /\ sent' \in Seq(Cmds) /\ DOMAIN sent = 1 .. Len(sent) /\ Len(sent) \in Nat
      /\ DOMAIN sent' = 1 .. Len(sent) + 1 /\ sent'[Len(sent) + 1] = c
      /\ \A i \in 1 .. Len(sent) : sent'[i] = sent[i]
  <2>1. /\ Append(sent, c) \in Seq(Cmds) /\ Len(Append(sent, c)) = Len(sent) + 1
        /\ Append(sent, c)[Len(sent) + 1] = c
        /\ \A i \in 1 .. Len(sent) : Append(sent, c)[i] = sent[i]
    BY AppendProperties
  <2>2. Len(sent) \in Nat /\ DOMAIN sent = 1 .. Len(sent)
    BY LenProperties
  <2>3. DOMAIN Append(sent, c) = 1 .. Len(sent) + 1
    BY <2>1, LenProperties
  <2> QED
    BY <2>1, <2>2, <2>3
<1>2. /\ Len(sent) + 1 \in 1 .. Len(sent) + 1
      /\ \A i \in 1 .. Len(sent) + 1 : i \in 1 .. Len(sent) \/ i = Len(sent) + 1
      /\ \A i \in 1 .. Len(sent) : i \in 1 .. Len(sent) + 1
  BY <1>1
<1> QED
  BY <1>1, <1>2 DEF WasSent

\* Nothing is held, asked or sent at first.
LEMMA HostInvInit == Init => HostInv
<1> SUFFICES ASSUME Init PROVE HostInv
  OBVIOUS
<1>1. mrq \in MrqType
  BY DEF Init, NoRequest, Request, MrqType
<1>2. host \in HostType /\ Free
  BY DEF Init, IdleHost, HostType, Cmds, Free, None
<1>3. sent \in Seq(Cmds) /\ pc = "idle" /\ mutex = FALSE /\ ~warned
  <2>1. sent = <<>>
    BY DEF Init
  <2> QED
    BY <2>1 DEF Init
<1> QED
  BY <1>1, <1>2, <1>3 DEF HostInv, IssueOK, PioOK, FinishOK, UnlockOK

\* nemu_request starts with CMD23 or the command.
LEMMA RequestPreserves ==
  ASSUME HostInv, NEW r \in Requests, nemu_request(r)
  PROVE  HostInv'
<1> DEFINE h == [host EXCEPT !.mrq = TRUE, !.use_sbc = uses_sbc(r)]
           c == IF uses_sbc(r) THEN "sbc" ELSE "cmd"
<1>1. ~mutex /\ mutex' = TRUE /\ mrq' = r /\ sent' = <<>> /\ done' = 0
  BY DEF nemu_request
<1>2. r \in MrqType /\ ~r.error /\ uses_sbc(r) \in BOOLEAN /\ HasData(r) \in BOOLEAN
  BY RequestType DEF MrqType, uses_sbc, HasData, IsRead
<1>3. pc = "idle" /\ Free /\ host \in HostType /\ ~warned
  BY <1>1 DEF HostInv
<1>4. /\ warned' = (warned \/ host.mrq \/ h.cmd # None \/ h.data)
      /\ host' = [h EXCEPT !.cmd = c, !.data = c = "cmd" /\ HasData(r),
                           !.data_complete = IF c = "cmd" /\ HasData(r) THEN FALSE ELSE @]
      /\ pc' = "issue"
  BY <1>1 DEF nemu_request, send_command
<1>5. h \in HostType /\ h.cmd = None /\ ~h.data /\ h.mrq /\ h.use_sbc = uses_sbc(r)
  BY <1>2, <1>3 DEF HostType, Free
<1>6. c \in {"sbc", "cmd"} /\ (c = "sbc" <=> uses_sbc(r))
  OBVIOUS
<1> HIDE DEF h, c
<1>7. /\ host' \in HostType /\ host'.mrq /\ host'.cmd = c /\ host'.use_sbc = uses_sbc(r)
      /\ host'.data = (c = "cmd" /\ HasData(r))
  BY <1>2, <1>4, <1>5, <1>6 DEF HostType, Cmds
<1>8. ~warned'
  BY <1>3, <1>4, <1>5 DEF Free
<1>9. sent' \in Seq(Cmds) /\ ~WasSent("sbc")' /\ ~WasSent("stop")'
  BY <1>1 DEF WasSent
<1>10. c = "cmd" => NotStopped'
  BY <1>6, <1>7, <1>9 DEF NotStopped
<1>11. IssueOK'
  <2>1. CASE c = "sbc"
    BY <1>1, <1>2, <1>6, <1>7, <2>1 DEF IssueOK, None
  <2>2. CASE c = "cmd"
    BY <1>1, <1>2, <1>7, <1>10, <2>2 DEF IssueOK, None, HasData
  <2> QED
    BY <1>6, <2>1, <2>2
<1> QED
  BY <1>1, <1>2, <1>4, <1>7, <1>8, <1>9, <1>11 DEF HostInv, PioOK, FinishOK, UnlockOK

\* The command goes to the card.
LEMMA IssuePreserves == HostInv /\ issue_command => HostInv'
<1> SUFFICES ASSUME HostInv, issue_command PROVE HostInv'
  OBVIOUS
<1>1. /\ pc = "issue" /\ sent' = Append(sent, host.cmd)
      /\ UNCHANGED <<mutex, mrq, host, done, warned>>
      /\ pc' = IF host.cmd = "cmd" /\ host.data THEN "pio" ELSE "finish_command"
  BY DEF issue_command
<1>2. IssueOK /\ host \in HostType
  BY DEF HostInv
<1>3. /\ sent' \in Seq(Cmds) /\ host.cmd \in Cmds
      /\ WasSent("sbc")' <=> WasSent("sbc") \/ "sbc" = host.cmd
      /\ WasSent("stop")' <=> WasSent("stop") \/ "stop" = host.cmd
  <2>1. host.cmd \in Cmds /\ sent \in Seq(Cmds)
    BY DEF HostInv, HostType
  <2>2. sent' \in Seq(Cmds) /\ \A d : WasSent(d)' <=> WasSent(d) \/ d = host.cmd
    BY <1>1, <2>1, AppendSent
  <2> QED
    BY <2>1, <2>2
<1>4. host' = host /\ mrq' = mrq /\ HasData(mrq)' = HasData(mrq)
        /\ needs_stop(host)' = needs_stop(host)
  BY <1>1 DEF HasData, needs_stop
<1>5. CASE host.cmd = "sbc"
  <2>1. sent = <<>> /\ host.use_sbc /\ ~host.data
    BY <1>1, <1>2, <1>5 DEF IssueOK
  <2>2. ~WasSent("sbc") /\ ~WasSent("stop")
    BY <2>1 DEF WasSent
  <2>3. NotStopped' /\ pc' = "finish_command"
    BY <1>1, <1>3, <1>5, <2>1, <2>2 DEF NotStopped
  <2> QED
    BY <1>1, <1>2, <1>3, <1>4, <1>5, <2>1, <2>3
       DEF HostInv, IssueOK, PioOK, FinishOK, UnlockOK, None
<1>6. CASE host.cmd = "cmd"
  <2>1. NotStopped /\ host.data = HasData(mrq) /\ host.data \in BOOLEAN
    BY <1>1, <1>2, <1>6 DEF IssueOK, HostType
  <2>2. NotStopped'
    BY <1>3, <1>4, <1>6, <2>1 DEF NotStopped
  <2>3. pc' = IF HasData(mrq) THEN "pio" ELSE "finish_command"
    BY <1>1, <1>6, <2>1
  <2> QED
    BY <1>1, <1>2, <1>3, <1>4, <1>6, <2>1, <2>2, <2>3
       DEF HostInv, IssueOK, PioOK, FinishOK, UnlockOK, None
<1>7. CASE host.cmd = "stop"
  <2>1. NotStopped /\ ~host.data /\ HasData(mrq) /\ needs_stop(host)
    BY <1>1, <1>2, <1>7 DEF IssueOK
  <2>2. Stopped' /\ pc' = "finish_command"
    BY <1>1, <1>3, <1>4, <1>7, <2>1 DEF Stopped, NotStopped
  <2> QED
    BY <1>1, <1>2, <1>3, <1>4, <1>7, <2>1, <2>2
       DEF HostInv, IssueOK, PioOK, FinishOK, UnlockOK, None
<1> QED
  BY <1>1, <1>2, <1>5, <1>6, <1>7 DEF IssueOK, HostType, Cmds

\* The steps of the PIO loop record an error at most.
LEMMA PioPreserves == HostInv /\ (pio_segment \/ pio_word \/ pio_block) => HostInv'
<1> SUFFICES ASSUME HostInv, pio_segment \/ pio_word \/ pio_block PROVE HostInv'
  OBVIOUS
<1>1. pc = "pio" /\ UNCHANGED <<pc, mutex, host, sent, done, warned>>
  BY DEF pio_segment, pio_word, pio_block
<1>2. mrq' = mrq \/ mrq' = [mrq EXCEPT !.error = TRUE]
  BY DEF pio_segment, pio_word, pio_block
<1>3. mrq' \in MrqType /\ HasData(mrq') = HasData(mrq)
  BY <1>2 DEF HostInv, MrqType, HasData
<1>4. PioOK'
  BY <1>1, <1>3 DEF HostInv, PioOK, NotStopped, WasSent, HasData
<1> QED
  BY <1>1, <1>3, <1>4 DEF HostInv, IssueOK, FinishOK, UnlockOK

\* The data is complete before its command is.
LEMMA DataPreserves == HostInv /\ nemu_finish_data => HostInv'
<1> SUFFICES ASSUME HostInv, nemu_finish_data PROVE HostInv'
  OBVIOUS
<1>1. /\ pc = "pio" /\ pc' = "finish_command" /\ UNCHANGED <<mutex, mrq, sent, done, warned>>
      /\ host' = [host EXCEPT !.data_complete = TRUE]
  BY DEF nemu_finish_data, data_complete
<1>2. PioOK /\ host \in HostType
  BY DEF HostInv
<1>3. /\ host' \in HostType /\ host'.mrq = host.mrq /\ host'.cmd = host.cmd
      /\ host'.data = host.data /\ host'.use_sbc = host.use_sbc /\ host'.data_complete
  BY <1>1, <1>2 DEF HostType
<1>4. FinishOK'
  BY <1>1, <1>2, <1>3 DEF PioOK, FinishOK, NotStopped, WasSent, HasData, None
<1> QED
  BY <1>1, <1>3, <1>4 DEF HostInv, IssueOK, PioOK, UnlockOK

\* After CMD23 the command is sent.
LEMMA SbcPreserves == HostInv /\ finish_sbc => HostInv'
<1> SUFFICES ASSUME HostInv, finish_sbc PROVE HostInv'
  OBVIOUS
<1> DEFINE h == complete_command(host)
<1>1. /\ pc = "finish_command" /\ host.cmd = "sbc" /\ pc' = "issue"
      /\ UNCHANGED <<mutex, mrq, sent, done>>
      /\ warned' = (warned \/ FALSE \/ h.cmd # None \/ h.data)
      /\ host' = [h EXCEPT !.cmd = "cmd", !.data = "cmd" = "cmd" /\ HasData(mrq),
                           !.data_complete = IF "cmd" = "cmd" /\ HasData(mrq) THEN FALSE ELSE @]
  BY DEF finish_sbc, send_command
<1>2. FinishOK /\ host \in HostType /\ mrq \in MrqType /\ ~warned /\ mutex
  BY <1>1 DEF HostInv
<1>3. h \in HostType /\ h.cmd = None /\ ~h.data /\ h.mrq = host.mrq /\ h.use_sbc = host.use_sbc
  BY <1>1, <1>2 DEF HostType, Cmds, FinishOK, complete_command
<1>4. HasData(mrq) \in BOOLEAN
  BY <1>2 DEF MrqType, HasData
<1> HIDE DEF h
<1>5. /\ host' \in HostType /\ host'.mrq = host.mrq /\ host'.cmd = "cmd"
      /\ host'.data = HasData(mrq) /\ host'.use_sbc = host.use_sbc
  BY <1>1, <1>3, <1>4 DEF HostType, Cmds
<1>6. ~warned'
  BY <1>1, <1>2, <1>3
<1>7. IssueOK'
  BY <1>1, <1>2, <1>5 DEF IssueOK, FinishOK, NotStopped, WasSent, HasData, None
<1> QED
  BY <1>1, <1>2, <1>5, <1>6, <1>7 DEF HostInv, PioOK, FinishOK, UnlockOK

\* After CMD12 the request is answered.
LEMMA StopPreserves == HostInv /\ finish_stop => HostInv'
<1> SUFFICES ASSUME HostInv, finish_stop PROVE HostInv'
  OBVIOUS
<1>1. /\ pc = "finish_command" /\ host.cmd = "stop" /\ pc' = "unlock" /\ done' = done + 1
      /\ UNCHANGED <<mutex, mrq, sent, warned>>
      /\ host' = [host EXCEPT !.mrq = FALSE, !.cmd = None, !.data = FALSE]
  BY DEF finish_stop, finish_request
<1>2. FinishOK /\ host \in HostType
  BY DEF HostInv
<1>3. host' \in HostType /\ Free' /\ host'.use_sbc = host.use_sbc
  BY <1>1, <1>2 DEF HostType, Cmds, Free
<1>4. UnlockOK'
  BY <1>1, <1>2, <1>3 DEF UnlockOK, FinishOK, HasData, needs_stop, Stopped, WasSent
<1> QED
  BY <1>1, <1>3, <1>4 DEF HostInv, IssueOK, PioOK, FinishOK

\* After the command the request is answered, or CMD12 is sent.
LEMMA CommandPreserves == HostInv /\ finish_command => HostInv'
<1> SUFFICES ASSUME HostInv, finish_command PROVE HostInv'
  OBVIOUS
<1> DEFINE h == complete_command(host)
           g == [h EXCEPT !.data = FALSE]
<1>1. /\ pc = "finish_command" /\ host.cmd \notin {"sbc", "stop"} /\ UNCHANGED <<mutex, sent>>
      /\ FinishOK /\ host \in HostType /\ mrq \in MrqType /\ ~warned /\ mutex
  BY DEF finish_command, HostInv
<1>2. /\ host.cmd = "cmd" /\ host.mrq /\ done = 0 /\ NotStopped
      /\ host.data = HasData(mrq) /\ (host.data => host.data_complete)
  BY <1>1 DEF FinishOK, HostType, Cmds, None
<1>3. /\ h \in HostType /\ h.cmd = None /\ h.data = host.data /\ h.mrq = host.mrq
      /\ h.use_sbc = host.use_sbc /\ h.data_complete = host.data_complete
  BY <1>1 DEF HostType, Cmds, complete_command
<1>4. /\ g \in HostType /\ g.cmd = None /\ ~g.data /\ g.mrq = host.mrq
      /\ g.use_sbc = host.use_sbc
  BY <1>3 DEF HostType
<1>5. ASSUME NEW x \in HostType, x.use_sbc = host.use_sbc, finish_request(x),
             mrq' = mrq, ~warned', HasData(mrq) => ~needs_stop(host)
      PROVE  HostInv'
  <2>1. /\ host' = [x EXCEPT !.mrq = FALSE, !.cmd = None, !.data = FALSE]
        /\ done' = done + 1 /\ pc' = "unlock"
    BY <1>5 DEF finish_request
  <2>2. host' \in HostType /\ Free' /\ host'.use_sbc = host.use_sbc
    BY <1>5, <2>1 DEF HostType, Cmds, Free
  <2>3. UnlockOK'
    BY <1>1, <1>2, <1>5, <2>1, <2>2 DEF UnlockOK, HasData, needs_stop, NotStopped, WasSent
  <2> QED
    BY <1>1, <1>5, <2>1, <2>2, <2>3 DEF HostInv, IssueOK, PioOK, FinishOK
<1> HIDE DEF h, g
<1>6. CASE ~h.data
  <2>1. finish_request(h) /\ mrq' = mrq /\ warned' = warned
    BY <1>6 DEF finish_command, h
  <2>2. ~HasData(mrq)
    BY <1>2, <1>3, <1>6
  <2> QED
    BY <1>1, <1>3, <1>5, <2>1, <2>2
<1>7. CASE h.data
  <2>1. transfer_complete(h) /\ HasData(mrq) /\ h.data_complete
    BY <1>2, <1>3, <1>7 DEF finish_command, h
  <2>2. needs_stop(h) <=> needs_stop(host)
    BY <1>3 DEF needs_stop
  <2>3. CASE needs_stop(h)
    <3>1. /\ mrq' = mrq /\ done' = done /\ pc' = "issue"
          /\ warned' = (warned \/ ~h.data_complete \/ g.cmd # None \/ g.data)
          /\ host' = [g EXCEPT !.cmd = "stop", !.data = "stop" = "cmd" /\ HasData(mrq),
                               !.data_complete = IF "stop" = "cmd" /\ HasData(mrq) THEN FALSE ELSE @]
      BY <2>1, <2>3 DEF transfer_complete, send_command, g
    <3>2. "stop" # "cmd"
      OBVIOUS
    <3>3. /\ host' \in HostType /\ host'.mrq = host.mrq /\ host'.cmd = "stop" /\ ~host'.data
          /\ host'.use_sbc = host.use_sbc
      BY <1>4, <3>1, <3>2 DEF HostType, Cmds
    <3>4. ~warned'
      BY <1>1, <1>4, <2>1, <3>1
    <3>5. IssueOK'
      BY <1>1, <1>2, <2>1, <2>2, <2>3, <3>1, <3>3
         DEF IssueOK, HasData, needs_stop, NotStopped, WasSent, None
    <3> QED
      BY <1>1, <3>1, <3>3, <3>4, <3>5 DEF HostInv, PioOK, FinishOK, UnlockOK
  <2>4. CASE ~needs_stop(h)
    <3>1. finish_request(g) /\ warned' = (warned \/ ~h.data_complete) /\ mrq' = mrq
      BY <2>1, <2>4 DEF transfer_complete, g
    <3> QED
      BY <1>1, <1>4, <1>5, <2>1, <2>2, <2>4, <3>1
  <2> QED
    BY <2>3, <2>4
<1> QED
  BY <1>6, <1>7

LEMMA UnlockPreserves == HostInv /\ unlock => HostInv'
<1> SUFFICES ASSUME HostInv, unlock PROVE HostInv'
  OBVIOUS
<1>1. pc = "unlock" /\ pc' = "idle" /\ mutex' = FALSE /\ UNCHANGED <<mrq, host, sent, warned>>
  BY DEF unlock
<1> QED
  BY <1>1 DEF HostInv, IssueOK, PioOK, FinishOK, UnlockOK, Free

LEMMA HostInvNext == HostInv /\ [Next]_vars => HostInv'
<1> SUFFICES ASSUME HostInv, [Next]_vars PROVE HostInv'
  OBVIOUS
<1>1. CASE Next
  BY <1>1, RequestPreserves, IssuePreserves, PioPreserves, DataPreserves, SbcPreserves,
     StopPreserves, CommandPreserves, UnlockPreserves DEF Next, Step
<1>2. CASE UNCHANGED vars
  BY <1>2 DEF vars, hostVars, HostInv, IssueOK, PioOK, FinishOK, UnlockOK, Free,
     NotStopped, Stopped, WasSent, HasData, needs_stop
<1> QED
  BY <1>1, <1>2

\* The driver's checks (WARN_ON) never fire, and a request is answered exactly once,
\* with the host free for the next: nemu_request to mmc_request_done.
THEOREM SdHostDoneOnce == Spec => []DoneOnce
<1>1. HostInv => DoneOnce
  BY DEF HostInv, PioOK, UnlockOK, Free, DoneOnce, NoWarning
<1> QED
  BY HostInvInit, HostInvNext, <1>1, PTL DEF Spec

\* CMD12 follows every open-ended transfer and every error, and nothing else.
THEOREM SdHostStopWhenNeeded == Spec => []StopWhenNeeded
<1>1. HostInv => StopWhenNeeded
  <2> SUFFICES ASSUME HostInv, pc = "unlock", HasData(mrq), mrq.stop
               PROVE  (\E i \in DOMAIN sent : sent[i] = "stop") <=>
                        mrq.error \/ ~(\E i \in DOMAIN sent : sent[i] = "sbc")
    BY DEF StopWhenNeeded
  <2>1. IF mrq.error \/ ~host.use_sbc THEN Stopped ELSE NotStopped
    BY DEF HostInv, UnlockOK, needs_stop
  <2> QED
    BY <2>1 DEF Stopped, NotStopped, WasSent
<1> QED
  BY HostInvInit, HostInvNext, <1>1, PTL DEF Spec

-----------------------------------------------------------------------------
(***************************************************************************)
(* The card and the loop: a request moves no more words than its sectors   *)
(* have, although segments may be too short, end anywhere, or fail.        *)
(***************************************************************************)

\* Bytes that are still to be moved: of this block, and of those behind it.
Left == pio.blksize + pio.words * WordBytes + (mrq.blocks - pio.blk - 1) * BlockBytes

Transfer == mrq.kind \in {"read", "write"}

\* A request fits into the card, and its segments into the request.
Fits(r) ==
  /\ r.arg \in Nat /\ r.blocks \in Nat /\ r.blocks <= MaxBlocks
  /\ r.arg + r.blocks <= Sectors
  /\ r.kind = "ext_csd" => r.blocks = 1 /\ r.sg = {BlockBytes}
  /\ r.kind \in {"if_cond", "status"} => r.blocks = 0
  /\ HasData(r) => \E s \in 1 .. r.blocks * BlockBytes, t \in 1 .. r.blocks * BlockBytes :
                     r.sg = {s, t}

CardType ==
  /\ pio \in [blk : Nat, blksize : Nat, off : Nat, words : Nat]
  /\ pio.blk <= MaxBlocks /\ pio.blksize <= BlockBytes
  /\ pio.off <= MaxBlocks * BlockBytes /\ pio.words <= BlockWords
  /\ fpos \in Nat /\ fpos <= CardWords
  /\ addr \in Nat /\ addr <= MaxBlocks * BlockWords
  /\ sdarg \in Nat /\ sdarg <= Sectors
  /\ write_cmd \in BOOLEAN /\ read_ext_csd \in BOOLEAN
  /\ card = [p \in 0 .. CardWords - 1 |-> card[p]]

\* The loop: the words moved (addr counts them) and those to come are the request's
\* at most, the card's position is not ahead of them, and the extended CSD is left
\* with its last word.
Budget ==
  /\ pio.blk < mrq.blocks
  /\ pio.blksize + pio.words * WordBytes <= BlockBytes
  /\ pio.off + pio.words * WordBytes <= mrq.blocks * BlockBytes
  /\ addr * WordBytes + Left <= mrq.blocks * BlockBytes
  /\ Transfer => /\ mrq.arg * BlockWords <= fpos /\ fpos <= mrq.arg * BlockWords + addr
                 /\ (write_cmd <=> mrq.kind = "write")
  /\ mrq.kind = "ext_csd" => (read_ext_csd <=> addr < BlockWords)

\* Before the transfer: the argument is the request's, the loop is at its start.
StartOK ==
  /\ pc = "issue" /\ host.cmd = "cmd" => sdarg = mrq.arg
  /\ host.cmd = "sbc" \/ (pc = "issue" /\ host.cmd = "cmd") =>
       pio.blk = 0 /\ pio.blksize = BlockBytes /\ pio.words = 0 /\ pio.off = 0

CardInv ==
  /\ CardType /\ Fits(mrq) /\ StartOK
  /\ pc = "pio" => Budget
  /\ WritesConfined

\* The sizes of words, blocks and the card.
LEMMA Sizes ==
  /\ WordBytes \in Nat \ {0} /\ BlockWords \in Nat \ {0} /\ BlockBytes \in Nat \ {0}
  /\ BlockBytes = BlockWords * WordBytes
  /\ CardWords \in Nat /\ CardWords = Sectors * BlockWords
  /\ Sectors \in Nat /\ MaxBlocks \in Nat /\ 1 <= MaxBlocks /\ MaxBlocks <= Sectors
<1>1. BlockBytes \in Nat /\ BlockBytes # 0 /\ CardWords \in Nat
  BY SdCardAssumption, SdHostAssumption, SMT DEF BlockBytes, CardWords
<1> QED
  BY <1>1, SdCardAssumption, SdHostAssumption DEF BlockBytes, CardWords

\* Multiples keep the order,
LEMMA Multiples ==
  ASSUME NEW a \in Int, NEW b \in Int, NEW n \in Nat, a <= b
  PROVE  a * n <= b * n /\ a * n \in Int /\ b * n \in Int
<1>1. b * n - a * n = (b - a) * n
  BY SMT
<1>2. (b - a) * n >= 0
  BY SMT
<1> QED
  BY <1>1, <1>2, SMT

\* and as many bytes are as many words.
LEMMA Words ==
  ASSUME NEW a \in Int, NEW b \in Int, a * WordBytes <= b * WordBytes
  PROVE  a <= b
<1>1. WordBytes \in Nat /\ WordBytes >= 1
  BY Sizes
<1>2. a >= b + 1 => a * WordBytes >= (b + 1) * WordBytes
  BY <1>1, SMT
<1>3. (b + 1) * WordBytes = b * WordBytes + WordBytes
  BY <1>1, SMT
<1>4. a * WordBytes \in Int /\ b * WordBytes \in Int
  BY <1>1, SMT
<1> QED
  BY <1>1, <1>2, <1>3, <1>4, SMT

LEMMA Bytes ==
  ASSUME NEW n \in Nat
  PROVE  /\ n * BlockBytes = (n * BlockWords) * WordBytes
         /\ n * BlockBytes \in Nat /\ n * BlockWords \in Nat
BY Sizes, SMT

LEMMA LeftAtStart ==
  ASSUME NEW n \in Nat
  PROVE  BlockBytes + 0 * WordBytes + (n - 0 - 1) * BlockBytes = n * BlockBytes
BY Sizes, SMT

\* The request whose transfer is to begin.
LEMMA RequestFits ==
  ASSUME NEW r \in Requests
  PROVE  Fits(r) /\ (r.kind \in {"read", "write"} => detected)
<1>1. CASE \/ r = Request("if_cond", FALSE, FALSE, 0, 0, {})
           \/ r = Request("status", FALSE, FALSE, 0, 0, {})
  BY <1>1, Sizes DEF Request, HasData, Fits
<1>2. CASE r = Request("ext_csd", FALSE, FALSE, 0, 1, {BlockBytes})
  <2>1. /\ r.sg = {BlockBytes} /\ r.sg = {BlockBytes, BlockBytes}
        /\ r.kind = "ext_csd" /\ r.arg = 0 /\ r.blocks = 1
    BY <1>2 DEF Request
  <2>2. BlockBytes \in 1 .. 1 * BlockBytes
    BY Sizes
  <2> QED
    BY <2>1, <2>2, Sizes DEF Fits
<1>3. ASSUME NEW n \in 2 .. MaxBlocks, r \in Transfers(n), detected PROVE Fits(r)
  <2>1. r.kind \in {"read", "write"} /\ r.arg \in 0 .. Sectors - n /\ r.blocks = n
          /\ r.sg \in ScatterLists(n)
    BY <1>3 DEF Transfers
  <2>2. n \in Nat /\ n <= MaxBlocks /\ 1 * BlockBytes <= n * BlockBytes /\ n * BlockBytes \in Nat
    BY Sizes, Bytes, Multiples
  <2>3. PICK t \in 1 .. n * BlockBytes, e \in {BlockBytes, n * BlockBytes} : r.sg = {e} \cup {t}
    BY <2>1 DEF ScatterLists
  <2>4. e \in 1 .. n * BlockBytes
    BY <2>2, <2>3, Sizes
  <2>5. r.sg = {e, t}
    BY <2>3
  <2>6. r.arg \in Nat /\ r.arg + r.blocks <= Sectors
    BY <2>1, <2>2, Sizes
  <2> QED
    BY <2>1, <2>2, <2>3, <2>4, <2>5, <2>6 DEF Fits
<1>4. \/ r = Request("if_cond", FALSE, FALSE, 0, 0, {}) \/ r = Request("status", FALSE, FALSE, 0, 0, {})
      \/ r = Request("ext_csd", FALSE, FALSE, 0, 1, {BlockBytes})
      \/ detected /\ \E n \in 2 .. MaxBlocks : r \in Transfers(n)
  BY DEF Requests
<1>5. r.kind \in {"read", "write"} => detected
  BY <1>4 DEF Request
<1> QED
  BY <1>1, <1>2, <1>3, <1>4, <1>5

LEMMA CardInvInit == Init => CardInv
<1> SUFFICES ASSUME Init PROVE CardInv
  OBVIOUS
<1>1. CardType
  <2>1. pio = [blk |-> 0, blksize |-> 0, off |-> 0, words |-> 0]
    BY DEF Init
  <2>2. pio \in [blk : Nat, blksize : Nat, off : Nat, words : Nat]
    BY <2>1
  <2>3. card = [p \in 0 .. CardWords - 1 |-> card[p]]
    BY DEF Init, SdInit
  <2>4. 0 <= MaxBlocks * BlockBytes /\ 0 <= MaxBlocks * BlockWords
    BY Sizes, Bytes
  <2>5. /\ pio.blk <= MaxBlocks /\ pio.blksize <= BlockBytes
        /\ pio.off <= MaxBlocks * BlockBytes /\ pio.words <= BlockWords
    BY <2>1, <2>4, Sizes
  <2>6. /\ sdarg = 0 /\ fpos = 0 /\ addr = 0 /\ write_cmd = FALSE /\ read_ext_csd = FALSE
    BY DEF Init, SdInit
  <2>7. /\ fpos \in Nat /\ fpos <= CardWords
        /\ addr \in Nat /\ addr <= MaxBlocks * BlockWords
        /\ sdarg \in Nat /\ sdarg <= Sectors
    BY <2>4, <2>6, Sizes
  <2> QED
    BY <2>2, <2>3, <2>5, <2>6, <2>7 DEF CardType
<1>2. Fits(mrq)
  BY Sizes DEF Init, NoRequest, Request, Fits, HasData
<1>3. StartOK /\ pc # "pio"
  BY DEF Init, IdleHost, StartOK, None
<1>4. WritesConfined
  BY DEF Init, WritesConfined
<1> QED
  BY <1>1, <1>2, <1>3, <1>4 DEF CardInv

\* Steps that leave the card and the request alone.
LEMMA CardUnchanged ==
  ASSUME CardInv, UNCHANGED <<card, before, mrq>>
  PROVE  WritesConfined' /\ Fits(mrq)'
BY DEF CardInv, WritesConfined, Fits, Area, HasData

LEMMA RequestKeepsCard ==
  ASSUME HostInv, CardInv, NEW r \in Requests, nemu_request(r)
  PROVE  CardInv'
<1> DEFINE c == IF uses_sbc(r) THEN "sbc" ELSE "cmd"
<1>1. /\ mrq' = r /\ before' = card /\ pc' = "issue" /\ host'.cmd = c
      /\ pio' = [blk |-> 0, blksize |-> BlockBytes, off |-> 0, words |-> 0]
      /\ sdarg' = (IF c = "cmd" THEN r.arg ELSE IF c = "sbc" THEN r.blocks ELSE 0)
      /\ UNCHANGED <<fpos, addr, write_cmd, read_ext_csd, card>>
  <2>1. host \in HostType
    BY DEF HostInv
  <2>2. /\ mrq' = r /\ before' = card /\ pc' = "issue"
        /\ pio' = [blk |-> 0, blksize |-> BlockBytes, off |-> 0, words |-> 0]
        /\ sdarg' = (IF c = "cmd" THEN r.arg ELSE IF c = "sbc" THEN r.blocks ELSE 0)
        /\ UNCHANGED <<fpos, addr, write_cmd, read_ext_csd, card>>
    BY DEF nemu_request, send_command, set_arg
  <2>3. host' = [[host EXCEPT !.mrq = TRUE, !.use_sbc = uses_sbc(r)] EXCEPT
                   !.cmd = c, !.data = c = "cmd" /\ HasData(r),
                   !.data_complete = IF c = "cmd" /\ HasData(r) THEN FALSE ELSE @]
    BY <2>2 DEF nemu_request, send_command
  <2>4. host'.cmd = c
    BY <2>1, <2>3 DEF HostType
  <2> QED
    BY <2>2, <2>4
<1>2. Fits(r)
  BY RequestFits
<1>3. Fits(mrq)'
  BY <1>1, <1>2 DEF Fits, HasData
<1>4. CardType'
  <2>1. /\ pio' \in [blk : Nat, blksize : Nat, off : Nat, words : Nat]
        /\ pio'.blk = 0 /\ pio'.blksize = BlockBytes /\ pio'.off = 0 /\ pio'.words = 0
    BY <1>1, Sizes
  <2>2. sdarg' \in Nat /\ sdarg' <= Sectors
    BY <1>1, <1>2, Sizes DEF Fits
  <2>3. 0 <= MaxBlocks * BlockBytes
    BY Sizes, Bytes
  <2>4. /\ pio'.blk <= MaxBlocks /\ pio'.blksize <= BlockBytes
        /\ pio'.off <= MaxBlocks * BlockBytes /\ pio'.words <= BlockWords
    BY <2>1, <2>3, Sizes
  <2>5. CardType
    BY DEF CardInv
  <2>6. /\ fpos' = fpos /\ addr' = addr /\ card' = card
        /\ write_cmd' = write_cmd /\ read_ext_csd' = read_ext_csd
    BY <1>1
  <2>7. /\ fpos' \in Nat /\ fpos' <= CardWords
        /\ addr' \in Nat /\ addr' <= MaxBlocks * BlockWords
        /\ write_cmd' \in BOOLEAN /\ read_ext_csd' \in BOOLEAN
        /\ card' = [p \in 0 .. CardWords - 1 |-> card'[p]]
    BY <2>5, <2>6 DEF CardType
  <2> QED
    BY <2>1, <2>2, <2>4, <2>7 DEF CardType, CardWords
<1>5. StartOK'
  BY <1>1 DEF StartOK
<1>6. WritesConfined'
  BY <1>1 DEF WritesConfined
<1> QED
  BY <1>1, <1>3, <1>4, <1>5, <1>6 DEF CardInv

\* The command that starts a transfer sets the position.
LEMMA TransferStarts ==
  ASSUME HostInv, CardInv, issue_command, pc' = "pio"
  PROVE  /\ UNCHANGED <<mrq, pio, card>> /\ mrq.blocks > 0
         /\ mrq.kind \in {"read", "write", "ext_csd"}
         /\ pio.blk = 0 /\ pio.blksize = BlockBytes /\ pio.words = 0 /\ pio.off = 0
         /\ addr' = 0 /\ Left' = mrq.blocks * BlockBytes
         /\ Transfer => fpos' = mrq.arg * BlockWords /\ (write_cmd' <=> mrq.kind = "write")
         /\ mrq.kind = "ext_csd" => read_ext_csd'
<1> DEFINE op == CASE host.cmd = "sbc" -> "SET_BLOCK_COUNT"
                   [] host.cmd = "stop" -> "STOP_TRANSMISSION"
                   [] OTHER -> Opcode(mrq.kind)
<1>1. /\ pc = "issue" /\ UNCHANGED <<mrq, host, pio, before>>
      /\ pc' = IF host.cmd = "cmd" /\ host.data THEN "pio" ELSE "finish_command"
      /\ sdcard_handle_cmd(op)
  BY DEF issue_command
<1>2. mrq \in MrqType /\ Fits(mrq) /\ StartOK
  BY DEF HostInv, CardInv
<1> HIDE DEF op
<1>3. card' = card
  BY <1>1 DEF sdcard_handle_cmd, cardVars, prepare_rw
<1>4. /\ host.cmd = "cmd" /\ HasData(mrq) /\ sdarg = mrq.arg
      /\ pio.blk = 0 /\ pio.blksize = BlockBytes /\ pio.words = 0 /\ pio.off = 0
  BY <1>1, <1>2 DEF StartOK, HostInv, IssueOK
<1>5. mrq.blocks > 0 /\ mrq.kind \in {"read", "write", "ext_csd"} /\ mrq.blocks \in Nat
  BY <1>2, <1>4 DEF HasData, Fits, MrqType
<1>6. op = Opcode(mrq.kind)
  BY <1>4 DEF op
<1>7. Left' = mrq.blocks * BlockBytes
  BY <1>1, <1>4, <1>5, LeftAtStart DEF Left
<1>8. addr' = 0
  <2>1. op \in {"READ_MULTIPLE_BLOCK", "WRITE_MULTIPLE_BLOCK", "SEND_EXT_CSD"}
    BY <1>5, <1>6 DEF Opcode
  <2> QED
    BY <1>1, <2>1 DEF sdcard_handle_cmd, Silent, prepare_rw
<1>9. ASSUME Transfer PROVE fpos' = mrq.arg * BlockWords /\ (write_cmd' <=> mrq.kind = "write")
  <2>1. CASE mrq.kind = "write"
    BY <1>1, <1>4, <1>6, <2>1 DEF sdcard_handle_cmd, Opcode, Silent, prepare_rw, seek, direction
  <2>2. CASE mrq.kind = "read"
    BY <1>1, <1>4, <1>6, <2>2 DEF sdcard_handle_cmd, Opcode, Silent, prepare_rw, seek, direction
  <2> QED
    BY <1>9, <2>1, <2>2 DEF Transfer
<1>10. ASSUME mrq.kind = "ext_csd" PROVE read_ext_csd'
  BY <1>1, <1>4, <1>6, <1>10 DEF sdcard_handle_cmd, Opcode, Silent
<1> QED
  BY <1>1, <1>3, <1>4, <1>5, <1>7, <1>8, <1>9, <1>10

\* The command sets the position, and with it the budget.
LEMMA IssueKeepsCard == HostInv /\ CardInv /\ issue_command => CardInv'
<1> SUFFICES ASSUME HostInv, CardInv, issue_command PROVE CardInv'
  OBVIOUS
<1> DEFINE op == CASE host.cmd = "sbc" -> "SET_BLOCK_COUNT"
                   [] host.cmd = "stop" -> "STOP_TRANSMISSION"
                   [] OTHER -> Opcode(mrq.kind)
<1>1. /\ pc = "issue" /\ UNCHANGED <<mrq, host, pio, before>>
      /\ pc' = IF host.cmd = "cmd" /\ host.data THEN "pio" ELSE "finish_command"
      /\ sdcard_handle_cmd(op)
  BY DEF issue_command
<1>2. mrq \in MrqType /\ CardType /\ Fits(mrq) /\ StartOK
  BY DEF HostInv, CardInv
<1> HIDE DEF op
<1>3. card' = card /\ sdarg' = sdarg
  BY <1>1 DEF sdcard_handle_cmd, cardVars, prepare_rw
<1>4. CardType'
  <2>1. seek(sdarg) \in Nat /\ seek(sdarg) <= CardWords
    <3>1. sdarg \in Nat /\ sdarg <= Sectors
      BY <1>2 DEF CardType
    <3>2. sdarg * BlockWords <= Sectors * BlockWords
      BY <3>1, Sizes, Multiples
    <3> QED
      BY <3>1, <3>2, Sizes, Bytes DEF seek
  <2>2. /\ fpos' \in Nat /\ fpos' <= CardWords /\ addr' \in Nat
        /\ addr' <= MaxBlocks * BlockWords
        /\ write_cmd' \in BOOLEAN /\ read_ext_csd' \in BOOLEAN
    <3>0. 0 <= MaxBlocks * BlockWords
      BY Sizes, Bytes
    <3>1. CASE UNCHANGED cardVars
      BY <1>2, <3>1 DEF cardVars, CardType
    <3>2. CASE read_ext_csd' = TRUE /\ addr' = 0 /\ UNCHANGED <<fpos, write_cmd>>
      BY <1>2, <3>0, <3>2 DEF CardType
    <3>3. ASSUME NEW w \in BOOLEAN, prepare_rw(w)
          PROVE  /\ fpos' \in Nat /\ fpos' <= CardWords /\ addr' \in Nat
                 /\ addr' <= MaxBlocks * BlockWords
                 /\ write_cmd' \in BOOLEAN /\ read_ext_csd' \in BOOLEAN
      <4>1. fpos' = seek(sdarg) /\ addr' = 0 /\ write_cmd' = w /\ read_ext_csd' = read_ext_csd
        BY <3>3 DEF prepare_rw, direction
      <4> QED
        BY <1>2, <2>1, <3>0, <4>1 DEF CardType
    <3> QED
      BY <1>1, <3>1, <3>2, <3>3 DEF sdcard_handle_cmd
  <2> QED
    BY <1>1, <1>2, <1>3, <2>2 DEF CardType, CardWords
<1>5. StartOK'
  BY <1>1, <1>2 DEF StartOK
<1>6. WritesConfined' /\ Fits(mrq)'
  BY <1>1, <1>3, CardUnchanged
<1>7. ASSUME pc' = "pio" PROVE Budget'
  <2>1. /\ mrq.blocks > 0 /\ pio' = pio
        /\ pio.blk = 0 /\ pio.blksize = BlockBytes /\ pio.words = 0 /\ pio.off = 0
        /\ addr' = 0 /\ Left' = mrq.blocks * BlockBytes
        /\ Transfer => fpos' = mrq.arg * BlockWords /\ (write_cmd' <=> mrq.kind = "write")
        /\ mrq.kind = "ext_csd" => read_ext_csd'
    BY <1>7, TransferStarts
  <2>2. mrq.blocks * BlockBytes \in Nat /\ 0 * WordBytes = 0 /\ mrq.arg * BlockWords \in Nat
    BY <1>2, Sizes, Bytes DEF Fits
  <2>3. /\ pio'.blk < mrq'.blocks /\ mrq' = mrq
        /\ pio'.blksize + pio'.words * WordBytes <= BlockBytes
        /\ pio'.off + pio'.words * WordBytes <= mrq'.blocks * BlockBytes
        /\ addr' * WordBytes + Left' <= mrq'.blocks * BlockBytes
    BY <1>1, <2>1, <2>2, Sizes
  <2>4. Transfer => /\ mrq.arg * BlockWords <= fpos' /\ fpos' <= mrq.arg * BlockWords + addr'
                    /\ (write_cmd' <=> mrq.kind = "write")
    BY <2>1, <2>2
  <2>5. Transfer' => /\ mrq'.arg * BlockWords <= fpos' /\ fpos' <= mrq'.arg * BlockWords + addr'
                     /\ (write_cmd' <=> mrq'.kind = "write")
    BY <1>1, <2>4 DEF Transfer
  <2>6. addr' < BlockWords
    BY <2>1, Sizes
  <2>7. mrq'.kind = "ext_csd" => (read_ext_csd' <=> addr' < BlockWords)
    BY <2>1, <2>3, <2>6, Zenon
  <2> QED
    BY <2>3, <2>5, <2>7, Zenon DEF Budget
<1> QED
  BY <1>4, <1>5, <1>6, <1>7 DEF CardInv

\* What is left of a segment ends where the segment does.
LEMMA SegmentLength ==
  ASSUME NEW s \in Int, NEW t \in Int, NEW off \in Int
  PROVE  LET length == sg_miter_next({s, t}, off) IN
           length \in Nat /\ (length = 0 \/ off + length = s \/ off + length = t)
<1> DEFINE later == {e \in {s, t} : e > off}
           m == CHOOSE x \in later : \A y \in later : x =< y
<1>1. CASE later = {}
  BY <1>1 DEF sg_miter_next
<1>2. CASE later # {}
  <2>1. \E x \in later : \A y \in later : x =< y
    <3>1. CASE s \in later /\ t \in later
      BY <3>1
    <3>2. CASE s \in later /\ t \notin later
      BY <3>2
    <3>3. CASE s \notin later /\ t \in later
      BY <3>3
    <3> QED
      BY <1>2, <3>1, <3>2, <3>3
  <2>2. m \in later
    BY <2>1
  <2>3. sg_miter_next({s, t}, off) = m - off
    BY <1>2 DEF sg_miter_next, Min
  <2> HIDE DEF m
  <2> QED
    BY <2>2, <2>3
<1> QED
  BY <1>1, <1>2

\* A piece of the segments that is left lies within the request.
LEMMA SegmentFits ==
  ASSUME CardType, Fits(mrq), HasData(mrq), pio.off <= mrq.blocks * BlockBytes
  PROVE  /\ sg_miter_next(mrq.sg, pio.off) \in Nat
         /\ pio.off + sg_miter_next(mrq.sg, pio.off) <= mrq.blocks * BlockBytes
<1> DEFINE length == sg_miter_next(mrq.sg, pio.off)
           n == mrq.blocks * BlockBytes
<1>1. n \in Nat /\ pio.off \in Nat /\ pio.off <= n
  BY Bytes DEF CardType, Fits
<1>2. PICK s \in 1 .. n, t \in 1 .. n : mrq.sg = {s, t}
  BY DEF Fits
<1>3. length \in Nat /\ (length = 0 \/ pio.off + length = s \/ pio.off + length = t)
  <2>1. s \in Int /\ t \in Int /\ pio.off \in Int
    BY <1>1, <1>2
  <2> QED
    BY <1>2, <2>1, SegmentLength
<1> HIDE DEF length, n
<1>4. pio.off + length <= n
  BY <1>1, <1>2, <1>3
<1> QED
  BY <1>3, <1>4 DEF length, n

\* Whole words of a piece have as many bytes as the piece.
LEMMA WholeWords ==
  ASSUME NEW n \in Nat, n % WordBytes = 0
  PROVE  n \div WordBytes \in Nat /\ (n \div WordBytes) * WordBytes = n
BY Sizes, SMT

\* A request with data has bytes for each of its blocks.
LEMMA Rest ==
  ASSUME CardType, Fits(mrq), pio.blk < mrq.blocks
  PROVE  (mrq.blocks - pio.blk - 1) * BlockBytes \in Nat
<1>1. mrq.blocks - pio.blk - 1 \in Nat
  BY DEF CardType, Fits
<1> QED
  BY <1>1, Bytes

\* A segment, good or bad, does not take more than its block has.
LEMMA SegmentEffect ==
  ASSUME HostInv, CardInv, pio_segment
  PROVE  /\ mrq' = mrq \/ mrq' = [mrq EXCEPT !.error = TRUE]
         /\ mrq'.kind = mrq.kind /\ mrq'.arg = mrq.arg /\ mrq'.blocks = mrq.blocks
         /\ mrq'.sg = mrq.sg
         /\ pio' \in [blk : Nat, blksize : Nat, off : Nat, words : Nat] /\ pio'.blk = pio.blk
         /\ pio'.blksize + pio'.words * WordBytes <= pio.blksize
         /\ pio'.off + pio'.words * WordBytes <= mrq.blocks * BlockBytes
         /\ pio'.words * WordBytes \in Nat
         /\ ~mrq'.error => /\ mrq' = mrq /\ pio'.off = pio.off
                            /\ pio'.blksize + pio'.words * WordBytes = pio.blksize
<1> DEFINE length == sg_miter_next(mrq.sg, pio.off)
           len == chunk(length, pio.blksize)
           n == mrq.blocks * BlockBytes
<1>1. /\ pc = "pio" /\ pio.words = 0 /\ CardType /\ Fits(mrq) /\ Budget
      /\ mrq \in MrqType /\ HasData(mrq)
  BY DEF pio_segment, CardInv, HostInv, PioOK
<1>2. 0 * WordBytes = 0 /\ n \in Nat /\ pio.off <= n
  <2>1. 0 * WordBytes = 0 /\ n \in Nat
    BY <1>1, Sizes, Bytes DEF Fits
  <2> HIDE DEF n
  <2>2. pio.off + 0 * WordBytes <= n
    BY <1>1 DEF Budget, n
  <2> QED
    BY <1>1, <2>1, <2>2 DEF CardType
<1>3. length \in Nat /\ pio.off + length <= n
  BY <1>1, <1>2, SegmentFits
<1>4. len \in Nat /\ len <= pio.blksize /\ len <= length
  <2> HIDE DEF length
  <2> QED
    BY <1>1, <1>3 DEF chunk, CardType
<1>5. \/ /\ mrq' = [mrq EXCEPT !.error = TRUE]
         /\ pio' = [pio EXCEPT !.blksize = 0, !.off = @ + length]
      \/ /\ len % WordBytes = 0 /\ mrq' = mrq
         /\ pio' = [pio EXCEPT !.blksize = @ - len, !.words = len \div WordBytes]
  BY DEF pio_segment, break_block
<1>6. pio \in [blk : Nat, blksize : Nat, off : Nat, words : Nat]
  BY <1>1 DEF CardType
<1> HIDE DEF length, len, n
<1>7. /\ mrq'.kind = mrq.kind /\ mrq'.arg = mrq.arg /\ mrq'.blocks = mrq.blocks
      /\ mrq'.sg = mrq.sg
      /\ mrq' = mrq \/ mrq' = [mrq EXCEPT !.error = TRUE]
  BY <1>1, <1>5 DEF MrqType
<1>8. CASE /\ mrq' = [mrq EXCEPT !.error = TRUE]
           /\ pio' = [pio EXCEPT !.blksize = 0, !.off = @ + length]
  <2>1. /\ pio' \in [blk : Nat, blksize : Nat, off : Nat, words : Nat] /\ pio'.blk = pio.blk
        /\ pio'.off = pio.off + length /\ pio'.blksize = 0 /\ pio'.words = 0
    <3>1. pio.off + length \in Nat /\ pio.words = 0
      BY <1>1, <1>3, <1>6
    <3> QED
      BY <1>6, <1>8, <3>1
  <2>2. mrq'.error
    BY <1>1, <1>8 DEF MrqType
  <2>3. /\ pio'.blksize + pio'.words * WordBytes <= pio.blksize
        /\ pio'.off + pio'.words * WordBytes <= n
        /\ pio'.words * WordBytes \in Nat
    BY <1>2, <1>3, <1>6, <2>1
  <2> QED
    BY <1>7, <2>1, <2>2, <2>3 DEF n
<1>9. CASE /\ len % WordBytes = 0 /\ mrq' = mrq
           /\ pio' = [pio EXCEPT !.blksize = @ - len, !.words = len \div WordBytes]
  <2>1. len \div WordBytes \in Nat /\ (len \div WordBytes) * WordBytes = len
    BY <1>4, <1>9, WholeWords
  <2>2. /\ pio' \in [blk : Nat, blksize : Nat, off : Nat, words : Nat] /\ pio'.blk = pio.blk
        /\ pio'.off = pio.off /\ pio'.blksize = pio.blksize - len
        /\ pio'.words = len \div WordBytes
    <3>1. pio.blksize - len \in Nat
      BY <1>4, <1>6
    <3> QED
      BY <1>6, <1>9, <2>1, <3>1
  <2>3. pio'.words * WordBytes = len
    BY <2>1, <2>2
  <2>4. /\ pio'.blksize + pio'.words * WordBytes = pio.blksize
        /\ pio'.off + pio'.words * WordBytes <= n
    BY <1>2, <1>3, <1>4, <1>6, <2>2, <2>3
  <2> QED
    BY <1>4, <1>6, <1>7, <1>9, <2>2, <2>3, <2>4 DEF n
<1> QED
  BY <1>5, <1>8, <1>9


LEMMA SegmentKeepsCard == HostInv /\ CardInv /\ pio_segment => CardInv'
<1> SUFFICES ASSUME HostInv, CardInv, pio_segment PROVE CardInv'
  OBVIOUS
<1> DEFINE rest == (mrq.blocks - pio.blk - 1) * BlockBytes
           bytes == mrq.blocks * BlockBytes
           a == addr * WordBytes
           pw == pio'.words * WordBytes
<1>1. /\ pc = "pio" /\ pio.words = 0 /\ UNCHANGED <<cardVars, pc, host, before>>
      /\ CardType /\ Fits(mrq) /\ Budget /\ StartOK /\ WritesConfined /\ host.cmd = "cmd"
  BY DEF pio_segment, CardInv, HostInv, PioOK
<1>2. /\ mrq'.kind = mrq.kind /\ mrq'.arg = mrq.arg /\ mrq'.blocks = mrq.blocks
      /\ mrq'.sg = mrq.sg
      /\ pio' \in [blk : Nat, blksize : Nat, off : Nat, words : Nat] /\ pio'.blk = pio.blk
      /\ pio'.blksize + pw <= pio.blksize /\ pio'.off + pw <= bytes
  BY SegmentEffect
<1>3. rest \in Nat /\ bytes \in Nat /\ a \in Nat /\ pw \in Nat /\ 0 * WordBytes = 0
  <2>1. pio.blk < mrq.blocks
    BY <1>1 DEF Budget
  <2>2. addr \in Nat /\ pio'.words \in Nat /\ mrq.blocks \in Nat
    BY <1>1, <1>2 DEF CardType, Fits
  <2> QED
    BY <1>1, <2>1, <2>2, Rest, Sizes, Bytes
<1>4. /\ pio.blksize \in Nat /\ pio'.blksize \in Nat /\ pio'.off \in Nat /\ pio'.words \in Nat
      /\ pio.blksize <= BlockBytes /\ BlockBytes \in Nat
  BY <1>1, <1>2, Sizes DEF CardType
<1>5. Left = pio.blksize + 0 * WordBytes + rest /\ Left' = pio'.blksize + pw + rest
  BY <1>1, <1>2 DEF Left
<1>6. a + Left <= bytes
  BY <1>1 DEF Budget
<1> HIDE DEF rest, bytes, a, pw
<1>7. a + Left' <= bytes /\ pio'.blksize + pw <= BlockBytes /\ pw <= BlockBytes
      /\ pio'.off <= bytes /\ pio'.blksize <= BlockBytes
  BY <1>2, <1>3, <1>4, <1>5, <1>6
<1>8. bytes <= MaxBlocks * BlockBytes /\ MaxBlocks * BlockBytes \in Nat
  BY <1>1, Sizes, Bytes, Multiples DEF bytes, Fits
<1>9. UNCHANGED <<fpos, addr, sdarg, write_cmd, read_ext_csd, card>>
  BY <1>1 DEF cardVars
<1>10. Budget'
  <2>1. pio'.blk < mrq'.blocks
    BY <1>1, <1>2 DEF Budget
  <2>2. /\ pio'.blksize + pio'.words * WordBytes <= BlockBytes
        /\ pio'.off + pio'.words * WordBytes <= mrq'.blocks * BlockBytes
        /\ addr' * WordBytes + Left' <= mrq'.blocks * BlockBytes
    BY <1>2, <1>7, <1>9 DEF a, bytes, pw
  <2>3. /\ Transfer' => /\ mrq'.arg * BlockWords <= fpos' /\ fpos' <= mrq'.arg * BlockWords + addr'
                        /\ (write_cmd' <=> mrq'.kind = "write")
        /\ mrq'.kind = "ext_csd" => (read_ext_csd' <=> addr' < BlockWords)
    BY <1>1, <1>2, <1>9 DEF Budget, Transfer
  <2> QED
    BY <2>1, <2>2, <2>3 DEF Budget
<1>11. CardType'
  <2>1. pio'.blk <= MaxBlocks
    BY <1>1, <1>2 DEF CardType
  <2>2. pio'.words <= BlockWords
    <3>1. pio'.words * WordBytes <= BlockWords * WordBytes
      BY <1>7, Sizes DEF pw
    <3> QED
      BY <1>4, <3>1, Words, Sizes
  <2>3. pio'.off <= MaxBlocks * BlockBytes
    BY <1>3, <1>4, <1>7, <1>8
  <2>4. pio'.blksize <= BlockBytes
    BY <1>7
  <2> QED
    BY <1>1, <1>2, <1>9, <2>1, <2>2, <2>3, <2>4 DEF CardType, CardWords
<1>12. WritesConfined' /\ Fits(mrq)' /\ StartOK'
  <2>1. WritesConfined'
    BY <1>1, <1>2, <1>9 DEF WritesConfined, Area
  <2>2. Fits(mrq)'
    BY <1>1, <1>2 DEF Fits, HasData
  <2>3. StartOK'
    BY <1>1 DEF StartOK
  <2> QED
    BY <2>1, <2>2, <2>3
<1> QED
  BY <1>10, <1>11, <1>12 DEF CardInv

\* A word moved is one taken from the budget, which had one.
LEMMA WordEffect ==
  ASSUME HostInv, CardInv, pio_word
  PROVE  /\ pio' \in [blk : Nat, blksize : Nat, off : Nat, words : Nat]
         /\ pio'.blk = pio.blk /\ pio'.blksize = pio.blksize
         /\ pio'.words = pio.words - 1 /\ pio'.off = pio.off + WordBytes
         /\ pio'.words * WordBytes = pio.words * WordBytes - WordBytes
         /\ pio.words * WordBytes \in Nat
         /\ addr' = addr + 1 /\ addr' \in Nat /\ addr' * WordBytes = addr * WordBytes + WordBytes
         /\ addr * WordBytes \in Nat
         /\ Left \in Nat /\ Left' = Left - WordBytes
         /\ addr' <= mrq.blocks * BlockWords
         /\ mrq.blocks * BlockWords \in Nat /\ mrq.arg * BlockWords \in Nat
         /\ (mrq.arg + mrq.blocks) * BlockWords = mrq.arg * BlockWords + mrq.blocks * BlockWords
<1> DEFINE W == WordBytes
           w == pio.words
           rest == (mrq.blocks - pio.blk - 1) * BlockBytes
           a == addr * W
           n == mrq.blocks * BlockWords
<1>1. /\ pio.words > 0 /\ mrq' = mrq
      /\ pio' = [pio EXCEPT !.off = @ + WordBytes, !.words = @ - 1]
      /\ addr' = addr + 1
      /\ CardType /\ Fits(mrq) /\ Budget
  BY DEF pio_word, sdcard_data_io, CardInv, HostInv, PioOK
<1>2. /\ pio \in [blk : Nat, blksize : Nat, off : Nat, words : Nat]
      /\ W \in Nat /\ W >= 1 /\ addr \in Nat
  BY <1>1, Sizes DEF CardType
<1>3. /\ pio' \in [blk : Nat, blksize : Nat, off : Nat, words : Nat]
      /\ pio'.blk = pio.blk /\ pio'.blksize = pio.blksize
      /\ pio'.words = w - 1 /\ pio'.off = pio.off + W
  <2>1. pio.words - 1 \in Nat /\ pio.off + WordBytes \in Nat
    BY <1>1, <1>2
  <2> QED
    BY <1>1, <1>2, <2>1
<1>4. rest \in Nat /\ n \in Nat /\ mrq.arg * BlockWords \in Nat
  <2>1. pio.blk < mrq.blocks
    BY <1>1 DEF Budget
  <2> QED
    BY <1>1, <2>1, Rest, Bytes DEF Fits
<1>5. w \in Nat /\ w >= 1
  BY <1>1, <1>2
<1> HIDE DEF w, W
<1>6. (w - 1) * W = w * W - W /\ w * W \in Nat /\ w * W >= W
  BY <1>2, <1>5, SMT
<1>7. (addr + 1) * W = a + W /\ a \in Nat
  BY <1>2, SMT
<1>8. Left = pio.blksize + w * W + rest /\ Left' = pio.blksize + (w - 1) * W + rest
  BY <1>1, <1>3 DEF Left, w, W
<1> HIDE DEF rest, a, n
<1>9. Left \in Nat /\ Left' = Left - W /\ Left >= W
  BY <1>2, <1>4, <1>6, <1>8
<1>10. addr + 1 <= n
  <2>1. a + Left <= n * W
    BY <1>1, Bytes DEF Budget, Fits, a, n, W
  <2>2. n * W \in Nat
    BY <1>2, <1>4
  <2>3. (addr + 1) * W <= n * W
    BY <1>2, <1>7, <1>9, <2>1, <2>2
  <2> QED
    BY <1>2, <1>4, <2>3, Words DEF W
<1>11. (mrq.arg + mrq.blocks) * BlockWords = mrq.arg * BlockWords + mrq.blocks * BlockWords
  BY <1>1, Sizes, SMT DEF Fits
<1> QED
  BY <1>1, <1>2, <1>3, <1>4, <1>6, <1>7, <1>9, <1>10, <1>11 DEF w, W, a, n

\* What an access to SDDATA does to the card.
LEMMA DataIo ==
  ASSUME HostInv, CardInv, pio_word
  PROVE  /\ UNCHANGED <<pc, mrq, host, before, sdarg, write_cmd, detected, warned>>
         /\ read_ext_csd =>
              /\ read_ext_csd' = (addr # BlockWords - 1)
              /\ fpos' = fpos /\ card' = card /\ sddata' = Csd(addr)
         /\ ~read_ext_csd =>
              /\ read_ext_csd' = FALSE /\ fpos' = fpos + 1
              /\ write_cmd => card' = [card EXCEPT ![fpos] = Buf(pio.off)]
              /\ ~write_cmd => card' = card /\ sddata' = card[fpos]
BY DEF pio_word, sdcard_data_io, last_csd_word, CardInv, CardType

\* Only a write changes the card, at its position, which is within its sectors; the
\* extended CSD has not ended.
LEMMA WordCard ==
  ASSUME HostInv, CardInv, pio_word
  PROVE  /\ mrq.kind \in {"read", "write", "ext_csd"}
         /\ mrq.kind = "ext_csd" => mrq.blocks * BlockWords = BlockWords /\ read_ext_csd
         /\ Transfer => /\ mrq.arg * BlockWords <= fpos /\ fpos <= mrq.arg * BlockWords + addr
                        /\ (write_cmd <=> mrq.kind = "write")
         /\ mrq.kind # "write" => card' = card
         /\ addr \in Nat /\ fpos \in Nat
<1> DEFINE n == mrq.blocks * BlockWords
<1>1. CardType /\ Fits(mrq) /\ Budget /\ mrq \in MrqType /\ HasData(mrq)
  BY DEF pio_word, CardInv, HostInv, PioOK
<1>2. n \in Nat /\ addr' = addr + 1 /\ addr' <= n
  BY WordEffect
<1>3. addr \in Nat /\ fpos \in Nat /\ BlockWords \in Nat
  BY <1>1, Sizes DEF CardType
<1>4. mrq.kind \in {"read", "write", "ext_csd"}
  BY <1>1 DEF Fits, HasData, MrqType
<1>5. mrq.kind = "ext_csd" => n = BlockWords /\ read_ext_csd
  <2> SUFFICES ASSUME mrq.kind = "ext_csd" PROVE n = BlockWords /\ read_ext_csd
    OBVIOUS
  <2>1. n = BlockWords
    BY <1>1, Sizes DEF Fits
  <2>2. addr < BlockWords
    BY <1>2, <1>3, <2>1
  <2> QED
    BY <1>1, <2>1, <2>2 DEF Budget
<1>6. Transfer => /\ mrq.arg * BlockWords <= fpos /\ fpos <= mrq.arg * BlockWords + addr
                  /\ (write_cmd <=> mrq.kind = "write")
  BY <1>1 DEF Budget
<1>7. mrq.kind # "write" => card' = card
  BY <1>4, <1>5, <1>6, DataIo DEF Transfer
<1> QED
  BY <1>3, <1>4, <1>5, <1>6, <1>7

LEMMA WordKeepsCard == HostInv /\ CardInv /\ pio_word => CardInv'
<1> SUFFICES ASSUME HostInv, CardInv, pio_word PROVE CardInv'
  OBVIOUS
<1> DEFINE n == mrq.blocks * BlockWords
           f == mrq.arg * BlockWords
<1>1. /\ pc = "pio" /\ UNCHANGED <<pc, mrq, host, before, sdarg, write_cmd>>
      /\ CardType /\ Fits(mrq) /\ Budget /\ StartOK /\ WritesConfined
      /\ mrq \in MrqType /\ host.cmd = "cmd" /\ HasData(mrq)
  BY DataIo DEF pio_word, CardInv, HostInv, PioOK
<1>2. n \in Nat /\ f \in Nat /\ (mrq.arg + mrq.blocks) * BlockWords = f + n
      /\ addr' = addr + 1 /\ addr' \in Nat /\ addr' <= n
  BY WordEffect
<1>3. addr \in Nat /\ fpos \in Nat /\ BlockWords \in Nat
  BY <1>1, Sizes DEF CardType
<1>4. f + n <= CardWords
  BY <1>1, <1>2, Sizes, Multiples DEF Fits
<1>5. mrq.kind \in {"read", "write", "ext_csd"}
  BY WordCard
<1>6. mrq.kind = "ext_csd" => n = BlockWords /\ read_ext_csd
  BY WordCard
<1>7. Transfer => /\ f <= fpos /\ fpos <= f + addr /\ (write_cmd <=> mrq.kind = "write")
  BY WordCard
<1> HIDE DEF n, f
<1>8. /\ fpos' \in {fpos, fpos + 1} /\ fpos' \in Nat
      /\ Transfer => f <= fpos' /\ fpos' <= f + addr' /\ fpos < f + n
      /\ fpos' <= CardWords
  <2>1. fpos' \in {fpos, fpos + 1}
    BY DataIo
  <2>2. CASE Transfer
    BY <1>2, <1>3, <1>4, <1>7, <2>1, <2>2, Sizes
  <2>3. CASE ~Transfer
    <3>1. fpos' = fpos
      BY <1>5, <1>6, <2>3, DataIo DEF Transfer
    <3> QED
      BY <1>1, <1>3, <2>3, <3>1 DEF CardType
  <2> QED
    BY <2>2, <2>3
<1>9. Budget'
  <2>1. /\ pio'.blk < mrq'.blocks
        /\ pio'.blksize + pio'.words * WordBytes <= BlockBytes
        /\ pio'.off + pio'.words * WordBytes <= mrq'.blocks * BlockBytes
    <3> DEFINE pw == pio.words * WordBytes
               bytes == mrq.blocks * BlockBytes
    <3>1. /\ pio.blk < mrq.blocks /\ pio.blksize + pw <= BlockBytes /\ pio.off + pw <= bytes
          /\ pio \in [blk : Nat, blksize : Nat, off : Nat, words : Nat]
      BY <1>1 DEF Budget, CardType
    <3>2. bytes \in Nat /\ pw \in Nat /\ WordBytes \in Nat /\ BlockBytes \in Nat
      BY <1>1, WordEffect, Bytes, Sizes DEF Fits
    <3>3. /\ pio'.blk = pio.blk /\ pio'.blksize = pio.blksize /\ pio'.off = pio.off + WordBytes
          /\ pio'.words * WordBytes = pw - WordBytes
      BY WordEffect
    <3> HIDE DEF pw, bytes
    <3>4. /\ pio'.blk < mrq.blocks
          /\ pio'.blksize + pio'.words * WordBytes <= BlockBytes
          /\ pio'.off + pio'.words * WordBytes <= bytes
      BY <3>1, <3>2, <3>3
    <3> QED
      BY <1>1, <3>4 DEF bytes
  <2>2. addr' * WordBytes + Left' <= mrq'.blocks * BlockBytes
    <3>1. addr * WordBytes + Left <= mrq.blocks * BlockBytes
      BY <1>1 DEF Budget
    <3>2. addr' * WordBytes + Left' = addr * WordBytes + Left
      <4> DEFINE a == addr * WordBytes
      <4>1. /\ addr' * WordBytes = a + WordBytes /\ Left' = Left - WordBytes
            /\ a \in Nat /\ Left \in Nat /\ WordBytes \in Nat
        BY WordEffect, Sizes
      <4> HIDE DEF a
      <4>2. (a + WordBytes) + (Left - WordBytes) = a + Left
        BY <4>1
      <4> QED
        BY <4>1, <4>2 DEF a
    <3> QED
      BY <1>1, <3>1, <3>2
  <2>3. Transfer' => /\ mrq'.arg * BlockWords <= fpos' /\ fpos' <= mrq'.arg * BlockWords + addr'
                     /\ (write_cmd' <=> mrq'.kind = "write")
    BY <1>1, <1>7, <1>8 DEF Transfer, f
  <2>4. ASSUME mrq.kind = "ext_csd" PROVE read_ext_csd' <=> addr' < BlockWords
    <3>1. addr # BlockWords - 1 <=> addr' < BlockWords
      BY <1>2, <1>3, <1>6, <2>4
    <3> QED
      BY <1>6, <2>4, <3>1, DataIo
  <2> QED
    BY <1>1, <2>1, <2>2, <2>3, <2>4 DEF Budget
<1>10. WritesConfined'
  <2> SUFFICES ASSUME NEW p \in 0 .. CardWords - 1, card'[p] # before[p]
               PROVE  mrq.kind = "write" /\ p \in Area(mrq)
    BY <1>1 DEF WritesConfined, Area, CardWords
  <2>1. CASE card'[p] = card[p]
    BY <1>1, <2>1 DEF WritesConfined
  <2>2. CASE card'[p] # card[p]
    <3>1. ~read_ext_csd /\ write_cmd /\ card' = [card EXCEPT ![fpos] = Buf(pio.off)]
      BY <2>2, DataIo DEF CardInv, CardType
    <3>2. p = fpos
      BY <1>1, <2>2, <3>1 DEF CardType
    <3>3. mrq.kind = "write"
      BY <1>5, <1>6, <1>7, <3>1 DEF Transfer
    <3>4. p >= f /\ p < f + n
      BY <1>7, <1>8, <3>2, <3>3 DEF Transfer
    <3> QED
      BY <1>2, <3>3, <3>4 DEF Area, f
  <2> QED
    BY <2>1, <2>2
<1>11. Fits(mrq)' /\ StartOK'
  BY <1>1 DEF Fits, StartOK, HasData
<1>12. CardType'
  <2>1. card' = [p \in 0 .. CardWords - 1 |-> card'[p]]
    BY <1>1, DataIo DEF CardType
  <2>2. read_ext_csd' \in BOOLEAN
    BY DataIo DEF CardInv, CardType
  <2>3. addr' <= MaxBlocks * BlockWords
    <3>1. n <= MaxBlocks * BlockWords /\ MaxBlocks * BlockWords \in Nat
      BY <1>1, Sizes, Bytes, Multiples DEF Fits, n
    <3> QED
      BY <1>2, <3>1
  <2>4. /\ pio' \in [blk : Nat, blksize : Nat, off : Nat, words : Nat]
        /\ pio'.blk <= MaxBlocks /\ pio'.blksize <= BlockBytes /\ pio'.words <= BlockWords
    <3>1. /\ pio' \in [blk : Nat, blksize : Nat, off : Nat, words : Nat]
          /\ pio'.blk = pio.blk /\ pio'.blksize = pio.blksize /\ pio'.words = pio.words - 1
      BY WordEffect
    <3> QED
      BY <1>1, <3>1, Sizes DEF CardType
  <2>5. pio'.off <= MaxBlocks * BlockBytes
    <3> DEFINE bytes == mrq.blocks * BlockBytes
               pw == pio'.words * WordBytes
    <3>1. pio'.off + pw <= bytes
      BY <1>1, <1>9 DEF Budget
    <3>2. pw \in Nat
      BY <2>4, Sizes
    <3>3. bytes <= MaxBlocks * BlockBytes /\ MaxBlocks * BlockBytes \in Nat /\ bytes \in Nat
      BY <1>1, Sizes, Bytes, Multiples DEF Fits
    <3> HIDE DEF bytes, pw
    <3> QED
      BY <2>4, <3>1, <3>2, <3>3
  <2> QED
    BY <1>1, <1>2, <1>8, <2>1, <2>2, <2>3, <2>4, <2>5 DEF CardType, CardWords
<1> QED
  BY <1>1, <1>9, <1>10, <1>11, <1>12 DEF CardInv

\* The next block takes over what is left for it.
LEMMA BlockEffect ==
  ASSUME HostInv, CardInv, pio_block
  PROVE  /\ pc = "pio" /\ UNCHANGED <<cardVars, pc, mrq, host, before, buf, detected, warned>>
         /\ pio' \in [blk : Nat, blksize : Nat, off : Nat, words : Nat]
         /\ pio'.blk = pio.blk + 1 /\ pio'.blksize = BlockBytes /\ pio'.words = 0
         /\ pio'.off = pio.off /\ pio.words = 0 /\ pio.blk + 1 < mrq.blocks
         /\ Left' = Left
<1>1. /\ pc = "pio" /\ pio.words = 0 /\ pio.blksize = 0 /\ pio.blk + 1 < mrq.blocks
      /\ pio' = [pio EXCEPT !.blk = @ + 1, !.blksize = BlockBytes]
      /\ UNCHANGED <<cardVars, pc, mrq, host, before, buf, detected, warned>>
      /\ CardType /\ Fits(mrq) /\ mrq \in MrqType /\ host.cmd = "cmd"
  BY DEF pio_block, CardInv, HostInv, PioOK
<1>2. /\ pio'.blk = pio.blk + 1 /\ pio'.blksize = BlockBytes /\ pio'.words = 0
      /\ pio'.off = pio.off /\ pio' \in [blk : Nat, blksize : Nat, off : Nat, words : Nat]
  <2>1. pio \in [blk : Nat, blksize : Nat, off : Nat, words : Nat]
    BY <1>1 DEF CardType
  <2>2. pio.blk + 1 \in Nat /\ BlockBytes \in Nat
    BY <2>1, Sizes
  <2> QED
    BY <1>1, <2>1, <2>2
<1>3. pio.blk \in Nat /\ mrq.blocks \in Nat
  BY <1>1 DEF CardType, Fits
<1>4. Left' = Left
  <2> DEFINE m == mrq.blocks - pio.blk - 1
  <2>1. m \in Int /\ mrq.blocks - (pio.blk + 1) - 1 = m - 1
    BY <1>3
  <2>2. Left = 0 + 0 * WordBytes + m * BlockBytes
    BY <1>1 DEF Left
  <2>3. Left' = BlockBytes + 0 * WordBytes + (m - 1) * BlockBytes
    BY <1>1, <1>2, <2>1 DEF Left
  <2>4. (m - 1) * BlockBytes = m * BlockBytes - BlockBytes /\ m * BlockBytes \in Int
        /\ 0 * WordBytes = 0
    <3> HIDE DEF m
    <3> QED
      BY <2>1, Sizes, SMT
  <2> HIDE DEF m
  <2> QED
    BY <2>2, <2>3, <2>4, Sizes
<1> QED
  BY <1>1, <1>2, <1>4

LEMMA BlockKeepsCard == HostInv /\ CardInv /\ pio_block => CardInv'
<1> SUFFICES ASSUME HostInv, CardInv, pio_block PROVE CardInv'
  OBVIOUS
<1>1. /\ pc = "pio" /\ UNCHANGED <<pc, mrq, host, before>>
      /\ UNCHANGED <<sdarg, fpos, addr, write_cmd, read_ext_csd, card>>
      /\ CardType /\ Fits(mrq) /\ Budget /\ host.cmd = "cmd"
      /\ pio' \in [blk : Nat, blksize : Nat, off : Nat, words : Nat]
      /\ pio'.blk = pio.blk + 1 /\ pio'.blksize = BlockBytes /\ pio'.words = 0
      /\ pio'.off = pio.off /\ pio.words = 0 /\ pio.blk + 1 < mrq.blocks
  BY BlockEffect DEF cardVars, CardInv, HostInv, PioOK
<1>2. Budget'
  <2>1. pio'.blksize + pio'.words * WordBytes <= BlockBytes
    <3>1. 0 * WordBytes = 0
      BY Sizes
    <3> QED
      BY <1>1, <3>1, Sizes
  <2>2. pio'.off + pio'.words * WordBytes <= mrq'.blocks * BlockBytes
    BY <1>1 DEF Budget
  <2>3. addr' * WordBytes + Left' <= mrq'.blocks * BlockBytes
    BY <1>1, BlockEffect DEF Budget
  <2>4. /\ Transfer' => /\ mrq'.arg * BlockWords <= fpos' /\ fpos' <= mrq'.arg * BlockWords + addr'
                        /\ (write_cmd' <=> mrq'.kind = "write")
        /\ mrq'.kind = "ext_csd" => (read_ext_csd' <=> addr' < BlockWords)
    BY <1>1 DEF Budget, Transfer
  <2>5. pio'.blk < mrq'.blocks
    BY <1>1
  <2> QED
    BY <2>1, <2>2, <2>3, <2>4, <2>5 DEF Budget
<1>3. WritesConfined' /\ Fits(mrq)'
  BY <1>1, CardUnchanged
<1>4. pio'.blk <= MaxBlocks
  <2>1. pio.blk \in Nat /\ mrq.blocks \in Nat /\ mrq.blocks <= MaxBlocks
    BY <1>1 DEF CardType, Fits
  <2> QED
    BY <1>1, <2>1, Sizes
<1>5. CardType'
  BY <1>1, <1>4, Sizes DEF CardType, CardWords
<1>6. StartOK'
  BY <1>1 DEF StartOK
<1> QED
  BY <1>2, <1>3, <1>5, <1>6 DEF CardInv

-----------------------------------------------------------------------------
\* The steps after a transfer, and between commands.
LEMMA FinishKeepsCard ==
  HostInv /\ CardInv /\ (nemu_finish_data \/ finish_stop \/ unlock) => CardInv'
<1> SUFFICES ASSUME HostInv, CardInv, nemu_finish_data \/ finish_stop \/ unlock
             PROVE  CardInv'
  OBVIOUS
<1>1. UNCHANGED <<cardVars, mrq, pio, before>> /\ pc' \notin {"pio", "issue"}
  BY DEF nemu_finish_data, finish_stop, finish_request, unlock
<1>2. host'.cmd = host.cmd \/ host'.cmd = None
  BY DEF nemu_finish_data, finish_stop, finish_request, unlock, HostInv, HostType
<1>3. WritesConfined' /\ Fits(mrq)'
  BY <1>1, CardUnchanged DEF cardVars
<1>4. CardType' /\ StartOK'
  BY <1>1, <1>2 DEF CardInv, CardType, StartOK, cardVars, CardWords, None
<1> QED
  BY <1>1, <1>3, <1>4 DEF CardInv

LEMMA SbcKeepsCard == HostInv /\ CardInv /\ finish_sbc => CardInv'
<1> SUFFICES ASSUME HostInv, CardInv, finish_sbc PROVE CardInv'
  OBVIOUS
<1>1. /\ UNCHANGED <<mrq, pio, before, fpos, addr, write_cmd, read_ext_csd, card>>
      /\ host.cmd = "sbc" /\ pc' = "issue" /\ sdarg' = mrq.arg
      /\ host' = [complete_command(host) EXCEPT
                   !.cmd = "cmd", !.data = "cmd" = "cmd" /\ HasData(mrq),
                   !.data_complete = IF "cmd" = "cmd" /\ HasData(mrq) THEN FALSE ELSE @]
  BY DEF finish_sbc, send_command, set_arg
<1>2. host'.cmd = "cmd"
  BY <1>1 DEF complete_command, HostInv, HostType
<1>3. WritesConfined' /\ Fits(mrq)'
  BY <1>1, CardUnchanged
<1>4. sdarg' \in Nat /\ sdarg' <= Sectors
  BY <1>1, Sizes DEF CardInv, Fits
<1>5. CardType' /\ StartOK'
  BY <1>1, <1>2, <1>4 DEF CardInv, CardType, StartOK, CardWords
<1> QED
  BY <1>1, <1>3, <1>5 DEF CardInv

\* After the command the request is over, or CMD12 is on its way.
LEMMA CommandEffect ==
  ASSUME HostInv, finish_command
  PROVE  /\ UNCHANGED <<mrq, pio, before, buf, fpos, addr, write_cmd, read_ext_csd, card>>
         /\ sdarg' \in {0, sdarg} /\ pc' \in {"issue", "unlock"}
         /\ pc' = "issue" => host'.cmd = "stop" /\ detected' = detected
         /\ host'.cmd \in {None, "stop"}
         /\ detected' = detected
              \/ detected' = (detected \/ (mrq.kind = "ext_csd" /\ ~mrq.error))
<1>1. UNCHANGED <<pio, before, buf>>
  BY DEF finish_command
<1> DEFINE h == complete_command(host)
<1>2. h \in HostType /\ h.cmd = None
  BY DEF HostInv, HostType, complete_command, Cmds
<1> HIDE DEF h
<1>3. ASSUME NEW x \in HostType, finish_request(x)
      PROVE  /\ pc' = "unlock" /\ host'.cmd = None
             /\ detected' = (detected \/ (mrq.kind = "ext_csd" /\ ~mrq.error))
  BY <1>3 DEF finish_request, HostType
<1>4. CASE finish_request(h) /\ UNCHANGED <<cardVars, mrq, warned>>
  BY <1>1, <1>2, <1>3, <1>4 DEF cardVars
<1>5. CASE transfer_complete(h)
  <2>1. [h EXCEPT !.data = FALSE] \in HostType
    BY <1>2 DEF HostType
  <2>2. CASE needs_stop(h)
    <3>1. /\ mrq' = mrq /\ pc' = "issue" /\ sdarg' = 0 /\ detected' = detected
          /\ UNCHANGED <<fpos, addr, write_cmd, read_ext_csd, card>>
          /\ host' = [[h EXCEPT !.data = FALSE] EXCEPT
                       !.cmd = "stop", !.data = "stop" = "cmd" /\ HasData(mrq),
                       !.data_complete = IF "stop" = "cmd" /\ HasData(mrq) THEN FALSE ELSE @]
      BY <1>5, <2>2 DEF transfer_complete, send_command, set_arg
    <3>2. host'.cmd = "stop"
      BY <2>1, <3>1 DEF HostType
    <3> QED
      BY <1>1, <3>1, <3>2
  <2>3. CASE ~needs_stop(h)
    <3>1. finish_request([h EXCEPT !.data = FALSE]) /\ UNCHANGED <<cardVars, mrq>>
      BY <1>5, <2>3 DEF transfer_complete
    <3> QED
      BY <1>1, <1>3, <2>1, <3>1 DEF cardVars
  <2> QED
    BY <2>2, <2>3
<1>6. CASE /\ host' = h /\ pc' = "unlock" /\ UNCHANGED <<cardVars, mrq, detected>>
  BY <1>1, <1>2, <1>6 DEF cardVars
<1> QED
  BY <1>4, <1>5, <1>6 DEF finish_command, h

LEMMA CommandKeepsCard == HostInv /\ CardInv /\ finish_command => CardInv'
<1> SUFFICES ASSUME HostInv, CardInv, finish_command PROVE CardInv'
  OBVIOUS
<1>1. /\ UNCHANGED <<mrq, pio, before, fpos, addr, write_cmd, read_ext_csd, card>>
      /\ sdarg' \in {0, sdarg} /\ pc' \in {"issue", "unlock"} /\ host'.cmd \in {None, "stop"}
  BY CommandEffect
<1>2. WritesConfined' /\ Fits(mrq)'
  BY <1>1, CardUnchanged
<1>3. sdarg' \in Nat /\ sdarg' <= Sectors
  <2>1. sdarg \in Nat /\ sdarg <= Sectors
    BY DEF CardInv, CardType
  <2> QED
    BY <1>1, <2>1, Sizes
<1>4. CardType' /\ StartOK'
  BY <1>1, <1>3 DEF CardInv, CardType, StartOK, CardWords, None
<1> QED
  BY <1>1, <1>2, <1>4 DEF CardInv

LEMMA CardInvNext == HostInv /\ CardInv /\ [Next]_vars => CardInv'
<1> SUFFICES ASSUME HostInv, CardInv, [Next]_vars PROVE CardInv'
  OBVIOUS
<1>1. CASE Next
  BY <1>1, RequestKeepsCard, IssueKeepsCard, SegmentKeepsCard, WordKeepsCard, BlockKeepsCard,
     FinishKeepsCard, SbcKeepsCard, CommandKeepsCard DEF Next, Step
<1>2. CASE UNCHANGED vars
  BY <1>2 DEF vars, hostVars, cardVars, CardInv, CardType, Fits, StartOK, Budget, Left,
     Transfer, WritesConfined, Area, HasData, CardWords
<1> QED
  BY <1>1, <1>2

\* No request, finished or failing half way, changes a word outside the sectors it
\* writes: for every size of card, sector and word, and every scatter list.
THEOREM SdHostWritesConfined == Spec => []WritesConfined
<1>1. CardInv => WritesConfined
  BY DEF CardInv
<1> QED
  BY HostInvInit, HostInvNext, CardInvInit, CardInvNext, <1>1, PTL DEF Spec

-----------------------------------------------------------------------------
(***************************************************************************)
(* The data: a request that reports no error moved every word from where   *)
(* it was to where it belongs.                                             *)
(***************************************************************************)

\* The first n words of the request's data are where they belong.
DataOK(n) ==
  \A i \in 0 .. n - 1 :
    /\ mrq.kind = "write" => card[mrq.arg * BlockWords + i] = Buf(i * WordBytes)
    /\ mrq.kind = "read" => /\ i * WordBytes \in DOMAIN buf
                            /\ buf[i * WordBytes] = before[mrq.arg * BlockWords + i]
    /\ mrq.kind = "ext_csd" => i * WordBytes \in DOMAIN buf /\ buf[i * WordBytes] = Csd(i)

\* As long as no block failed, the offset in the buffer, the card's position and the
\* words moved say the same, and nothing was left out.
Exact ==
  /\ pio.off = addr * WordBytes
  /\ addr * WordBytes + Left = mrq.blocks * BlockBytes
  /\ Transfer => fpos = mrq.arg * BlockWords + addr
  /\ DataOK(addr)

\* The transfer is over.
Over ==
  \/ pc = "finish_command" /\ host.cmd \in {"cmd", "stop"}
  \/ pc = "issue" /\ host.cmd = "stop"
  \/ pc = "unlock"

\* The card is not left in the middle of its extended CSD: CMD8 without data is sent
\* to a card that is not detected, and detecting it reads the extended CSD to its end.
Settled ==
  /\ detected /\ (pc = "idle" \/ mrq.kind \notin {"ext_csd", "if_cond"}) => ~read_ext_csd
  /\ pc # "idle" /\ Transfer => detected
  /\ pc # "idle" /\ mrq.kind = "if_cond" => ~detected

\* Reading the extended CSD into its one buffer does not fail.
CsdOK == mrq.kind = "ext_csd" => ~mrq.error

Untouched == mrq.kind # "write" => card = before

LoopOK == pc = "pio" /\ ~mrq.error => Exact

Complete == DataOK(mrq.blocks * BlockWords) /\ (mrq.kind = "ext_csd" => ~read_ext_csd)

OverOK == Over /\ HasData(mrq) /\ ~mrq.error => Complete

DataInv ==
  /\ detected \in BOOLEAN
  /\ Settled /\ CsdOK /\ Untouched /\ LoopOK /\ OverOK

LEMMA DataInvInit == Init => DataInv
<1> SUFFICES ASSUME Init PROVE DataInv
  OBVIOUS
<1>1. pc = "idle" /\ detected = FALSE /\ card = before /\ mrq.kind = "status"
  BY DEF Init, NoRequest, Request
<1> QED
  BY <1>1 DEF DataInv, Settled, CsdOK, Untouched, LoopOK, OverOK, Over

\* Steps that leave the data alone.
LEMMA DataUnchanged ==
  ASSUME UNCHANGED <<mrq, card, buf, before, read_ext_csd>>
  PROVE  /\ Complete' = Complete /\ Untouched' = Untouched /\ CsdOK' = CsdOK
         /\ Transfer' = Transfer /\ HasData(mrq)' = HasData(mrq)
         /\ \A n : DataOK(n)' = DataOK(n)
BY DEF Complete, DataOK, Untouched, CsdOK, Transfer, HasData

LEMMA RequestKeepsData ==
  ASSUME HostInv, CardInv, DataInv, NEW r \in Requests, nemu_request(r)
  PROVE  DataInv'
<1> DEFINE c == IF uses_sbc(r) THEN "sbc" ELSE "cmd"
<1>1. /\ ~mutex /\ mrq' = r /\ before' = card /\ pc' = "issue"
      /\ detected' = (detected /\ r.kind # "if_cond")
      /\ UNCHANGED <<read_ext_csd, card>>
  BY DEF nemu_request, send_command, set_arg
<1>2. host'.cmd = c
  <2>1. host \in HostType
    BY DEF HostInv
  <2>2. host' = [[host EXCEPT !.mrq = TRUE, !.use_sbc = uses_sbc(r)] EXCEPT
                   !.cmd = c, !.data = c = "cmd" /\ HasData(r),
                   !.data_complete = IF c = "cmd" /\ HasData(r) THEN FALSE ELSE @]
    BY <1>1 DEF nemu_request, send_command
  <2> QED
    BY <2>1, <2>2 DEF HostType
<1>3. pc = "idle" /\ detected \in BOOLEAN /\ Settled
  BY <1>1 DEF HostInv, DataInv
<1>4. ~r.error /\ (r.kind \in {"read", "write"} => detected)
  BY RequestType, RequestFits
<1>5. Settled' /\ detected' \in BOOLEAN
  BY <1>1, <1>3, <1>4 DEF Settled, Transfer
<1>6. CsdOK' /\ Untouched' /\ LoopOK' /\ OverOK'
  <2>1. ~Over'
    BY <1>1, <1>2 DEF Over
  <2> QED
    BY <1>1, <1>4, <2>1 DEF CsdOK, Untouched, LoopOK, OverOK
<1> QED
  BY <1>5, <1>6 DEF DataInv

LEMMA IssueKeepsData == HostInv /\ CardInv /\ DataInv /\ issue_command => DataInv'
<1> SUFFICES ASSUME HostInv, CardInv, DataInv, issue_command PROVE DataInv'
  OBVIOUS
<1> DEFINE op == CASE host.cmd = "sbc" -> "SET_BLOCK_COUNT"
                   [] host.cmd = "stop" -> "STOP_TRANSMISSION"
                   [] OTHER -> Opcode(mrq.kind)
<1>1. /\ pc = "issue" /\ UNCHANGED <<mrq, host, pio, before, buf, detected>>
      /\ pc' = IF host.cmd = "cmd" /\ host.data THEN "pio" ELSE "finish_command"
      /\ sdcard_handle_cmd(op)
  BY DEF issue_command
<1>2. mrq \in MrqType /\ Fits(mrq) /\ IssueOK /\ Settled /\ CsdOK /\ Untouched /\ OverOK
        /\ detected \in BOOLEAN /\ host \in HostType
  BY DEF HostInv, CardInv, DataInv
<1>3. card' = card
  BY <1>1 DEF sdcard_handle_cmd, cardVars, prepare_rw
<1>4. read_ext_csd' = read_ext_csd \/ op = "SEND_EXT_CSD"
  BY <1>1 DEF sdcard_handle_cmd, cardVars, prepare_rw
<1>5. mrq.kind \notin {"ext_csd", "if_cond"} => op # "SEND_EXT_CSD"
  BY <1>2 DEF MrqType, Opcode
<1>6. host.cmd = "stop" => UNCHANGED cardVars
  <2> SUFFICES ASSUME host.cmd = "stop" PROVE UNCHANGED cardVars
    OBVIOUS
  <2>1. op = "STOP_TRANSMISSION"
    OBVIOUS
  <2> HIDE DEF op
  <2> QED
    BY <1>1, <2>1 DEF sdcard_handle_cmd
<1> HIDE DEF op
<1>7. Settled'
  BY <1>1, <1>2, <1>4, <1>5 DEF Settled, Transfer
<1>8. CsdOK' /\ Untouched'
  BY <1>1, <1>2, <1>3 DEF CsdOK, Untouched
<1>9. LoopOK'
  <2> SUFFICES ASSUME pc' = "pio" PROVE Exact'
    BY DEF LoopOK
  <2>1. /\ pio' = pio /\ mrq' = mrq /\ pio.off = 0 /\ addr' = 0
        /\ Left' = mrq.blocks * BlockBytes
        /\ Transfer => fpos' = mrq.arg * BlockWords
    BY <1>1, TransferStarts
  <2>2. 0 * WordBytes = 0 /\ mrq.blocks * BlockBytes \in Nat /\ mrq.arg * BlockWords \in Nat
    BY <1>2, Sizes, Bytes DEF Fits
  <2>3. pio'.off = addr' * WordBytes
    BY <2>1, <2>2
  <2>4. addr' * WordBytes + Left' = mrq'.blocks * BlockBytes
    BY <2>1, <2>2
  <2>5. Transfer' => fpos' = mrq'.arg * BlockWords + addr'
    BY <2>1, <2>2 DEF Transfer
  <2>6. DataOK(addr)'
    BY <2>1 DEF DataOK
  <2> QED
    BY <2>3, <2>4, <2>5, <2>6 DEF Exact
<1>10. OverOK'
  <2> SUFFICES ASSUME Over', HasData(mrq)', ~mrq'.error PROVE Complete'
    BY DEF OverOK
  <2>1. HasData(mrq) /\ ~mrq.error
    BY <1>1 DEF HasData
  <2>2. host.cmd = "stop"
    <3>1. pc' = "finish_command" /\ host.cmd \in {"cmd", "stop"}
      BY <1>1 DEF Over
    <3>2. host.cmd = "cmd" => host.data
      BY <1>1, <1>2, <2>1 DEF IssueOK
    <3> QED
      BY <1>1, <3>1, <3>2
  <2>3. Complete
    BY <1>1, <1>2, <2>1, <2>2 DEF OverOK, Over
  <2> QED
    BY <1>1, <1>6, <2>2, <2>3, DataUnchanged DEF cardVars
<1> QED
  BY <1>1, <1>2, <1>7, <1>8, <1>9, <1>10 DEF DataInv

\* Words fill their bytes exactly.
LEMMA NoRemainder ==
  ASSUME NEW k \in Nat
  PROVE  (k * WordBytes) % WordBytes = 0
<1> DEFINE n == k * WordBytes
           q == n \div WordBytes
           x == n % WordBytes
<1>1. n \in Nat /\ WordBytes \in Nat /\ WordBytes > 0
  BY Sizes
<1>2. q \in Int /\ x \in Int /\ n = WordBytes * q + x /\ 0 <= x /\ x < WordBytes
  <2> HIDE DEF n
  <2> QED
    BY <1>1, SMT
<1> HIDE DEF q, x
<1>3. x = (k - q) * WordBytes
  BY <1>1, <1>2, SMT DEF n
<1>4. k - q >= 1 => (k - q) * WordBytes >= WordBytes
  BY <1>1, <1>2, SMT
<1>5. k - q <= -1 => (k - q) * WordBytes <= -WordBytes
  BY <1>1, <1>2, SMT
<1>6. k - q = 0
  BY <1>1, <1>2, <1>3, <1>4, <1>5
<1>7. x = 0
  BY <1>1, <1>3, <1>6
<1> QED
  BY <1>7 DEF x

\* A segment of the extended CSD's buffer is what is left of it.
LEMMA CsdSegment ==
  ASSUME CardInv, Exact, mrq.kind = "ext_csd", pio.words = 0, pio.blksize > 0,
         pio.blk < mrq.blocks
  PROVE  /\ sg_miter_next(mrq.sg, pio.off) = pio.blksize
         /\ pio.blksize % WordBytes = 0
<1> DEFINE a == addr * WordBytes
           x == pio.blksize
<1>1. CardType /\ mrq.blocks = 1 /\ mrq.sg = {BlockBytes}
  BY DEF CardInv, Fits
<1>2. /\ x \in Nat /\ x > 0 /\ addr \in Nat /\ BlockBytes \in Nat /\ a \in Nat
      /\ WordBytes \in Nat /\ BlockWords \in Nat
  <2>1. x \in Nat /\ addr \in Nat
    BY <1>1 DEF CardType
  <2> QED
    BY <2>1, Sizes
<1>3. pio.blk = 0
  BY <1>1 DEF CardType
<1>4. Left = x + 0 * WordBytes + (1 - 0 - 1) * BlockBytes
  BY <1>1, <1>3 DEF Left
<1>5. 0 * WordBytes = 0 /\ (1 - 0 - 1) * BlockBytes = 0 /\ 1 * BlockBytes = BlockBytes
  BY Sizes
<1>6. pio.off = a /\ a + Left = 1 * BlockBytes
  BY <1>1 DEF Exact
<1> HIDE DEF a, x
<1>7. a + x = BlockBytes /\ BlockBytes > pio.off /\ BlockBytes - pio.off = x
  BY <1>2, <1>4, <1>5, <1>6
<1>8. sg_miter_next({BlockBytes}, pio.off) = x
  <2> DEFINE later == {e \in {BlockBytes} : e > pio.off}
  <2>1. later = {BlockBytes}
    BY <1>7
  <2>2. Min({BlockBytes}) = BlockBytes
    BY <1>2 DEF Min
  <2> QED
    BY <1>7, <2>1, <2>2 DEF sg_miter_next
<1>9. x = (BlockWords - addr) * WordBytes
  BY <1>2, <1>7, Sizes, SMT DEF a
<1>10. BlockWords - addr \in Nat
  <2>1. addr * WordBytes <= BlockWords * WordBytes
    BY <1>2, <1>7, Sizes DEF a
  <2>2. addr <= BlockWords
    BY <1>2, <2>1, Words
  <2> QED
    BY <1>2, <2>2
<1>11. x % WordBytes = 0
  BY <1>9, <1>10, NoRemainder
<1> QED
  BY <1>1, <1>8, <1>11 DEF x

LEMMA SegmentKeepsData == HostInv /\ CardInv /\ DataInv /\ pio_segment => DataInv'
<1> SUFFICES ASSUME HostInv, CardInv, DataInv, pio_segment PROVE DataInv'
  OBVIOUS
<1>1. /\ pc = "pio" /\ pio.words = 0 /\ pio.blksize > 0
      /\ UNCHANGED <<cardVars, pc, host, before, buf, detected>>
      /\ Budget /\ CardType /\ Fits(mrq) /\ mrq \in MrqType
  BY DEF pio_segment, CardInv, HostInv
<1>2. Settled /\ CsdOK /\ Untouched /\ LoopOK /\ detected \in BOOLEAN
  BY DEF DataInv
<1>3. mrq'.kind = mrq.kind /\ pio'.blk = pio.blk /\ mrq'.arg = mrq.arg /\ mrq'.blocks = mrq.blocks
  BY SegmentEffect
<1>4. CsdOK'
  <2> SUFFICES ASSUME mrq.kind = "ext_csd" PROVE mrq' = mrq
    BY <1>2, <1>3 DEF CsdOK
  <2>1. Exact /\ pio.blk < mrq.blocks
    BY <1>1, <1>2 DEF LoopOK, CsdOK, Budget
  <2>2. sg_miter_next(mrq.sg, pio.off) = pio.blksize /\ pio.blksize % WordBytes = 0
    BY <1>1, <2>1, CsdSegment
  <2>3. chunk(pio.blksize, pio.blksize) = pio.blksize
    BY DEF chunk
  <2>4. pio.blksize # 0
    BY <1>1 DEF CardType
  <2> QED
    BY <2>2, <2>3, <2>4 DEF pio_segment
<1>5. Settled' /\ Untouched' /\ OverOK'
  BY <1>1, <1>2, <1>3 DEF Settled, Untouched, OverOK, Over, Transfer, cardVars
<1>6. LoopOK'
  <2> SUFFICES ASSUME ~mrq'.error PROVE Exact'
    BY DEF LoopOK
  <2>1. /\ mrq' = mrq /\ pio'.off = pio.off
        /\ pio'.blksize + pio'.words * WordBytes = pio.blksize
    BY SegmentEffect
  <2>2. Exact
    BY <1>1, <1>2, <2>1 DEF LoopOK
  <2>3. Left' = Left
    <3> DEFINE rest == (mrq.blocks - pio.blk - 1) * BlockBytes
    <3>1. Left' = pio'.blksize + pio'.words * WordBytes + rest
      BY <1>3, <2>1 DEF Left
    <3>2. Left = pio.blksize + 0 * WordBytes + rest
      BY <1>1 DEF Left
    <3>3. 0 * WordBytes = 0 /\ pio.blksize \in Nat
      BY <1>1, Sizes DEF CardType
    <3> HIDE DEF rest
    <3>4. Left = pio.blksize + rest
      BY <3>2, <3>3
    <3> QED
      BY <2>1, <3>1, <3>4
  <2>4. UNCHANGED <<addr, fpos, card, buf, before, mrq, read_ext_csd>>
    BY <1>1, <2>1 DEF cardVars
  <2>5. DataOK(addr)'
    BY <2>2, <2>4 DEF Exact, DataOK
  <2>6. /\ pio'.off = addr' * WordBytes
        /\ addr' * WordBytes + Left' = mrq'.blocks * BlockBytes
        /\ Transfer' => fpos' = mrq'.arg * BlockWords + addr'
    BY <2>1, <2>2, <2>3, <2>4 DEF Exact, Transfer
  <2> QED
    BY <2>5, <2>6 DEF Exact
<1> QED
  BY <1>1, <1>2, <1>4, <1>5, <1>6 DEF DataInv

\* The word at hand goes where it belongs, and no other moves.
LEMMA WordKeepsData == HostInv /\ CardInv /\ DataInv /\ pio_word => DataInv'
<1> SUFFICES ASSUME HostInv, CardInv, DataInv, pio_word PROVE DataInv'
  OBVIOUS
<1> DEFINE f == mrq.arg * BlockWords
           n == mrq.blocks * BlockWords
           a == addr * WordBytes
<1>1. /\ pc = "pio" /\ UNCHANGED <<pc, mrq, host, before, detected, write_cmd>>
      /\ CardType /\ Fits(mrq) /\ mrq \in MrqType
      /\ Settled /\ CsdOK /\ Untouched /\ LoopOK /\ detected \in BOOLEAN
  BY DataIo DEF pio_word, CardInv, HostInv, DataInv
<1>2. /\ mrq.kind \in {"read", "write", "ext_csd"} /\ addr \in Nat /\ fpos \in Nat
      /\ mrq.kind = "ext_csd" => n = BlockWords /\ read_ext_csd
      /\ Transfer => (write_cmd <=> mrq.kind = "write")
      /\ mrq.kind # "write" => card' = card
  BY WordCard
<1>3. /\ f \in Nat /\ n \in Nat /\ (mrq.arg + mrq.blocks) * BlockWords = f + n
      /\ addr' = addr + 1 /\ addr' <= n /\ addr' * WordBytes = a + WordBytes /\ a \in Nat
      /\ Left \in Nat /\ Left' = Left - WordBytes /\ pio'.off = pio.off + WordBytes
  BY WordEffect
<1>4. f + n <= CardWords /\ CardWords \in Nat
  BY <1>1, <1>3, Sizes, Multiples DEF Fits
<1>5. Settled' /\ CsdOK' /\ Untouched' /\ OverOK'
  <2>1. ~read_ext_csd => ~read_ext_csd'
    BY DataIo
  <2>2. Settled' /\ CsdOK'
    BY <1>1, <2>1 DEF Settled, CsdOK, Transfer
  <2>3. Untouched'
    BY <1>1, <1>2 DEF Untouched
  <2>4. ~Over'
    BY <1>1 DEF Over
  <2> QED
    BY <2>2, <2>3, <2>4 DEF OverOK
<1>6. LoopOK'
  <2> SUFFICES ASSUME ~mrq.error PROVE Exact'
    BY <1>1 DEF LoopOK
  <2>1. /\ Exact /\ pio.off = a /\ a + Left = mrq.blocks * BlockBytes
        /\ Transfer => fpos = f + addr
    BY <1>1 DEF LoopOK, Exact
  <2>2. Transfer => ~read_ext_csd /\ fpos' = fpos + 1
    BY <1>1, DataIo DEF Settled, Transfer
  <2>3. buf' = IF mrq.kind = "write" THEN buf
               ELSE [o \in DOMAIN buf \cup {pio.off} |->
                       IF o = pio.off THEN sddata' ELSE buf[o]]
    BY <1>2 DEF pio_word, IsRead
  <2>4. ASSUME NEW i \in 0 .. addr' - 1, i # addr
        PROVE  i \in 0 .. addr - 1 /\ i * WordBytes # pio.off /\ f + i # f + addr
    <3>1. i \in Nat /\ i < addr
      BY <1>2, <1>3, <2>4
    <3>2. ASSUME i * WordBytes = a PROVE addr <= i
      <4>1. addr * WordBytes <= i * WordBytes
        BY <1>3, <3>2
      <4> QED
        BY <1>2, <3>1, <4>1, Words
    <3>3. i * WordBytes # a /\ i \in 0 .. addr - 1 /\ f + i # f + addr
      BY <1>2, <1>3, <3>1, <3>2
    <3> QED
      BY <2>1, <3>3
  <2>5. DataOK(addr)
    BY <2>1 DEF Exact
  <2>6. CASE mrq.kind = "write"
    <3>1. card' = [card EXCEPT ![fpos] = Buf(pio.off)] /\ fpos = f + addr
      BY <1>2, <2>1, <2>2, <2>6, DataIo DEF Transfer
    <3>2. fpos \in 0 .. CardWords - 1
      BY <1>2, <1>3, <1>4, <3>1
    <3>3. card'[fpos] = Buf(pio.off) /\ \A p : p # fpos => card'[p] = card[p]
      BY <1>1, <3>1, <3>2 DEF CardType
    <3> SUFFICES ASSUME NEW i \in 0 .. addr' - 1 PROVE card'[f + i] = Buf(i * WordBytes)
      <4>1. DataOK(addr)'
        BY <1>1, <2>6 DEF DataOK
      <4>2. pio'.off = addr' * WordBytes
        BY <1>3, <2>1
      <4>3. addr' * WordBytes + Left' = mrq'.blocks * BlockBytes
        BY <1>1, <1>3, <2>1, Sizes
      <4>4. Transfer' => fpos' = mrq'.arg * BlockWords + addr'
        BY <1>1, <1>2, <1>3, <2>1, <2>2 DEF Transfer
      <4> QED
        BY <4>1, <4>2, <4>3, <4>4 DEF Exact
    <3>4. CASE i = addr
      BY <2>1, <3>1, <3>3, <3>4
    <3>5. CASE i # addr
      <4>1. i \in 0 .. addr - 1 /\ f + i # fpos
        BY <2>4, <3>1, <3>5
      <4>2. card[f + i] = Buf(i * WordBytes)
        BY <2>5, <2>6, <4>1 DEF DataOK
      <4> QED
        BY <3>3, <4>1, <4>2
    <3> QED
      BY <3>4, <3>5
  <2>7. CASE mrq.kind \in {"read", "ext_csd"}
    <3>1. /\ DOMAIN buf' = DOMAIN buf \cup {pio.off} /\ buf'[pio.off] = sddata'
          /\ \A o \in DOMAIN buf : o # pio.off => buf'[o] = buf[o]
      BY <2>3, <2>7
    <3>2. mrq.kind = "read" => sddata' = before[f + addr]
      BY <1>1, <1>2, <2>1, <2>2, DataIo DEF Untouched, Transfer
    <3>3. mrq.kind = "ext_csd" => sddata' = Csd(addr)
      BY <1>2, DataIo
    <3> DEFINE Word(i) == IF mrq.kind = "read" THEN before[f + i] ELSE Csd(i)
    <3> SUFFICES ASSUME NEW i \in 0 .. addr' - 1
                 PROVE  i * WordBytes \in DOMAIN buf' /\ buf'[i * WordBytes] = Word(i)
      <4>1. DataOK(addr)'
        BY <1>1, <2>7 DEF DataOK
      <4>2. pio'.off = addr' * WordBytes
        BY <1>3, <2>1
      <4>3. addr' * WordBytes + Left' = mrq'.blocks * BlockBytes
        BY <1>1, <1>3, <2>1, Sizes
      <4>4. Transfer' => fpos' = mrq'.arg * BlockWords + addr'
        BY <1>1, <1>2, <1>3, <2>1, <2>2 DEF Transfer
      <4> QED
        BY <4>1, <4>2, <4>3, <4>4 DEF Exact
    <3>4. CASE i = addr
      BY <2>1, <2>7, <3>1, <3>2, <3>3, <3>4
    <3>5. CASE i # addr
      <4>1. i \in 0 .. addr - 1 /\ i * WordBytes # pio.off
        BY <2>4, <3>5
      <4>2. i * WordBytes \in DOMAIN buf /\ buf[i * WordBytes] = Word(i)
        BY <2>5, <2>7, <4>1 DEF DataOK
      <4> QED
        BY <3>1, <4>1, <4>2
    <3> QED
      BY <3>4, <3>5
  <2> QED
    BY <1>2, <2>6, <2>7
<1> QED
  BY <1>1, <1>5, <1>6 DEF DataInv

LEMMA BlockKeepsData == HostInv /\ CardInv /\ DataInv /\ pio_block => DataInv'
<1> SUFFICES ASSUME HostInv, CardInv, DataInv, pio_block PROVE DataInv'
  OBVIOUS
<1>1. /\ pc = "pio" /\ UNCHANGED <<cardVars, pc, mrq, host, before, buf, detected>>
      /\ pio'.off = pio.off /\ Left' = Left
  BY BlockEffect
<1>2. Exact => Exact'
  BY <1>1 DEF Exact, DataOK, Transfer, cardVars
<1> QED
  BY <1>1, <1>2 DEF DataInv, Settled, CsdOK, Untouched, LoopOK, OverOK, Over, Transfer, cardVars

\* After the last block the request's words have all been moved.
LEMMA DataKeepsData == HostInv /\ CardInv /\ DataInv /\ nemu_finish_data => DataInv'
<1> SUFFICES ASSUME HostInv, CardInv, DataInv, nemu_finish_data PROVE DataInv'
  OBVIOUS
<1>1. /\ pc = "pio" /\ pc' = "finish_command"
      /\ pio.words = 0 /\ pio.blksize = 0 /\ pio.blk + 1 = mrq.blocks
      /\ UNCHANGED <<cardVars, mrq, before, buf, detected>>
      /\ Budget /\ CardType /\ Fits(mrq)
  BY DEF nemu_finish_data, CardInv
<1>2. Settled /\ CsdOK /\ Untouched /\ LoopOK /\ detected \in BOOLEAN
  BY DEF DataInv
<1>3. Settled' /\ CsdOK' /\ Untouched' /\ LoopOK'
  BY <1>1, <1>2 DEF Settled, CsdOK, Untouched, LoopOK, Transfer, cardVars
<1>4. ASSUME ~mrq.error PROVE Complete
  <2>1. Exact
    BY <1>1, <1>2, <1>4 DEF LoopOK
  <2>2. Left = 0
    <3>1. mrq.blocks - pio.blk - 1 = 0
      BY <1>1 DEF CardType, Fits
    <3>2. 0 + 0 * WordBytes + 0 * BlockBytes = 0
      BY Sizes
    <3> QED
      BY <1>1, <3>1, <3>2 DEF Left
  <2>3. addr = mrq.blocks * BlockWords
    <3> DEFINE n == mrq.blocks * BlockWords
    <3>1. n \in Nat /\ mrq.blocks * BlockBytes = n * WordBytes /\ addr \in Nat
      BY <1>1, Bytes DEF Fits, CardType
    <3>2. addr * WordBytes \in Nat /\ addr * WordBytes + 0 = n * WordBytes
      BY <2>1, <2>2, <3>1, Sizes DEF Exact
    <3>3. addr * WordBytes <= n * WordBytes /\ n * WordBytes <= addr * WordBytes
      BY <3>1, <3>2
    <3> HIDE DEF n
    <3>4. addr <= n /\ n <= addr
      BY <3>1, <3>3, Words
    <3>5. addr = n
      BY <3>1, <3>4
    <3> QED
      BY <3>5 DEF n
  <2>4. mrq.kind = "ext_csd" => ~read_ext_csd
    <3> SUFFICES ASSUME mrq.kind = "ext_csd" PROVE ~(addr < BlockWords)
      BY <1>1 DEF Budget
    <3>1. mrq.blocks * BlockWords = BlockWords
      BY <1>1, Sizes DEF Fits
    <3> QED
      BY <2>3, <3>1, Sizes
  <2> QED
    BY <2>1, <2>3, <2>4 DEF Complete, Exact
<1>5. OverOK'
  BY <1>1, <1>4, DataUnchanged DEF OverOK, cardVars
<1> QED
  BY <1>1, <1>2, <1>3, <1>5 DEF DataInv

\* Between commands the data stays.
LEMMA SbcKeepsData == HostInv /\ CardInv /\ DataInv /\ finish_sbc => DataInv'
<1> SUFFICES ASSUME HostInv, CardInv, DataInv, finish_sbc PROVE DataInv'
  OBVIOUS
<1>1. /\ UNCHANGED <<mrq, before, buf, detected, read_ext_csd, card>>
      /\ pc = "finish_command" /\ pc' = "issue"
      /\ host' = [complete_command(host) EXCEPT
                   !.cmd = "cmd", !.data = "cmd" = "cmd" /\ HasData(mrq),
                   !.data_complete = IF "cmd" = "cmd" /\ HasData(mrq) THEN FALSE ELSE @]
  BY DEF finish_sbc, send_command, set_arg
<1>2. host'.cmd = "cmd"
  BY <1>1 DEF complete_command, HostInv, HostType
<1> QED
  BY <1>1, <1>2 DEF DataInv, Settled, CsdOK, Untouched, LoopOK, OverOK, Over, Transfer

\* A command that completes after the transfer leaves it complete.
LEMMA CompletionKeepsData ==
  HostInv /\ CardInv /\ DataInv /\ (finish_stop \/ finish_command) => DataInv'
<1> SUFFICES ASSUME HostInv, CardInv, DataInv, finish_stop \/ finish_command PROVE DataInv'
  OBVIOUS
<1>1. /\ UNCHANGED <<mrq, before, buf, read_ext_csd, card>>
      /\ pc = "finish_command" /\ pc' \in {"issue", "unlock"}
      /\ detected' = detected
           \/ detected' = (detected \/ (mrq.kind = "ext_csd" /\ ~mrq.error))
  BY CommandEffect DEF finish_stop, finish_request, cardVars, finish_command
<1>2. mrq \in MrqType /\ Settled /\ CsdOK /\ Untouched /\ OverOK /\ detected \in BOOLEAN
  BY DEF HostInv, DataInv
<1>3. Over
  BY <1>1 DEF Over, finish_stop, finish_command, HostInv, HostType, Cmds, FinishOK
<1>4. detected' \in BOOLEAN /\ (detected => detected') /\ (mrq.kind # "ext_csd" => detected' = detected)
  BY <1>1, <1>2 DEF MrqType
<1>5. Settled'
  BY <1>1, <1>2, <1>4 DEF Settled, Transfer
<1>6. CsdOK' /\ Untouched' /\ LoopOK' /\ OverOK'
  <2>1. CsdOK' /\ Untouched' /\ LoopOK'
    BY <1>1, <1>2, DataUnchanged DEF LoopOK
  <2>2. OverOK'
    BY <1>1, <1>2, <1>3, DataUnchanged DEF OverOK
  <2> QED
    BY <2>1, <2>2
<1> QED
  BY <1>4, <1>5, <1>6 DEF DataInv

LEMMA UnlockKeepsData == HostInv /\ CardInv /\ DataInv /\ unlock => DataInv'
<1> SUFFICES ASSUME HostInv, CardInv, DataInv, unlock PROVE DataInv'
  OBVIOUS
<1>1. /\ pc = "unlock" /\ pc' = "idle"
      /\ UNCHANGED <<mrq, before, buf, detected, read_ext_csd, card>>
  BY DEF unlock, cardVars
<1>2. /\ Fits(mrq) /\ Settled /\ CsdOK /\ Untouched /\ OverOK /\ detected \in BOOLEAN
  BY DEF CardInv, DataInv
<1>3. detected => ~read_ext_csd
  <2>1. CASE mrq.kind = "ext_csd"
    <3>1. HasData(mrq) /\ ~mrq.error
      BY <1>2, <2>1 DEF Fits, HasData, CsdOK
    <3> QED
      BY <1>1, <1>2, <2>1, <3>1 DEF OverOK, Over, Complete
  <2>2. CASE mrq.kind # "ext_csd"
    BY <1>1, <1>2, <2>2 DEF Settled
  <2> QED
    BY <2>1, <2>2
<1> QED
  BY <1>1, <1>2, <1>3 DEF DataInv, Settled, CsdOK, Untouched, LoopOK, OverOK, Over, Transfer

LEMMA DataInvNext == HostInv /\ CardInv /\ DataInv /\ [Next]_vars => DataInv'
<1> SUFFICES ASSUME HostInv, CardInv, DataInv, [Next]_vars PROVE DataInv'
  OBVIOUS
<1>1. CASE Next
  BY <1>1, RequestKeepsData, IssueKeepsData, SegmentKeepsData, WordKeepsData, BlockKeepsData,
     DataKeepsData, SbcKeepsData, CompletionKeepsData, UnlockKeepsData DEF Next, Step
<1>2. CASE UNCHANGED vars
  BY <1>2 DEF vars, hostVars, cardVars, DataInv, Settled, CsdOK, Untouched, LoopOK, OverOK,
     Complete, Over, Exact, DataOK, Left, Transfer, HasData
<1> QED
  BY <1>1, <1>2

\* A read that reports no error delivered what the card held when it began, word by
\* word; detecting the card delivered its extended CSD.
THEOREM SdHostReadsCard == Spec => []ReadsCard
<1>1. HostInv /\ CardInv /\ DataInv => ReadsCard
  <2> SUFFICES ASSUME HostInv, CardInv, DataInv, pc = "unlock", HasData(mrq), IsRead(mrq),
                      ~mrq.error, NEW i \in 0 .. mrq.blocks * BlockWords - 1
               PROVE  /\ i * WordBytes \in DOMAIN buf
                      /\ buf[i * WordBytes] =
                           IF mrq.kind = "ext_csd" THEN Csd(i)
                           ELSE before[mrq.arg * BlockWords + i]
    BY DEF ReadsCard
  <2>1. DataOK(mrq.blocks * BlockWords) /\ mrq.kind \in {"read", "ext_csd"}
    BY DEF DataInv, OverOK, Over, Complete, IsRead
  <2> QED
    BY <2>1 DEF DataOK
<1> QED
  BY HostInvInit, HostInvNext, CardInvInit, CardInvNext, DataInvInit, DataInvNext, <1>1,
     PTL DEF Spec

\* The types, and: a write that reports no error put its buffer on the card, in its
\* own sectors, and no request changes a word anywhere else.
THEOREM SdHostWritesCard == Spec => []WritesCard
<1>1. HostInv /\ CardInv /\ DataInv => WritesCard
  <2> SUFFICES ASSUME HostInv, CardInv, DataInv PROVE WritesCard
    OBVIOUS
  <2>1. CardType /\ Fits(mrq) /\ WritesConfined
    BY DEF CardInv
  <2>2. TypeOK
    <3>1. /\ pio \in [blk : Nat, blksize : Nat, off : Nat, words : Nat]
          /\ pio.blk \in 0 .. MaxBlocks /\ pio.blksize \in 0 .. BlockBytes
          /\ pio.off \in 0 .. MaxBlocks * BlockBytes /\ pio.words \in 0 .. BlockWords
      <4>1. MaxBlocks \in Nat /\ BlockBytes \in Nat /\ MaxBlocks * BlockBytes \in Nat
            /\ BlockWords \in Nat
        BY Sizes, Bytes
      <4> QED
        BY <2>1, <4>1 DEF CardType
    <3>2. pio \in [blk : 0 .. MaxBlocks, blksize : 0 .. BlockBytes,
                   off : 0 .. MaxBlocks * BlockBytes, words : 0 .. BlockWords]
      BY <3>1
    <3>3. /\ sdarg \in 0 .. Sectors /\ fpos \in 0 .. CardWords
          /\ addr \in 0 .. MaxBlocks * BlockWords
      <4>1. Sectors \in Nat /\ CardWords \in Nat /\ MaxBlocks * BlockWords \in Nat
        BY Sizes, Bytes
      <4> QED
        BY <2>1, <4>1 DEF CardType
    <3>4. DOMAIN card = 0 .. CardWords - 1 /\ write_cmd \in BOOLEAN /\ read_ext_csd \in BOOLEAN
      BY <2>1 DEF CardType
    <3>5. /\ pc \in {"idle", "issue", "pio", "finish_command", "unlock"}
          /\ mutex = (pc # "idle") /\ host \in HostType /\ warned = FALSE
      BY DEF HostInv
    <3>6. detected \in BOOLEAN
      BY DEF DataInv
    <3> QED
      BY <3>2, <3>3, <3>4, <3>5, <3>6 DEF TypeOK, HostType, Cmds
  <2>3. ASSUME pc = "unlock", mrq.kind = "write", ~mrq.error, NEW p \in Area(mrq)
        PROVE  card[p] = Buf((p - mrq.arg * BlockWords) * WordBytes)
    <3> DEFINE f == mrq.arg * BlockWords
               n == mrq.blocks * BlockWords
    <3>1. f \in Nat /\ n \in Nat /\ mrq.arg \in Nat /\ mrq.blocks \in Nat
      BY <2>1, Bytes DEF Fits
    <3>2. (mrq.arg + mrq.blocks) * BlockWords = f + n
      BY <3>1, Sizes, SMT
    <3>3. p \in Int /\ p >= f /\ p < f + n
      BY <3>2, Sizes DEF Area
    <3> HIDE DEF f, n
    <3>4. p - f \in 0 .. n - 1 /\ f + (p - f) = p /\ n > 0
      BY <3>1, <3>3
    <3>5. HasData(mrq)
      <4>1. mrq.blocks # 0
        BY <3>4, Sizes DEF n
      <4> QED
        BY <3>1, <4>1 DEF HasData
    <3>6. DataOK(n)
      BY <2>3, <3>5 DEF DataInv, OverOK, Over, Complete, n
    <3>7. card[f + (p - f)] = Buf((p - f) * WordBytes)
      BY <2>3, <3>4, <3>6 DEF DataOK, f
    <3> QED
      BY <3>4, <3>7 DEF f
  <2> QED
    BY <2>1, <2>2, <2>3 DEF WritesCard
<1> QED
  BY HostInvInit, HostInvNext, CardInvInit, CardInvNext, DataInvInit, DataInvNext, <1>1,
     PTL DEF Spec
=============================================================================
