-------------------------------- MODULE Nemu --------------------------------
(***************************************************************************)
(* The NEMU main program: the simple debugger's command loop (sdb.c), the  *)
(* interpreter loop (cpu-exec.c), the run state nemu_state and the exit    *)
(* status (state.c, hostcall.c), and device_update, which polls the host's *)
(* event queue between two guest instructions and feeds the keyboard.      *)
(*                                                                         *)
(* The guest's memory holds an arbitrary image, so an instruction is an    *)
(* arbitrary choice among the kinds the interpreter tells apart.  The      *)
(* implemented instructions never branch, so cpu.pc moves one word at a    *)
(* time; addresses are words from the reset vector.  The host user posts   *)
(* events at any moment.                                                   *)
(***************************************************************************)
EXTENDS Keyboard

CONSTANTS
  UINT64,           \* the modulus of uint64_t counters, 2^64 in the code
  PMEM_WORDS,       \* words of physical memory from the reset vector
  HaltRets,         \* values of a0 an ebreak may find
  CONFIG_DEVICE,    \* devices configured in
  CONFIG_ITRACE,    \* instruction trace configured in
  EventBound        \* events the user posts in one run

ASSUME NemuAssumption ==
  /\ UINT64 \in Nat /\ UINT64 >= 2
  /\ PMEM_WORDS \in Nat
  /\ HaltRets \subseteq Int
  /\ CONFIG_DEVICE \in BOOLEAN
  /\ CONFIG_ITRACE \in BOOLEAN
  /\ EventBound \in Nat

VARIABLES
  at,               \* control point of the process, see At
  is_batch_mode,    \* --batch was given
  nemu_state,       \* [state, halt_pc, halt_ret]
  n,                \* instructions the current execute() may still run
  pc,               \* cpu.pc
  g_nr_guest_inst,  \* instructions executed so far
  sdl,              \* pending SDL events, oldest first
  posted,           \* events posted so far (bounds the user)
  req,              \* history: the n of the last cpu_exec that ran
  nr0,              \* history: g_nr_guest_inst when it started
  last,             \* history: the last instruction executed
  since_quit        \* history: instructions since the window was closed, -1 before

nemuVars == <<at, is_batch_mode, nemu_state, n, pc, g_nr_guest_inst, sdl,
              posted, req, nr0, last, since_quit>>
vars == <<kbdVars, nemuVars>>

\* NEMU_RUNNING, NEMU_STOP, NEMU_END, NEMU_ABORT, NEMU_QUIT
State == {"RUNNING", "STOP", "END", "ABORT", "QUIT"}

\* "batch": sdb_mainloop entered in batch mode.  "prompt": in rl_gets.
\* "exec": the head of execute()'s loop.  "update": before device_update().
\* "poll": in its SDL_PollEvent loop.  "stopped": execute() left by its break.
\* "exited": main returned.  "died": an assertion or panic killed the process.
At == {"batch", "prompt", "exec", "update", "poll", "stopped", "exited", "died"}

Executing == at \in {"exec", "update", "poll", "stopped"}

Terminated == at \in {"exited", "died"}

\* What the interpreter tells apart: an instruction without side effect on the
\* monitor, a load from the keyboard port, the trap, an instruction NEMU does
\* not implement that the disassembler knows or does not know, and an access to
\* an address neither memory nor a device answers.
Inst == [kind : {"plain", "kbd", "inv", "undecodable", "fault"}]
          \cup [kind : {"ebreak"}, a0 : HaltRets]

\* The instructions that end the guest.
TrapKinds == {"ebreak", "inv", "undecodable"}

\* An SDL event; at_prompt is history: it was posted while sdb read a command.
Event == [type : {"quit"}, at_prompt : BOOLEAN]
           \cup [type : {"key"}, code : Scancode, down : BOOLEAN, at_prompt : BOOLEAN]

\* Mutant of is_exit_status_bad: the guest's return value is not looked at.
is_exit_status_bad_any_end == nemu_state.state \notin {"END", "QUIT"}

is_exit_status_bad ==
  ~ \/ nemu_state.state = "END" /\ nemu_state.halt_ret = 0
    \/ nemu_state.state = "QUIT"

Init ==
  /\ KbdInit
  /\ is_batch_mode \in BOOLEAN
  /\ at = IF is_batch_mode THEN "batch" ELSE "prompt"
  /\ nemu_state = [state |-> "STOP", halt_pc |-> 0, halt_ret |-> 0]
  /\ n = 0
  /\ pc = 0
  /\ g_nr_guest_inst = 0
  /\ sdl = <<>>
  /\ posted = 0
  /\ req = 0
  /\ nr0 = 0
  /\ last = [kind |-> "none"]
  /\ since_quit = -1

-----------------------------------------------------------------------------
(* cpu_exec and execute                                                    *)

\* Where cpu_exec returns to: main in batch mode, else the next prompt.
ReturnTo == IF is_batch_mode THEN "exited" ELSE "prompt"

\* Mutant of cpu_exec: an aborted guest is started again.
cpu_exec_resumes(k) ==
  /\ IF nemu_state.state \in {"END", "QUIT"}
       THEN at' = ReturnTo /\ UNCHANGED <<nemu_state, n, req, nr0>>
       ELSE /\ nemu_state' = [nemu_state EXCEPT !.state = "RUNNING"]
            /\ n' = k
            /\ at' = "exec"
            /\ req' = k
            /\ nr0' = g_nr_guest_inst
  /\ UNCHANGED <<kbdVars, is_batch_mode, pc, g_nr_guest_inst, posted, last, since_quit>>

\* The head of cpu_exec(k): refuse when the program has ended, else start
\* execute(k).
cpu_exec(k) ==
  /\ IF nemu_state.state \in {"END", "ABORT", "QUIT"}
       THEN at' = ReturnTo /\ UNCHANGED <<nemu_state, n, req, nr0>>
       ELSE /\ nemu_state' = [nemu_state EXCEPT !.state = "RUNNING"]
            /\ n' = k
            /\ at' = "exec"
            /\ req' = k
            /\ nr0' = g_nr_guest_inst
  /\ UNCHANGED <<kbdVars, is_batch_mode, pc, g_nr_guest_inst, posted, last, since_quit>>

\* Mutant of NoneLeft: the loop stops one instruction early.
OneLeft == n <= 1

\* execute() has run out of instructions.
NoneLeft == n = 0

\* The state execute() leaves, as cpu_exec stores it.
StateAfter(state) == IF state = "RUNNING" THEN "STOP" ELSE state

\* The tail of cpu_exec, once execute() has run out of n or left its loop.
cpu_exec_return ==
  /\ at = "stopped" \/ (at = "exec" /\ NoneLeft)
  /\ nemu_state' = [nemu_state EXCEPT !.state = StateAfter(@)]
  /\ at' = ReturnTo
  /\ UNCHANGED <<kbdVars, is_batch_mode, n, pc, g_nr_guest_inst, sdl, posted,
                 req, nr0, last, since_quit>>

set_nemu_state(state, thispc, halt_ret) ==
  nemu_state' = [state |-> state, halt_pc |-> thispc, halt_ret |-> halt_ret]

\* invalid_inst fetches the word after the instruction too, before it reports.
invalid_inst_panics == pc + 1 >= PMEM_WORDS

\* exec_once panics: the fetch or the access finds no memory, or the trace
\* cannot disassemble the instruction.
Panics(inst) ==
  \/ pc >= PMEM_WORDS
  \/ inst.kind = "fault"
  \/ inst.kind \in {"inv", "undecodable"} /\ invalid_inst_panics
  \/ inst.kind = "undecodable" /\ CONFIG_ITRACE

\* Mutant of BreaksLoop: a closed window does not leave the loop.
BreaksLoop_ended(state) == state \in {"END", "ABORT"}

\* The check in execute()'s loop.
BreaksLoop(state) == state # "RUNNING"

\* One turn of execute()'s loop up to its state check.
exec_once(inst) ==
  /\ at = "exec"
  /\ n > 0
  /\ inst.kind = "kbd" => CONFIG_DEVICE
  /\ IF Panics(inst)
       THEN at' = "died" /\ UNCHANGED <<kbdVars, nemu_state, pc, g_nr_guest_inst,
                                        last, since_quit>>
       ELSE /\ CASE inst.kind = "ebreak" -> set_nemu_state("END", pc, inst.a0)
                 [] inst.kind \in {"inv", "undecodable"} -> set_nemu_state("ABORT", pc, -1)
                 [] OTHER -> UNCHANGED nemu_state
            /\ IF inst.kind = "kbd" THEN i8042_data_io_handler ELSE UNCHANGED kbdVars
            /\ pc' = pc + 1
            /\ g_nr_guest_inst' = (g_nr_guest_inst + 1) % UINT64
            /\ at' = IF BreaksLoop(nemu_state'.state) THEN "stopped" ELSE "update"
            /\ last' = inst
            /\ since_quit' = IF since_quit >= 0 THEN since_quit + 1 ELSE since_quit
  /\ UNCHANGED <<is_batch_mode, n, sdl, posted, req, nr0>>

-----------------------------------------------------------------------------
(* device_update                                                           *)

\* Back to the head of execute()'s loop.
LoopBack ==
  /\ at' = "exec"
  /\ n' = n - 1
  /\ UNCHANGED <<kbdVars, is_batch_mode, nemu_state, pc, g_nr_guest_inst, sdl,
                 posted, req, nr0, last, since_quit>>

\* No device configured, or less than 1/60 s since the last update.
device_update_skip == at = "update" /\ LoopBack

device_update_poll ==
  /\ at = "update"
  /\ CONFIG_DEVICE
  /\ at' = "poll"
  /\ UNCHANGED <<kbdVars, is_batch_mode, nemu_state, n, pc, g_nr_guest_inst, sdl,
                 posted, req, nr0, last, since_quit>>

\* Mutant of poll_event: the event stays in the queue.
peek_event == UNCHANGED sdl

\* SDL_PollEvent hands out the oldest event.
poll_event == sdl' = Tail(sdl)

\* Mutant of AfterKey: the overflow of the key queue is survived.
AfterKey_survives(overflow) == "poll"

AfterKey(overflow) == IF overflow THEN "died" ELSE "poll"

\* One turn of the SDL_PollEvent loop.
handle_event ==
  /\ at = "poll"
  /\ sdl # <<>>
  /\ poll_event
  /\ IF Head(sdl).type = "quit"
       THEN /\ nemu_state' = [nemu_state EXCEPT !.state = "QUIT"]
            /\ since_quit' = IF since_quit >= 0 THEN since_quit ELSE 0
            /\ UNCHANGED <<kbdVars, at>>
       ELSE /\ send_key(Head(sdl).code, Head(sdl).down, nemu_state.state = "RUNNING")
            /\ at' = AfterKey(kbd_panic')
            /\ UNCHANGED <<nemu_state, since_quit>>
  /\ UNCHANGED <<is_batch_mode, n, pc, g_nr_guest_inst, posted, req, nr0, last>>

poll_done == at = "poll" /\ sdl = <<>> /\ LoopBack

-----------------------------------------------------------------------------
(* sdb_mainloop                                                            *)

\* Mutant of sdl_clear_event_queue: pending events are kept.
sdl_keep_event_queue == UNCHANGED sdl

sdl_clear_event_queue == sdl' = IF CONFIG_DEVICE THEN <<>> ELSE sdl

\* Batch mode runs cmd_c once; no command line, so no event is discarded.
sdb_batch == at = "batch" /\ cpu_exec(UINT64 - 1) /\ UNCHANGED sdl

cmd_c == at = "prompt" /\ sdl_clear_event_queue /\ cpu_exec(UINT64 - 1)

\* strtoull yields any uint64_t.
cmd_si ==
  /\ at = "prompt"
  /\ sdl_clear_event_queue
  /\ \E k \in 0 .. UINT64 - 1 : cpu_exec(k)

\* Leaving the command loop ends main.
cmd_q ==
  /\ at = "prompt"
  /\ sdl_clear_event_queue
  /\ nemu_state' = [nemu_state EXCEPT !.state = "QUIT"]
  /\ at' = "exited"
  /\ UNCHANGED <<kbdVars, is_batch_mode, n, pc, g_nr_guest_inst, posted, req, nr0,
                 last, since_quit>>

\* End of input, or si with a malformed number: the loop is left with
\* nemu_state as it is.
mainloop_leave ==
  /\ at = "prompt"
  /\ UNCHANGED sdl \/ sdl_clear_event_queue
  /\ at' = "exited"
  /\ UNCHANGED <<kbdVars, is_batch_mode, nemu_state, n, pc, g_nr_guest_inst, posted,
                 req, nr0, last, since_quit>>

\* help, info and an unknown command only print.
cmd_print ==
  /\ at = "prompt"
  /\ sdl_clear_event_queue
  /\ UNCHANGED <<kbdVars, at, is_batch_mode, nemu_state, n, pc, g_nr_guest_inst, posted,
                 req, nr0, last, since_quit>>

-----------------------------------------------------------------------------
\* The user closes the window or presses or releases a key, at any moment.
post_event(e) ==
  /\ CONFIG_DEVICE
  /\ ~Terminated
  /\ posted < EventBound
  /\ posted' = posted + 1
  /\ e.at_prompt = (at = "prompt")
  /\ sdl' = Append(sdl, e)
  /\ UNCHANGED <<kbdVars, at, is_batch_mode, nemu_state, n, pc, g_nr_guest_inst,
                 req, nr0, last, since_quit>>

Engine ==
  \/ sdb_batch
  \/ \E inst \in Inst : exec_once(inst)
  \/ cpu_exec_return
  \/ device_update_skip
  \/ device_update_poll
  \/ handle_event
  \/ poll_done

Command == cmd_c \/ cmd_si \/ cmd_q \/ mainloop_leave \/ cmd_print

Next ==
  \/ Engine
  \/ Command
  \/ \E e \in Event : post_event(e)
  \/ Terminated /\ UNCHANGED vars

Spec == Init /\ [][Next]_vars

\* The emulator's own steps are one sequential thread that nothing blocks.
FairSpec == Spec /\ WF_vars(Engine)

-----------------------------------------------------------------------------
(* Properties                                                              *)

TypeOK ==
  /\ KbdTypeOK
  /\ at \in At
  /\ is_batch_mode \in BOOLEAN
  /\ nemu_state \in [state : State, halt_pc : Nat, halt_ret : Int]
  /\ n \in 0 .. UINT64 - 1
  /\ pc \in 0 .. PMEM_WORDS
  /\ g_nr_guest_inst \in 0 .. UINT64 - 1
  /\ sdl \in Seq(Event)
  /\ posted \in 0 .. EventBound
  /\ req \in 0 .. UINT64 - 1
  /\ nr0 \in 0 .. UINT64 - 1
  /\ last \in Inst \cup [kind : {"none"}]
  /\ since_quit \in -1 .. 1

\* Once the guest has trapped or aborted it never moves again and its report
\* never changes: whatever commands and events follow, cpu.pc, the instruction
\* count and the recorded halt_pc and halt_ret stay as the last instruction left
\* them.  The state itself may still become QUIT, by the command q.
EndedIsFinal ==
  [][last.kind \in TrapKinds =>
       UNCHANGED <<pc, g_nr_guest_inst, nemu_state.halt_pc, nemu_state.halt_ret>>]_vars

\* The state agrees with the control point: execute() is entered only with a
\* running guest or one whose window was just closed, and outside cpu_exec the
\* guest is never left marked as running.
StateAgreesWithControl ==
  /\ at \in {"exec", "poll"} => nemu_state.state \in {"RUNNING", "QUIT"}
  /\ at = "update" => nemu_state.state = "RUNNING"
  /\ at \in {"batch", "prompt", "exited"} => nemu_state.state # "RUNNING"

\* "Execute N instructions step by step and then pause": a command that ends
\* with the guest merely stopped has executed exactly the number asked for.
SteppedExactly ==
  at = "prompt" /\ nemu_state.state = "STOP" => (g_nr_guest_inst - nr0) % UINT64 = req

\* Closing the window lets at most one more instruction run, ever: the loop
\* notices the state only after the next instruction, and no later command
\* starts the guest again.
AtMostOneAfterQuit == since_quit <= 1

\* Keys pressed while the debugger waits at its prompt never reach the guest:
\* every event pending while the guest runs was posted while it ran, or before
\* the only command of batch mode.
PromptEventsDiscarded ==
  Executing => \A i \in 1 .. Len(sdl) : ~sdl[i].at_prompt

GoodTrap == last.kind = "ebreak" /\ last.a0 = 0

\* In batch mode (how the regression scripts run NEMU) the exit status is 0
\* exactly when the last instruction was a good trap, or the user closed the
\* window and no trap or abort came after.
BatchVerdict ==
  at = "exited" /\ is_batch_mode =>
    (~is_exit_status_bad <=>
       GoodTrap \/ (since_quit >= 0 /\ last.kind \notin TrapKinds))

\* Every command and every batch run comes to an end.
CommandTerminates == (at \in {"batch"} \/ Executing) ~> (at = "prompt" \/ Terminated)

=============================================================================
