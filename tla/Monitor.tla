------------------------------ MODULE Monitor ------------------------------
(***************************************************************************)
(* The run control of the emulator: the debugger prompt                    *)
(* (src/monitor/sdb/sdb.c), the interpreter loop (src/cpu/cpu-exec.c), the *)
(* window events polled by device_update (src/device/device.c), and the    *)
(* exit status (src/utils/state.c).  They share nemu_state.  What an       *)
(* instruction does is abstracted to what it does to nemu_state.           *)
(***************************************************************************)
EXTENDS Integers

CONSTANTS W,         \* values of a word_t (2^32)
          Args,      \* the numbers a user may type after si
          INF,       \* cpu_exec(-1): 2^64 - 1 instructions
          NONE       \* no count, no verdict, not exited

ASSUME WordAssumption  == W \in Nat /\ W > 1
ASSUME ArgsAssumption  == Args \subseteq Int
ASSUME NamesAssumption == INF \notin Int /\ NONE \notin Int /\ NONE \notin {"good", "bad", "panic"}

VARIABLES
  is_batch_mode,  \* option -b
  state,       \* nemu_state.state
  halt_ret,    \* nemu_state.halt_ret, zero or not
  ctl,         \* where the thread is: boot, prompt, exec, device, done, exited
  n,           \* execute's countdown
  until,       \* inside cmd_c's loop "while (cpu.pc != EXPR ...)"
  atExpr,      \* cpu.pc = EXPR
  closing,     \* an SDL_QUIT event is queued
  exit,        \* how the process ended
  \* History, read by the properties only:
  want, done,  \* the number typed after the last si, and instructions executed since
  ended,       \* nemu_state has been END or ABORT
  late,        \* instructions executed since SDL_QUIT was handled
  verdict      \* what the guest, or difftest, last said: good or bad

nemu_state == <<state, halt_ret>>
history    == <<want, done, ended, late, verdict>>
vars       == <<is_batch_mode, nemu_state, ctl, n, until, atExpr, closing, exit, history>>

Init == /\ is_batch_mode \in BOOLEAN
        /\ state = "STOP" /\ halt_ret = 0
        /\ ctl = "boot" /\ n = 0 /\ until = FALSE /\ atExpr \in BOOLEAN
        /\ closing = FALSE /\ exit = NONE
        /\ want = NONE /\ done = 0
        /\ ended = FALSE /\ late = 0 /\ verdict = NONE

\* is_exit_status_bad, the value main returns.
is_exit_status_bad_AnyEnd(s) == s \notin {"END", "QUIT"}
is_exit_status_bad(s) == ~((s = "END" /\ halt_ret = 0) \/ s = "QUIT")

\* sdb_mainloop, engine_start and main return, with nemu_state.state = s.
Leave(s) == /\ ctl' = "exited" /\ state' = s
            /\ exit' = IF is_exit_status_bad(s) THEN "bad" ELSE "good"
            /\ UNCHANGED <<halt_ret, n, until, atExpr, history>>
-----------------------------------------------------------------------------
(* cpu_exec, up to the loop of execute.                                    *)

Ended_Forgotten == state = "ABORT"
Ended == state \in {"END", "ABORT"}

\* The run starts with k instructions to go ...
Start(k) == /\ state' = "RUNNING" /\ UNCHANGED halt_ret
            /\ ctl' = "exec" /\ n' = k
            /\ late' = 0
\* ... or is refused, and the caller goes on at c.
Refuse(c) == /\ ctl' = c
             /\ UNCHANGED <<nemu_state, n, late>>
-----------------------------------------------------------------------------
(* sdb_mainloop: a command is read; before it runs, the events that came   *)
(* while the prompt was up are thrown away (sdl_clear_event_queue).        *)

Prompt == ctl = "prompt"
Command == Prompt /\ closing' = FALSE

\* "c": run without limit.
cmd_c == /\ Command
         /\ IF Ended THEN Refuse("prompt") ELSE Start(INF)
         /\ until' = FALSE /\ want' = NONE /\ done' = 0
         /\ UNCHANGED <<atExpr, exit, ended, verdict>>

\* "c EXPR": run instruction by instruction until cpu.pc = EXPR.
cmd_c_expr == /\ Command
              /\ atExpr' \in BOOLEAN
              /\ IF ~atExpr' /\ state \in {"RUNNING", "STOP"}
                 THEN Start(1) /\ until' = TRUE
                 ELSE Refuse("prompt") /\ until' = FALSE
              /\ want' = NONE /\ done' = 0
              /\ UNCHANGED <<exit, ended, verdict>>

\* "si N": the number is cut to an unsigned word before it is tested.
ToWord(a) == a % W
cmd_si(a) == /\ Command
             /\ IF ToWord(a) = 0 \/ Ended THEN Refuse("prompt") ELSE Start(ToWord(a))
             /\ want' = a /\ done' = 0 /\ until' = FALSE
             /\ UNCHANGED <<atExpr, exit, ended, verdict>>

\* help, clear, info, p, an EXPR that does not parse, an unknown command.
cmd_other == /\ Command
             /\ UNCHANGED <<nemu_state, ctl, n, until, atExpr, exit, history>>

\* "x", when the address is no one's: paddr_read or fetch_mmio_map asserts.
cmd_x_panic == /\ Command
               /\ ctl' = "exited" /\ exit' = "panic"
               /\ UNCHANGED <<nemu_state, n, until, atExpr, history>>

\* "q" sets QUIT whatever the state was.
cmd_q == /\ Command
         /\ Leave("QUIT")

\* End of input: the state is left as it is.
eof == Prompt /\ Leave(state) /\ UNCHANGED closing

\* Batch mode runs one "c" and leaves.
sdb_mainloop == /\ ctl = "boot"
                /\ IF is_batch_mode THEN Start(INF) ELSE Refuse("prompt")
                /\ UNCHANGED <<until, atExpr, closing, exit, want, done, ended, verdict>>
-----------------------------------------------------------------------------
(* execute.                                                                *)

\* What one instruction may do to nemu_state: end the run with a good or a
\* bad halt_ret (NEMUTRAP), and after that be rejected by difftest.
Traps == {"none", "good", "bad"}

\* The loop goes on to device_update only while RUNNING.
AfterExec_QuitRuns == IF state' \in {"RUNNING", "QUIT"} THEN "device" ELSE "done"
AfterExec == IF state' = "RUNNING" THEN "device" ELSE "done"

exec_once ==
  /\ ctl = "exec"
  /\ \E trap \in Traps, mismatch \in BOOLEAN :
       /\ state' = IF mismatch THEN "ABORT" ELSE IF trap # "none" THEN "END" ELSE state
       /\ halt_ret' = IF trap = "none" THEN halt_ret ELSE IF trap = "good" THEN 0 ELSE 1
       /\ ended' = (ended \/ mismatch \/ trap # "none")
       /\ verdict' = IF mismatch \/ trap = "bad" THEN "bad" ELSE IF trap = "good" THEN "good" ELSE verdict
  /\ ctl' = AfterExec
  /\ atExpr' \in BOOLEAN
  /\ done' = IF want = NONE THEN 0 ELSE done + 1
  /\ late' = IF state = "QUIT" THEN late + 1 ELSE late
  /\ UNCHANGED <<n, until, closing, exit, want>>

exec_panic == /\ ctl = "exec"
              /\ ctl' = "exited" /\ exit' = "panic"
              /\ UNCHANGED <<nemu_state, n, until, atExpr, closing, history>>

\* n-- and the test of the for loop.
LoopTail_OffByOne == /\ n' = IF n = INF THEN INF ELSE n - 1
                     /\ ctl' = IF n = 0 THEN "done" ELSE "exec"
LoopTail_Early == /\ n' = IF n = INF THEN INF ELSE n - 1
                  /\ ctl' = IF n \in {1, 2} THEN "done" ELSE "exec"
LoopTail == /\ n' = IF n = INF THEN INF ELSE n - 1
            /\ ctl' = IF n = 1 THEN "done" ELSE "exec"

\* device_update, more than 1/60 s after the last poll ...
device_update_poll == /\ ctl = "device"
                      /\ state' = IF closing THEN "QUIT" ELSE state
                      /\ closing' = FALSE
                      /\ LoopTail
                      /\ UNCHANGED <<halt_ret, until, atExpr, exit, history>>
\* ... or earlier.
device_update_skip == /\ ctl = "device"
                      /\ LoopTail
                      /\ UNCHANGED <<nemu_state, until, atExpr, closing, exit, history>>
-----------------------------------------------------------------------------
(* cpu_exec after execute, and the return to its caller.                   *)

\* cmd_c's loop condition, with the state cpu_exec leaves behind.
Again_AfterQuit(s) == until /\ ~atExpr /\ s \in {"RUNNING", "STOP", "QUIT"}
Again(s) == until /\ ~atExpr /\ s \in {"RUNNING", "STOP"}

Stopped == IF state = "RUNNING" THEN "STOP" ELSE state

cpu_exec_return ==
  /\ ctl = "done" /\ ~is_batch_mode
  /\ IF Again(Stopped)
     THEN Start(1)
     ELSE state' = Stopped /\ ctl' = "prompt" /\ UNCHANGED <<halt_ret, n, late>>
  /\ UNCHANGED <<until, atExpr, closing, exit, want, done, ended, verdict>>

batch_return == /\ ctl = "done" /\ is_batch_mode
                /\ Leave(Stopped)
                /\ UNCHANGED closing

\* The user closes the window.
CloseWindow == /\ ctl # "exited" /\ ~closing
               /\ closing' = TRUE
               /\ UNCHANGED <<nemu_state, ctl, n, until, atExpr, exit, history>>

Commands == \/ cmd_c \/ cmd_c_expr \/ (\E a \in Args : cmd_si(a))
            \/ cmd_other \/ cmd_x_panic \/ cmd_q \/ eof
cpu_exec == exec_once \/ exec_panic \/ device_update_poll \/ device_update_skip \/ cpu_exec_return \/ batch_return

Next == /\ sdb_mainloop \/ Commands \/ cpu_exec \/ CloseWindow
        /\ UNCHANGED is_batch_mode

Spec == Init /\ [][Next]_vars
(* The interpreter loop runs on, and its polls, 1/60 s apart, keep coming. *)
FairSpec == /\ Spec
            /\ WF_vars((sdb_mainloop \/ cpu_exec) /\ UNCHANGED is_batch_mode)
            /\ SF_vars(device_update_poll /\ UNCHANGED is_batch_mode)
-----------------------------------------------------------------------------
TypeOK == /\ is_batch_mode \in BOOLEAN
          /\ state \in {"RUNNING", "STOP", "END", "ABORT", "QUIT"} /\ halt_ret \in {0, 1}
          /\ ctl \in {"boot", "prompt", "exec", "device", "done", "exited"}
          /\ n \in Nat \cup {INF} /\ until \in BOOLEAN /\ atExpr \in BOOLEAN
          /\ closing \in BOOLEAN /\ exit \in {NONE, "good", "bad", "panic"}
          /\ want \in Int \cup {NONE} /\ done \in Nat
          /\ ended \in BOOLEAN /\ late \in Nat /\ verdict \in {NONE, "good", "bad"}

(* "Program execution has ended. To restart the program, exit NEMU and run *)
(* again." (cpu-exec.c:106): once the guest has trapped out or difftest    *)
(* has aborted the run, no command executes another instruction.           *)
EndedNeverRuns == [][exec_once => ~ended]_vars

(* Closing the window stops the guest: after device_update has handled     *)
(* SDL_QUIT (device.c:53) the loop of execute, and the one of cmd_c around *)
(* it, get through at most one more instruction.                           *)
CloseStopsWithinOne == late <= 1

(* A run that comes back to the prompt as STOP did what it was asked: si N *)
(* executed N instructions for a number N that fits in a word, and c EXPR  *)
(* is at EXPR (sdb.c:66, cpu-exec.c:78).  It says nothing of others,       *)
(* which are cut to a word before they are tested (sdb.c:131): -1, which   *)
(* the message of sdb.c:133 calls invalid, runs as W - 1.                  *)
StopMeansDone == ctl = "prompt" /\ state = "STOP" =>
                   /\ want # NONE /\ want \in 0 .. W - 1 => done = want
                   /\ until => atExpr

(* In batch mode the exit status is the guest's verdict: bad exactly when  *)
(* the last word was a bad trap or a difftest mismatch, even if the window *)
(* was closed just before (is_exit_status_bad, state.c:20).                *)
BatchExitStatus == is_batch_mode /\ exit \in {"good", "bad"} => (exit = "bad" <=> verdict = "bad")

(* Closing the window of a running guest gets control back to the prompt,  *)
(* or ends the process, whatever command is running.                       *)
ClosingStops == (closing /\ ctl \in {"exec", "device"}) ~> (ctl \in {"prompt", "exited"})
=============================================================================
