--------------------------- MODULE MonitorProofs ---------------------------
(***************************************************************************)
(* Proofs about Monitor: the type invariant, and four properties that all  *)
(* rest on what is known of nemu_state at each place of the run loop       *)
(* (RunInv).                                                               *)
(***************************************************************************)
EXTENDS Monitor, TLAPS

\* The two halves of TypeOK: the flags, and everything else.
Flags == /\ is_batch_mode \in BOOLEAN /\ until \in BOOLEAN /\ atExpr \in BOOLEAN
         /\ closing \in BOOLEAN /\ ended \in BOOLEAN
Values == /\ state \in {"RUNNING", "STOP", "END", "ABORT", "QUIT"} /\ halt_ret \in {0, 1}
          /\ ctl \in {"boot", "prompt", "exec", "device", "done", "exited"}
          /\ n \in Nat \cup {INF} /\ exit \in {NONE, "good", "bad", "panic"}
          /\ want \in Int \cup {NONE} /\ done \in Nat
          /\ late \in Nat /\ verdict \in {NONE, "good", "bad"}

\* What holds at each place of the loop of execute.
AtExec   == ctl = "exec"   => state \in {"RUNNING", "QUIT"} /\ ~ended /\ late = 0
AtDevice == ctl = "device" => state = "RUNNING" /\ ~ended /\ late = 0
AtDone   == ctl = "done"   => /\ state # "STOP"
                              /\ ended => state \in {"END", "ABORT"}
                              /\ state \in {"END", "ABORT"} => ended
AtPrompt == ctl \in {"boot", "prompt"} => /\ state # "RUNNING"
                                          /\ ended => state \in {"END", "ABORT"}
                                          /\ state \in {"END", "ABORT"} => ended
\* The count si runs with: the typed number, cut to a word.
Asked == IF want = NONE THEN 0 ELSE ToWord(want)
\* The countdown of si, and the one-instruction runs of c EXPR.
Counted == /\ ctl \in {"exec", "device"} /\ want # NONE =>
                n \in Nat /\ n > 0 /\ ~until /\ done + n = Asked + (IF ctl = "device" THEN 1 ELSE 0)
           /\ ctl = "done" /\ want # NONE /\ state = "RUNNING" => done = Asked /\ ~until
           /\ want = NONE => done = 0
           /\ ctl \in {"exec", "device"} => n = INF \/ (n \in Nat /\ n > 0)
           /\ ctl = "boot" => ~until /\ want = NONE /\ state = "STOP"
\* Batch mode: one unlimited run, and a verdict if and only if it has ended.
BatchRun == is_batch_mode =>
              /\ ctl # "prompt" /\ (ctl \in {"exec", "device"} => n = INF)
              /\ ctl = "done" => state # "RUNNING"
              /\ ctl # "exited" => (verdict = NONE <=> ~ended) /\ exit = NONE
              /\ ctl # "exited" /\ state = "END" => (halt_ret = 0 <=> verdict = "good")
              /\ ctl # "exited" /\ state = "ABORT" => verdict = "bad"

RunInv == /\ TypeOK /\ AtExec /\ AtDevice /\ AtDone /\ AtPrompt
          /\ Counted /\ BatchRun /\ CloseStopsWithinOne /\ StopMeansDone /\ BatchExitStatus
-----------------------------------------------------------------------------
\* What cutting a number to a word gives (word_t N = atol(arg)): a natural
\* number, and the number itself when it fits.
LEMMA WordFacts ==
  /\ \A a \in Int : ToWord(a) \in Nat
  /\ \A a \in 0 .. W - 1 : ToWord(a) = a
  BY WordAssumption DEF ToWord

\* TypeOK is its two halves, which different provers handle.
LEMMA TypeHalves == TypeOK <=> Flags /\ Values
  BY DEF TypeOK, Flags, Values

\* The state main starts from satisfies RunInv.
LEMMA InitRunInv == Init => RunInv
<1>. SUFFICES ASSUME Init PROVE RunInv
  OBVIOUS
<1>1. Flags
  BY Zenon DEF Init, Flags
<1>2. Values
  BY DEF Init, Values
<1>3. AtExec /\ AtDevice /\ AtDone /\ AtPrompt /\ Counted /\ CloseStopsWithinOne /\ StopMeansDone
  BY DEF Init, AtExec, AtDevice, AtDone, AtPrompt, Counted, Asked, CloseStopsWithinOne, StopMeansDone
<1>4. BatchRun /\ BatchExitStatus
  BY NamesAssumption DEF Init, BatchRun, BatchExitStatus
<1>. QED BY <1>1, <1>2, <1>3, <1>4, TypeHalves DEF RunInv

\* Every step keeps RunInv: one case per action, and in it the types, the
\* loop positions, the counts and the batch run.
LEMMA StepRunInv == RunInv /\ [Next]_vars => RunInv'
<1>. SUFFICES ASSUME RunInv, [Next]_vars PROVE RunInv'
  OBVIOUS
<1>. USE NamesAssumption
<1>a. Flags /\ Values
  BY TypeHalves DEF RunInv
<1>1. CASE cmd_c /\ UNCHANGED is_batch_mode
  <2>1. Flags'
    BY <1>a, <1>1, Zenon DEF Flags, cmd_c, Command, Prompt, Ended, Start, Refuse, nemu_state, history
  <2>2. Values'
    BY <1>a, <1>1 DEF Values, cmd_c, Command, Prompt, Ended, Start, Refuse, nemu_state, history
  <2>3. AtExec' /\ AtDevice' /\ AtDone' /\ AtPrompt' /\ CloseStopsWithinOne'
    BY <1>a, <1>1
       DEF RunInv, Values, AtExec, AtDevice, AtDone, AtPrompt, Counted, Asked, CloseStopsWithinOne,
           cmd_c, Command, Prompt, Ended, Start, Refuse, nemu_state, history
  <2>4. Counted' /\ StopMeansDone'
    BY <1>a, <1>1, WordFacts
       DEF RunInv, Values, AtExec, AtDevice, AtDone, AtPrompt, Counted, Asked, StopMeansDone,
           cmd_c, Command, Prompt, Ended, Start, Refuse, nemu_state, history
  <2>5. BatchRun' /\ BatchExitStatus'
    BY <1>a, <1>1
       DEF RunInv, Values, AtExec, AtDevice, AtDone, AtPrompt, Counted, Asked, BatchRun, BatchExitStatus,
           cmd_c, Command, Prompt, Ended, Start, Refuse, nemu_state, history
  <2>. QED BY <2>1, <2>2, <2>3, <2>4, <2>5, TypeHalves DEF RunInv, Flags, Values, TypeOK
<1>2. CASE cmd_c_expr /\ UNCHANGED is_batch_mode
  <2>1. Flags'
    BY <1>a, <1>2, Zenon DEF Flags, cmd_c_expr, Command, Prompt, Start, Refuse, nemu_state, history
  <2>2. Values'
    BY <1>a, <1>2 DEF Values, cmd_c_expr, Command, Prompt, Start, Refuse, nemu_state, history
  <2>3. AtExec' /\ AtDevice' /\ AtDone' /\ AtPrompt' /\ CloseStopsWithinOne'
    BY <1>a, <1>2
       DEF RunInv, Values, AtExec, AtDevice, AtDone, AtPrompt, Counted, Asked, CloseStopsWithinOne,
           cmd_c_expr, Command, Prompt, Start, Refuse, nemu_state, history
  <2>4. Counted' /\ StopMeansDone'
    BY <1>a, <1>2, WordFacts
       DEF RunInv, Values, AtExec, AtDevice, AtDone, AtPrompt, Counted, Asked, StopMeansDone,
           cmd_c_expr, Command, Prompt, Start, Refuse, nemu_state, history
  <2>5. BatchRun' /\ BatchExitStatus'
    BY <1>a, <1>2
       DEF RunInv, Values, AtExec, AtDevice, AtDone, AtPrompt, Counted, Asked, BatchRun, BatchExitStatus,
           cmd_c_expr, Command, Prompt, Start, Refuse, nemu_state, history
  <2>. QED BY <2>1, <2>2, <2>3, <2>4, <2>5, TypeHalves DEF RunInv, Flags, Values, TypeOK
<1>3. CASE (\E a \in Args : cmd_si(a)) /\ UNCHANGED is_batch_mode
  <2>. PICK a \in Args : cmd_si(a)
    BY <1>3
  <2>1. Flags'
    BY <1>a, <1>3, Zenon DEF Flags, cmd_si, Command, Prompt, Ended, Start, Refuse, nemu_state, history
  <2>2. Values'
    BY <1>a, <1>3, ArgsAssumption, WordFacts DEF Values, cmd_si, Command, Prompt, Ended, Start, Refuse, nemu_state, history
  <2>3. AtExec' /\ AtDevice' /\ AtDone' /\ AtPrompt' /\ CloseStopsWithinOne'
    BY <1>a, <1>3, ArgsAssumption, WordFacts
       DEF RunInv, Values, AtExec, AtDevice, AtDone, AtPrompt, Counted, Asked, CloseStopsWithinOne,
           cmd_si, Command, Prompt, Ended, Start, Refuse, nemu_state, history
  <2>4. Counted' /\ StopMeansDone'
    BY <1>a, <1>3, ArgsAssumption, WordFacts
       DEF RunInv, Values, AtExec, AtDevice, AtDone, AtPrompt, Counted, Asked, StopMeansDone,
           cmd_si, Command, Prompt, Ended, Start, Refuse, nemu_state, history
  <2>5. BatchRun' /\ BatchExitStatus'
    BY <1>a, <1>3, ArgsAssumption, WordFacts
       DEF RunInv, Values, AtExec, AtDevice, AtDone, AtPrompt, Counted, Asked, BatchRun, BatchExitStatus,
           cmd_si, Command, Prompt, Ended, Start, Refuse, nemu_state, history
  <2>. QED BY <2>1, <2>2, <2>3, <2>4, <2>5, TypeHalves DEF RunInv, Flags, Values, TypeOK
<1>4. CASE cmd_other /\ UNCHANGED is_batch_mode
  <2>1. Flags'
    BY <1>a, <1>4, Zenon DEF Flags, cmd_other, Command, Prompt, nemu_state, history
  <2>2. Values'
    BY <1>a, <1>4 DEF Values, cmd_other, Command, Prompt, nemu_state, history
  <2>3. AtExec' /\ AtDevice' /\ AtDone' /\ AtPrompt' /\ CloseStopsWithinOne'
    BY <1>a, <1>4
       DEF RunInv, Values, AtExec, AtDevice, AtDone, AtPrompt, Counted, Asked, CloseStopsWithinOne,
           cmd_other, Command, Prompt, nemu_state, history
  <2>4. Counted' /\ StopMeansDone'
    BY <1>a, <1>4, WordFacts
       DEF RunInv, Values, AtExec, AtDevice, AtDone, AtPrompt, Counted, Asked, StopMeansDone,
           cmd_other, Command, Prompt, nemu_state, history
  <2>5. BatchRun' /\ BatchExitStatus'
    BY <1>a, <1>4
       DEF RunInv, Values, AtExec, AtDevice, AtDone, AtPrompt, Counted, Asked, BatchRun, BatchExitStatus,
           cmd_other, Command, Prompt, nemu_state, history
  <2>. QED BY <2>1, <2>2, <2>3, <2>4, <2>5, TypeHalves DEF RunInv, Flags, Values, TypeOK
<1>5. CASE cmd_x_panic /\ UNCHANGED is_batch_mode
  <2>1. Flags'
    BY <1>a, <1>5, Zenon DEF Flags, cmd_x_panic, Command, Prompt, nemu_state, history
  <2>2. Values'
    BY <1>a, <1>5 DEF Values, cmd_x_panic, Command, Prompt, nemu_state, history
  <2>3. AtExec' /\ AtDevice' /\ AtDone' /\ AtPrompt' /\ CloseStopsWithinOne'
    BY <1>a, <1>5
       DEF RunInv, Values, AtExec, AtDevice, AtDone, AtPrompt, Counted, Asked, CloseStopsWithinOne,
           cmd_x_panic, Command, Prompt, nemu_state, history
  <2>4. Counted' /\ StopMeansDone'
    BY <1>a, <1>5, WordFacts
       DEF RunInv, Values, AtExec, AtDevice, AtDone, AtPrompt, Counted, Asked, StopMeansDone,
           cmd_x_panic, Command, Prompt, nemu_state, history
  <2>5. BatchRun' /\ BatchExitStatus'
    BY <1>a, <1>5
       DEF RunInv, Values, AtExec, AtDevice, AtDone, AtPrompt, Counted, Asked, BatchRun, BatchExitStatus,
           cmd_x_panic, Command, Prompt, nemu_state, history
  <2>. QED BY <2>1, <2>2, <2>3, <2>4, <2>5, TypeHalves DEF RunInv, Flags, Values, TypeOK
<1>6. CASE cmd_q /\ UNCHANGED is_batch_mode
  <2>1. Flags'
    BY <1>a, <1>6, Zenon DEF Flags, cmd_q, Command, Prompt, Leave, is_exit_status_bad, nemu_state, history
  <2>2. Values'
    BY <1>a, <1>6 DEF Values, cmd_q, Command, Prompt, Leave, is_exit_status_bad, nemu_state, history
  <2>3. AtExec' /\ AtDevice' /\ AtDone' /\ AtPrompt' /\ CloseStopsWithinOne'
    BY <1>a, <1>6
       DEF RunInv, Values, AtExec, AtDevice, AtDone, AtPrompt, Counted, Asked, CloseStopsWithinOne,
           cmd_q, Command, Prompt, Leave, is_exit_status_bad, nemu_state, history
  <2>4. Counted' /\ StopMeansDone'
    BY <1>a, <1>6, WordFacts
       DEF RunInv, Values, AtExec, AtDevice, AtDone, AtPrompt, Counted, Asked, StopMeansDone,
           cmd_q, Command, Prompt, Leave, is_exit_status_bad, nemu_state, history
  <2>5. BatchRun' /\ BatchExitStatus'
    BY <1>a, <1>6
       DEF RunInv, Values, AtExec, AtDevice, AtDone, AtPrompt, Counted, Asked, BatchRun, BatchExitStatus,
           cmd_q, Command, Prompt, Leave, is_exit_status_bad, nemu_state, history
  <2>. QED BY <2>1, <2>2, <2>3, <2>4, <2>5, TypeHalves DEF RunInv, Flags, Values, TypeOK
<1>7. CASE eof /\ UNCHANGED is_batch_mode
  <2>1. Flags'
    BY <1>a, <1>7, Zenon DEF Flags, eof, Prompt, Leave, is_exit_status_bad, nemu_state, history
  <2>2. Values'
    BY <1>a, <1>7 DEF Values, eof, Prompt, Leave, is_exit_status_bad, nemu_state, history
  <2>3. AtExec' /\ AtDevice' /\ AtDone' /\ AtPrompt' /\ CloseStopsWithinOne'
    BY <1>a, <1>7
       DEF RunInv, Values, AtExec, AtDevice, AtDone, AtPrompt, Counted, Asked, CloseStopsWithinOne,
           eof, Prompt, Leave, is_exit_status_bad, nemu_state, history
  <2>4. Counted' /\ StopMeansDone'
    BY <1>a, <1>7, WordFacts
       DEF RunInv, Values, AtExec, AtDevice, AtDone, AtPrompt, Counted, Asked, StopMeansDone,
           eof, Prompt, Leave, is_exit_status_bad, nemu_state, history
  <2>5. BatchRun' /\ BatchExitStatus'
    BY <1>a, <1>7
       DEF RunInv, Values, AtExec, AtDevice, AtDone, AtPrompt, Counted, Asked, BatchRun, BatchExitStatus,
           eof, Prompt, Leave, is_exit_status_bad, nemu_state, history
  <2>. QED BY <2>1, <2>2, <2>3, <2>4, <2>5, TypeHalves DEF RunInv, Flags, Values, TypeOK
<1>8. CASE sdb_mainloop /\ UNCHANGED is_batch_mode
  <2>1. Flags'
    BY <1>a, <1>8, Zenon DEF Flags, sdb_mainloop, Start, Refuse, nemu_state, history
  <2>2. Values'
    BY <1>a, <1>8 DEF Values, sdb_mainloop, Start, Refuse, nemu_state, history
  <2>3. AtExec' /\ AtDevice' /\ AtDone' /\ AtPrompt' /\ CloseStopsWithinOne'
    BY <1>a, <1>8
       DEF RunInv, Values, AtExec, AtDevice, AtDone, AtPrompt, Counted, Asked, CloseStopsWithinOne,
           sdb_mainloop, Start, Refuse, nemu_state, history
  <2>4. Counted' /\ StopMeansDone'
    BY <1>a, <1>8, WordFacts
       DEF RunInv, Values, AtExec, AtDevice, AtDone, AtPrompt, Counted, Asked, StopMeansDone,
           sdb_mainloop, Start, Refuse, nemu_state, history
  <2>5. BatchRun' /\ BatchExitStatus'
    BY <1>a, <1>8
       DEF RunInv, Values, AtExec, AtDevice, AtDone, AtPrompt, Counted, Asked, BatchRun, BatchExitStatus,
           sdb_mainloop, Start, Refuse, nemu_state, history
  <2>. QED BY <2>1, <2>2, <2>3, <2>4, <2>5, TypeHalves DEF RunInv, Flags, Values, TypeOK
<1>9. CASE exec_once /\ UNCHANGED is_batch_mode
  <2>. PICK trap \in Traps, mismatch \in BOOLEAN :
         /\ state' = IF mismatch THEN "ABORT" ELSE IF trap # "none" THEN "END" ELSE state
         /\ halt_ret' = IF trap = "none" THEN halt_ret ELSE IF trap = "good" THEN 0 ELSE 1
         /\ ended' = (ended \/ mismatch \/ trap # "none")
         /\ verdict' = IF mismatch \/ trap = "bad" THEN "bad" ELSE IF trap = "good" THEN "good" ELSE verdict
    BY <1>9 DEF exec_once
  <2>0. /\ ctl = "exec" /\ state \in {"RUNNING", "QUIT"} /\ late = 0 /\ ~ended
        /\ ctl' = IF state' = "RUNNING" THEN "device" ELSE "done"
        /\ late' \in {0, 1} /\ (state = "RUNNING" => late' = 0)
    BY <1>9 DEF exec_once, AfterExec, RunInv, AtExec
  <2>1. Flags'
    BY <1>a, <1>9, Zenon DEF Flags, exec_once
  <2>2. Values'
    BY <1>a, <1>9 DEF Values, exec_once, AfterExec, Traps
  <2>3. ended' <=> (mismatch \/ trap # "none")
    BY <2>0, Zenon
  <2>4. state' \in {"END", "ABORT"} <=> (mismatch \/ trap # "none")
    BY <2>0 DEF Traps
  <2>5. AtExec' /\ AtDevice' /\ AtDone' /\ AtPrompt' /\ CloseStopsWithinOne'
    <3>1. AtExec' /\ AtPrompt' /\ CloseStopsWithinOne'
      BY <2>0 DEF AtExec, AtPrompt, CloseStopsWithinOne
    <3>2. AtDevice'
      BY <2>0, <2>3, <2>4 DEF AtDevice
    <3>3. AtDone'
      BY <2>0, <2>3, <2>4 DEF AtDone
    <3>. QED BY <3>1, <3>2, <3>3
  <2>6. Counted' /\ StopMeansDone'
    BY <1>a, <1>9, WordFacts DEF RunInv, Values, AtExec, Counted, Asked, StopMeansDone, exec_once, AfterExec
  <2>7. BatchRun' /\ BatchExitStatus'
    <3>1. n' = n /\ exit' = exit
      BY <1>9 DEF exec_once
    <3>2. is_batch_mode => (verdict' = NONE <=> ~mismatch /\ trap = "none")
      BY <2>0 DEF RunInv, BatchRun, Traps
    <3>. QED BY <1>a, <1>9, <2>0, <2>3, <2>4, <3>1, <3>2
             DEF RunInv, Values, BatchRun, BatchExitStatus, Traps
  <2>. QED BY <2>1, <2>2, <2>5, <2>6, <2>7, TypeHalves DEF RunInv, Flags, Values, TypeOK
<1>10. CASE exec_panic /\ UNCHANGED is_batch_mode
  <2>1. Flags'
    BY <1>a, <1>10, Zenon DEF Flags, exec_panic, nemu_state, history
  <2>2. Values'
    BY <1>a, <1>10 DEF Values, exec_panic, nemu_state, history
  <2>3. AtExec' /\ AtDevice' /\ AtDone' /\ AtPrompt' /\ CloseStopsWithinOne'
    BY <1>a, <1>10
       DEF RunInv, Values, AtExec, AtDevice, AtDone, AtPrompt, Counted, Asked, CloseStopsWithinOne,
           exec_panic, nemu_state, history
  <2>4. Counted' /\ StopMeansDone'
    BY <1>a, <1>10, WordFacts
       DEF RunInv, Values, AtExec, AtDevice, AtDone, AtPrompt, Counted, Asked, StopMeansDone,
           exec_panic, nemu_state, history
  <2>5. BatchRun' /\ BatchExitStatus'
    BY <1>a, <1>10
       DEF RunInv, Values, AtExec, AtDevice, AtDone, AtPrompt, Counted, Asked, BatchRun, BatchExitStatus,
           exec_panic, nemu_state, history
  <2>. QED BY <2>1, <2>2, <2>3, <2>4, <2>5, TypeHalves DEF RunInv, Flags, Values, TypeOK
<1>11. CASE device_update_poll /\ UNCHANGED is_batch_mode
  <2>1. Flags'
    BY <1>a, <1>11, Zenon DEF Flags, device_update_poll, LoopTail, nemu_state, history
  <2>2. Values'
    BY <1>a, <1>11 DEF Values, Counted, RunInv, device_update_poll, LoopTail, nemu_state, history
  <2>3. AtExec' /\ AtDevice' /\ AtDone' /\ AtPrompt' /\ CloseStopsWithinOne'
    BY <1>a, <1>11
       DEF RunInv, Values, AtExec, AtDevice, AtDone, AtPrompt, Counted, Asked, CloseStopsWithinOne,
           device_update_poll, LoopTail, nemu_state, history
  <2>4. Counted' /\ StopMeansDone'
    BY <1>a, <1>11, WordFacts
       DEF RunInv, Values, AtExec, AtDevice, AtDone, AtPrompt, Counted, Asked, StopMeansDone,
           device_update_poll, LoopTail, nemu_state, history
  <2>5. BatchRun' /\ BatchExitStatus'
    BY <1>a, <1>11
       DEF RunInv, Values, AtExec, AtDevice, AtDone, AtPrompt, Counted, Asked, BatchRun, BatchExitStatus,
           device_update_poll, LoopTail, nemu_state, history
  <2>. QED BY <2>1, <2>2, <2>3, <2>4, <2>5, TypeHalves DEF RunInv, Flags, Values, TypeOK
<1>12. CASE device_update_skip /\ UNCHANGED is_batch_mode
  <2>1. Flags'
    BY <1>a, <1>12, Zenon DEF Flags, device_update_skip, LoopTail, nemu_state, history
  <2>2. Values'
    BY <1>a, <1>12 DEF Values, Counted, RunInv, device_update_skip, LoopTail, nemu_state, history
  <2>3. AtExec' /\ AtDevice' /\ AtDone' /\ AtPrompt' /\ CloseStopsWithinOne'
    BY <1>a, <1>12
       DEF RunInv, Values, AtExec, AtDevice, AtDone, AtPrompt, Counted, Asked, CloseStopsWithinOne,
           device_update_skip, LoopTail, nemu_state, history
  <2>4. Counted' /\ StopMeansDone'
    BY <1>a, <1>12, WordFacts
       DEF RunInv, Values, AtExec, AtDevice, AtDone, AtPrompt, Counted, Asked, StopMeansDone,
           device_update_skip, LoopTail, nemu_state, history
  <2>5. BatchRun' /\ BatchExitStatus'
    BY <1>a, <1>12
       DEF RunInv, Values, AtExec, AtDevice, AtDone, AtPrompt, Counted, Asked, BatchRun, BatchExitStatus,
           device_update_skip, LoopTail, nemu_state, history
  <2>. QED BY <2>1, <2>2, <2>3, <2>4, <2>5, TypeHalves DEF RunInv, Flags, Values, TypeOK
<1>13. CASE cpu_exec_return /\ UNCHANGED is_batch_mode
  <2>1. Flags'
    BY <1>a, <1>13, Zenon DEF Flags, cpu_exec_return, Again, Stopped, Start, nemu_state, history
  <2>2. Values'
    BY <1>a, <1>13 DEF Values, cpu_exec_return, Again, Stopped, Start, nemu_state, history
  <2>3. AtExec' /\ AtDevice' /\ AtDone' /\ AtPrompt' /\ CloseStopsWithinOne'
    BY <1>a, <1>13
       DEF RunInv, Values, AtExec, AtDevice, AtDone, AtPrompt, Counted, Asked, CloseStopsWithinOne,
           cpu_exec_return, Again, Stopped, Start, nemu_state, history
  <2>4. Counted' /\ StopMeansDone'
    BY <1>a, <1>13, WordFacts
       DEF RunInv, Values, AtExec, AtDevice, AtDone, AtPrompt, Counted, Asked, StopMeansDone,
           cpu_exec_return, Again, Stopped, Start, nemu_state, history
  <2>5. BatchRun' /\ BatchExitStatus'
    BY <1>a, <1>13
       DEF RunInv, Values, AtExec, AtDevice, AtDone, AtPrompt, Counted, Asked, BatchRun, BatchExitStatus,
           cpu_exec_return, Again, Stopped, Start, nemu_state, history
  <2>. QED BY <2>1, <2>2, <2>3, <2>4, <2>5, TypeHalves DEF RunInv, Flags, Values, TypeOK
<1>14. CASE batch_return /\ UNCHANGED is_batch_mode
  <2>1. Flags'
    BY <1>a, <1>14, Zenon DEF Flags, batch_return, Stopped, Leave, is_exit_status_bad, nemu_state, history
  <2>2. Values'
    BY <1>a, <1>14 DEF Values, batch_return, Stopped, Leave, is_exit_status_bad, nemu_state, history
  <2>3. AtExec' /\ AtDevice' /\ AtDone' /\ AtPrompt' /\ CloseStopsWithinOne'
    BY <1>a, <1>14
       DEF RunInv, Values, AtExec, AtDevice, AtDone, AtPrompt, Counted, Asked, CloseStopsWithinOne,
           batch_return, Stopped, Leave, is_exit_status_bad, nemu_state, history
  <2>4. Counted' /\ StopMeansDone'
    BY <1>a, <1>14, WordFacts
       DEF RunInv, Values, AtExec, AtDevice, AtDone, AtPrompt, Counted, Asked, StopMeansDone,
           batch_return, Stopped, Leave, is_exit_status_bad, nemu_state, history
  <2>5. BatchRun' /\ BatchExitStatus'
    BY <1>a, <1>14
       DEF RunInv, Values, AtExec, AtDevice, AtDone, AtPrompt, Counted, Asked, BatchRun, BatchExitStatus,
           batch_return, Stopped, Leave, is_exit_status_bad, nemu_state, history
  <2>. QED BY <2>1, <2>2, <2>3, <2>4, <2>5, TypeHalves DEF RunInv, Flags, Values, TypeOK
<1>15. CASE CloseWindow /\ UNCHANGED is_batch_mode
  <2>1. Flags'
    BY <1>a, <1>15, Zenon DEF Flags, CloseWindow, nemu_state, history
  <2>2. Values'
    BY <1>a, <1>15 DEF Values, CloseWindow, nemu_state, history
  <2>3. AtExec' /\ AtDevice' /\ AtDone' /\ AtPrompt' /\ CloseStopsWithinOne'
    BY <1>a, <1>15
       DEF RunInv, Values, AtExec, AtDevice, AtDone, AtPrompt, Counted, Asked, CloseStopsWithinOne,
           CloseWindow, nemu_state, history
  <2>4. Counted' /\ StopMeansDone'
    BY <1>a, <1>15, WordFacts
       DEF RunInv, Values, AtExec, AtDevice, AtDone, AtPrompt, Counted, Asked, StopMeansDone,
           CloseWindow, nemu_state, history
  <2>5. BatchRun' /\ BatchExitStatus'
    BY <1>a, <1>15
       DEF RunInv, Values, AtExec, AtDevice, AtDone, AtPrompt, Counted, Asked, BatchRun, BatchExitStatus,
           CloseWindow, nemu_state, history
  <2>. QED BY <2>1, <2>2, <2>3, <2>4, <2>5, TypeHalves DEF RunInv, Flags, Values, TypeOK
<1>16. CASE UNCHANGED vars
  BY <1>16 DEF vars, nemu_state, history, RunInv, TypeOK, AtExec, AtDevice, AtDone, AtPrompt, Counted, Asked,
           BatchRun, CloseStopsWithinOne, StopMeansDone, BatchExitStatus
<1>. QED
  BY <1>1, <1>2, <1>3, <1>4, <1>5, <1>6, <1>7, <1>8, <1>9, <1>10, <1>11, <1>12, <1>13, <1>14, <1>15, <1>16 DEF Next, Commands, cpu_exec

\* RunInv is an inductive invariant of the run loop.
LEMMA RunInvAlways == Spec => []RunInv
<1>. QED BY InitRunInv, StepRunInv, PTL DEF Spec
-----------------------------------------------------------------------------
(* The control state of the emulator keeps its types (nemu_state, the      *)
(* countdown of execute and the exit status), for every word size.         *)
THEOREM MonitorTypeCorrect == Spec => []TypeOK
<1>1. RunInv => TypeOK
  BY DEF RunInv
<1>. QED BY <1>1, RunInvAlways, PTL

(* "Program execution has ended": after END or ABORT no command of the     *)
(* debugger executes an instruction again.                                 *)
THEOREM EndedNeverRunsAlways == Spec => EndedNeverRuns
<1>1. RunInv /\ [Next]_vars => [exec_once => ~ended]_vars
  BY DEF RunInv, AtExec, exec_once
<1>. QED BY <1>1, RunInvAlways, PTL DEF Spec, EndedNeverRuns

(* After SDL_QUIT has been handled, at most one instruction is executed    *)
(* before control leaves execute and cmd_c.                                *)
THEOREM CloseStopsWithinOneAlways == Spec => []CloseStopsWithinOne
<1>1. RunInv => CloseStopsWithinOne
  BY DEF RunInv
<1>. QED BY <1>1, RunInvAlways, PTL

(* Back at the prompt as STOP, si N has executed N instructions, for every *)
(* word size and every number N of a word, and c EXPR has reached EXPR.    *)
(* Nothing is said of numbers outside a word, which si cuts to one: -1     *)
(* runs as W - 1.                                                          *)
THEOREM StopMeansDoneAlways == Spec => []StopMeansDone
<1>1. RunInv => StopMeansDone
  BY DEF RunInv
<1>. QED BY <1>1, RunInvAlways, PTL

(* The exit status of a batch run is the guest's verdict.                  *)
THEOREM BatchExitStatusAlways == Spec => []BatchExitStatus
<1>1. RunInv => BatchExitStatus
  BY DEF RunInv
<1>. QED BY <1>1, RunInvAlways, PTL
=============================================================================
