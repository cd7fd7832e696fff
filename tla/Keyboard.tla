------------------------------ MODULE Keyboard ------------------------------
(***************************************************************************)
(* The keyboard of src/device/keyboard.c with its two clients: the event   *)
(* loop of device_update (src/device/device.c), which feeds send_key while *)
(* the emulator runs, and the guest, whose read of the i8042 data port     *)
(* runs i8042_data_io_handler and so takes one code out of the ring.       *)
(***************************************************************************)
EXTENDS Naturals, Sequences

CONSTANTS Scancodes,      \* the host scan codes
          Keys,           \* the NEMU_KEY_* codes
          NONE,           \* NEMU_KEY_NONE
          keymap,         \* keymap[scancode], NONE where there is no key
          KEY_QUEUE_LEN   \* slots of the ring

ASSUME NoneAssumption   == NONE \notin [key : Keys, down : BOOLEAN] /\ NONE \notin Keys
ASSUME KeymapAssumption == keymap \in [Scancodes -> Keys \cup {NONE}]
ASSUME LenAssumption    == KEY_QUEUE_LEN \in Nat /\ KEY_QUEUE_LEN > 1

VARIABLES key_queue,      \* the ring, slots 0 .. KEY_QUEUE_LEN-1
          key_f,          \* next slot to take
          key_r,          \* next slot to fill
          port,           \* i8042_data_port_base[0]
          running,        \* nemu_state.state = NEMU_RUNNING
          alive           \* FALSE after Assert has aborted the process

vars == <<key_queue, key_f, key_r, port, running, alive>>

Slots == 0 .. KEY_QUEUE_LEN - 1
\* am_scancode: the key with the KEYDOWN_MASK bit.
Codes == [key : Keys, down : BOOLEAN]

\* The index after i in the ring.
Succ(i) == (i + 1) % KEY_QUEUE_LEN

Init == /\ key_queue = [i \in Slots |-> NONE]
        /\ key_f = 0 /\ key_r = 0
        /\ port = NONE
        /\ running = FALSE
        /\ alive = TRUE

(* key_enqueue: the slot is written and key_r advanced before the overflow *)
(* assertion looks at them.                                                *)
key_enqueue_NoAssert(code) == /\ key_queue' = [key_queue EXCEPT ![key_r] = code]
                              /\ key_r' = Succ(key_r)
                              /\ UNCHANGED <<key_f, port, running, alive>>
key_enqueue(code) == /\ key_queue' = [key_queue EXCEPT ![key_r] = code]
                     /\ key_r' = Succ(key_r)
                     /\ alive' = (Succ(key_r) # key_f)
                     /\ UNCHANGED <<key_f, port, running>>

\* send_key: events that arrive while not running, or for an unmapped key,
\* are dropped.
send_key(scancode, is_keydown) ==
  /\ alive
  /\ running /\ keymap[scancode] # NONE
  /\ key_enqueue([key |-> keymap[scancode], down |-> is_keydown])

\* i8042_data_io_handler on a guest load: key_dequeue into the port.
i8042_data_io_handler_NoTest ==
  /\ alive
  /\ port' = key_queue[key_f] /\ key_f' = Succ(key_f)
  /\ UNCHANGED <<key_queue, key_r, running, alive>>
i8042_data_io_handler ==
  /\ alive
  /\ IF key_f # key_r
     THEN port' = key_queue[key_f] /\ key_f' = Succ(key_f)
     ELSE port' = NONE /\ UNCHANGED key_f
  /\ UNCHANGED <<key_queue, key_r, running, alive>>

\* cpu_exec starts a run; it stops at its end, or on SDL_QUIT.
SetRunning == /\ alive
              /\ running' = ~running
              /\ UNCHANGED <<key_queue, key_f, key_r, port, alive>>

Next == \/ \E sc \in Scancodes, down \in BOOLEAN : send_key(sc, down)
        \/ i8042_data_io_handler
        \/ SetRunning

Spec == Init /\ [][Next]_vars
-----------------------------------------------------------------------------
\* How many codes a ring with front f and rear r holds, and which, oldest first.
CountOf(f, r) == (r + KEY_QUEUE_LEN - f) % KEY_QUEUE_LEN
ContentsOf(q, f, r) == [i \in 1 .. CountOf(f, r) |-> q[(f + (i - 1)) % KEY_QUEUE_LEN]]

Contents == ContentsOf(key_queue, key_f, key_r)

TypeOK == /\ key_queue \in [Slots -> Codes \cup {NONE}]
          /\ key_f \in Slots /\ key_r \in Slots
          /\ port \in Codes \cup {NONE}
          /\ running \in BOOLEAN /\ alive \in BOOLEAN

(* A ring slot between key_f and key_r always holds a key code: the guest  *)
(* never reads a slot that key_enqueue has not filled (key_dequeue,        *)
(* keyboard.c:58), however reads and events interleave and wrap.           *)
PendingAreCodes == alive => Contents \in [1 .. CountOf(key_f, key_r) -> Codes]

(* The ring implements the bounded FIFO of KeyFifo with room for           *)
(* KEY_QUEUE_LEN - 1 codes: order is kept across wrap-around, nothing is   *)
(* lost or duplicated, and the code that does not fit trips the assertion  *)
(* of key_enqueue (keyboard.c:55) rather than emptying the queue.          *)
F == INSTANCE KeyFifo WITH fifo <- IF alive THEN Contents ELSE << >>,
                           Capacity <- KEY_QUEUE_LEN - 1
ImplementsFifo == F!FSpec
=============================================================================
