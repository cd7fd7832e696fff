------------------------------ MODULE KeyFifo ------------------------------
(***************************************************************************)
(* What the keyboard promises the guest: the key events accepted from the  *)
(* host reach the i8042 data port in the order they were accepted, each    *)
(* once; an empty queue reads as NONE; and the event that does not fit     *)
(* stops the emulator instead of being lost silently.                      *)
(* Keyboard.tla (the ring buffer of src/device/keyboard.c) implements this *)
(* specification.                                                          *)
(***************************************************************************)
EXTENDS Naturals, Sequences

CONSTANTS Codes,     \* the key codes a guest may be given
          NONE,      \* NEMU_KEY_NONE: "no key"
          Capacity   \* how many codes may be pending

VARIABLES fifo,      \* the pending codes, oldest first
          port,      \* the value last latched into the data port
          alive      \* FALSE once an assertion has stopped the emulator

fvars == <<fifo, port, alive>>

FInit == fifo = << >> /\ port = NONE /\ alive = TRUE

\* A code is accepted while there is room for it.
FAccept == /\ alive
           /\ Len(fifo) < Capacity
           /\ \E c \in Codes : fifo' = Append(fifo, c)
           /\ UNCHANGED <<port, alive>>

\* A code that finds the queue full stops the emulator.
FOverflow == /\ alive
             /\ Len(fifo) = Capacity
             /\ fifo' = << >> /\ alive' = FALSE
             /\ UNCHANGED port

\* The guest reads the port: the oldest code, or NONE.
FRead == /\ alive
         /\ IF fifo = << >>
            THEN port' = NONE /\ fifo' = fifo
            ELSE port' = Head(fifo) /\ fifo' = Tail(fifo)
         /\ UNCHANGED alive

FNext == FAccept \/ FOverflow \/ FRead

FSpec == FInit /\ [][FNext]_fvars
=============================================================================
