------------------------------- MODULE SdCard -------------------------------
(***************************************************************************)
(* The SD card of src/device/sdcard.c: its registers `base`, the position  *)
(* in the image file and the mode that the last command left behind.       *)
(* Registers are numbered as in the code's enum; a data word is a pair of  *)
(* integers, so that every word of the image, of a request and of the      *)
(* EXT_CSD register can be told apart.  The image is the sequence of the   *)
(* words of the file.                                                      *)
(***************************************************************************)
EXTENDS Integers, Sequences

CONSTANT BlockWords     \* words of a block: 128 in the code

ASSUME BlockWordsAssumption == BlockWords \in Nat \ {0}

SDCMD  == 0
SDARG  == 1
SDRSP0 == 4
SDDATA == 16
Registers == {SDCMD, SDARG, 4, 5, 6, 7, SDDATA}

Commands == {"GO_IDLE_STATE", "SEND_OP_COND", "ALL_SEND_CID", "CMD52", "SEND_CSD",
             "SEND_EXT_CSD", "SLEEP_AWAKE", "APP_CMD", "SET_RELATIVE_ADDR",
             "SELECT_CARD", "SET_BLOCK_COUNT", "READ_MULTIPLE_BLOCK",
             "WRITE_MULTIPLE_BLOCK", "SEND_STATUS", "STOP_TRANSMISSION"}

\* A card whose image is the file img, or that has none (fp == NULL).
sdcard_init(fp, img) ==
  [base |-> [r \in 0 .. 31 |-> CASE r = SDCMD  -> "GO_IDLE_STATE"
                                 [] r = SDARG  -> 0
                                 [] r = SDDATA -> <<0, 0>>
                                 [] OTHER      -> "none"],
   fp |-> fp, img |-> img, pos |-> 0, addr |-> 0, blkcnt |-> 0,
   write_cmd |-> FALSE, read_ext_csd |-> FALSE]

\* The EXT_CSD register: the revision, the size of the card, and zeros.
EXT_CSD_REV == IF BlockWords > 53 THEN 48 ELSE 0
SEC_COUNT   == IF BlockWords > 53 THEN 53 ELSE BlockWords - 1
ExtCsd(word) == CASE word = EXT_CSD_REV -> <<-1, 1>>
                  [] word = SEC_COUNT   -> <<-1, 2>>
                  [] OTHER              -> <<-1, 0>>

prepare_rw(s, is_write) ==
  [s EXCEPT !.addr = 0, !.write_cmd = is_write,
            !.pos = IF s.fp THEN s.base[SDARG] * BlockWords ELSE @]

\* The response registers: none of them is read back but for its kind.
Answered(kind) == IF kind = "SEND_OP_COND" THEN {SDRSP0} ELSE 4 .. 7
Respond(s, kind) == [s EXCEPT !.base = [r \in DOMAIN @ |->
                       IF r \in Answered(kind) THEN kind ELSE @[r]]]

\* Commands that do not appear here leave the card as it is.
sdcard_handle_cmd(s, cmd) ==
  CASE cmd \in {"SEND_OP_COND", "ALL_SEND_CID", "SEND_CSD", "SEND_STATUS"} -> Respond(s, cmd)
    [] cmd = "SEND_EXT_CSD" -> [s EXCEPT !.read_ext_csd = TRUE, !.addr = 0]
    [] cmd = "SET_BLOCK_COUNT" -> [s EXCEPT !.blkcnt = s.base[SDARG] % 65536]
    [] cmd \in {"READ_MULTIPLE_BLOCK", "WRITE_MULTIPLE_BLOCK"} ->
         prepare_rw(s, cmd = "WRITE_MULTIPLE_BLOCK")
    [] OTHER -> s

\* fread past the end of the file leaves the register and the position alone.
ReadWord(s) == IF s.pos >= Len(s.img) THEN s
               ELSE [s EXCEPT !.base[SDDATA] = s.img[s.pos + 1], !.pos = @ + 1]
\* fwrite at the end of the file makes it longer.
WriteWord(s) == [s EXCEPT !.pos = @ + 1,
                          !.img = [i \in 1 .. (IF s.pos < Len(@) THEN Len(@) ELSE s.pos + 1) |->
                                     IF i = s.pos + 1 THEN s.base[SDDATA]
                                     ELSE IF i <= Len(@) THEN @[i] ELSE <<0, 0>>]]

sdcard_data_ExtSticks(s) ==
  LET t == CASE s.read_ext_csd -> [s EXCEPT !.base[SDDATA] = ExtCsd(s.addr)]
             [] ~s.read_ext_csd /\ s.fp -> IF s.write_cmd THEN WriteWord(s) ELSE ReadWord(s)
             [] OTHER -> s
  IN [t EXCEPT !.addr = @ + 1]
\* An access to SDDATA, whatever its direction (addr counts words here).
sdcard_data(s) ==
  LET t == CASE s.read_ext_csd ->
                  [s EXCEPT !.base[SDDATA] = ExtCsd(s.addr),
                            !.read_ext_csd = s.addr # BlockWords - 1]
             [] ~s.read_ext_csd /\ s.fp -> IF s.write_cmd THEN WriteWord(s) ELSE ReadWord(s)
             [] OTHER -> s
  IN [t EXCEPT !.addr = @ + 1]

\* The panics of the handler: a register or a command it does not know.
sdcard_accepts(s, offset) ==
  offset \in Registers /\ (offset = SDCMD => s.base[SDCMD] \in Commands)

sdcard_io_handler(s, offset) ==
  CASE offset = SDCMD  -> sdcard_handle_cmd(s, s.base[SDCMD])
    [] offset = SDDATA -> sdcard_data(s)
    [] OTHER           -> s
=============================================================================
