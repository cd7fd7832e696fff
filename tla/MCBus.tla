------------------------------- MODULE MCBus --------------------------------
(***************************************************************************)
(* The bus with three devices and a display, under layouts that are right, *)
(* overlap a device or memory at either end, wrap around or ask for more   *)
(* I/O space than there is.                                                *)
(***************************************************************************)
EXTENDS Bus

Order_ == <<"serial", "rtc", "vmem", "sdhci">>
Dev(a, l, p) == [addr |-> a, len |-> l, pages |-> p]
Layout(s, r, v, p, d) == [serial |-> Dev(s, 8, 1), rtc |-> Dev(r, 2, 1),
                          vmem |-> Dev(v, 4, p), sdhci |-> Dev(d, 32, 1)]
Layouts_ == {Layout(0, 8, 12, 4, 20),      \* as configured
             Layout(0, 8, 12, 15, 20),     \* 1600 x 1200 pixels
             Layout(0, 6, 12, 4, 20),      \* the clock on the serial port
             Layout(0, 8, 62, 4, 20),      \* the display runs into memory
             Layout(0, 8, 70, 4, 20),      \* the display starts in memory
             Layout(0, 8, 100, 4, 122),    \* the card wraps around to the port
             Layout(20, 28, 30, 4, 122)}   \* the card wraps around to nothing

Stdins_ == {<<TRUE, << >> >>, <<FALSE, <<1, 2>> >>}
Images_ == {<<TRUE, <<<<0, 1>>, <<0, 2>>, <<0, 3>>>> >>, <<FALSE, << >> >>}

Req(op, blk, blocks, sg, sbc, stop) ==
  [op |-> op, blk |-> blk, blocks |-> blocks, sg |-> sg, sbc |-> sbc, stop |-> stop]
Multi(op) ==
  {Req(op, 0, 2, <<16>>, TRUE, TRUE), Req(op, 0, 2, <<4, 12>>, FALSE, TRUE),
   Req(op, 1, 1, <<4, 4>>, FALSE, TRUE), Req(op, 0, 1, <<8>>, FALSE, TRUE),
   Req(op, 0, 2, <<6, 10>>, TRUE, TRUE), Req(op, 0, 2, <<8>>, TRUE, TRUE)}
Requests_ ==
  Multi("READ_MULTIPLE_BLOCK") \cup Multi("WRITE_MULTIPLE_BLOCK") \cup
  {Req("SEND_EXT_CSD", 0, 1, <<8>>, FALSE, FALSE),
   Req("SEND_STATUS", 0, 0, << >>, FALSE, FALSE),
   Req("READ_SINGLE_BLOCK", 0, 1, <<8>>, FALSE, FALSE)}

Workloads_ == {{"console", "clock"}, {"sd"}}
=============================================================================
