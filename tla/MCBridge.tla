------------------------------- MODULE MCBridge -------------------------------
(***************************************************************************)
(* Programs that write nothing, more to one stream than it holds while the *)
(* other is open, newlines, characters of two bytes and halves of them,    *)
(* and that go on after closing their output or never end.  Pids are at    *)
(* the boundaries of the decimal conversion (one digit, the first of two   *)
(* digits, inner and trailing zeros, the kernel's PID_MAX_LIMIT, the       *)
(* largest i32), endings at those of the status.                           *)
(***************************************************************************)
EXTENDS Bridge

MCScripts ==
    { << >>,
      << "err", "err", "err", "out" >>,
      << "out", "out_nl", "err", "out" >>,
      << "out_1st", "out_2nd", "err_2nd", "out_2nd" >>,
      << "out", "err", "close", "hang" >>,
      << "out", "hang" >> }

MCChildPids == {1, 9, 10, 907, 4194304, 2147483647}

MCExits ==
    [kind : {"exit"}, value : {0, 1, 9, 31, 127, 128, 255}]
      \cup [kind : {"signal"}, value : {1, 9, 31, 64}]
      \cup [kind : {"core"}, value : {11, 31}]
===============================================================================
