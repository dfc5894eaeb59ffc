--------------------------- MODULE PwrgateLogger ---------------------------
(***************************************************************************)
(* The logger of the power gate (main.go of cmd/pwrgate-logger): main()    *)
(* calls logData() again and again; each call opens the serial port and    *)
(* runs three goroutines in an errgroup.  The closer waits for the context *)
(* and closes the port; the pinger writes a return to the port when ten    *)
(* seconds passed without a ping; the reader reads lines, and pings over   *)
(* an unbuffered channel for each that has fields.  The error of one       *)
(* cancels the context; Wait() waits for all three.                        *)
(*                                                                         *)
(* The serial device can be unplugged and plugged in at any time.  A       *)
(* descriptor of an unplugged device stays dead: a write to it fails, a    *)
(* read fails or is the end of the file.  Closing a descriptor makes the   *)
(* read that waits on it fail, as the closer supposes.                     *)
(***************************************************************************)
EXTENDS Naturals

CONSTANTS
  MaxUnplugs,   \* bound: how often the device is unplugged
  MaxChunk      \* bound: the lines that one read of the port returns

VARIABLES
  device,       \* [plugged, left]: there is a device; times it may be unplugged
  fd,           \* the descriptor of the call: "none", "good", "dead", "closed"
  cancelled,    \* the context of the group
  closer,       \* "waiting", "returned"
  pinger,       \* "selecting", "writing", "returned"
  reader,       \* "scanning", "pinging", "returned"
  buffered      \* lines the reader's Scanner has read and not returned

pwrVars == <<device, fd, cancelled, closer, pinger, reader, buffered>>
group == <<closer, pinger, reader>>

AllReturned == closer = "returned" /\ pinger = "returned" /\ reader = "returned"

(* The process starts, main() is before a call of logData().               *)
Init ==
  /\ device \in [plugged : BOOLEAN, left : {MaxUnplugs}]
  /\ fd = "none" /\ cancelled = FALSE /\ buffered = 0
  /\ closer = "returned" /\ pinger = "returned" /\ reader = "returned"

-----------------------------------------------------------------------------
(* logData() opens the port, asks for the fields and starts the group.  An *)
(* error of either returns to main(), which calls again: nothing changes   *)
(* but a descriptor that stays open when the device goes between the two.  *)
Open ==
  /\ fd = "none" /\ device.plugged
  /\ fd' = "good" /\ cancelled' = FALSE /\ buffered' = 0
  /\ closer' = "waiting" /\ pinger' = "selecting" /\ reader' = "scanning"
  /\ UNCHANGED device

(* <-ctx.Done(); port.Close()                                              *)
Close ==
  /\ closer = "waiting" /\ cancelled
  /\ closer' = "returned" /\ fd' = "closed"
  /\ UNCHANGED <<device, cancelled, pinger, reader, buffered>>

(* The case <-ctx.Done() of the pinger's select.                           *)
PingerDone ==
  /\ pinger = "selecting" /\ cancelled
  /\ pinger' = "returned"
  /\ UNCHANGED <<device, fd, cancelled, closer, reader, buffered>>

(* The case <-time.After(...): ten seconds passed, the write begins.       *)
Timeout ==
  /\ pinger = "selecting"
  /\ pinger' = "writing"
  /\ UNCHANGED <<device, fd, cancelled, closer, reader, buffered>>

(* Mistake: only a port that was closed fails to be written to.            *)
ClosedFails == fd = "closed"
WriteFails == fd # "good"

(* The write ends: its error is the pinger's and cancels the context.      *)
Write ==
  /\ pinger = "writing"
  /\ pinger' = IF WriteFails THEN "returned" ELSE "selecting"
  /\ cancelled' = (cancelled \/ WriteFails)
  /\ UNCHANGED <<device, fd, closer, reader, buffered>>

(* Scan() reads the port: some lines, an error, or the end of the file,    *)
(* which Err() does not call an error.                                     *)
Read ==
  /\ reader = "scanning" /\ buffered = 0
  /\ \/ fd = "good" /\ buffered' \in 1..MaxChunk /\ UNCHANGED <<reader, cancelled>>
     \/ /\ fd \in {"dead", "closed"}
        /\ reader' = "returned" /\ UNCHANGED buffered
        /\ cancelled' \in IF fd = "dead" THEN {TRUE, cancelled} ELSE {TRUE}
  /\ UNCHANGED <<device, fd, closer, pinger>>

(* Scan() returns a line: one with fields is to be pinged about, another   *)
(* is only logged.                                                         *)
Line ==
  /\ reader = "scanning" /\ buffered > 0
  /\ buffered' = buffered - 1
  /\ reader' \in {"scanning", "pinging"}
  /\ UNCHANGED <<device, fd, cancelled, closer, pinger>>

(* pingCh <- meets <-pingCh, and the point is written; the pinger selects  *)
(* again and its ten seconds start anew.                                   *)
Ping ==
  /\ reader = "pinging" /\ pinger = "selecting"
  /\ reader' = "scanning"
  /\ UNCHANGED <<device, fd, cancelled, closer, pinger, buffered>>

(* Wait() returns, and logData() with it: main() is before the next call.  *)
Wait ==
  /\ fd # "none" /\ AllReturned
  /\ fd' = "none" /\ cancelled' = TRUE
  /\ UNCHANGED <<device, closer, pinger, reader, buffered>>

logData == Close \/ PingerDone \/ Timeout \/ Write \/ Read \/ Line \/ Ping \/ Wait

-----------------------------------------------------------------------------
(* The device comes and goes.                                              *)
Unplug ==
  /\ device.plugged /\ device.left > 0
  /\ device' = [plugged |-> FALSE, left |-> device.left - 1]
  /\ fd' = IF fd = "good" THEN "dead" ELSE fd
  /\ UNCHANGED <<cancelled, group, buffered>>

Plug ==
  /\ ~device.plugged
  /\ device' = [device EXCEPT !.plugged = TRUE]
  /\ UNCHANGED <<fd, cancelled, group, buffered>>

Next == Open \/ logData \/ Unplug \/ Plug

Spec == Init /\ [][Next]_pwrVars

(* A goroutine that can go on does so: the scheduler runs it, ten seconds  *)
(* pass, a read of a dead descriptor returns.  Nothing makes a device come *)
(* back.                                                                   *)
FairSpec == Spec /\ WF_pwrVars(Open \/ logData)

-----------------------------------------------------------------------------
(* The reader waits to ping a pinger that has returned: nobody receives    *)
(* from the channel any more, Wait() waits for the reader for ever, and    *)
(* the logger is silent until somebody restarts it.                        *)
Hung == reader = "pinging" /\ pinger = "returned"

(* The device's lines are read and it is asked for more.                   *)
Reads == fd = "good" /\ pinger # "returned" /\ reader # "returned"

(* In whatever order the goroutines notice that the device has gone, the   *)
(* call comes to its end and a later one reads from the device once it is  *)
(* back; but for Hung.  The end of the file, at which the reader returns   *)
(* no error, is no exception: the next write of the pinger fails.          *)
ReadsAgain == device.plugged => Reads \/ Hung
=============================================================================
