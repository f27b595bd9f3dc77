------------------------------ MODULE RPLidar ------------------------------
(***************************************************************************)
(* rplidar_driver: checks the lidar's health, reads its description, has   *)
(* it scan and publishes what comes back, one revolution after another,    *)
(* until a signal stops it.                                                *)
(*                                                                         *)
(* The line is a sequence of bytes.  A descriptor stands for one byte, as  *)
(* do the answers to the first two requests; a sample is SampleSize bytes, *)
(* each with its number and with whether it opens a revolution.  The       *)
(* numbers are the positions on the circle.  Nothing else is on the line,  *)
(* and nothing in it is lost.                                              *)
(***************************************************************************)
EXTENDS Integers, Sequences

CONSTANTS
  Revolution,  (* samples per revolution                                   *)
  SampleSize,  (* 5 bytes                                                  *)
  Stalls,      (* whether TIMEOUT_MS may pass in the middle of a sample    *)
  MaxBytes,    (* bound: bytes of samples sent                             *)
  None

VARIABLES
  pc,        (* of main and scan_loop                                      *)
  halt,      (* the flag of rp_lidar_stop                                  *)
  signalled, (* history: a signal came                                     *)
  health,    (* what the lidar says of itself                              *)
  scanning,  (* the lidar sends samples                                    *)
  sent,      (* bytes of samples sent                                      *)
  line,      (* bytes sent and not yet read                                *)
  buf,       (* what read_fully_timeout has filled of buf, and what was    *)
             (* there before                                               *)
  have,      (* bytes read of the sample                                   *)
  scan,      (* the samples of the scan so far: ranges, thetas, times      *)
  published  (* the last scan published, or None                           *)

lidar == <<health, scanning, sent>>
vars  == <<pc, halt, signalled, health, scanning, sent, line, buf, have, scan, published>>

\* The n-th byte sent, from 0.
Byte(n) ==
  LET sample == n \div SampleSize
  IN [sample |-> sample, byte |-> (n % SampleSize) + 1, start |-> sample % Revolution = 0]

Answer(of) == [answer |-> of]

-----------------------------------------------------------------------------
\* What the lidar does: it answers a request, scans or stops scanning, and
\* finishes a sample it has begun.
Request(of) ==
  /\ line' = Append(line, Answer(of))
  /\ scanning' = (scanning \/ of = "scan")

SendByte ==
  /\ scanning \/ sent % SampleSize # 0
  /\ sent < MaxBytes
  /\ Len(line) < SampleSize
  /\ sent' = sent + 1
  /\ line' = Append(line, Byte(sent))
  /\ UNCHANGED <<pc, halt, signalled, health, scanning, buf, have, scan, published>>

\* sig_handler, which may run at any point of main or of the scan loop:
\* rp_lidar_stop sets the flag and sends the request to stop.
Signal ==
  /\ pc # "done"
  /\ ~signalled
  /\ signalled' = TRUE
  /\ halt' = TRUE
  /\ scanning' = FALSE
  /\ UNCHANGED <<pc, health, sent, line, buf, have, scan, published>>

-----------------------------------------------------------------------------
\* rp_lidar_check_health and rp_lidar_check_info: a request, and its answer.
AskHealth ==
  /\ pc = "start"
  /\ Request("health")
  /\ pc' = "health"
  /\ UNCHANGED <<halt, signalled, health, sent, buf, have, scan, published>>

Healthy == health = "good"

\* main: anything but HEALTH_GOOD ends the program.
ReadHealth ==
  /\ pc = "health"
  /\ line # <<>>
  /\ line' = Tail(line)
  /\ pc' = IF Healthy THEN "ask info" ELSE "done"
  /\ UNCHANGED <<halt, signalled, lidar, buf, have, scan, published>>

AskInfo ==
  /\ pc = "ask info"
  /\ Request("info")
  /\ pc' = "info"
  /\ UNCHANGED <<halt, signalled, health, sent, buf, have, scan, published>>

ReadInfo ==
  /\ pc = "info"
  /\ line # <<>>
  /\ line' = Tail(line)
  /\ pc' = "ask scan"
  /\ UNCHANGED <<halt, signalled, lidar, buf, have, scan, published>>

\* Mutant of HaltOnEntry: the flag is cleared before the scan.
HaltOnEntry_Cleared == FALSE

\* rp_lidar_scan leaves halt as it is; a signal before it ends it at once.
HaltOnEntry == halt

AskScan ==
  /\ pc = "ask scan"
  /\ Request("scan")
  /\ halt' = HaltOnEntry
  /\ pc' = "descriptor"
  /\ UNCHANGED <<signalled, health, sent, buf, have, scan, published>>

ReadDescriptor ==
  /\ pc = "descriptor"
  /\ line # <<>>
  /\ line' = Tail(line)
  /\ pc' = "loop"
  /\ UNCHANGED <<halt, signalled, lidar, buf, have, scan, published>>

\* while (!halt); halt = 0.
Loop ==
  /\ pc = "loop"
  /\ have' = 0
  /\ IF halt THEN pc' = "done" /\ halt' = FALSE ELSE pc' = "read" /\ UNCHANGED halt
  /\ UNCHANGED <<signalled, lidar, line, buf, scan, published>>

ReadByte ==
  /\ pc = "read"
  /\ line # <<>>
  /\ have < SampleSize
  /\ buf' = [buf EXCEPT ![have + 1] = Head(line)]
  /\ line' = Tail(line)
  /\ have' = have + 1
  /\ UNCHANGED <<pc, halt, signalled, lidar, scan, published>>

\* Mutant of Opens: the first bit is not checked against its inverse.
Opens_Any(byte) == byte.byte = 1

\* (buf[0] & 1) and not (buf[0] & 2): the first byte of a revolution.
Opens(byte) == byte.byte = 1 /\ byte.start

\* A sample is taken from buf; one that opens a revolution has the scan
\* before it published, if there is any.
Take ==
  LET opens == Opens(buf[1])
      before == IF opens THEN <<>> ELSE scan
  IN /\ published' = IF opens /\ scan # <<>> THEN scan ELSE published
     /\ scan' = Append(before, buf)

\* All of a sample has come, or a part of it and then nothing for
\* TIMEOUT_MS (res < 1 is all that counts as none).
ReadSample ==
  /\ pc = "read"
  /\ have = SampleSize \/ (Stalls /\ have > 0 /\ line = <<>>)
  /\ Take
  /\ pc' = "loop"
  /\ UNCHANGED <<halt, signalled, lidar, line, buf, have>>

\* Nothing came.
ReadNothing ==
  /\ pc = "read"
  /\ have = 0 /\ line = <<>>
  /\ pc' = "loop"
  /\ UNCHANGED <<halt, signalled, lidar, line, buf, have, scan, published>>

Init ==
  /\ pc = "start"
  /\ halt = FALSE /\ signalled = FALSE
  /\ health \in {"good", "warn", "error"}
  /\ scanning = FALSE /\ sent = 0
  /\ line = <<>>
  /\ buf = [k \in 1 .. SampleSize |-> Byte(k - 1)] /\ have = 0
  /\ scan = <<>>
  /\ published = None

Driver ==
  \/ AskHealth \/ ReadHealth \/ AskInfo \/ ReadInfo \/ AskScan \/ ReadDescriptor
  \/ Loop \/ ReadByte \/ ReadSample \/ ReadNothing

Next == Driver \/ SendByte \/ Signal

\* The driver runs, and the lidar sends the rest of a sample it has begun.
Spec ==
  /\ Init /\ [][Next]_vars
  /\ WF_vars(Driver) /\ WF_vars(SendByte /\ sent % SampleSize # 0)

-----------------------------------------------------------------------------
\* Each scan published is one revolution, each sample of it whole and in its
\* place ("Gather information forever and broadcast complete scans").
ScansAreComplete ==
  published # None =>
    /\ Len(published) = Revolution
    /\ \A i \in 1 .. Revolution : \A k \in 1 .. SampleSize :
         /\ published[i][k].byte = k
         /\ published[i][k].sample % Revolution = i - 1
         /\ published[i][k].sample = published[1][1].sample + i - 1

\* After a signal the driver ends, whenever it came (rp_lidar_stop).
SignalEnds == signalled ~> pc = "done"
=============================================================================
