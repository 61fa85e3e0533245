------------------------------- MODULE Svstat -------------------------------
(***************************************************************************)
(* svstat (svstat.c), or svok (svok.c) followed by it, beside a supervise:  *)
(* it looks whether somebody has supervise/ok open, and then reads          *)
(* supervise/status.  Between the two supervise may go on, die, and be       *)
(* started again.                                                           *)
(*                                                                          *)
(* What svstat prints of the time and of ./down is left out.                *)
(***************************************************************************)
EXTENDS Supervise

VARIABLES
  reader,  \* "idle", or "opened": supervise/ok had a reader
  held     \* (history) since svstat opened it, what supervise/status says has
           \* been so at some moment

svstat  == <<reader, held>>
allvars == <<vars, svstat>>

\* What svstat prints of a status.
Said(s) == [pid    |-> s.pid,
            paused |-> s.pid # 0 /\ s.paused,
            want   |-> IF s.pid = 0 /\ s.want = "u" THEN "want up"
                       ELSE IF s.pid # 0 /\ s.want = "d" THEN "want down"
                       ELSE ""]

\* supervise is as svstat would say, or could not write how it is.
Holds == Running /\ (Said(status) = Said(Snapshot) \/ fresh = "failed")

SvstatInit == Init /\ reader = "idle" /\ held = FALSE

\* open_write("supervise/ok") finds a reader.
Ok == Serving

\* svok says no, svstat that supervise is not running, and neither goes on.
LookOk ==
  /\ reader = "idle"
  /\ Ok
  /\ reader' = "opened" /\ held' = Holds
  /\ UNCHANGED vars

\* One read() of a file that is only ever replaced as a whole.
ReadStatus ==
  /\ reader = "opened"
  /\ reader' = "idle" /\ held' = FALSE
  /\ UNCHANGED vars

\* A step of the others, seen by svstat.
Meanwhile ==
  /\ Next
  /\ UNCHANGED reader
  /\ held' = (reader = "opened" /\ (Holds' \/ (held /\ status' = status)))

SvstatNext == LookOk \/ ReadStatus \/ Meanwhile

SvstatSpec == SvstatInit /\ [][SvstatNext]_allvars

(***************************************************************************)
(* Properties.                                                             *)
(***************************************************************************)

\* Whenever svstat gets to read supervise/status, it reads what has been so
\* since it looked at supervise/ok, also when supervise was killed and started
\* again in between (as far as the disk let supervise write it): it never
\* reports what an earlier supervise left behind, nor another process than the
\* service.
ReportTrue == reader = "opened" => held
=============================================================================
