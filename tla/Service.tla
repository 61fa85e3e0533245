------------------------------ MODULE Service ------------------------------
(***************************************************************************)
(* What supervise promises the user of svc about one service, without its   *)
(* process identifiers, signals, pipes and files: when the service may be   *)
(* started, and when supervise itself may leave.                            *)
(***************************************************************************)

VARIABLES
  life,     \* "running"; "left" (supervise ended by itself); or "lost"
            \* (it was killed, or never started)
  want,     \* "up", "down" or, after svc -o, "once"
  leaving,  \* svc -x was read
  up,       \* the service was started and its death is not yet known
  due       \* a start is to be attempted now

vars == <<life, want, leaving, up, due>>

\* Nothing is known of a supervise that does not run.
Nobody == want = "up" /\ ~leaving /\ ~up /\ ~due

Init == life = "lost" /\ Nobody

\* supervise starts the service at once unless there is a file ./down.
Boot ==
  /\ life # "running" /\ life' = "running"
  /\ want' \in {"up", "down"}
  /\ due' = (want' = "up")
  /\ ~leaving' /\ ~up'

Start ==
  /\ due /\ due' = FALSE
  /\ up' = TRUE
  /\ UNCHANGED <<life, want, leaving>>

\* There was no process for it.
GiveUp ==
  /\ due /\ due' = FALSE
  /\ UNCHANGED <<life, want, leaving, up>>

\* The service is restarted when it is wanted up and supervise is to stay.
Died ==
  /\ up /\ up' = FALSE
  /\ due' = (want = "up" /\ ~leaving)
  /\ UNCHANGED <<life, want, leaving>>

\* Commands are obeyed between starts, and no more once there is nothing to do.
Listening == life = "running" /\ ~due /\ (leaving => up)

WantDown ==
  /\ Listening
  /\ want' = "down"
  /\ UNCHANGED <<life, leaving, up, due>>

\* svc -u and svc -o start a service that is down.
WantUp ==
  /\ Listening
  /\ want' \in {"up", "once"}
  /\ due' = ~up
  /\ UNCHANGED <<life, leaving, up>>

WantExit ==
  /\ Listening
  /\ leaving' = TRUE
  /\ UNCHANGED <<life, want, up, due>>

\* supervise ends by itself only if told to, and never over a living service.
Quit ==
  /\ life = "running" /\ leaving /\ ~up /\ ~due
  /\ life' = "left" /\ Nobody'

Killed == life = "running" /\ life' = "lost" /\ Nobody'

Next ==
  \/ Boot \/ Start \/ GiveUp \/ Died \/ WantDown \/ WantUp \/ WantExit
  \/ Quit \/ Killed

Spec == Init /\ [][Next]_vars
=============================================================================
