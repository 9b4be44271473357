----------------------------- MODULE MediaClock -----------------------------
(***************************************************************************)
(* What TimeInterpolator promises its readers, with the feedback loop,     *)
(* the epoch and the clock abstracted away (spec.md sections 1, 5 and 8).  *)
(*                                                                         *)
(* wp is the write pointer: the media time posted so far.  rep is the      *)
(* value the last read returned, or NoRead after a restart (seek, stop,    *)
(* reset, or the cold start of a stopped clock).  paused says the clock    *)
(* was paused and has not been posted to or stopped since.                 *)
(***************************************************************************)
EXTENDS Integers

CONSTANT NoRead

VARIABLES wp, rep, paused

cvars == <<wp, rep, paused>>

CInit ==
  /\ wp = 0
  /\ rep = NoRead
  /\ paused = FALSE

\* Media is posted: the write pointer never moves back, and the clock runs.
Post ==
  /\ wp' >= wp
  /\ paused' = FALSE
  /\ UNCHANGED rep

\* A read: never below the last one, and while paused equal to it.
Read ==
  /\ rep' \in Int
  /\ rep # NoRead => rep' >= rep
  /\ paused /\ rep # NoRead => rep' = rep
  /\ UNCHANGED <<wp, paused>>

Pause ==
  /\ paused' = TRUE
  /\ UNCHANGED <<wp, rep>>

Stop ==
  /\ paused' = FALSE
  /\ UNCHANGED <<wp, rep>>

\* A restart moves the write pointer anywhere and forgets the reads.
Restart ==
  /\ wp' \in Int
  /\ rep' = NoRead
  /\ UNCHANGED paused

CNext == Post \/ Read \/ Pause \/ Stop \/ Restart

CSpec == CInit /\ [][CNext]_cvars

=============================================================================
