--------------------- MODULE TimeInterpolatorUnlocked ---------------------
(***************************************************************************)
(* The accessors of TimeInterpolator that take no lock, composed with the  *)
(* locked operations of TimeInterpolator.                                  *)
(*                                                                         *)
(* read_pointer() (TimeInterpolator.h:45) is m_read + m_queued, two loads  *)
(* in an order C leaves unspecified, made by a reader thread with no lock: *)
(* any locked operation of the writer or of another reader may run between *)
(* them.  Each load returns a value the field held (a torn 64-bit load on  *)
(* a 32-bit core is not modelled).                                         *)
(*                                                                         *)
(* forcibly_update_read_pointer(rp) (TimeInterpolator.cpp:585) is          *)
(* m_read = rp - m_queued: a load of m_queued and a store to m_read, with  *)
(* no lock.  It is made by the writer thread, so no post_buffer() or       *)
(* lifecycle call of the writer runs between them, but a reader's          *)
(* get_stream_usecs() can.                                                 *)
(***************************************************************************)
EXTENDS TimeInterpolator

CONSTANT OverrideArgs  \* read pointers given to forcibly_update_read_pointer()

VARIABLES
  rpc,     \* the read_pointer() reader: "idle" or "loaded" (one field read)
  rfield,  \* the field it loaded first, "read" or "queued"
  rpart,   \* the value it loaded
  rpSeen,  \* ghost: every read pointer since its call began
  rpRet,   \* ghost: the value its last call returned, or NoRead
  fpc,     \* forcibly_update_read_pointer(): "idle" or "store"
  fq,      \* the m_queued it loaded
  frp      \* its argument

uvars == <<rpc, rfield, rpart, rpSeen, rpRet, fpc, fq, frp>>
allVars == <<vars, uvars>>

InitU ==
  /\ Init
  /\ rpc = "idle"
  /\ rfield = "read"
  /\ rpart = 0
  /\ rpSeen = {}
  /\ rpRet = NoRead
  /\ fpc = "idle"
  /\ fq = 0
  /\ frp = 0

\* The value of a field of the interpolator, by name.
Field(name) == IF name = "read" THEN read ELSE queued
Other(name) == IF name = "read" THEN "queued" ELSE "read"

(* read_pointer(): the first load. *)
read_pointer_load ==
  /\ rpc = "idle"
  /\ \E name \in {"read", "queued"} :
       /\ rfield' = name
       /\ rpart' = Field(name)
  /\ rpc' = "loaded"
  /\ rpSeen' = {ReadPointer}
  /\ rpRet' = NoRead
  /\ UNCHANGED <<vars, fpc, fq, frp>>

(* read_pointer(): the second load and the sum it returns. *)
read_pointer_return ==
  /\ rpc = "loaded"
  /\ rpRet' = rpart + Field(Other(rfield))
  /\ rpc' = "idle"
  /\ UNCHANGED <<vars, rfield, rpart, fpc, fq, frp>>

(* forcibly_update_read_pointer(rp): the load of m_queued. *)
forcibly_load ==
  /\ wpc = "idle"
  /\ fpc = "idle"
  /\ \E rp \in OverrideArgs : frp' = rp
  /\ fq' = queued
  /\ fpc' = "store"
  /\ UNCHANGED <<vars, rpc, rfield, rpart, rpRet>>

(* forcibly_update_read_pointer(rp): the store to m_read.  The read       *)
(* pointer the caller declares authoritative becomes the ghost written.   *)
forcibly_store ==
  /\ fpc = "store"
  /\ read' = frp - fq
  /\ written' = frp
  /\ fpc' = "idle"
  /\ UNCHANGED <<state, Tf, t0, pos0, queued, latency, last, now,
                 wpc, seekTo, lastRet, rpc, rfield, rpart, rpRet, fq, frp>>

(* A locked operation: the writer's only when it is not inside            *)
(* forcibly_update_read_pointer().                                         *)
LockedStep ==
  /\ \/ Writer /\ fpc = "idle"
     \/ Reader
     \/ Tick
  /\ UNCHANGED <<rpc, rfield, rpart, rpRet, fpc, fq, frp>>

\* The ghost rpSeen collects the read pointer after every step made while
\* a read_pointer() call is between its loads.
TrackSeen ==
  rpSeen' = IF rpc = "loaded" THEN rpSeen \cup {read' + queued'} ELSE rpSeen

NextU ==
  \/ read_pointer_load
  \/ /\ LockedStep \/ read_pointer_return \/ forcibly_load \/ forcibly_store
     /\ TrackSeen

SpecU == InitU /\ [][NextU]_allVars

-----------------------------------------------------------------------------
(* spec.md section 5: reader threads call read_pointer(), and "a reader    *)
(* observes either the pre- or post-update epoch atomically".  The value a *)
(* read_pointer() call returns was the read pointer at some instant of the *)
(* call.                                                                    *)
ReadPointerSnapshot ==
  rpRet # NoRead => rpRet \in rpSeen

=============================================================================
