---------------------------- MODULE DurableQueue ----------------------------
(***************************************************************************)
(* What server/storage/batchedWriter.ts promises whoever records through   *)
(* it: the store receives exactly the accepted records, in the order they  *)
(* were accepted, until the first failure, which is final; and close()     *)
(* ends only with everything stored or the failure on record.              *)
(* BatchedWriter implements this module.                                   *)
(***************************************************************************)
EXTENDS Integers, Sequences

CONSTANT Records

VARIABLES accepted, stored, failed, state

queueVars == <<accepted, stored, failed, state>>

Init == accepted = <<>> /\ stored = <<>> /\ failed = FALSE /\ state = "open"

(* A step may also be the end of a pending close(), given done. *)
MayClose(done) ==
  \/ state' = state
  \/ state = "closing" /\ state' = "closed" /\ done

Accept ==
  /\ state = "open" /\ ~failed
  /\ \E r \in Records : accepted' = Append(accepted, r)
  /\ UNCHANGED <<stored, failed, state>>

Store ==
  /\ ~failed
  /\ \E n \in Len(stored) + 1 .. Len(accepted) :
       stored' = SubSeq(accepted, 1, n) /\ MayClose(n = Len(accepted))
  /\ UNCHANGED <<accepted, failed>>

Fail == ~failed /\ failed' = TRUE /\ MayClose(TRUE) /\ UNCHANGED <<accepted, stored>>

Close ==
  /\ state = "open"
  /\ state' = IF failed THEN "closed" ELSE "closing"
  /\ UNCHANGED <<accepted, stored, failed>>

Closed ==
  /\ state = "closing" /\ stored = accepted
  /\ state' = "closed"
  /\ UNCHANGED <<accepted, stored, failed>>

Next == Accept \/ Store \/ Fail \/ Close \/ Closed

Spec == Init /\ [][Next]_queueVars
=============================================================================
