---------------------------- MODULE IngestPromise ---------------------------
(***************************************************************************)
(* What the ingest path promises of a record it accepted, without saying   *)
(* how: a record goes from memory to the storage backend, perhaps by way   *)
(* of the journal; storage never gives a record back; and a journaled      *)
(* record is given up only to make room for newer ones.                    *)
(***************************************************************************)
CONSTANT Records

VARIABLE place  \* where each record is

Places == {"outside", "memory", "journal", "stored", "lost"}

At(p) == {r \in Records : place[r] = p}

Move(rs, p) == [r \in Records |-> IF r \in rs THEN p ELSE place[r]]

Init == place = [r \in Records |-> "outside"]

Accept(r) == r \in At("outside") /\ place' = Move({r}, "memory")

(* Also for records given up before: the insert of a batch that was        *)
(* forgotten may still arrive.                                             *)
Save(rs) ==
  rs \cap At("outside") = {} /\ place' = Move(rs, "stored")

(* A batch rs goes to the journal; the journal gives up what no longer     *)
(* fits, which may include the batch itself. Records of rs that storage    *)
(* has already, without the writer knowing, stay stored.                   *)
Spill(rs, dropped) ==
  /\ rs # {}
  /\ rs \subseteq At("memory") \cup At("stored")
  /\ dropped \subseteq At("journal") \cup (rs \cap At("memory"))
  /\ place' = [r \in Records |->
                 CASE r \in dropped -> "lost"
                   [] r \in (rs \cap At("memory")) \ dropped -> "journal"
                   [] OTHER -> place[r]]

(* The process ends, the writer is stopped, or a spill fails. *)
Lose(rs) == rs \subseteq At("memory") /\ place' = Move(rs, "lost")

Next ==
  \/ \E r \in Records : Accept(r)
  \/ \E rs \in SUBSET Records : Save(rs) \/ Lose(rs)
  \/ \E rs, dropped \in SUBSET Records : Spill(rs, dropped)

Spec == Init /\ [][Next]_place
=============================================================================
