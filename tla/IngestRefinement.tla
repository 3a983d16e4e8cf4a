-------------------------- MODULE IngestRefinement --------------------------
(***************************************************************************)
(* The batch writer implements the promise of IngestPromise.               *)
(***************************************************************************)
EXTENDS IngestWriter

(* Where the writer has brought a record. One that is in storage is there, *)
(* whatever copies of it are still to be inserted again.                   *)
Place ==
  [r \in Records |->
     CASE r \in Stored               -> "stored"
       [] r \in Journaled \ Stored   -> "journal"
       [] r \in (Queued \cup batch) \ (Stored \cup Journaled) -> "memory"
       [] r \in accepted \ Kept      -> "lost"
       [] OTHER                      -> "outside"]

Promise == INSTANCE IngestPromise WITH place <- Place

(* Every behaviour of the writer, with its cancellations, crashes, replays *)
(* and lost answers, is one the promise allows: in particular a record     *)
(* never leaves the journal but for storage or to make room (writer.py:    *)
(* _flush, _write_journal, _enforce_journal_cap, _replay_file, stop).      *)
ImplementsPromise == Promise!Spec
=============================================================================
