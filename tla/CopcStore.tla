------------------------------ MODULE CopcStore ------------------------------
(***************************************************************************)
(* What a COPC file promises, without octree, chunks or positions: points  *)
(* are accepted while the file is written; when it is final, all that were *)
(* accepted are there to be read, at once, and nothing changes any more.   *)
(* After an I/O error nothing is promised: "the state of the Write is      *)
(* undefined" (writer.rs:402).                                             *)
(***************************************************************************)
CONSTANT Points

VARIABLES
  accepted,   \* the points handed over that the file has to keep
  published,  \* the points a reader finds
  final,      \* is the file complete?
  broken      \* has there been an I/O error?

storeVars == <<accepted, published, final, broken>>

StoreInit ==
  /\ accepted = {}
  /\ published = {}
  /\ final = FALSE
  /\ broken = FALSE

Accept(p) ==
  /\ ~final
  /\ p \notin accepted
  /\ accepted' = accepted \cup {p}
  /\ UNCHANGED <<published, final, broken>>

Publish ==
  /\ ~final
  /\ final' = TRUE
  /\ published' = accepted
  /\ UNCHANGED <<accepted, broken>>

\* An I/O error, and whatever comes after it.
Break ==
  /\ broken'
  /\ accepted' \subseteq Points
  /\ published' \subseteq Points
  /\ final' \in BOOLEAN

StoreNext ==
  \/ \E p \in Points : Accept(p)
  \/ Publish
  \/ Break

StoreSpec == StoreInit /\ [][StoreNext]_storeVars
=============================================================================
