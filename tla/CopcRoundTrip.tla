--------------------------- MODULE CopcRoundTrip ----------------------------
(***************************************************************************)
(* The writer and the reader on one stream (src/tests/roundtrip.rs): a     *)
(* writer writes a file, closes it and is dropped, and leaves the stream   *)
(* at the start of its data; a reader is opened there and queried.  The    *)
(* two share nothing but the stream.                                       *)
(***************************************************************************)
EXTENDS CopcWriter

CONSTANTS
  Scale, RawMax,  \* the transforms of the header
  Queries         \* what the reader is asked

VARIABLES start, reader_info, page, hierarchy_entries, phase, reader_answer,
          query, node_stack, satisfying_nodes, reader_nodes, node_points_left,
          total_points_left, decompressor, returned, done, read_faults

readerVars ==
  <<start, reader_info, page, hierarchy_entries, phase, reader_answer, query,
    node_stack, satisfying_nodes, reader_nodes, node_points_left,
    total_points_left, decompressor, returned, done, read_faults>>

\* What the reader does not touch.
writerVars ==
  <<is_closed, octreeVars, open_chunks, hierarchy, chunkVars, statVars,
    pc, result, callVars, ghostVars>>

Reader == INSTANCE CopcReader
  WITH read <- stream, copc_info <- reader_info, answer <- reader_answer,
       nodes <- reader_nodes, Files <- {}, MaxReadFaults <- 0

ASSUME RoundTripAssumption ==
  /\ Scale \in Nat \ {0} /\ RawMax \in Nat
  /\ \A q \in Queries : Reader!IsQuery(q)

RoundTripInit == Init /\ Reader!ReaderInit

Writing == Next /\ UNCHANGED readerVars

\* The file is read when its writer is gone.
Reading ==
  /\ pc = "dropped"
  /\ is_closed
  /\ Reader!Next
  /\ UNCHANGED writerVars

RoundTripNext == Writing \/ Reading

RoundTripSpec == RoundTripInit /\ [][RoundTripNext]_<<vars, readerVars>>

-----------------------------------------------------------------------------
(* Properties.                                                             *)

Written == { p \in taken : Valid(p) /\ p \in Encodable }

\* A full resolution query has been iterated to its end.
FullyRead == phase = "iterating" /\ done /\ query.levels.select = "All"

(***************************************************************************)
(* tests/roundtrip.rs: "every written point must round-trip".  A full      *)
(* resolution query on a file of the writer returns every point it wrote   *)
(* inside the bounds, once, and no other.  The writer's chunks, entries    *)
(* and records, the reader's walk, which stops at a key without an entry,  *)
(* and the rounding of coordinates all have a part in this.                *)
(***************************************************************************)
EveryWrittenPointRoundTrips ==
  FullyRead =>
    \A p \in Points :
      /\ p \notin Written => returned[p] = 0
      /\ p \in Written =>
           returned[p] = 1 \/ \E b \in query.bounds :
                                ~BoundsContainPoint(b, Position[p])
      /\ returned[p] <= 1

(***************************************************************************)
(* reader.rs: "to be able to read a copc file not starting at the          *)
(* beginning of the read stream".  The reader opens what the writer        *)
(* closed, wherever it starts, and finds a record or a chunk wherever it   *)
(* looks for one.                                                          *)
(***************************************************************************)
WrittenFilesOpen == phase \notin {"failed", "garbage"}

(***************************************************************************)
(* The header of a written file counts the points a reader gets: as many   *)
(* as the iterator of a full resolution query announces in size_hint.      *)
(***************************************************************************)
HeaderCountsWhatIsRead ==
  FullyRead /\ query.bounds = {} /\ Points \subseteq Encodable =>
    number_of_points = Cardinality({ p \in Points : returned[p] > 0 })
=============================================================================
