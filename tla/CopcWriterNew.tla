---------------------------- MODULE CopcWriterNew ----------------------------
(***************************************************************************)
(* The construction of a writer (writer.rs 48-374): from_path checks the   *)
(* extension and creates the file; new checks the node sizes, sorts out    *)
(* the records of the source header, looks for a CRS, checks the bounds    *)
(* and the point format, builds the header of the file and writes it.      *)
(* Every check may end the construction with an error, and so may the      *)
(* libraries that build the header and write it.  An error the las library *)
(* raises is a LasError, and so is one of the stream while it writes the   *)
(* header; InvalidPointFormat is the las error the code raises itself.     *)
(*                                                                         *)
(* The arguments are chosen where the code first looks at them.  A record  *)
(* is known by the user and record id the code matches on.                 *)
(***************************************************************************)
EXTENDS Integers, Sequences, FiniteSets, SequencesExt

CONSTANTS
  Sizes,                  \* the node sizes a caller may ask for
  MIN_NODE_SIZE_DEFAULT,
  MAX_NODE_SIZE_DEFAULT,
  MaxRecords,             \* bound on the vlrs, and on the evlrs, of a header
  Counts,                 \* the numbers of points a source header may have
  ExtraBytes              \* the numbers of extra bytes of a point

ASSUME NewAssumption ==
  /\ Sizes \subseteq Int
  /\ MIN_NODE_SIZE_DEFAULT \in Nat /\ MAX_NODE_SIZE_DEFAULT \in Nat
  /\ 1 <= MIN_NODE_SIZE_DEFAULT
  /\ MIN_NODE_SIZE_DEFAULT < MAX_NODE_SIZE_DEFAULT
  /\ MaxRecords \in Nat
  /\ Counts \subseteq Nat /\ ExtraBytes \subseteq Nat

VARIABLES
  step,              \* what new looks at next
  outcome,           \* what it returned, "none" as long as it runs
  output,            \* what is written: "old", "empty", "torn" or "header"
  min_node_size,
  max_node_size,
  source,            \* the records of the source header
  vlrs,              \* the records of the new header
  evlrs,
  format,            \* its point data record format,
  extra_bytes,       \* the extra bytes of it, and those of the source,
  source_extra_bytes,
  record_length,     \* the length it states for a point,
  number_of_points,  \* and its number of points
  laz_items          \* what the laszip vlr says a point consists of

sizeVars   == <<min_node_size, max_node_size>>
recordVars == <<source, vlrs, evlrs>>
formatVars == <<format, extra_bytes, source_extra_bytes, record_length,
                number_of_points>>
vars == <<step, outcome, output, sizeVars, recordVars, formatVars, laz_items>>

Kinds == {"wkt", "geotiff", "info", "hierarchy", "laszip", "waveform", "other"}

Init ==
  /\ step = "start"
  /\ outcome = "none"
  /\ output = "old"
  /\ min_node_size = 0 /\ max_node_size = 0
  /\ source = {} /\ vlrs = <<>> /\ evlrs = <<>>
  /\ format = 0 /\ record_length = 0
  /\ extra_bytes = 0 /\ source_extra_bytes = 0
  /\ number_of_points = 0
  /\ laz_items = <<>>

Go(next) == step' = next /\ UNCHANGED outcome

Return(o) == step' = "end" /\ outcome' = o

-----------------------------------------------------------------------------
(* from_path, or a stream of the caller.                                   *)

\* File::create truncates a file that exists.
CreatedFor(is_copc_laz) == IF is_copc_laz THEN "empty" ELSE output

FromPath ==
  /\ step = "start"
  /\ \E is_copc_laz \in BOOLEAN :
       /\ output' = CreatedFor(is_copc_laz)
       /\ IF is_copc_laz THEN Go("sizes") ELSE Return("WrongCopcExtension")
  /\ UNCHANGED <<sizeVars, recordVars, formatVars, laz_items>>

\* The file cannot be created, or a stream has no position (writer.rs 117).
FromPathFails ==
  /\ step \in {"start", "sizes"}
  /\ Return("Io")
  /\ UNCHANGED <<output, sizeVars, recordVars, formatVars, laz_items>>

OnStream ==
  /\ step = "start"
  /\ Go("sizes")
  /\ UNCHANGED <<output, sizeVars, recordVars, formatVars, laz_items>>

-----------------------------------------------------------------------------
(* new.                                                                    *)

OrDefault(size, default) == IF size < 1 THEN default ELSE size

CheckSizes ==
  /\ step = "sizes"
  /\ \E min_size, max_size \in Sizes :
       LET min == OrDefault(min_size, MIN_NODE_SIZE_DEFAULT)
           max == OrDefault(max_size, MAX_NODE_SIZE_DEFAULT)
       IN  IF min >= max
           THEN Return("InvalidNodeSize") /\ UNCHANGED sizeVars
           ELSE /\ Go("records")
                /\ min_node_size' = min
                /\ max_node_size' = max
  /\ UNCHANGED <<output, recordVars, formatVars, laz_items>>

\* The loop over the records of the source.
Kept(passed, records) ==
  FoldLeft(LAMBDA kept, r : IF r \in passed THEN Append(kept, r) ELSE kept,
           <<>>, records)

\* Mutant: a hierarchy among the evlrs of the source is passed on.
Forwarded_Hierarchy(records) == Kept({"wkt", "other", "hierarchy"}, records)

\* The records passed on; those of a COPC, a LAZ or a waveform file describe
\* the source, and a geotiff CRS is converted.
Forwarded(records) == Kept({"wkt", "other"}, records)

CollectRecords ==
  /\ step = "records"
  /\ \E from_vlrs, from_evlrs \in BoundedSeq(Kinds, MaxRecords) :
       /\ source' = ToSet(from_vlrs) \cup ToSet(from_evlrs)
       /\ vlrs' = Forwarded(from_vlrs)
       /\ evlrs' = Forwarded(from_evlrs)
  /\ Go("crs")
  /\ UNCHANGED <<output, sizeVars, formatVars, laz_items>>

\* Mutant: the converted CRS is left out.
WithCrs_Unchanged(records) == records

WithCrs(records) == Append(records, "wkt")

\* Without a WKT CRS, a geotiff CRS whose code has a definition becomes one.
FindCrs ==
  /\ step = "crs"
  /\ \/ /\ "wkt" \in source
        /\ Go("bounds")
        /\ UNCHANGED vlrs
     \/ /\ "wkt" \notin source
        /\ \E is_defined \in IF "geotiff" \in source THEN BOOLEAN ELSE {FALSE} :
             IF is_defined
             THEN Go("bounds") /\ vlrs' = WithCrs(vlrs)
             ELSE Return("InvalidEPSGCode") /\ UNCHANGED vlrs
  /\ UNCHANGED <<output, sizeVars, source, evlrs, formatVars, laz_items>>

CheckBounds ==
  /\ step = "bounds"
  /\ \E is_normal \in BOOLEAN :
       IF is_normal THEN Go("format") ELSE Return("InvalidBounds")
  /\ UNCHANGED <<output, sizeVars, recordVars, formatVars, laz_items>>

\* The length of a point without extra bytes, by its format (the las crate).
PointLength(f) ==
  <<20, 28, 26, 34, 57, 63, 30, 36, 38, 59, 67>>[f + 1]

Upgraded(f) ==
  CASE f = 1 -> 6
    [] f = 3 -> 7
    [] OTHER -> f

\* Mutant: the gps time an upgrade adds is counted, as if it added one.
AddedLength_GpsTime(f) == IF f \in {1, 3} THEN 8 ELSE 0

AddedLength(f) == IF f \in {1, 3} THEN 2 ELSE 0

\* Mutant: the count in the part of the header for large files stays.
CountAfter_Large(legacy, large) == large

\* Both counts of the header are cleared, the legacy one and that of a large
\* file, which takes precedence.
CountAfter(legacy, large) == 0

\* Mutant: the formats of waveform data are let through with the others.
Supported_Waveform == {1, 3} \cup 6 .. 10

\* The formats of a COPC file and those upgraded to them.
Supported == {1, 3, 6, 7, 8}

\* What a point has beyond its format is taken for extra bytes.
CheckFormat ==
  /\ step = "format"
  /\ \/ /\ Go("build")
        /\ \E f \in Supported, extra \in ExtraBytes, legacy, large \in Counts :
             /\ format' = Upgraded(f)
             /\ source_extra_bytes' = extra
             /\ record_length' = PointLength(f) + extra + AddedLength(f)
             /\ extra_bytes' = record_length' - PointLength(format')
             /\ number_of_points' = CountAfter(legacy, large)
     \/ /\ \E f \in 0 .. 10 : f \notin Supported /\ Return("InvalidPointFormat")
        /\ UNCHANGED formatVars
     \/ Return("LasError") /\ UNCHANGED formatVars  \* header.into_raw
  /\ UNCHANGED <<output, sizeVars, recordVars, laz_items>>

\* The colour of a point in the laszip vlr, with infrared or without.
ColorItem == IF format \in {8, 10} THEN <<8>> ELSE <<6>>

\* The items of the laszip vlr and their lengths.
LazItems ==
  <<30>> \o (IF format \in {7, 8, 10} THEN ColorItem ELSE <<>>)
         \o (IF extra_bytes > 0 THEN <<extra_bytes>> ELSE <<>>)

\* The new header is put together, without a byte written.
BuildHeader ==
  /\ step = "build"
  /\ \/ /\ Go("write")
        /\ vlrs' = <<"info", "laszip">> \o vlrs
        /\ laz_items' = LazItems
     \/ Return("LasError") /\ UNCHANGED <<vlrs, laz_items>>
  /\ UNCHANGED <<output, sizeVars, source, evlrs, formatVars>>

\* The header and the vlrs are written, and the compressor made; the evlrs
\* follow when the file is closed.  The stream may fail, a record may not be
\* encoded after others were written, and the compressor refuse the items.
WriteHeader ==
  /\ step = "write"
  /\ \/ output' = "header" /\ Return("Ok")
     \/ /\ output' \in {output, "torn"}
        /\ \E o \in {"Io", "LasError", "LasZipError"} : Return(o)
  /\ UNCHANGED <<sizeVars, recordVars, formatVars, laz_items>>

Next ==
  \/ FromPath \/ FromPathFails \/ OnStream
  \/ CheckSizes \/ CollectRecords \/ FindCrs \/ CheckBounds \/ CheckFormat
  \/ BuildHeader \/ WriteHeader

Spec == Init /\ [][Next]_vars

-----------------------------------------------------------------------------
(* Properties.                                                             *)

\* The records of a closed file in the order a reader has them: close puts
\* the hierarchy in front of the forwarded evlrs (writer.rs 572-580).
RecordsOfFile == vlrs \o <<"hierarchy">> \o evlrs

Total(items) == FoldLeft(LAMBDA x, y : x + y, 0, items)

(***************************************************************************)
(* What the writer and the proofs about it assume of its sizes, and that   *)
(* it starts with no point: close tells an empty file by the header's      *)
(* count, whichever of its two fields the source header had it in.         *)
(***************************************************************************)
WriterAssumptions ==
  outcome = "Ok" =>
    /\ 1 <= min_node_size /\ min_node_size < max_node_size
    /\ number_of_points = 0

(***************************************************************************)
(* A reader takes the last info, laszip and hierarchy record it finds.  In *)
(* a file of the writer there is one of each, its own, whatever records    *)
(* the source header had: a COPC file that is rewritten has all three.     *)
(***************************************************************************)
ReaderFindsOurs ==
  outcome = "Ok" =>
    \A kind \in {"info", "laszip", "hierarchy"} :
      Cardinality({ i \in DOMAIN RecordsOfFile : RecordsOfFile[i] = kind }) = 1

(***************************************************************************)
(* A written header has a WKT CRS, as its format requires, and no other,   *)
(* whether the source had it as a vlr, as an evlr or as a geotiff CRS.     *)
(***************************************************************************)
CrsIsWkt ==
  outcome = "Ok" =>
    /\ "wkt" \in ToSet(RecordsOfFile)
    /\ "geotiff" \notin ToSet(RecordsOfFile)

(***************************************************************************)
(* The length of a point is told three times, by the format with its extra *)
(* bytes, by the header's record length, and by the items of the laszip    *)
(* vlr, by which the compressor cuts a buffer into points: they agree, and *)
(* an upgrade of the format does not turn its new fields into extra bytes. *)
(***************************************************************************)
PointLengthsAgree ==
  outcome = "Ok" =>
    /\ extra_bytes = source_extra_bytes
    /\ record_length = Total(laz_items)

(***************************************************************************)
(* What bytes are written, of a whole header or of a part of one that an   *)
(* error cut short, are those of a file that may be: every argument was    *)
(* checked and adapted before.  So an argument in error leaves no byte     *)
(* behind, and a wrong file name not even an empty file; an error that     *)
(* comes later, of the stream or of a record, may leave a torn header.     *)
(***************************************************************************)
BytesAreChecked ==
  /\ output \in {"torn", "header"} =>
       /\ 1 <= min_node_size /\ min_node_size < max_node_size
       /\ "wkt" \in ToSet(RecordsOfFile)
       /\ format \in {6, 7, 8}
       /\ number_of_points = 0
  /\ outcome \in {"InvalidNodeSize", "InvalidEPSGCode", "InvalidBounds",
                  "InvalidPointFormat"} => output \in {"old", "empty"}
  /\ outcome = "WrongCopcExtension" => output = "old"
=============================================================================
