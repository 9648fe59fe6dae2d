------------------------------- MODULE WalFile -------------------------------
(***************************************************************************)
(* A write-ahead log file of crates/rg-storage and what its readers make   *)
(* of it, shared by the single-file log (FileWal.tla) and the segments of  *)
(* the segmented one (SegmentedWal.tla).                                   *)
(*                                                                         *)
(* A record is one token; a record cut short by a failed or interrupted    *)
(* write is the token Torn, whose length or checksum never matches.  A     *)
(* file is its lines ended by a newline, each the sequence of tokens       *)
(* written before that newline, and the tokens after the last newline.     *)
(* Writers never end an empty line.                                        *)
(***************************************************************************)
EXTENDS Integers, Sequences

CONSTANT Torn    \* the token of an incomplete record

EmptyFile == [lines |-> <<>>, tail |-> <<>>]

WriteToken(f, t) == [f EXCEPT !.tail = Append(@, t)]

EndLine(f) == [lines |-> Append(f.lines, f.tail), tail |-> <<>>]

(***************************************************************************)
(* BufReader::lines yields an unterminated last line too, and              *)
(* decode_event_record looks at the first record of a line only, which     *)
(* must carry the sequence number that its position calls for.             *)
(***************************************************************************)
LinesRead(f) == IF f.tail = <<>> THEN f.lines ELSE Append(f.lines, f.tail)

Decodes(line, n) ==
  /\ \A i \in 1..Len(line) : line[i] # Torn
  /\ line[1].seq = n

Readable(f, first) ==
  \A n \in 1..Len(LinesRead(f)) : Decodes(LinesRead(f)[n], first + n - 1)

RecordsRead(f) == [n \in 1..Len(LinesRead(f)) |-> LinesRead(f)[n][1]]
=============================================================================
