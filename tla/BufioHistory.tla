----------------------------- MODULE BufioHistory -----------------------------
(***************************************************************************)
(* The reader of module Bufio with a history variable: the characters its  *)
(* caller has received so far.                                             *)
(***************************************************************************)
EXTENDS Bufio

VARIABLE got

hvars == <<file, pos, buffer, off, size, res, got>>

HInit == ReaderInit /\ got = <<>>

NextChar == bufio_next_char /\ got' = IF res' \in Byte THEN Append(got, res') ELSE got

HNext == (bufio_init /\ UNCHANGED got) \/ NextChar

HSpec == HInit /\ [][HNext]_hvars

\* A file of one or more whole chunks.
WholeChunks == Len(file) > 0 /\ \E k \in 0 .. Len(file) : Len(file) = k * BUFFER_SIZE

(* What bufio_next_char returned so far is the file from its start, byte by *)
(* byte and across every refill (line 48).  Only a file that fills its last *)
(* chunk can give one character more: the read at line 36 returns 0, and    *)
(* the first byte of the chunk before is returned again.                    *)
CharactersInOrder ==
  /\ \A i \in 1 .. Len(got) : i <= Len(file) => got[i] = file[i]
  /\ Len(got) > Len(file) => /\ WholeChunks
                             /\ Len(got) = Len(file) + 1
                             /\ got[Len(got)] = file[Len(file) - BUFFER_SIZE + 1]

(* BUFIO_EOF is returned when the whole file has been delivered (line 34),  *)
(* or because the next byte of the file is the one that promotes to it.     *)
EofExplained ==
  res = BUFIO_EOF => Len(got) >= Len(file) \/ file[Len(got) + 1] = BYTE_FF

=============================================================================
