-------------------------- MODULE ConfigFileProofs --------------------------
(***************************************************************************)
(* For every file, every buffer size and all length limits: the reader     *)
(* hands out the file in order, the parser stays within its buffers, and   *)
(* the entries it makes are those their blocks describe.                   *)
(***************************************************************************)
EXTENDS ConfigFile, TLAPS

\* Most leaves are first-order reasoning about sets and functions, which is for
\* Zenon; a leaf with arithmetic, records or sequences calls for SMT by name.
USE ZenonT(60)

Aligned(n) == \E k \in Nat : n = k * BUFFER_SIZE

\* Before bufio_init nothing has been read.
Fresh == res = "unread" => pos = 0 /\ size = 0 /\ off = 0 /\ buffer = <<>> /\ got = <<>>

\* While the caller goes on, the buffer is a window of the file that ends at pos.
Window ==
  Running =>
    /\ Len(buffer) >= size
    /\ \A i \in 1 .. size : buffer[i] = file[pos - size + i]
    /\ Aligned(pos - size)
    /\ size <= pos
    /\ size < BUFFER_SIZE => pos = Len(file)
    /\ \/ off <= size /\ Len(got) = pos - size + off
       \/ off = 1 /\ size = 0 /\ pos = Len(file) /\ Len(got) = Len(file) + 1

HInv ==
  /\ ReaderTypeOK /\ got \in Seq(Byte)
  /\ Fresh /\ Window
  /\ CharactersInOrder /\ EofExplained

-----------------------------------------------------------------------------

\* The chunk after an aligned one is aligned.
LEMMA AlignedStep ==
  ASSUME NEW n \in Nat, Aligned(n)
  PROVE  Aligned(n + BUFFER_SIZE)
<1>1. PICK k \in Nat : n = k * BUFFER_SIZE  BY DEF Aligned
<1>2. n + BUFFER_SIZE = (k + 1) * BUFFER_SIZE  BY <1>1, SizeAssumption, SMTT(60)
<1>3. k + 1 \in Nat  BY SMTT(60)
<1> QED  BY <1>2, <1>3 DEF Aligned

\* A file that ends where a chunk ends consists of whole chunks.
LEMMA AlignedWhole ==
  ASSUME ReaderTypeOK, Len(file) > 0, Aligned(Len(file))
  PROVE  WholeChunks
<1>1. PICK k \in Nat : Len(file) = k * BUFFER_SIZE  BY DEF Aligned
<1>2. Len(file) \in Nat  BY SMTT(60) DEF ReaderTypeOK
<1>3. k <= k * BUFFER_SIZE  BY SizeAssumption, SMTT(60)
<1>4. k \in 0 .. Len(file)  BY <1>1, <1>2, <1>3, SMTT(60)
<1> QED  BY <1>1, <1>4 DEF WholeChunks

\* What a read puts into the buffer.
LEMMA Refilling ==
  ASSUME ReaderTypeOK
  PROVE  /\ nread \in 0 .. BUFFER_SIZE /\ pos + nread \in 0 .. Len(file)
         /\ nread < BUFFER_SIZE => pos + nread = Len(file)
         /\ Refilled \in Seq(Byte)
         /\ Len(Refilled) <= BUFFER_SIZE /\ Len(Refilled) >= nread /\ Len(Refilled) >= Len(buffer)
         /\ \A i \in 1 .. nread : Refilled[i] = file[pos + i]
         /\ \A i \in nread + 1 .. Len(buffer) : Refilled[i] = buffer[i]
<1> DEFINE n == IF nread > Len(buffer) THEN nread ELSE Len(buffer)
<1>1. /\ Len(file) \in Nat /\ Len(buffer) \in Nat /\ pos \in 0 .. Len(file)
      /\ BUFFER_SIZE \in Nat /\ Len(buffer) <= BUFFER_SIZE
  BY SizeAssumption, SMTT(60) DEF ReaderTypeOK
<1>2. /\ nread \in 0 .. BUFFER_SIZE /\ pos + nread \in 0 .. Len(file)
      /\ nread < BUFFER_SIZE => pos + nread = Len(file)
  BY <1>1, SMTT(60) DEF nread
<1>3. n \in Nat /\ n <= BUFFER_SIZE /\ n >= nread /\ n >= Len(buffer)  BY <1>1, <1>2, SMTT(60)
<1>4. Refilled = [i \in 1 .. n |-> IF i <= nread THEN file[pos + i] ELSE buffer[i]]
  BY DEF Refilled
<1> HIDE DEF n
<1>5. \A i \in 1 .. n : (IF i <= nread THEN file[pos + i] ELSE buffer[i]) \in Byte
  <2> SUFFICES ASSUME NEW i \in 1 .. n
               PROVE  (IF i <= nread THEN file[pos + i] ELSE buffer[i]) \in Byte
    OBVIOUS
  <2>1. CASE i <= nread
    <3>1. pos + i \in 1 .. Len(file)  BY <1>1, <1>2, <1>3, <2>1, SMTT(60)
    <3> QED  BY <2>1, <3>1, SMTT(60) DEF ReaderTypeOK
  <2>2. CASE ~(i <= nread)
    <3>1. i \in 1 .. Len(buffer)  BY <1>1, <1>2, <1>3, <2>2, SMTT(60) DEF n
    <3> QED  BY <2>2, <3>1, SMTT(60) DEF ReaderTypeOK
  <2> QED  BY <2>1, <2>2
<1>6. Refilled \in Seq(Byte) /\ Len(Refilled) = n  BY <1>3, <1>4, <1>5, SMTT(60)
<1>7. \A i \in 1 .. nread : Refilled[i] = file[pos + i]  BY <1>2, <1>3, <1>4, SMTT(60)
<1>8. \A i \in nread + 1 .. Len(buffer) : Refilled[i] = buffer[i]  BY <1>1, <1>2, <1>3, <1>4, SMTT(60)
<1> QED  BY <1>2, <1>3, <1>6, <1>7, <1>8

\* promote is the identity but on the two bytes that look like results.
LEMMA Promotion ==
  ASSUME NEW x \in Byte
  PROVE  /\ promote(x) \in Byte => promote(x) = x
         /\ promote(x) \in Byte \cup {BUFIO_EOF, BUFIO_ERR}
         /\ promote(x) = BUFIO_EOF => x = BYTE_FF
<1>1. BUFIO_EOF \notin Byte /\ BUFIO_ERR \notin Byte /\ BUFIO_EOF # BUFIO_ERR /\ BYTE_FF # BYTE_FE
  BY ResultAssumption
<1>2. CASE x = BYTE_FF  BY <1>1, <1>2 DEF promote
<1>3. CASE x = BYTE_FE
  <2>1. promote(x) = BUFIO_ERR  BY <1>1, <1>3 DEF promote
  <2> QED  BY <1>1, <2>1
<1>4. CASE x # BYTE_FF /\ x # BYTE_FE
  <2>1. promote(x) = x  BY <1>4 DEF promote
  <2> QED  BY <1>1, <2>1
<1> QED  BY <1>2, <1>3, <1>4

\* The character at the next position of the file, or the one returned once too often.
Successor(x) ==
  /\ Len(got) < Len(file) => x = file[Len(got) + 1]
  /\ Len(got) >= Len(file) => /\ Len(got) = Len(file) /\ WholeChunks
                              /\ x = file[Len(file) - BUFFER_SIZE + 1]

\* Delivering that character keeps what was delivered in order.
LEMMA Delivered ==
  ASSUME HInv, NEW x \in Byte, Successor(x), UNCHANGED file,
         res' = promote(x), got' = IF res' \in Byte THEN Append(got, res') ELSE got
  PROVE  /\ CharactersInOrder' /\ EofExplained'
         /\ got' \in Seq(Byte) /\ res' \in Byte \cup {BUFIO_EOF, BUFIO_ERR}
         /\ Running' => Len(got') = Len(got) + 1
<1> USE DEF HInv
<1>1. /\ res' \in Byte => res' = x
      /\ res' \in Byte \cup {BUFIO_EOF, BUFIO_ERR}
      /\ res' = BUFIO_EOF => x = BYTE_FF
  BY Promotion
<1>2. Len(got) \in Nat /\ Len(file) \in Nat  BY SMTT(60) DEF ReaderTypeOK
<1>3. CASE res' \in Byte
  <2>1. got' = Append(got, x)  BY <1>1, <1>3
  <2>2. got' \in Seq(Byte) /\ Len(got') = Len(got) + 1 /\ got'[Len(got) + 1] = x
        /\ \A i \in 1 .. Len(got) : got'[i] = got[i]
    BY <2>1, SMTT(60)
  <2>3. \A i \in 1 .. Len(got') : i <= Len(file)' => got'[i] = file'[i]
    <3> SUFFICES ASSUME NEW i \in 1 .. Len(got'), i <= Len(file)
                 PROVE  got'[i] = file[i]
      BY <1>2
    <3>1. CASE i = Len(got) + 1  BY <1>2, <2>2, <3>1, SMTT(60) DEF Successor
    <3>2. CASE i # Len(got) + 1
      <4>1. i \in 1 .. Len(got)  BY <1>2, <2>2, <3>2, SMTT(60)
      <4> QED  BY <2>2, <4>1 DEF CharactersInOrder
    <3> QED  BY <3>1, <3>2
  <2>4. ASSUME Len(got') > Len(file)
        PROVE  WholeChunks /\ Len(got') = Len(file) + 1 /\ got'[Len(got')] = file[Len(file) - BUFFER_SIZE + 1]
    <3>1. Len(got) >= Len(file)  BY <1>2, <2>2, <2>4, SMTT(60)
    <3> QED  BY <3>1, <2>2 DEF Successor
  <2>5. CharactersInOrder'  BY <2>3, <2>4 DEF CharactersInOrder, WholeChunks
  <2>6. res' # BUFIO_EOF  BY <1>3, ResultAssumption
  <2> QED  BY <1>1, <2>2, <2>5, <2>6 DEF EofExplained
<1>4. CASE res' \notin Byte
  <2>1. got' = got  BY <1>4
  <2>2. CharactersInOrder'  BY <2>1 DEF CharactersInOrder, WholeChunks
  <2>3. EofExplained'  BY <1>1, <1>2, <2>1, SMTT(60) DEF EofExplained, Successor
  <2>4. ~Running'  BY <1>1, <1>4 DEF Running
  <2> QED  BY <1>1, <2>1, <2>2, <2>3, <2>4
<1> QED  BY <1>3, <1>4

\* A read in the course of bufio_next_char (lines 36 to 45).
LEMMA RefillKeeps ==
  ASSUME HInv, Running, off >= size, size = BUFFER_SIZE, Refill, UNCHANGED file,
         got' = IF res' \in Byte THEN Append(got, res') ELSE got
  PROVE  HInv'
<1> USE DEF HInv
<1>1. /\ Len(got) \in Nat /\ Len(file) \in Nat /\ Len(buffer) \in Nat
      /\ BUFFER_SIZE \in Nat \ {0} /\ pos \in 0 .. Len(file) /\ file \in Seq(Byte)
  BY SizeAssumption, SMTT(60) DEF ReaderTypeOK
<1>2. off = size /\ Len(got) = pos /\ Len(buffer) = BUFFER_SIZE /\ size <= pos /\ Aligned(pos - size)
  BY <1>1, SMTT(60) DEF Window, ReaderTypeOK
<1>3. Aligned(pos)
  <2>1. pos - size \in Nat /\ (pos - size) + BUFFER_SIZE = pos  BY <1>1, <1>2, SMTT(60)
  <2> QED  BY <1>2, <2>1, AlignedStep
<1>4. CASE off' = 0 /\ size' = 0 /\ res' = BUFIO_ERR /\ UNCHANGED <<pos, buffer>>
  <2>1. got' = got  BY <1>4, ResultAssumption
  <2>2. CharactersInOrder'  BY <2>1 DEF CharactersInOrder, WholeChunks
  <2>3. EofExplained' /\ Fresh' /\ Window'  BY <1>4, ResultAssumption DEF EofExplained, Fresh, Window, Running
  <2>4. ReaderTypeOK'  BY <1>1, <1>4, SMTT(60) DEF ReaderTypeOK, Result
  <2> QED  BY <2>1, <2>2, <2>3, <2>4
<1>5. CASE /\ buffer' = Refilled /\ pos' = pos + nread /\ size' = nread
           /\ off' = 1 /\ res' = promote(Refilled[1])
  <2> DEFINE x == Refilled[1]
  <2>1. /\ nread \in 0 .. BUFFER_SIZE /\ pos + nread \in 0 .. Len(file)
        /\ nread < BUFFER_SIZE => pos + nread = Len(file)
        /\ Refilled \in Seq(Byte)
        /\ Len(Refilled) <= BUFFER_SIZE /\ Len(Refilled) >= nread /\ Len(Refilled) >= Len(buffer)
        /\ \A i \in 1 .. nread : Refilled[i] = file[pos + i]
        /\ \A i \in nread + 1 .. Len(buffer) : Refilled[i] = buffer[i]
    BY Refilling
  <2>2. x \in Byte
    <3>1. 1 \in 1 .. Len(Refilled)  BY <1>1, <1>2, <2>1, SMTT(60)
    <3> QED  BY <2>1, <3>1, SMTT(60)
  <2>3. nread = 0 <=> pos = Len(file)  BY <1>1, <2>1, SMTT(60) DEF nread
  <2>4. Successor(x)
    <3>1. CASE nread = 0
      <4>1. pos = Len(file) /\ Len(file) > 0  BY <1>1, <1>2, <2>3, <3>1, SMTT(60)
      <4>2. WholeChunks  BY <1>3, <4>1, AlignedWhole
      <4>3. x = buffer[1]  BY <1>1, <1>2, <2>1, <3>1, SMTT(60)
      <4>4. buffer[1] = file[pos - size + 1]  BY <1>1, SMTT(60) DEF Window
      <4> QED  BY <1>1, <1>2, <4>1, <4>2, <4>3, <4>4, SMTT(60) DEF Successor
    <3>2. CASE nread # 0
      <4>1. Len(got) < Len(file)  BY <1>1, <1>2, <2>1, <2>3, <3>2, SMTT(60)
      <4>2. x = file[pos + 1]  BY <2>1, <3>2, SMTT(60)
      <4> QED  BY <1>1, <1>2, <4>1, <4>2, SMTT(60) DEF Successor
    <3> QED  BY <3>1, <3>2
  <2>5. /\ CharactersInOrder' /\ EofExplained'
        /\ got' \in Seq(Byte) /\ res' \in Byte \cup {BUFIO_EOF, BUFIO_ERR}
        /\ Running' => Len(got') = Len(got) + 1
    <3> HIDE DEF x
    <3>1. res' = promote(x)  BY <1>5 DEF x
    <3> QED  BY <2>2, <2>4, <3>1, Delivered
  <2>6. ReaderTypeOK'  BY <1>1, <1>5, <2>1, <2>5, SMTT(60) DEF ReaderTypeOK, Result
  <2>7. Fresh'  BY <2>5, ResultAssumption DEF Fresh
  <2>8. Window'
    <3> SUFFICES ASSUME Running' PROVE Window'  BY DEF Window
    <3>1. \A i \in 1 .. size' : buffer'[i] = file'[pos' - size' + i]
      <4> SUFFICES ASSUME NEW i \in 1 .. nread PROVE Refilled[i] = file[(pos + nread) - nread + i]
        BY <1>5
      <4>1. (pos + nread) - nread + i = pos + i  BY <1>1, <2>1, SMTT(60)
      <4> QED  BY <2>1, <4>1
    <3>2. pos' - size' = pos  BY <1>1, <1>5, <2>1, SMTT(60)
    <3>3. Aligned(pos' - size')  BY <1>3, <3>2
    <3>4. Len(got') = pos + 1  BY <1>2, <2>5
    <3>5. \/ off' <= size' /\ Len(got') = pos' - size' + off'
          \/ off' = 1 /\ size' = 0 /\ pos' = Len(file)' /\ Len(got') = Len(file)' + 1
      BY <1>1, <1>5, <2>1, <2>3, <3>2, <3>4, SMTT(60)
    <3>6. Len(buffer') >= size' /\ size' <= pos' /\ (size' < BUFFER_SIZE => pos' = Len(file)')
      BY <1>1, <1>5, <2>1, SMTT(60)
    <3> QED  BY <3>1, <3>3, <3>5, <3>6 DEF Window, Aligned
  <2> QED  BY <2>5, <2>6, <2>7, <2>8
<1> QED  BY <1>4, <1>5 DEF Refill

\* A character that is in the buffer already (line 48).
LEMMA DeliverKeeps ==
  ASSUME HInv, Running, off < size, Deliver, UNCHANGED file,
         got' = IF res' \in Byte THEN Append(got, res') ELSE got
  PROVE  HInv'
<1> USE DEF HInv
<1> DEFINE x == buffer[off + 1]
<1>1. /\ Len(got) \in Nat /\ Len(file) \in Nat /\ Len(buffer) \in Nat /\ BUFFER_SIZE \in Nat \ {0}
      /\ pos \in 0 .. Len(file) /\ size \in 0 .. BUFFER_SIZE /\ off \in 0 .. BUFFER_SIZE
  BY SizeAssumption, SMTT(60) DEF ReaderTypeOK
<1>2. Len(got) = pos - size + off /\ Len(buffer) >= size /\ off + 1 \in 1 .. size /\ size <= pos
  BY <1>1, SMTT(60) DEF Window
<1>3. x \in Byte
  <2>1. off + 1 \in 1 .. Len(buffer)  BY <1>1, <1>2, SMTT(60)
  <2> QED  BY <2>1, SMTT(60) DEF ReaderTypeOK
<1>4. Successor(x)
  <2>1. x = file[pos - size + (off + 1)]  BY <1>2 DEF Window
  <2>2. pos - size + (off + 1) = Len(got) + 1 /\ Len(got) < Len(file)  BY <1>1, <1>2, SMTT(60)
  <2> QED  BY <1>1, <2>1, <2>2, SMTT(60) DEF Successor
<1>5. /\ CharactersInOrder' /\ EofExplained'
      /\ got' \in Seq(Byte) /\ res' \in Byte \cup {BUFIO_EOF, BUFIO_ERR}
      /\ Running' => Len(got') = Len(got) + 1
  <2>1. res' = promote(x)  BY DEF Deliver
  <2> HIDE DEF x
  <2> QED  BY <1>3, <1>4, <2>1, Delivered
<1>6. off' = off + 1 /\ UNCHANGED <<pos, buffer, size>>  BY DEF Deliver
<1>7. ReaderTypeOK'  BY <1>1, <1>5, <1>6, SMTT(60) DEF ReaderTypeOK, Result
<1>8. Fresh'  BY <1>5, ResultAssumption DEF Fresh
<1>9. Window'
  <2> SUFFICES ASSUME Running' PROVE Window'  BY DEF Window
  <2>1. off' <= size' /\ Len(got') = pos' - size' + off'  BY <1>1, <1>2, <1>5, <1>6, SMTT(60)
  <2> QED  BY <1>6, <2>1 DEF Window, Aligned
<1> QED  BY <1>5, <1>7, <1>8, <1>9

\* The end of the last chunk (lines 31 to 34).
LEMMA EndKeeps ==
  ASSUME HInv, Running, off >= size, size < BUFFER_SIZE, res' = BUFIO_EOF,
         UNCHANGED <<file, pos, buffer, off, size>>,
         got' = IF res' \in Byte THEN Append(got, res') ELSE got
  PROVE  HInv'
<1> USE DEF HInv
<1>1. got' = got  BY ResultAssumption
<1>2. Len(got) >= Len(file)  BY SizeAssumption, SMTT(60) DEF Window, ReaderTypeOK
<1>3. CharactersInOrder'  BY <1>1 DEF CharactersInOrder, WholeChunks
<1>4. EofExplained'  BY <1>1, <1>2 DEF EofExplained
<1>5. Fresh' /\ Window'  BY ResultAssumption DEF Fresh, Window, Running
<1>6. ReaderTypeOK'  BY DEF ReaderTypeOK, Result
<1> QED  BY <1>1, <1>3, <1>4, <1>5, <1>6

\* bufio_init reads the first chunk or gives up.
LEMMA InitKeeps ==
  ASSUME HInv, bufio_init, UNCHANGED got
  PROVE  HInv'
<1> USE DEF HInv
<1>1. /\ pos = 0 /\ got = <<>> /\ Len(got) = 0 /\ UNCHANGED <<file, got>>
      /\ Len(file) \in Nat /\ BUFFER_SIZE \in Nat
  BY SizeAssumption, SMTT(60) DEF bufio_init, Fresh, ReaderTypeOK
<1>2. CharactersInOrder'  BY <1>1, SMTT(60) DEF CharactersInOrder
<1>3. CASE res' = "null" /\ UNCHANGED <<pos, buffer, off, size>>
  <2>1. Fresh' /\ Window' /\ EofExplained'
    BY <1>3, ResultAssumption DEF Fresh, Window, Running, EofExplained
  <2>2. ReaderTypeOK'  BY <1>1, <1>3 DEF ReaderTypeOK, Result
  <2> QED  BY <1>1, <1>2, <2>1, <2>2
<1>4. CASE buffer' = Refilled /\ pos' = pos + nread /\ off' = 0 /\ size' = nread /\ res' = "ready"
  <2>1. /\ nread \in 0 .. BUFFER_SIZE /\ pos + nread \in 0 .. Len(file)
        /\ nread < BUFFER_SIZE => pos + nread = Len(file)
        /\ Refilled \in Seq(Byte)
        /\ Len(Refilled) <= BUFFER_SIZE /\ Len(Refilled) >= nread
        /\ \A i \in 1 .. nread : Refilled[i] = file[pos + i]
    BY Refilling
  <2>2. ReaderTypeOK'  BY <1>1, <1>4, <2>1, SMTT(60) DEF ReaderTypeOK, Result
  <2>3. Fresh' /\ EofExplained'  BY <1>4, ResultAssumption DEF Fresh, EofExplained
  <2>4. Window'
    <3>1. pos' - size' = 0 /\ size' <= pos' /\ Len(buffer') >= size'  BY <1>1, <1>4, <2>1, SMTT(60)
    <3>2. Aligned(pos' - size')
      <4>1. 0 = 0 * BUFFER_SIZE  BY <1>1, SMTT(60)
      <4> QED  BY <3>1, <4>1, SMTT(60) DEF Aligned
    <3>3. \A i \in 1 .. size' : buffer'[i] = file'[pos' - size' + i]
      <4> SUFFICES ASSUME NEW i \in 1 .. nread PROVE Refilled[i] = file[pos' - size' + i]
        BY <1>1, <1>4
      <4>1. pos' - size' + i = pos + i  BY <1>1, <2>1, <3>1
      <4> QED  BY <2>1, <4>1
    <3>4. off' <= size' /\ Len(got') = pos' - size' + off'  BY <1>1, <1>4, <2>1, <3>1, SMTT(60)
    <3>5. size' < BUFFER_SIZE => pos' = Len(file)'  BY <1>1, <1>4, <2>1
    <3> QED  BY <3>1, <3>2, <3>3, <3>4, <3>5 DEF Window, Aligned
  <2> QED  BY <1>1, <1>2, <2>2, <2>3, <2>4
<1> QED  BY <1>3, <1>4 DEF bufio_init

\* Nothing has been read before bufio_init.
LEMMA HInitial == ASSUME HInit PROVE HInv
<1> USE DEF HInit, ReaderInit
<1>1. file \in Seq(Byte) /\ Len(file) \in Nat  BY SMTT(60)
<1>2. ReaderTypeOK  BY <1>1, SizeAssumption, SMTT(60) DEF ReaderTypeOK, Result
<1>3. Fresh /\ Window /\ EofExplained  BY ResultAssumption DEF Fresh, Window, EofExplained, Running
<1>4. got \in Seq(Byte) /\ Len(got) = 0  BY SMTT(60)
<1>5. CharactersInOrder  BY <1>1, <1>4, SMTT(60) DEF CharactersInOrder
<1> QED  BY <1>2, <1>3, <1>4, <1>5 DEF HInv

\* Every call of the reader keeps HInv.
LEMMA ReaderKeeps == ASSUME HInv, [HNext]_hvars PROVE HInv'
<1>1. CASE bufio_init /\ UNCHANGED got  BY <1>1, InitKeeps
<1>2. CASE bufio_next_char /\ got' = IF res' \in Byte THEN Append(got, res') ELSE got
  <2> USE <1>2
  <2>1. Running /\ UNCHANGED file  BY DEF bufio_next_char
  <2>2. CASE off >= size /\ size < BUFFER_SIZE /\ res' = BUFIO_EOF /\ UNCHANGED <<pos, buffer, off, size>>
    BY <2>1, <2>2, EndKeeps
  <2>3. CASE off >= size /\ size = BUFFER_SIZE /\ Refill  BY <2>1, <2>3, RefillKeeps
  <2>4. CASE off < size /\ Deliver  BY <2>1, <2>4, DeliverKeeps
  <2> QED  BY <2>2, <2>3, <2>4 DEF bufio_next_char
<1>3. CASE UNCHANGED hvars
  BY <1>3 DEF hvars, HInv, ReaderTypeOK, Fresh, Window, Aligned, CharactersInOrder, EofExplained, WholeChunks, Running
<1> QED  BY <1>1, <1>2, <1>3 DEF HNext, NextChar

\* HInv holds at the start and every call keeps it.
LEMMA HInvariance == HSpec => []HInv
<1>1. HInit => HInv  BY HInitial
<1>2. HInv /\ [HNext]_hvars => HInv'  BY ReaderKeeps
<1> QED  BY <1>1, <1>2, PTL DEF HSpec

\* For every buffer size and file, what the caller of bufio_next_char receives is the
\* file in order, followed by at most one repeated character.
THEOREM ReadsInOrder == HSpec => []CharactersInOrder
<1>1. HInv => CharactersInOrder  BY DEF HInv
<1> QED  BY <1>1, HInvariance, PTL

\* For every buffer size and file, BUFIO_EOF means the end of the file or a byte 0xff.
THEOREM EndIsExplained == HSpec => []EofExplained
<1>1. HInv => EofExplained  BY DEF HInv
<1> QED  BY <1>1, HInvariance, PTL

-----------------------------------------------------------------------------
(* The parser *)

\* No blank is stored at the start of a buffer, so that trim has nothing to do.
NoBlank(s) == s # <<>> => ~is_white(s[1])

Sound(st) ==
  /\ st \in ParserState
  /\ Len(st.curr_value) < MAX_VALUE_LEN /\ Len(st.option_name) < MAX_VALUE_LEN
  /\ st.kind = "LOGGER_NAME" => Len(st.curr_value) < LS_MAX_LOGGER_NAME_LEN
  /\ LoggerFits(st.current_logger)
  /\ st.kind # "LOGGER_KEYWORD" => st.consume_offset = 0
  /\ st.kind \in {"CONFIG_OPTION_NAME", "CONFIG_VALUE"} => NoBlank(st.curr_value)
  /\ NoBlank(st.option_name)

\* The states between a logger's name and its closing brace.
InBlock == {"OPEN_BRACE", "OPEN_BRACE_NEWLINE", "CONFIG_OPTION_NAME", "CONFIG_OPTION_EQUALS", "CONFIG_VALUE"}

WordOf(b, option, default) == IF b[option] = NONE THEN default ELSE b[option][1]

\* The logger and the flags say what the block says.
Agrees(l, flags, b) ==
  /\ flags = {o \in Flag : b[o] # NONE}
  /\ l.format = IF b["format"] = NONE THEN <<>> ELSE b["format"]
  /\ l.dest_filename = IF b["filename"] = NONE THEN <<>> ELSE b["filename"]
  /\ l.dest_type = WordOf(b, "destination", "file")
  /\ l.severity = WordOf(b, "severity", "trace")
  /\ l.append = WordOf(b, "append", "false")

Linked ==
  /\ state.kind = "LOGGER_NAME" => state.did_set = {}
  /\ state.kind \in InBlock => Agrees(state.current_logger, state.did_set, block)

PInv ==
  /\ TypeOK /\ Sound(state)
  /\ ret = NONE => Linked
  /\ NamesUnique /\ EntryComplete /\ EntryFromItsBlock

-----------------------------------------------------------------------------

\* Without a blank at its start a string is its own trimming.
LEMMA Trimming ==
  ASSUME NEW s \in Text, NoBlank(s)
  PROVE  trim(s) = s
<1> DEFINE P(k) == (\A i \in 1 .. k : is_white(s[i])) /\ (k = Len(s) \/ ~is_white(s[k + 1]))
<1> DEFINE n == CHOOSE k \in 0 .. Len(s) : P(k)
<1>1. s \in Seq(Char) /\ Len(s) \in Nat /\ (s = <<>> <=> Len(s) = 0)  BY SMTT(60) DEF Text
<1>2. 0 \in 0 .. Len(s) /\ P(0)
  <2>1. Len(s) = 0 \/ ~is_white(s[1])  BY <1>1 DEF NoBlank
  <2> QED  BY <1>1, <2>1, SMTT(60)
<1>3. n \in 0 .. Len(s) /\ P(n)  BY <1>2
<1>4. n = 0
  <2> HIDE DEF n
  <2>1. ASSUME n # 0 PROVE FALSE
    <3>1. 1 \in 1 .. n /\ Len(s) # 0  BY <1>1, <1>3, <2>1, SMTT(60)
    <3>2. is_white(s[1])  BY <1>3, <3>1
    <3> QED  BY <1>1, <3>1, <3>2 DEF NoBlank
  <2> QED  BY <2>1
<1>5. trim(s) = SubSeq(s, n + 1, Len(s))  BY DEF trim
<1> HIDE DEF n
<1>6. SubSeq(s, 1, Len(s)) = s  BY <1>1, SMTT(60)
<1> QED  BY <1>4, <1>5, <1>6, SMTT(60)

\* What parse_consumption can do to the parser state.
LEMMA Consumption ==
  ASSUME NEW st \in ParserState, NEW literal, NEW ch, NEW next \in Kind,
         Len(literal) \in {1, 2}, st.consume_offset < Len(literal),
         NEW r, r = parse_consumption(st, literal, ch, next)
  PROVE  /\ r.state \in ParserState
         /\ r.state.did_set = st.did_set /\ r.state.option_name = st.option_name
         /\ r.state.current_logger = st.current_logger
         /\ r.kind \in {"PARSE_OK", "PARSE_ERROR"}
         /\ \/ r.state = st /\ r.kind = "PARSE_ERROR"
            \/ r.state.kind = next /\ r.state.consume_offset = 0 /\ r.state.curr_value = <<>> /\ r.kind = "PARSE_OK"
            \/ /\ r.state.kind = st.kind /\ r.state.curr_value = st.curr_value
               /\ r.state.consume_offset = 1 /\ Len(literal) = 2
<1> DEFINE c == st.consume_offset  n == Len(literal)
<1>1. c \in 0 .. 1 /\ n \in {1, 2} /\ c < n  BY DEF ParserState
<1>2. CASE literal[c + 1] # ch
  BY <1>2 DEF parse_consumption, PARSE_ERROR
<1>3. CASE literal[c + 1] = ch /\ c + 1 >= n
  <2> DEFINE t == [st EXCEPT !.kind = next, !.consume_offset = 0, !.curr_value = <<>>]
  <2>1. parse_consumption(st, literal, ch, next) = PARSE_OK(t)  BY <1>3 DEF parse_consumption
  <2>2. <<>> \in Text /\ 0 \in 0 .. 1  BY SMTT(60) DEF Text
  <2>3. t \in ParserState  BY <2>2 DEF ParserState
  <2>4. /\ t.kind = next /\ t.consume_offset = 0 /\ t.curr_value = <<>> /\ t.did_set = st.did_set
        /\ t.option_name = st.option_name /\ t.current_logger = st.current_logger
    BY DEF ParserState
  <2> HIDE DEF t
  <2> QED  BY <2>1, <2>3, <2>4, SMTT(60) DEF PARSE_OK
<1>4. CASE literal[c + 1] = ch /\ ~(c + 1 >= n)
  <2> DEFINE t == [st EXCEPT !.consume_offset = @ + 1]
  <2>1. parse_consumption(st, literal, ch, next) = PARSE_OK(t)  BY <1>4 DEF parse_consumption
  <2>2. c = 0 /\ n = 2
    <3> HIDE DEF c, n
    <3>1. ~(c + 1 >= n)  BY <1>4
    <3> QED  BY <1>1, <3>1, SMTT(60)
  <2>3. t \in ParserState /\ t.consume_offset = 1  BY <2>2, SMTT(60) DEF ParserState
  <2>4. /\ t.kind = st.kind /\ t.curr_value = st.curr_value /\ t.did_set = st.did_set
        /\ t.option_name = st.option_name /\ t.current_logger = st.current_logger
    BY DEF ParserState
  <2> HIDE DEF t
  <2> QED  BY <2>1, <2>2, <2>3, <2>4, SMTT(60) DEF PARSE_OK
<1> QED  BY <1>2, <1>3, <1>4

-----------------------------------------------------------------------------
(* The four ways in which a step changes the logger under construction *)

SameLogger(st, ch, r) ==
  /\ r.state.current_logger = st.current_logger /\ r.state.did_set = st.did_set
  /\ r.state.kind \in InBlock => st.kind \in InBlock
  /\ r.state.kind = "LOGGER_NAME" => st.kind = "LOGGER_NAME"
  /\ ~(st.kind = "CONFIG_VALUE" /\ ch = NL)

NoLogger(st, r) ==
  st.kind = "LOGGER_KEYWORD" /\ r.state.did_set = {} /\ r.state.kind \in {"LOGGER_KEYWORD", "LOGGER_NAME"}

NewLogger(st, r) ==
  /\ st.kind = "LOGGER_NAME" /\ r.state.kind = "OPEN_BRACE"
  /\ r.state.did_set = st.did_set
  /\ \E name \in Text : r.state.current_logger = ZeroLogger(name)

OptionSet(st, ch, r) ==
  /\ st.kind = "CONFIG_VALUE" /\ ch = NL /\ r.state.kind = "CONFIG_OPTION_NAME"
  /\ st.option_name[1] \in Option /\ Acceptable(st.option_name[1], st.curr_value)
  /\ r.state.current_logger = Stored(st.current_logger, st.option_name[1], st.curr_value)
  /\ r.state.did_set = st.did_set \cup FlagsOf(st.option_name[1])

Effect(st, ch, r) ==
  /\ Sound(r.state)
  /\ \/ r.kind = "PARSE_ERROR"
     \/ /\ r.kind = "PARSE_GOT_LOGGER" /\ st.kind = "CONFIG_OPTION_NAME"
        /\ r.state.kind = "LOGGER_KEYWORD" /\ SameLogger(st, ch, r)
     \/ r.kind = "PARSE_OK" /\ (\/ SameLogger(st, ch, r) \/ NoLogger(st, r)
                               \/ NewLogger(st, r) \/ OptionSet(st, ch, r))

\* The keyword (lines 321 to 327).
LEMMA KeywordEffect ==
  ASSUME NEW st, Sound(st), NEW ch \in Char, st.kind = "LOGGER_KEYWORD"
  PROVE  Effect(st, ch, AdvanceKeyword(st, ch))
<1> DEFINE t == [st EXCEPT !.did_set = {}]
           r == parse_consumption(t, Keyword, ch, "LOGGER_NAME")
<1>1. AdvanceKeyword(st, ch) = r  BY DEF AdvanceKeyword
<1>2. st \in ParserState /\ st.consume_offset \in 0 .. 1  BY DEF Sound, ParserState
<1>3. t \in ParserState /\ t.consume_offset = st.consume_offset /\ t.did_set = {} /\ t.kind = st.kind
      /\ t.curr_value = st.curr_value /\ t.option_name = st.option_name /\ t.current_logger = st.current_logger
  BY <1>2 DEF ParserState
<1>4. Len(Keyword) = 2  BY DEF Keyword
<1>5. "LOGGER_NAME" \in Kind  BY DEF Kind
<1> HIDE DEF t
<1>6. /\ r.state \in ParserState
      /\ r.state.did_set = {} /\ r.state.option_name = st.option_name
      /\ r.state.current_logger = st.current_logger
      /\ r.kind \in {"PARSE_OK", "PARSE_ERROR"}
      /\ \/ r.state = t
         \/ r.state.kind = "LOGGER_NAME" /\ r.state.consume_offset = 0 /\ r.state.curr_value = <<>>
         \/ r.state.kind = "LOGGER_KEYWORD" /\ r.state.curr_value = st.curr_value
  <2>1. r = parse_consumption(t, Keyword, ch, "LOGGER_NAME")  OBVIOUS
  <2>2. Len(Keyword) \in {1, 2} /\ t.consume_offset < Len(Keyword)  BY <1>2, <1>3, <1>4, SMTT(60)
  <2> HIDE DEF r
  <2> QED  BY <1>3, <1>5, <2>1, <2>2, Consumption, SMTT(60)
<1> HIDE DEF r
<1>7. Sound(r.state)
  <2>1. Len(<<>>) = 0  OBVIOUS
  <2> QED  BY <1>3, <1>6, <2>1, LimitAssumption, SMTT(60) DEF Sound, NoBlank
<1>8. NoLogger(st, r)  BY <1>3, <1>6 DEF NoLogger
<1> QED  BY <1>1, <1>6, <1>7, <1>8 DEF Effect

\* The other fixed strings (lines 329 to 339).
LEMMA LiteralEffect ==
  ASSUME NEW st, Sound(st), NEW ch \in Char, NEW literal, Len(literal) = 1,
         st.kind \in InBlock, st.kind # "CONFIG_VALUE",
         NEW next \in InBlock \ {"OPEN_BRACE"}
  PROVE  Effect(st, ch, parse_consumption(st, literal, ch, next))
<1> DEFINE r == parse_consumption(st, literal, ch, next)
<1>1. st \in ParserState /\ st.consume_offset = 0  BY DEF Sound, InBlock
<1>2. next \in Kind  BY DEF Kind, InBlock
<1>3. /\ r.state \in ParserState
      /\ r.state.did_set = st.did_set /\ r.state.option_name = st.option_name
      /\ r.state.current_logger = st.current_logger
      /\ \/ r.state = st /\ r.kind = "PARSE_ERROR"
         \/ r.state.kind = next /\ r.state.consume_offset = 0 /\ r.state.curr_value = <<>> /\ r.kind = "PARSE_OK"
  <2>1. r = parse_consumption(st, literal, ch, next)  OBVIOUS
  <2>2. Len(literal) \in {1, 2} /\ st.consume_offset < Len(literal) /\ Len(literal) # 2  BY <1>1, SMTT(60)
  <2> HIDE DEF r
  <2>3. /\ r.state \in ParserState
        /\ r.state.did_set = st.did_set /\ r.state.option_name = st.option_name
        /\ r.state.current_logger = st.current_logger
        /\ r.kind \in {"PARSE_OK", "PARSE_ERROR"}
        /\ \/ r.state = st /\ r.kind = "PARSE_ERROR"
           \/ r.state.kind = next /\ r.state.consume_offset = 0 /\ r.state.curr_value = <<>> /\ r.kind = "PARSE_OK"
           \/ /\ r.state.kind = st.kind /\ r.state.curr_value = st.curr_value
              /\ r.state.consume_offset = 1 /\ Len(literal) = 2
    <3>1. st \in ParserState /\ next \in Kind  BY <1>1, <1>2
    <3>2. Len(literal) \in {1, 2} /\ st.consume_offset < Len(literal)  BY <2>2
    <3> QED  BY ONLY <3>1, <3>2, <2>1, Consumption
  <2> QED  BY <2>2, <2>3
<1> HIDE DEF r
<1>4. Sound(r.state)
  <2>1. Len(<<>>) = 0  OBVIOUS
  <2> QED  BY <1>3, <2>1, LimitAssumption, SMTT(60) DEF Sound, NoBlank, InBlock
<1>5. SameLogger(st, ch, r)  BY <1>3 DEF SameLogger, InBlock
<1>6. Effect(st, ch, r)  BY <1>3, <1>4, <1>5 DEF Effect
<1> QED  BY <1>6 DEF r

\* Adding a character to the buffer.
LEMMA AppendSound ==
  ASSUME NEW st, Sound(st), NEW ch \in Char,
         st.kind \in {"LOGGER_NAME", "CONFIG_OPTION_NAME", "CONFIG_VALUE"},
         st.kind = "LOGGER_NAME" => Len(st.curr_value) < LS_MAX_LOGGER_NAME_LEN - 1,
         st.kind # "LOGGER_NAME" => Len(st.curr_value) < MAX_VALUE_LEN - 1,
         st.kind # "LOGGER_NAME" /\ st.curr_value = <<>> => ~is_white(ch)
  PROVE  LET t == [st EXCEPT !.curr_value = Append(@, ch)] IN
         /\ Sound(t) /\ t.kind = st.kind /\ t.did_set = st.did_set
         /\ t.current_logger = st.current_logger
<1> DEFINE c == st.curr_value  t == [st EXCEPT !.curr_value = Append(c, ch)]
<1>1. st \in ParserState /\ c \in Seq(Char) /\ Len(c) \in Nat  BY SMTT(60) DEF Sound, ParserState, Text
<1>2. /\ Append(c, ch) \in Seq(Char) /\ Len(Append(c, ch)) = Len(c) + 1
      /\ c # <<>> => Append(c, ch)[1] = c[1]
      /\ c = <<>> => Append(c, ch)[1] = ch
  BY <1>1, SMTT(60)
<1>3. Append(c, ch) \in Text  BY <1>2 DEF Text
<1>4. /\ t \in ParserState /\ t.curr_value = Append(c, ch) /\ t.kind = st.kind /\ t.did_set = st.did_set
      /\ t.current_logger = st.current_logger /\ t.option_name = st.option_name
      /\ t.consume_offset = st.consume_offset
  <2> DEFINE a == Append(c, ch)
  <2> HIDE DEF a, c
  <2> QED  BY <1>1, <1>3 DEF ParserState, a, c
<1>5. Len(t.curr_value) < MAX_VALUE_LEN
      /\ (st.kind = "LOGGER_NAME" => Len(t.curr_value) < LS_MAX_LOGGER_NAME_LEN)
  <2> HIDE DEF t, c
  <2>1. (st.kind = "LOGGER_NAME" => Len(c) < LS_MAX_LOGGER_NAME_LEN - 1)
        /\ (st.kind # "LOGGER_NAME" => Len(c) < MAX_VALUE_LEN - 1)
    BY DEF c
  <2> QED  BY <1>1, <1>2, <1>4, <2>1, LimitAssumption, SMTT(60)
<1>6. st.kind # "LOGGER_NAME" => NoBlank(t.curr_value)
  <2> HIDE DEF t
  <2> QED  BY <1>2, <1>4 DEF NoBlank, Sound
<1>7. Sound(t)
  <2> HIDE DEF t, c
  <2> QED  BY <1>4, <1>5, <1>6 DEF Sound
<1> QED  BY <1>4, <1>7

\* A logger name (lines 342 to 367).
LEMMA NameEffect ==
  ASSUME NEW st, Sound(st), NEW ch \in Char, st.kind = "LOGGER_NAME"
  PROVE  Effect(st, ch, AdvanceName(st, ch))
<1> DEFINE r == AdvanceName(st, ch)
<1>1. st \in ParserState /\ st.curr_value \in Text  BY DEF Sound, ParserState
<1>2. CASE is_allowed_in_logger_name(ch) /\ Len(st.curr_value) < LS_MAX_LOGGER_NAME_LEN - 1
  <2> DEFINE t == [st EXCEPT !.curr_value = Append(@, ch)]
  <2>1. r = PARSE_OK(t)  BY <1>2 DEF AdvanceName
  <2>2. Sound(t) /\ t.kind = st.kind /\ t.did_set = st.did_set /\ t.current_logger = st.current_logger
    BY <1>2, AppendSound
  <2> HIDE DEF t
  <2> QED  BY <2>1, <2>2, SMTT(60) DEF Effect, PARSE_OK, SameLogger, InBlock
<1>3. CASE /\ ~(is_allowed_in_logger_name(ch) /\ Len(st.curr_value) < LS_MAX_LOGGER_NAME_LEN - 1)
           /\ is_white(ch) \/ ch = NL
  <2> DEFINE l == ZeroLogger(st.curr_value)
             t == [st EXCEPT !.current_logger = l, !.kind = "OPEN_BRACE", !.consume_offset = 0]
  <2>1. r = PARSE_OK(t)  BY <1>3 DEF AdvanceName
  <2>2. l \in Logger
    BY <1>1, SMTT(60) DEF ZeroLogger, Logger, Destination, Severity, Boolean, Text
  <2>3. LoggerFits(l)
    <3>1. l.name = st.curr_value /\ l.format = <<>> /\ l.dest_filename = <<>>  BY DEF ZeroLogger
    <3>2. Len(<<>>) = 0  OBVIOUS
    <3> HIDE DEF l
    <3> QED  BY <3>1, <3>2, LimitAssumption, SMTT(60) DEF LoggerFits, Sound
  <2>4. \E name \in Text : l = ZeroLogger(name)  BY <1>1
  <2> HIDE DEF l
  <2>5. t \in ParserState /\ t.current_logger = l /\ t.kind = "OPEN_BRACE" /\ t.consume_offset = 0
        /\ t.did_set = st.did_set /\ t.curr_value = st.curr_value /\ t.option_name = st.option_name
    <3>1. "OPEN_BRACE" \in Kind /\ 0 \in 0 .. 1  BY SMTT(60) DEF Kind
    <3>2. t \in ParserState  BY <1>1, <2>2, <3>1 DEF ParserState
    <3> QED  BY <1>1, <3>2 DEF ParserState
  <2> HIDE DEF t
  <2>6. Sound(t)  BY <2>3, <2>5 DEF Sound
  <2>7. NewLogger(st, PARSE_OK(t))  BY <2>4, <2>5 DEF NewLogger, PARSE_OK
  <2> QED  BY <2>1, <2>6, <2>7, SMTT(60) DEF Effect, PARSE_OK
<1>4. CASE /\ ~(is_allowed_in_logger_name(ch) /\ Len(st.curr_value) < LS_MAX_LOGGER_NAME_LEN - 1)
           /\ ~(is_white(ch) \/ ch = NL)
  <2>1. r = PARSE_ERROR(st)  BY <1>4 DEF AdvanceName
  <2> QED  BY <2>1, SMTT(60) DEF Effect, PARSE_ERROR
<1> QED  BY <1>2, <1>3, <1>4

\* An option name (lines 369 to 398).
LEMMA OptionNameEffect ==
  ASSUME NEW st, Sound(st), NEW ch \in Char, st.kind = "CONFIG_OPTION_NAME"
  PROVE  Effect(st, ch, AdvanceOptionName(st, ch))
<1> DEFINE r == AdvanceOptionName(st, ch)
           more == is_allowed_in_config_option_name(ch) /\ Len(st.curr_value) < MAX_VALUE_LEN - 1
           ends == (ch = "=" \/ is_white(ch)) /\ st.curr_value # <<>>
<1>1. st \in ParserState /\ st.curr_value \in Text  BY DEF Sound, ParserState
<1>2. CASE more
  <2> DEFINE t == [st EXCEPT !.curr_value = Append(@, ch)]
  <2>1. r = PARSE_OK(t)  BY <1>2 DEF AdvanceOptionName
  <2>2. ~is_white(ch)  BY <1>2 DEF is_allowed_in_config_option_name, is_white, Lower
  <2>3. Sound(t) /\ t.kind = st.kind /\ t.did_set = st.did_set /\ t.current_logger = st.current_logger
    BY <1>2, <2>2, AppendSound
  <2> HIDE DEF t
  <2> QED  BY <2>1, <2>3, SMTT(60) DEF Effect, PARSE_OK, SameLogger, InBlock
<1>3. CASE ~more /\ ch = "}"
  <2> DEFINE t == [st EXCEPT !.kind = "LOGGER_KEYWORD", !.consume_offset = 0]
  <2>1. r = PARSE_GOT_LOGGER(t)  BY <1>3 DEF AdvanceOptionName
  <2>2. t \in ParserState /\ t.current_logger = st.current_logger /\ t.kind = "LOGGER_KEYWORD"
        /\ t.did_set = st.did_set /\ t.curr_value = st.curr_value /\ t.option_name = st.option_name
    <3>1. "LOGGER_KEYWORD" \in Kind /\ 0 \in 0 .. 1  BY SMTT(60) DEF Kind
    <3>2. t \in ParserState  BY <1>1, <3>1 DEF ParserState
    <3> QED  BY <1>1, <3>2 DEF ParserState
  <2> HIDE DEF t
  <2>3. Sound(t)  BY <2>2 DEF Sound
  <2> QED  BY <2>1, <2>2, <2>3, SMTT(60) DEF Effect, PARSE_GOT_LOGGER, SameLogger, InBlock
<1>4. CASE ~more /\ ch # "}" /\ ends
  <2> DEFINE k == IF ch = "=" THEN "CONFIG_VALUE" ELSE "CONFIG_OPTION_EQUALS"
             t == [st EXCEPT !.kind = k, !.option_name = st.curr_value,
                             !.consume_offset = 0, !.curr_value = <<>>]
  <2>1. r = PARSE_OK(t)  BY <1>4 DEF AdvanceOptionName
  <2>2. k \in {"CONFIG_VALUE", "CONFIG_OPTION_EQUALS"}  OBVIOUS
  <2> HIDE DEF k
  <2>3. <<>> \in Text /\ Len(<<>>) = 0  BY SMTT(60) DEF Text
  <2>4. t \in ParserState /\ t.current_logger = st.current_logger /\ t.kind = k /\ t.consume_offset = 0
        /\ t.did_set = st.did_set /\ t.curr_value = <<>> /\ t.option_name = st.curr_value
    <3>1. k \in Kind /\ 0 \in 0 .. 1  BY <2>2, SMTT(60) DEF Kind
    <3>2. t \in ParserState  BY <1>1, <2>3, <3>1 DEF ParserState
    <3> QED  BY <1>1, <3>2 DEF ParserState
  <2> HIDE DEF t
  <2>5. Sound(t)  BY <2>2, <2>3, <2>4, LimitAssumption, SMTT(60) DEF Sound, NoBlank
  <2> QED  BY <2>1, <2>2, <2>4, <2>5, SMTT(60) DEF Effect, PARSE_OK, SameLogger, InBlock
<1>5. CASE ~more /\ ch # "}" /\ ~ends
  <2>1. r = PARSE_ERROR(st)  BY <1>5 DEF AdvanceOptionName
  <2> QED  BY <2>1, SMTT(60) DEF Effect, PARSE_ERROR
<1> QED  BY <1>2, <1>3, <1>4, <1>5

\* What the assignment of each option amounts to.
LEMMA Options ==
  ASSUME NEW l, NEW v
  PROVE  /\ Acceptable("destination", v) = OneOf(v, Destination)
         /\ Stored(l, "destination", v) = [l EXCEPT !.dest_type = v[1]]
         /\ Acceptable("severity", v) = OneOf(v, Severity)
         /\ Stored(l, "severity", v) = [l EXCEPT !.severity = v[1]]
         /\ Acceptable("append", v) = OneOf(v, Boolean)
         /\ Stored(l, "append", v) = [l EXCEPT !.append = v[1]]
         /\ Acceptable("format", v) = (Len(v) <= LS_MAX_LOGGER_FORMAT_LEN - 1)
         /\ Stored(l, "format", v) = [l EXCEPT !.format = v]
         /\ Acceptable("filename", v) = (Len(v) <= LS_MAX_LOGGER_LOGFILE_PATH_LEN - 1)
         /\ Stored(l, "filename", v) = [l EXCEPT !.dest_filename = v]
<1>1. Acceptable("destination", v) = OneOf(v, Destination)  BY DEF Acceptable
<1>2. Stored(l, "destination", v) = [l EXCEPT !.dest_type = v[1]]  BY DEF Stored
<1>3. Acceptable("severity", v) = OneOf(v, Severity)  BY DEF Acceptable
<1>4. Stored(l, "severity", v) = [l EXCEPT !.severity = v[1]]  BY DEF Stored
<1>5. Acceptable("append", v) = OneOf(v, Boolean)  BY DEF Acceptable
<1>6. Stored(l, "append", v) = [l EXCEPT !.append = v[1]]  BY DEF Stored
<1>7. Acceptable("format", v) = (Len(v) <= LS_MAX_LOGGER_FORMAT_LEN - 1)  BY DEF Acceptable
<1>8. Stored(l, "format", v) = [l EXCEPT !.format = v]  BY DEF Stored
<1>9. Acceptable("filename", v) = (Len(v) <= LS_MAX_LOGGER_LOGFILE_PATH_LEN - 1)  BY DEF Acceptable
<1>10. Stored(l, "filename", v) = [l EXCEPT !.dest_filename = v]  BY DEF Stored
<1> QED  BY <1>1, <1>2, <1>3, <1>4, <1>5, <1>6, <1>7, <1>8, <1>9, <1>10

\* An accepted option leaves a logger whose strings fit.
LEMMA StoredFits ==
  ASSUME NEW l \in Logger, LoggerFits(l), NEW o \in Option, NEW v \in Text, Acceptable(o, v)
  PROVE  Stored(l, o, v) \in Logger /\ LoggerFits(Stored(l, o, v))
<1>0. Len(v) \in Nat /\ LS_MAX_LOGGER_FORMAT_LEN \in Nat /\ LS_MAX_LOGGER_LOGFILE_PATH_LEN \in Nat
  BY LimitAssumption, SMTT(60) DEF Text
<1>1. CASE o = "destination"
  <2>1. v[1] \in Destination /\ Stored(l, o, v) = [l EXCEPT !.dest_type = v[1]]  BY <1>1, Options DEF OneOf
  <2> QED  BY <2>1 DEF Logger, LoggerFits
<1>2. CASE o = "severity"
  <2>1. v[1] \in Severity /\ Stored(l, o, v) = [l EXCEPT !.severity = v[1]]  BY <1>2, Options DEF OneOf
  <2> QED  BY <2>1 DEF Logger, LoggerFits
<1>3. CASE o = "append"
  <2>1. v[1] \in Boolean /\ Stored(l, o, v) = [l EXCEPT !.append = v[1]]  BY <1>3, Options DEF OneOf
  <2> QED  BY <2>1 DEF Logger, LoggerFits
<1>4. CASE o = "format"
  <2>1. Len(v) <= LS_MAX_LOGGER_FORMAT_LEN - 1 /\ Stored(l, o, v) = [l EXCEPT !.format = v]
    BY <1>4, Options
  <2>2. Len(v) < LS_MAX_LOGGER_FORMAT_LEN  BY <1>0, <2>1, SMTT(60)
  <2> QED  BY <2>1, <2>2 DEF Logger, LoggerFits
<1>5. CASE o = "filename"
  <2>1. Len(v) <= LS_MAX_LOGGER_LOGFILE_PATH_LEN - 1 /\ Stored(l, o, v) = [l EXCEPT !.dest_filename = v]
    BY <1>5, Options
  <2>2. Len(v) < LS_MAX_LOGGER_LOGFILE_PATH_LEN  BY <1>0, <2>1, SMTT(60)
  <2> QED  BY <2>1, <2>2 DEF Logger, LoggerFits
<1> QED  BY <1>1, <1>2, <1>3, <1>4, <1>5 DEF Option

\* The end of an option line (lines 401 to 413).
LEMMA SetOptionEffect ==
  ASSUME NEW st, Sound(st), st.kind = "CONFIG_VALUE"
  PROVE  Effect(st, NL, set_logger_option(st))
<1> DEFINE name  == st.option_name
           value == st.curr_value
           st1   == [st EXCEPT !.kind = "CONFIG_OPTION_NAME"]
           st2   == [st1 EXCEPT !.did_set = @ \cup FlagsOf(name[1])]
           l     == Stored(st.current_logger, name[1], value)
           st3   == [st2 EXCEPT !.current_logger = Stored(@, name[1], value),
                                !.curr_value = <<>>, !.consume_offset = 0]
           r     == set_logger_option(st)
<1>1. /\ st \in ParserState /\ name \in Text /\ value \in Text /\ NoBlank(name) /\ NoBlank(value)
      /\ st.current_logger \in Logger /\ LoggerFits(st.current_logger)
  BY DEF Sound, ParserState
<1>2. trim(st.option_name) = name /\ trim(st.curr_value) = value  BY <1>1, Trimming
<1>3. r = IF ~OneOf(name, Option) THEN PARSE_ERROR(st1)
          ELSE IF ~Acceptable(name[1], value) THEN PARSE_ERROR(st2) ELSE PARSE_OK(st3)
  BY <1>2, SMTT(60) DEF set_logger_option
<1>4. /\ st1 \in ParserState /\ st1.kind = "CONFIG_OPTION_NAME" /\ st1.curr_value = value
      /\ st1.option_name = name /\ st1.current_logger = st.current_logger
      /\ st1.consume_offset = st.consume_offset /\ st1.did_set = st.did_set
  <2>1. "CONFIG_OPTION_NAME" \in Kind  BY DEF Kind
  <2> QED  BY <1>1, <2>1 DEF ParserState
<1> HIDE DEF st1
<1>5. Sound(st1)  BY <1>1, <1>4 DEF Sound
<1>6. ASSUME OneOf(name, Option)
      PROVE  /\ st2 \in ParserState /\ st2.kind = "CONFIG_OPTION_NAME" /\ st2.curr_value = value
             /\ st2.option_name = name /\ st2.current_logger = st.current_logger
             /\ st2.consume_offset = st.consume_offset
             /\ st2.did_set = st.did_set \cup FlagsOf(name[1])
  <2> DEFINE f == FlagsOf(name[1])
  <2>1. f \subseteq Flag  BY <1>6 DEF OneOf, FlagsOf, Flag
  <2> HIDE DEF f
  <2>2. st1.did_set \cup f \in SUBSET Flag  BY <1>4, <2>1 DEF ParserState
  <2>3. st2 = [st1 EXCEPT !.did_set = st1.did_set \cup f]  BY DEF f
  <2> QED  BY <1>4, <2>2, <2>3 DEF ParserState, f
<1> HIDE DEF st2
<1>7. ASSUME OneOf(name, Option) PROVE Sound(st2)  BY <1>1, <1>6, <1>7 DEF Sound
<1>8. CASE ~OneOf(name, Option)
  BY <1>3, <1>5, <1>8, SMTT(60) DEF Effect, PARSE_ERROR
<1>9. CASE OneOf(name, Option) /\ ~Acceptable(name[1], value)
  BY <1>3, <1>7, <1>9, SMTT(60) DEF Effect, PARSE_ERROR
<1>10. CASE OneOf(name, Option) /\ Acceptable(name[1], value)
  <2>1. name[1] \in Option  BY <1>10 DEF OneOf
  <2>2. l \in Logger /\ LoggerFits(l)  BY <1>1, <1>10, <2>1, StoredFits
  <2>3. st2.current_logger = st.current_logger  BY <1>6, <1>10
  <2>4. st3 = [st2 EXCEPT !.current_logger = l, !.curr_value = <<>>, !.consume_offset = 0]  BY <2>3
  <2> HIDE DEF l, st3
  <2>5. <<>> \in Text /\ Len(<<>>) = 0 /\ 0 \in 0 .. 1  BY SMTT(60) DEF Text
  <2>6. st3 \in ParserState  BY <1>6, <1>10, <2>2, <2>4, <2>5 DEF ParserState
  <2>7. st3.kind = "CONFIG_OPTION_NAME" /\ st3.curr_value = <<>> /\ st3.option_name = name
        /\ st3.current_logger = l /\ st3.consume_offset = 0 /\ st3.did_set = st.did_set \cup FlagsOf(name[1])
    BY <1>6, <1>10, <2>4 DEF ParserState
  <2>8. Sound(st3)  BY <1>1, <2>2, <2>5, <2>6, <2>7, LimitAssumption, SMTT(60) DEF Sound, NoBlank
  <2>9. r = PARSE_OK(st3)  BY <1>3, <1>10
  <2>10. PARSE_OK(st3).state = st3 /\ PARSE_OK(st3).kind = "PARSE_OK"  BY DEF PARSE_OK
  <2>11. l = Stored(st.current_logger, st.option_name[1], st.curr_value)  BY DEF l
  <2>12. OptionSet(st, NL, PARSE_OK(st3))
    BY <1>10, <2>1, <2>7, <2>10, <2>11 DEF OptionSet
  <2> QED  BY <2>8, <2>9, <2>10, <2>12 DEF Effect
<1> QED  BY <1>8, <1>9, <1>10

\* An option value (lines 400 to 424), the blanks before it already skipped.
LEMMA ValueEffect ==
  ASSUME NEW st, Sound(st), NEW ch \in Char, st.kind = "CONFIG_VALUE",
         st.curr_value = <<>> => ~is_white(ch)
  PROVE  Effect(st, ch, AdvanceValue(st, ch))
<1>1. CASE ch = NL  BY <1>1, SetOptionEffect DEF AdvanceValue
<1>2. CASE ch # NL /\ Len(st.curr_value) < MAX_VALUE_LEN - 1
  <2> DEFINE t == [st EXCEPT !.curr_value = Append(@, ch)]
  <2>1. AdvanceValue(st, ch) = PARSE_OK(t)  BY <1>2 DEF AdvanceValue
  <2>2. Sound(t) /\ t.kind = st.kind /\ t.did_set = st.did_set /\ t.current_logger = st.current_logger
    BY <1>2, AppendSound
  <2> HIDE DEF t
  <2> QED  BY <1>2, <2>1, <2>2, SMTT(60) DEF Effect, PARSE_OK, SameLogger, InBlock
<1>3. CASE ch # NL /\ ~(Len(st.curr_value) < MAX_VALUE_LEN - 1)
  <2>1. AdvanceValue(st, ch) = PARSE_ERROR(st)  BY <1>3 DEF AdvanceValue
  <2> QED  BY <2>1, SMTT(60) DEF Effect, PARSE_ERROR
<1> QED  BY <1>1, <1>2, <1>3

\* parse_advance, in every state.
LEMMA AdvanceEffect ==
  ASSUME NEW st, Sound(st), NEW ch \in Char
  PROVE  Effect(st, ch, parse_advance(st, ch))
<1> DEFINE skip == \/ is_white(ch) /\ is_whitespace_invariant(st)
                   \/ ch = NL /\ is_newline_invariant(st)
           r == parse_advance(st, ch)
<1>0. st.kind \in Kind  BY DEF Sound, ParserState
<1>1. CASE skip
  <2>1. r = PARSE_OK(st)  BY <1>1 DEF parse_advance
  <2>2. ~(st.kind = "CONFIG_VALUE" /\ ch = NL)
    BY <1>1 DEF is_white, NL, is_newline_invariant
  <2> QED  BY <2>1, <2>2, SMTT(60) DEF Effect, SameLogger, PARSE_OK
<1>2. CASE ~skip
  <2>1. CASE st.kind = "LOGGER_KEYWORD"
    <3>1. r = AdvanceKeyword(st, ch)  BY <1>2, <2>1 DEF parse_advance
    <3> QED  BY <2>1, <3>1, KeywordEffect
  <2>2. CASE st.kind = "OPEN_BRACE"
    <3>1. r = parse_consumption(st, <<"{">>, ch, "OPEN_BRACE_NEWLINE")  BY <1>2, <2>2 DEF parse_advance
    <3>2. Len(<<"{">>) = 1 /\ "OPEN_BRACE_NEWLINE" \in InBlock \ {"OPEN_BRACE"} /\ st.kind \in InBlock
      BY <2>2 DEF InBlock
    <3> QED  BY <2>2, <3>1, <3>2, LiteralEffect
  <2>3. CASE st.kind = "OPEN_BRACE_NEWLINE"
    <3>1. r = parse_consumption(st, <<NL>>, ch, "CONFIG_OPTION_NAME")  BY <1>2, <2>3 DEF parse_advance
    <3>2. Len(<<NL>>) = 1 /\ "CONFIG_OPTION_NAME" \in InBlock \ {"OPEN_BRACE"} /\ st.kind \in InBlock
      BY <2>3 DEF InBlock
    <3> QED  BY <2>3, <3>1, <3>2, LiteralEffect
  <2>4. CASE st.kind = "CONFIG_OPTION_EQUALS"
    <3>1. r = parse_consumption(st, <<"=">>, ch, "CONFIG_VALUE")  BY <1>2, <2>4 DEF parse_advance
    <3>2. Len(<<"=">>) = 1 /\ "CONFIG_VALUE" \in InBlock \ {"OPEN_BRACE"} /\ st.kind \in InBlock
      BY <2>4 DEF InBlock
    <3> QED  BY <2>4, <3>1, <3>2, LiteralEffect
  <2>5. CASE st.kind = "LOGGER_NAME"
    <3>1. r = AdvanceName(st, ch)  BY <1>2, <2>5 DEF parse_advance
    <3> QED  BY <2>5, <3>1, NameEffect
  <2>6. CASE st.kind = "CONFIG_OPTION_NAME"
    <3>1. r = AdvanceOptionName(st, ch)  BY <1>2, <2>6 DEF parse_advance
    <3> QED  BY <2>6, <3>1, OptionNameEffect
  <2>7. CASE st.kind = "CONFIG_VALUE"
    <3>1. r = AdvanceValue(st, ch)  BY <1>2, <2>7 DEF parse_advance
    <3>2. st.curr_value = <<>> => ~is_white(ch)  BY <1>2, <2>7 DEF is_whitespace_invariant
    <3> QED  BY <2>7, <3>1, <3>2, ValueEffect
  <2> QED  BY <1>0, <2>1, <2>2, <2>3, <2>4, <2>5, <2>6, <2>7 DEF Kind
<1> QED  BY <1>1, <1>2

-----------------------------------------------------------------------------
(* The loop *)

\* A block with no line yet agrees with a zeroed logger.
LEMMA ZeroAgrees ==
  ASSUME NEW name \in Text
  PROVE  Agrees(ZeroLogger(name), {}, NoValues)
BY DEF Agrees, ZeroLogger, NoValues, WordOf, Option, Flag

\* Setting an option and recording its line keep logger and block in agreement.
LEMMA SetAgrees ==
  ASSUME NEW l \in Logger, NEW flags, NEW b \in [Option -> Text \cup {NONE}], Agrees(l, flags, b),
         NEW o \in Option, NEW v \in Text, Acceptable(o, v)
  PROVE  Agrees(Stored(l, o, v), flags \cup FlagsOf(o), [b EXCEPT ![o] = v])
<1> DEFINE c == [b EXCEPT ![o] = v]  m == Stored(l, o, v)  fs == flags \cup FlagsOf(o)
<1>1. v # NONE  BY NoneAssumption DEF Text
<1>2. \A x \in Option : c[x] = IF x = o THEN v ELSE b[x]  OBVIOUS
<1>3. fs = {x \in Flag : c[x] # NONE}
  <2>1. flags = {x \in Flag : b[x] # NONE}  BY DEF Agrees
  <2>2. FlagsOf(o) = {x \in Flag : x = o}  BY DEF FlagsOf, Flag
  <2>3. Flag \subseteq Option  BY DEF Flag
  <2> HIDE DEF c
  <2> QED  BY <1>1, <1>2, <2>1, <2>2, <2>3
<1> DEFINE Fields(k) ==
             /\ k.format = IF c["format"] = NONE THEN <<>> ELSE c["format"]
             /\ k.dest_filename = IF c["filename"] = NONE THEN <<>> ELSE c["filename"]
             /\ k.dest_type = WordOf(c, "destination", "file")
             /\ k.severity = WordOf(c, "severity", "trace")
             /\ k.append = WordOf(c, "append", "false")
<1>4. /\ c["format"] = IF o = "format" THEN v ELSE b["format"]
      /\ c["filename"] = IF o = "filename" THEN v ELSE b["filename"]
      /\ c["destination"] = IF o = "destination" THEN v ELSE b["destination"]
      /\ c["severity"] = IF o = "severity" THEN v ELSE b["severity"]
      /\ c["append"] = IF o = "append" THEN v ELSE b["append"]
  <2> HIDE DEF c
  <2> QED  BY <1>2 DEF Option
<1> HIDE DEF c
<1>5. Fields(m)
  <2>1. CASE o = "destination"
    <3>1. m = [l EXCEPT !.dest_type = v[1]]  BY <2>1, Options, SMTT(60)
    <3>2. m.dest_type = v[1] /\ m.format = l.format /\ m.dest_filename = l.dest_filename
          /\ m.severity = l.severity /\ m.append = l.append
      BY <3>1 DEF Logger
    <3> HIDE DEF m
    <3> QED  BY <1>1, <1>4, <2>1, <3>2 DEF Agrees, WordOf
  <2>2. CASE o = "severity"
    <3>1. m = [l EXCEPT !.severity = v[1]]  BY <2>2, Options
    <3>2. m.severity = v[1] /\ m.format = l.format /\ m.dest_filename = l.dest_filename
          /\ m.dest_type = l.dest_type /\ m.append = l.append
      BY <3>1 DEF Logger
    <3> HIDE DEF m
    <3> QED  BY <1>1, <1>4, <2>2, <3>2 DEF Agrees, WordOf
  <2>3. CASE o = "append"
    <3>1. m = [l EXCEPT !.append = v[1]]  BY <2>3, Options
    <3>2. m.append = v[1] /\ m.format = l.format /\ m.dest_filename = l.dest_filename
          /\ m.severity = l.severity /\ m.dest_type = l.dest_type
      BY <3>1 DEF Logger
    <3> HIDE DEF m
    <3> QED  BY <1>1, <1>4, <2>3, <3>2 DEF Agrees, WordOf
  <2>4. CASE o = "format"
    <3>1. m = [l EXCEPT !.format = v]  BY <2>4, Options
    <3>2. m.format = v /\ m.dest_type = l.dest_type /\ m.dest_filename = l.dest_filename
          /\ m.severity = l.severity /\ m.append = l.append
      BY <3>1 DEF Logger
    <3> HIDE DEF m
    <3> QED  BY <1>1, <1>4, <2>4, <3>2 DEF Agrees, WordOf
  <2>5. CASE o = "filename"
    <3>1. m = [l EXCEPT !.dest_filename = v]  BY <2>5, Options
    <3>2. m.dest_filename = v /\ m.format = l.format /\ m.dest_type = l.dest_type
          /\ m.severity = l.severity /\ m.append = l.append
      BY <3>1 DEF Logger
    <3> HIDE DEF m
    <3> QED  BY <1>1, <1>4, <2>5, <3>2 DEF Agrees, WordOf
  <2> QED  BY <2>1, <2>2, <2>3, <2>4, <2>5 DEF Option
<1>6. Agrees(m, fs, c)
  <2> HIDE DEF m, fs
  <2> QED  BY <1>3, <1>5 DEF Agrees
<1> QED  BY <1>6 DEF c

\* An entry that is_logger_valid lets through follows its block.
LEMMA ValidEntry ==
  ASSUME NEW st, NEW names, is_logger_valid(st, names), Agrees(st.current_logger, st.did_set, block),
         new' = st.current_logger, UNCHANGED block, block \in [Option -> Text \cup {NONE}]
  PROVE  EntryComplete' /\ EntryFromItsBlock'
<1> DEFINE l == st.current_logger  fs == st.did_set
<1>1. /\ {"format", "destination"} \subseteq fs
      /\ fs \cap {"filename", "append"} # {} => l.dest_type = "file"
      /\ l.dest_type = "file" => "filename" \in fs
  BY DEF is_logger_valid
<1>2. fs = {o \in Flag : block[o] # NONE}  BY DEF Agrees
<1>3. /\ "format" \in fs <=> block["format"] # NONE
      /\ "destination" \in fs <=> block["destination"] # NONE
      /\ "filename" \in fs <=> block["filename"] # NONE
      /\ "append" \in fs <=> block["append"] # NONE
  BY <1>2 DEF Flag, Option
<1>4. Agrees(l, fs, block)  OBVIOUS
<1> HIDE DEF fs
<1>5. EntryComplete'  BY <1>1, <1>3 DEF EntryComplete
<1>6. block["format"] # NONE  BY <1>1, <1>3
<1>7. /\ new'.format = block["format"]
      /\ new'.dest_filename = IF block["filename"] = NONE THEN <<>> ELSE block["filename"]
      /\ new'.dest_type = WordOf(block, "destination", "file")
      /\ new'.severity = WordOf(block, "severity", "trace")
      /\ new'.append = WordOf(block, "append", "false")
  BY <1>4, <1>6 DEF Agrees
<1>8. EntryFromItsBlock'  BY <1>7 DEF EntryFromItsBlock, Word, WordOf
<1> QED  BY <1>5, <1>8

\* A character that makes no entry: how state and block change.
LEMMA QuietStep ==
  ASSUME PInv, ret = NONE, NEW ch \in Char, NEW r, Effect(state, ch, r),
         state' = r.state, block' = Recorded(ch, r), r.kind # "PARSE_ERROR"
  PROVE  Linked' /\ block' \in [Option -> Text \cup {NONE}]
<1>1. /\ state \in ParserState /\ block \in [Option -> Text \cup {NONE}] /\ Linked
      /\ state.current_logger \in Logger /\ state.curr_value \in Text
  BY DEF PInv, TypeOK, ParserState
<1>2. CASE SameLogger(state, ch, r) /\ r.kind \in {"PARSE_OK", "PARSE_GOT_LOGGER"}
  <2>1. block' = block
    <3>1. ~(state.kind = "LOGGER_NAME" /\ r.state.kind = "OPEN_BRACE")  BY <1>2 DEF SameLogger, InBlock
    <3>2. ~(state.kind = "CONFIG_VALUE" /\ ch = NL)  BY <1>2 DEF SameLogger
    <3> QED  BY <3>1, <3>2 DEF Recorded
  <2> QED  BY <1>1, <1>2, <2>1 DEF Linked, SameLogger
<1>3. CASE NoLogger(state, r)
  <2>1. block' = block  BY <1>3 DEF Recorded, NoLogger
  <2> QED  BY <1>1, <1>3, <2>1 DEF Linked, NoLogger, InBlock
<1>4. CASE NewLogger(state, r)
  <2>1. block' = NoValues  BY <1>4 DEF Recorded, NewLogger
  <2>2. NoValues \in [Option -> Text \cup {NONE}]  BY DEF NoValues
  <2>3. PICK name \in Text : r.state.current_logger = ZeroLogger(name)  BY <1>4 DEF NewLogger
  <2>4. r.state.did_set = {} /\ r.state.kind = "OPEN_BRACE"  BY <1>1, <1>4 DEF NewLogger, Linked
  <2>5. Agrees(r.state.current_logger, r.state.did_set, NoValues)  BY <2>3, <2>4, ZeroAgrees
  <2> QED  BY <2>1, <2>2, <2>4, <2>5 DEF Linked
<1>5. CASE OptionSet(state, ch, r) /\ r.kind = "PARSE_OK"
  <2> DEFINE o == state.option_name[1]  v == state.curr_value
  <2>1. /\ o \in Option /\ Acceptable(o, v) /\ r.state.current_logger = Stored(state.current_logger, o, v)
        /\ r.state.did_set = state.did_set \cup FlagsOf(o) /\ r.state.kind = "CONFIG_OPTION_NAME"
        /\ state.kind = "CONFIG_VALUE" /\ ch = NL
    BY <1>5 DEF OptionSet
  <2>2. block' = [block EXCEPT ![o] = v]  BY <1>5, <2>1 DEF Recorded
  <2>3. v \in Text  BY <1>1
  <2>4. Agrees(state.current_logger, state.did_set, block)  BY <1>1, <2>1 DEF Linked, InBlock
  <2> HIDE DEF o, v
  <2>5. [block EXCEPT ![o] = v] \in [Option -> Text \cup {NONE}]  BY <1>1, <2>1, <2>3
  <2>6. Agrees(r.state.current_logger, r.state.did_set, [block EXCEPT ![o] = v])
    <3> DEFINE l == state.current_logger  fs == state.did_set
    <3>1. l \in Logger /\ Agrees(l, fs, block) /\ Acceptable(o, v) /\ o \in Option /\ v \in Text
      BY <1>1, <2>1, <2>3, <2>4
    <3>2. r.state.current_logger = Stored(l, o, v) /\ r.state.did_set = fs \cup FlagsOf(o)  BY <2>1
    <3> HIDE DEF l, fs
    <3>3. Agrees(Stored(l, o, v), fs \cup FlagsOf(o), [block EXCEPT ![o] = v])
      BY <1>1, <3>1, SetAgrees
    <3> QED  BY <3>2, <3>3
  <2> QED  BY <2>1, <2>2, <2>5, <2>6 DEF Linked
<1> QED  BY <1>2, <1>3, <1>4, <1>5 DEF Effect

\* Every character keeps the invariant.
LEMMA CharKeeps ==
  ASSUME PInv, NEW ch \in Char, ParseChar(ch)
  PROVE  PInv'
<1> DEFINE r == parse_advance(state, ch)
<1>1. /\ ret = NONE /\ state' = r.state /\ block' = Recorded(ch, r)
      /\ \/ r.kind = "PARSE_ERROR" /\ ret' = "EINVAL" /\ new' = NONE /\ UNCHANGED <<head, stale>>
         \/ /\ r.kind \in {"PARSE_OK", "PARSE_GOT_LOGGER"} /\ new' = NONE
            /\ UNCHANGED <<head, stale>> /\ ret' \in {NONE, "EINVAL", "ENOMEM", "stuck"}
         \/ /\ r.kind = "PARSE_GOT_LOGGER" /\ is_logger_valid(r.state, Met)
            /\ new' = r.state.current_logger /\ head' = Append(head, r.state.current_logger.name)
            /\ stale' \in Behind /\ UNCHANGED ret
  BY DEF ParseChar, Dealloc
<1>2. Sound(state)  BY DEF PInv
<1>3. Effect(state, ch, r)  BY <1>2, AdvanceEffect
<1> HIDE DEF r
<1>4. Sound(state') /\ state' \in ParserState  BY <1>1, <1>3 DEF Effect, Sound
<1>5. /\ head \in Seq(Text) /\ stale \in Behind /\ NamesUnique /\ block \in [Option -> Text \cup {NONE}]
      /\ r.state.current_logger \in Logger /\ Linked
  BY <1>1, <1>4 DEF PInv, TypeOK, ParserState
<1>7. CASE r.kind = "PARSE_ERROR"
  <2>1. ret' = "EINVAL" /\ new' = NONE /\ UNCHANGED <<head, stale>>  BY <1>1, <1>7
  <2>2. block' \in [Option -> Text \cup {NONE}]
    <3>1. NoValues \in [Option -> Text \cup {NONE}]  BY DEF NoValues
    <3>2. block' \in {NoValues, block}  BY <1>1, <1>7 DEF Recorded
    <3> QED  BY <1>5, <3>1, <3>2
  <2>3. TypeOK'  BY <1>4, <1>5, <2>1, <2>2 DEF TypeOK
  <2>4. ret' # NONE  BY <2>1, NoneAssumption
  <2> QED  BY <1>4, <1>5, <2>1, <2>3, <2>4 DEF PInv, NamesUnique, EntryComplete, EntryFromItsBlock
<1>8. CASE /\ r.kind # "PARSE_ERROR" /\ new' = NONE
           /\ UNCHANGED <<head, stale>> /\ ret' \in {NONE, "EINVAL", "ENOMEM", "stuck"}
  <2>2. Linked' /\ block' \in [Option -> Text \cup {NONE}]  BY <1>1, <1>3, <1>8, QuietStep
  <2>3. TypeOK'  BY <1>4, <1>5, <1>8, <2>2 DEF TypeOK
  <2> QED  BY <1>4, <1>5, <1>8, <2>2, <2>3 DEF PInv, NamesUnique, EntryComplete, EntryFromItsBlock
<1>9. CASE /\ r.kind = "PARSE_GOT_LOGGER" /\ is_logger_valid(r.state, Met)
           /\ new' = r.state.current_logger /\ head' = Append(head, r.state.current_logger.name)
           /\ stale' \in Behind /\ UNCHANGED ret
  <2> DEFINE l == r.state.current_logger
  <2>1. Linked' /\ block' \in [Option -> Text \cup {NONE}]  BY <1>1, <1>3, <1>9, QuietStep
  <2>2. SameLogger(state, ch, r) /\ state.kind = "CONFIG_OPTION_NAME" /\ r.state.kind = "LOGGER_KEYWORD"
    BY <1>3, <1>9 DEF Effect
  <2>3. block' = block  BY <1>1, <2>2 DEF Recorded
  <2>4. Agrees(l, r.state.did_set, block)  BY <1>5, <2>2 DEF Linked, SameLogger, InBlock
  <2>5. EntryComplete' /\ EntryFromItsBlock'  BY <1>5, <1>9, <2>3, <2>4, ValidEntry
  <2>6. l.name \in Text /\ \A i \in 1 .. Len(head) : head[i] # l.name
    BY <1>5, <1>9 DEF is_logger_valid, Logger, Met
  <2>7. head' \in Seq(Text) /\ NamesUnique'
    <3> DEFINE n == l.name
    <3>1. n \in Text /\ (\A i \in 1 .. Len(head) : head[i] # n) /\ head' = Append(head, n)  BY <1>9, <2>6
    <3> HIDE DEF n
    <3>2. /\ head' \in Seq(Text) /\ Len(head') = Len(head) + 1 /\ Len(head) \in Nat
          /\ head'[Len(head) + 1] = n /\ \A i \in 1 .. Len(head) : head'[i] = head[i]
      BY <1>5, <3>1, SMTT(60)
    <3>3. ASSUME NEW i \in 1 .. Len(head'), NEW j \in 1 .. Len(head'), head'[i] = head'[j]
          PROVE  i = j
      <4>1. (i \in 1 .. Len(head) \/ i = Len(head) + 1) /\ (j \in 1 .. Len(head) \/ j = Len(head) + 1)
        BY <3>2, SMTT(60)
      <4> QED  BY <1>5, <3>1, <3>2, <3>3, <4>1 DEF NamesUnique
    <3> QED  BY <3>2, <3>3 DEF NamesUnique
  <2>8. TypeOK'  BY <1>1, <1>4, <1>5, <1>9, <2>1, <2>7 DEF TypeOK
  <2> QED  BY <1>4, <2>1, <2>5, <2>7, <2>8 DEF PInv
<1> QED  BY <1>1, <1>7, <1>8, <1>9, <1>3 DEF Effect

\* PInv holds of a parser that parse_init has set up.
LEMMA PInitial == ASSUME Init PROVE PInv
<1> DEFINE l == ZeroLogger(<<>>)
<1>1. <<>> \in Text /\ Len(<<>>) = 0  BY SMTT(60) DEF Text
<1>2. l \in Logger  BY <1>1 DEF ZeroLogger, Logger, Destination, Severity, Boolean
<1>3. l.name = <<>> /\ l.format = <<>> /\ l.dest_filename = <<>>  BY DEF ZeroLogger
<1> HIDE DEF l
<1>4. state = [kind |-> "LOGGER_KEYWORD", consume_offset |-> 0, curr_value |-> <<>>, option_name |-> <<>>,
               did_set |-> {}, current_logger |-> l]
  BY DEF Init, parse_init, l
<1>5. "LOGGER_KEYWORD" \in Kind /\ 0 \in 0 .. 1 /\ {} \in SUBSET Flag  BY SMTT(60) DEF Kind
<1>6. state \in ParserState  BY <1>1, <1>2, <1>4, <1>5 DEF ParserState
<1>7. Sound(state)  BY <1>1, <1>3, <1>4, <1>6, LimitAssumption, SMTT(60) DEF Sound, LoggerFits, NoBlank
<1>8. Linked  BY <1>4 DEF Linked, InBlock
<1>9. TypeOK
  <2>1. stale \in Behind  BY SMTT(60) DEF Init, Nothing, Behind
  <2> QED  BY <1>6, <2>1, SMTT(60) DEF Init, TypeOK, NoValues
<1>10. NamesUnique /\ EntryComplete /\ EntryFromItsBlock
  BY SMTT(60) DEF Init, NamesUnique, EntryComplete, EntryFromItsBlock
<1> QED  BY <1>7, <1>8, <1>9, <1>10 DEF PInv

\* The end of the file and an error leave the parser and the list as they are.
LEMMA EndKeepsParser == ASSUME PInv, EndOfFile \/ ReadError PROVE PInv'
<1>1. ret' \in {"OK", "EIO", "stuck"} /\ new' = NONE /\ UNCHANGED <<state, head, stale, block>>
  BY DEF EndOfFile, ReadError, Dealloc
<1>2. ret' # NONE  BY <1>1, NoneAssumption
<1>3. TypeOK'  BY <1>1 DEF PInv, TypeOK
<1> QED  BY <1>1, <1>2, <1>3 DEF PInv, NamesUnique, EntryComplete, EntryFromItsBlock

\* PInv holds at the start and every turn of the loop keeps it.
LEMMA PInvariance == Spec => []PInv
<1>1. Init => PInv  BY PInitial
<1>2. PInv /\ [Next]_vars => PInv'
  <2> SUFFICES ASSUME PInv, [Next]_vars PROVE PInv'  OBVIOUS
  <2>1. CASE \E ch \in Char : ParseChar(ch)  BY <2>1, CharKeeps
  <2>2. CASE EndOfFile \/ ReadError  BY <2>2, EndKeepsParser
  <2>3. CASE UNCHANGED vars
    BY <2>3 DEF vars, PInv, TypeOK, Linked, NamesUnique, EntryComplete, EntryFromItsBlock, Word
  <2> QED  BY <2>1, <2>2, <2>3 DEF Next
<1> QED  BY <1>1, <1>2, PTL DEF Spec

\* For every file and all limits, the assertions of parse_advance hold and its buffers
\* are never overrun.
THEOREM NoOverrun == Spec => []BuffersFit
<1>1. PInv => BuffersFit  BY DEF PInv, Sound, BuffersFit
<1> QED  BY <1>1, PInvariance, PTL

\* For every file, an entry has the options README.md requires, in its own block.
THEOREM EntriesComplete == Spec => []EntryComplete
<1>1. PInv => EntryComplete  BY DEF PInv
<1> QED  BY <1>1, PInvariance, PTL

\* For every file, the fields of an entry are those its own block gives it.
THEOREM EntriesFromTheirBlocks == Spec => []EntryFromItsBlock
<1>1. PInv => EntryFromItsBlock  BY DEF PInv
<1> QED  BY <1>1, PInvariance, PTL

\* For every file, no two entries of the list share a name.
THEOREM NamesAreUnique == Spec => []NamesUnique
<1>1. PInv => NamesUnique  BY DEF PInv
<1> QED  BY <1>1, PInvariance, PTL

-----------------------------------------------------------------------------
(* The parser fed by the reader *)

\* Besides the two invariants: parse_config_file goes on only while the reader does,
\* and returns OK at BUFIO_EOF.
CInv == PInv /\ HInv /\ AcceptedWhole /\ (ret = "OK" => res = BUFIO_EOF)

\* parse_config_file begins with an unread file and a new parser, and keeps CInv.
LEMMA CInvariance == FSpec => []CInv
<1>1. FInit => CInv
  <2> SUFFICES ASSUME FInit PROVE CInv  OBVIOUS
  <2>1. PInv /\ HInv  BY PInitial, HInitial DEF FInit
  <2>2. ret # "OK"  BY NoneAssumption DEF FInit, Init
  <2> QED  BY <2>1, <2>2 DEF CInv, AcceptedWhole
<1>2. CInv /\ [FNext]_fvars => CInv'
  <2> SUFFICES ASSUME CInv, [FNext]_fvars PROVE CInv'  OBVIOUS
  <2>1. PInv /\ HInv  BY DEF CInv
  <2>2. CASE Opening
    <3>1. [HNext]_hvars  BY <2>2 DEF Opening, HNext, hvars
    <3>2. HInv'  BY <2>1, <3>1, ReaderKeeps
    <3>3. ret' \in {NONE, "EPERM", "ENOMEM"} /\ ret = NONE /\ UNCHANGED <<state, head, stale, new, block>>
      BY <2>2 DEF Opening
    <3>4. TypeOK'  BY <2>1, <3>3 DEF PInv, TypeOK
    <3>5. PInv'
      BY <2>1, <3>3, <3>4 DEF PInv, Linked, NamesUnique, EntryComplete, EntryFromItsBlock, Word
    <3>6. ret' # "OK"  BY <3>3, NoneAssumption
    <3> QED  BY <3>2, <3>5, <3>6 DEF CInv, AcceptedWhole
  <2>3. CASE Reading
    <3>1. [HNext]_hvars  BY <2>3 DEF Reading, HNext
    <3>2. HInv'  BY <2>1, <3>1, ReaderKeeps
    <3>3. PInv'
      <4>1. CASE EndOfFile \/ ReadError  BY <2>1, <4>1, EndKeepsParser
      <4>2. CASE res' \in Char /\ ParseChar(res')
        <5>1. PICK ch \in Char : ParseChar(ch)  BY <4>2
        <5> QED  BY <2>1, <5>1, CharKeeps
      <4> QED  BY <2>3, <4>1, <4>2 DEF Reading
    <3>4. ret' = "OK" => res' = BUFIO_EOF
      BY <2>3, NoneAssumption DEF Reading, EndOfFile, ReadError, ParseChar, Dealloc
    <3>5. EofExplained'  BY <3>2 DEF HInv
    <3> QED  BY <3>2, <3>3, <3>4, <3>5 DEF CInv, AcceptedWhole, EofExplained
  <2>4. CASE UNCHANGED fvars
    <3>1. UNCHANGED hvars /\ UNCHANGED vars  BY <2>4 DEF fvars, hvars, vars
    <3>2. HInv'  BY <2>1, <3>1, ReaderKeeps
    <3>3. PInv'
      BY <2>1, <3>1 DEF vars, PInv, TypeOK, Linked, NamesUnique, EntryComplete, EntryFromItsBlock, Word
    <3> QED  BY <3>1, <3>2, <3>3 DEF CInv, AcceptedWhole, hvars, vars
  <2> QED  BY <2>2, <2>3, <2>4 DEF FNext
<1> QED  BY <1>1, <1>2, PTL DEF FSpec

\* For every file and all limits, the state of the parser keeps its type, the list holds
\* names, and the result is one of five, or the parse is still running or stuck.
THEOREM ParserTypes == FSpec => []TypeOK
<1>1. CInv => TypeOK  BY DEF CInv, PInv
<1> QED  BY <1>1, CInvariance, PTL

\* For every file and buffer size, position, size and offset of the reader stay within
\* the file and the buffer.
THEOREM ReaderTypes == FSpec => []ReaderTypeOK
<1>1. CInv => ReaderTypeOK  BY DEF CInv, HInv
<1> QED  BY <1>1, CInvariance, PTL

\* What is proved of the parser alone and of the reader alone holds of
\* parse_config_file, for every file and any number of loggers in it.
THEOREM FileParsed ==
  FSpec => [](/\ BuffersFit /\ EntryComplete /\ EntryFromItsBlock /\ NamesUnique
              /\ CharactersInOrder /\ EofExplained)
<1>1. CInv => EntryComplete /\ EntryFromItsBlock /\ NamesUnique /\ CharactersInOrder /\ EofExplained
  BY DEF CInv, PInv, HInv
<1>2. CInv => BuffersFit  BY DEF CInv, PInv, Sound, BuffersFit
<1> QED  BY <1>1, <1>2, CInvariance, PTL

\* For every file, parse_config_file returns OK only if it has read all of it, or up to
\* a byte 0xff.
THEOREM NothingCutOff == FSpec => []AcceptedWhole
<1>1. CInv => AcceptedWhole  BY DEF CInv
<1> QED  BY <1>1, CInvariance, PTL

=============================================================================
