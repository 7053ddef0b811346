------------------------- MODULE LSClientProofs --------------------------
(***************************************************************************)
(* The library calls for lists, names, messages and levels of any length   *)
(* and size.  The inductive invariant ClientInv says how far the second loop of *)
(* minix_ls_clear_logs has come: each comma it has passed stands for one   *)
(* request, and the buffer holds what follows the last of them.            *)
(***************************************************************************)
EXTENDS LSClient, FiniteSetTheorems, TLAPS

\* Most leaves are first-order reasoning about sets and functions, which is for
\* Zenon; a leaf with arithmetic, records or sequences calls for SMT by name.
USE ZenonT(60)

\* The commas up to position q, and the last of them.
Passed(list, q) == {k \in Commas(list) : k <= q}

LastPassed(list, q, b) == b \in Passed(list, q) /\ \A k \in Passed(list, q) : k <= b

\* The names that end up to q have been sent.
SentUpTo(list, q, names) ==
  /\ Len(names) = Cardinality(Passed(list, q)) - 1
  /\ \A i, j \in Commas(list) :
       Adjacent(list, i, j) /\ j <= q => names[NamesBefore(list, j)] = Part(list, i, j)

Letters == Char \cup {Comma}

Accepted(list) == Len(list) <= MAX_LOGGERS_LEN - 1 /\ ~TooLongName(list)

CallOK ==
  \/ call.op \in {"none", "initialize", "clear_all"}
  \/ /\ call.op \in Ops
     /\ call = [op |-> call.op, len |-> call.len, message |-> call.message, level |-> call.level]
     /\ call.len \in Nat /\ call.message \in Nat /\ call.level \in Int
  \/ call.op = "clear" /\ call.list \in Seq(Letters)

Reported == result = OK <=> \A i \in 1 .. Len(answers) : answers[i] = OK

Clearing ==
  ret = NONE =>
    /\ call.op = "clear" /\ Accepted(call.list)
    /\ Len(call.list) <= MaxList /\ p <= Len(call.list)
    /\ SentUpTo(call.list, p, sent)
    /\ \E b \in Passed(call.list, p) :
         LastPassed(call.list, p, b) /\ loggers_buf = SubSeq(call.list, b + 1, p)
    /\ Reported

Done ==
  ret # NONE /\ call.op = "clear" =>
    IF sent = <<>> THEN ret = EINVAL /\ ~Accepted(call.list)
    ELSE SentUpTo(call.list, Len(call.list) + 1, sent) /\ Reported /\ ret = result

ClientInv ==
  /\ TypeOK /\ sent \in Seq(Seq(Letters)) /\ loggers_buf \in Seq(Letters)
  /\ CallOK /\ Clearing /\ Done /\ InvalidRefused

-----------------------------------------------------------------------------
(* Commas and names *)

\* The commas of a list are finitely many positions of it, 0 and the end among them.
LEMMA CommaSet ==
  ASSUME NEW list \in Seq(Letters)
  PROVE  /\ Commas(list) \subseteq 0 .. Len(list) + 1
         /\ 0 \in Commas(list) /\ Len(list) + 1 \in Commas(list)
         /\ \A S \in SUBSET Commas(list) : IsFiniteSet(S) /\ Cardinality(S) \in Nat
<1>1. Commas(list) \subseteq 0 .. Len(list) + 1
  BY SMTT(60) DEF Commas
<1>2. 0 \in Commas(list) /\ Len(list) + 1 \in Commas(list)
  BY DEF Commas
<1>3. IsFiniteSet(0 .. Len(list) + 1)
  BY FS_Interval, SMTT(60)
<1>4. ASSUME NEW S \in SUBSET Commas(list) PROVE IsFiniteSet(S) /\ Cardinality(S) \in Nat
  <2>1. S \subseteq 0 .. Len(list) + 1
    BY <1>1
  <2>2. IsFiniteSet(S)
    BY <1>3, <2>1, FS_Subset
  <2> QED BY <2>2, FS_CardinalityType
<1> QED BY <1>1, <1>2, <1>4

\* Before the first character nothing has been sent.
LEMMA NothingSent ==
  ASSUME NEW list \in Seq(Letters)
  PROVE  SentUpTo(list, 0, <<>>) /\ LastPassed(list, 0, 0) /\ 0 \in Passed(list, 0)
<1>1. Passed(list, 0) = {0}
  BY CommaSet, SMTT(60) DEF Passed
<1>2. Cardinality(Passed(list, 0)) = 1
  BY <1>1, FS_Singleton
<1>3. ASSUME NEW i \in Commas(list), NEW j \in Commas(list), Adjacent(list, i, j), j <= 0 PROVE FALSE
  BY <1>3, CommaSet, SMTT(60) DEF Adjacent
<1>4. Len(<<>>) = Cardinality(Passed(list, 0)) - 1
  <2>1. Len(<<>>) = 0
    OBVIOUS
  <2> QED BY <1>2, <2>1, SMTT(60)
<1> QED BY <1>1, <1>3, <1>4, SMTT(60) DEF SentUpTo, LastPassed

\* A comma ends the name that began after the comma before it.
LEMMA NameEnds ==
  ASSUME NEW list \in Seq(Letters), NEW q \in 0 .. Len(list), q + 1 \in Commas(list),
         NEW b, LastPassed(list, q, b)
  PROVE  /\ b \in Commas(list) /\ b \in 0 .. q /\ Adjacent(list, b, q + 1)
         /\ \A i \in Commas(list) : Adjacent(list, i, q + 1) => i = b
         /\ Part(list, b, q + 1) = SubSeq(list, b + 1, q)
<1>1. b \in Commas(list) /\ b \in 0 .. q
  BY CommaSet, SMTT(60) DEF LastPassed, Passed
<1>2. ASSUME NEW k \in Commas(list) PROVE k <= b \/ q + 1 <= k
  <2>1. k \in Int /\ q \in Int
    BY CommaSet, SMTT(60)
  <2>2. CASE k <= q
    BY <2>2 DEF LastPassed, Passed
  <2> QED BY <2>1, <2>2, SMTT(60)
<1>3. Adjacent(list, b, q + 1)
  BY <1>1, <1>2, SMTT(60) DEF Adjacent
<1>4. ASSUME NEW i \in Commas(list), Adjacent(list, i, q + 1) PROVE i = b
  <2>1. i \in Int /\ i < q + 1 /\ (b <= i \/ q + 1 <= b)
    BY <1>1, <1>4, CommaSet, SMTT(60) DEF Adjacent
  <2>2. i <= b \/ q + 1 <= i
    BY <1>2
  <2> QED BY <1>1, <2>1, <2>2, SMTT(60)
<1>5. Part(list, b, q + 1) = SubSeq(list, b + 1, q)
  <2>1. (q + 1) - 1 = q
    BY SMTT(60)
  <2> QED BY <2>1 DEF Part
<1> QED BY <1>1, <1>3, <1>4, <1>5

\* With the comma at q + 1 one name more has been passed.
LEMMA OneMorePassed ==
  ASSUME NEW list \in Seq(Letters), NEW q \in 0 .. Len(list), q + 1 \in Commas(list)
  PROVE  /\ Cardinality(Passed(list, q + 1)) = Cardinality(Passed(list, q)) + 1
         /\ NamesBefore(list, q + 1) = Cardinality(Passed(list, q))
         /\ LastPassed(list, q + 1, q + 1)
<1>1. Commas(list) \subseteq Int
  BY CommaSet, SMTT(60)
<1>2. Passed(list, q + 1) = Passed(list, q) \cup {q + 1} /\ q + 1 \notin Passed(list, q)
  BY <1>1, SMTT(60) DEF Passed
<1>3. IsFiniteSet(Passed(list, q))
  BY CommaSet DEF Passed
<1>4. Cardinality(Passed(list, q + 1)) = Cardinality(Passed(list, q)) + 1
  BY <1>2, <1>3, FS_AddElement
<1>5. {k \in Commas(list) : k < q + 1} = Passed(list, q)
  BY <1>1, SMTT(60) DEF Passed
<1>6. LastPassed(list, q + 1, q + 1)
  BY <1>1, SMTT(60) DEF LastPassed, Passed
<1> QED BY <1>4, <1>5, <1>6 DEF NamesBefore

\* The number of a name that has been passed is between 1 and their number.
LEMMA NameNumber ==
  ASSUME NEW list \in Seq(Letters), NEW q \in 0 .. Len(list),
         NEW i \in Commas(list), NEW j \in Commas(list), Adjacent(list, i, j), j <= q
  PROVE  NamesBefore(list, j) \in 1 .. Cardinality(Passed(list, q)) - 1
<1> DEFINE S == {k \in Commas(list) : k < j}
<1>1. Commas(list) \subseteq Int
  BY CommaSet, SMTT(60)
<1>2. IsFiniteSet(S) /\ Cardinality(S) \in Nat
  BY CommaSet
<1>3. i \in S
  BY DEF Adjacent
<1>4. Cardinality(S) # 0
  BY <1>2, <1>3, FS_EmptySet
<1>5. S \cup {j} \subseteq Passed(list, q) /\ j \notin S
  BY <1>1, SMTT(60) DEF Passed
<1>6. IsFiniteSet(Passed(list, q)) /\ Cardinality(Passed(list, q)) \in Nat
  BY CommaSet DEF Passed
<1>7. Cardinality(S \cup {j}) = Cardinality(S) + 1
  BY <1>2, <1>5, FS_AddElement
<1>8. Cardinality(S \cup {j}) <= Cardinality(Passed(list, q))
  BY <1>5, <1>6, FS_Subset
<1> HIDE DEF S
<1>9. Cardinality(S) \in 1 .. Cardinality(Passed(list, q)) - 1
  BY <1>2, <1>4, <1>6, <1>7, <1>8, SMTT(60)
<1> QED BY <1>9 DEF S, NamesBefore

\* The request at a comma sends the name that ends there.
LEMMA SendsName ==
  ASSUME NEW list \in Seq(Letters), NEW q \in 0 .. Len(list), q + 1 \in Commas(list),
         NEW b, LastPassed(list, q, b), NEW names \in Seq(Seq(Letters)), SentUpTo(list, q, names)
  PROVE  SentUpTo(list, q + 1, Append(names, SubSeq(list, b + 1, q)))
<1> DEFINE part == SubSeq(list, b + 1, q)
           more == Append(names, part)
           C == Cardinality(Passed(list, q))
<1>1. C \in Nat /\ Len(names) = C - 1
  BY CommaSet DEF Passed, SentUpTo
<1>2. part \in Seq(Letters)
  BY NameEnds, SMTT(60)
<1> HIDE DEF part, C
<1>3. Len(more) = C /\ more[C] = part /\ \A n \in 1 .. C - 1 : more[n] = names[n]
  BY <1>1, <1>2, SMTT(60)
<1> HIDE DEF more
<1>4. Len(more) = Cardinality(Passed(list, q + 1)) - 1
  BY <1>1, <1>3, OneMorePassed, SMTT(60) DEF C
<1>5. ASSUME NEW i \in Commas(list), NEW j \in Commas(list), Adjacent(list, i, j), j <= q + 1
      PROVE  more[NamesBefore(list, j)] = Part(list, i, j)
  <2>1. CASE j = q + 1
    <3>1. i = b /\ Part(list, b, q + 1) = part
      BY <1>5, <2>1, NameEnds DEF part
    <3>2. NamesBefore(list, j) = C
      BY <2>1, OneMorePassed DEF C
    <3> QED BY <1>3, <2>1, <3>1, <3>2
  <2>2. CASE j # q + 1
    <3>1. j <= q
      BY <1>5, <2>2, CommaSet, SMTT(60)
    <3>2. names[NamesBefore(list, j)] = Part(list, i, j)
      BY <1>5, <3>1 DEF SentUpTo
    <3>3. NamesBefore(list, j) \in 1 .. C - 1
      BY <1>5, <3>1, NameNumber DEF C
    <3> QED BY <1>3, <3>2, <3>3
  <2> QED BY <2>1, <2>2
<1>6. SentUpTo(list, q + 1, more)
  BY <1>4, <1>5 DEF SentUpTo
<1> QED BY <1>6 DEF more, part

\* Any other character goes into the buffer.
LEMMA Buffers ==
  ASSUME NEW list \in Seq(Letters), NEW q \in 0 .. Len(list), q < Len(list), list[q + 1] # Comma,
         NEW b, LastPassed(list, q, b), NEW names, SentUpTo(list, q, names)
  PROVE  /\ LastPassed(list, q + 1, b) /\ SentUpTo(list, q + 1, names)
         /\ SubSeq(list, b + 1, q + 1) = Append(SubSeq(list, b + 1, q), list[q + 1])
<1>1. Commas(list) \subseteq Int
  BY CommaSet, SMTT(60)
<1>2. q + 1 \notin Commas(list)
  BY SMTT(60) DEF Commas
<1>3. \A k \in Commas(list) : k <= q + 1 <=> k <= q
  BY <1>1, <1>2, SMTT(60)
<1>4. Passed(list, q + 1) = Passed(list, q)
  BY <1>3 DEF Passed
<1>5. b \in 0 .. q
  BY CommaSet, SMTT(60) DEF LastPassed, Passed
<1>6. SubSeq(list, b + 1, q + 1) = Append(SubSeq(list, b + 1, q), list[q + 1])
  BY <1>5, SMTT(60)
<1>7. LastPassed(list, q + 1, b)
  BY <1>4 DEF LastPassed
<1>8. SentUpTo(list, q + 1, names)
  BY <1>3, <1>4 DEF SentUpTo
<1> QED BY <1>6, <1>7, <1>8

\* When the end has been passed, every name has been sent.
LEMMA AllSent ==
  ASSUME NEW list \in Seq(Letters), NEW names, SentUpTo(list, Len(list) + 1, names)
  PROVE  /\ Len(names) = NamesBefore(list, Len(list) + 1) /\ Len(names) # 0
         /\ \A i, j \in Commas(list) : Adjacent(list, i, j) => names[NamesBefore(list, j)] = Part(list, i, j)
<1>1. Len(list) \in 0 .. Len(list) /\ Len(list) + 1 \in Commas(list)
  BY CommaSet, SMTT(60)
<1>2. Len(names) = NamesBefore(list, Len(list) + 1)
  <2>1. Cardinality(Passed(list, Len(list))) \in Nat
    BY CommaSet DEF Passed
  <2> QED BY <1>1, <2>1, OneMorePassed, SMTT(60) DEF SentUpTo
<1>3. NamesBefore(list, Len(list) + 1) # 0
  <2>1. 0 \in Passed(list, Len(list)) /\ IsFiniteSet(Passed(list, Len(list)))
    BY CommaSet, SMTT(60) DEF Passed
  <2>2. Cardinality(Passed(list, Len(list))) # 0
    BY <2>1, FS_EmptySet
  <2> QED BY <1>1, <2>2, OneMorePassed
<1>4. \A j \in Commas(list) : j <= Len(list) + 1
  BY CommaSet, SMTT(60)
<1>5. ASSUME NEW i \in Commas(list), NEW j \in Commas(list), Adjacent(list, i, j)
      PROVE  names[NamesBefore(list, j)] = Part(list, i, j)
  BY <1>4, <1>5 DEF SentUpTo
<1> QED BY <1>2, <1>3, <1>5

-----------------------------------------------------------------------------
(* The 16-bit fields *)

\* What the proofs use of the width of a field.
LEMMA FieldSizes == FieldSize \in Nat /\ FieldSize \div 2 \in Nat /\ FieldSize \div 2 + 4 <= FieldSize
BY SMTT(60) DEF FieldSize

\* What a number becomes in a field of 16 bits.
LEMMA Uint16 ==
  /\ \A n \in Int : uint16(n) \in Field
  /\ \A n \in Field : uint16(n) = n
  /\ \A n \in Int : -FieldSize <= n /\ n < 0 => uint16(n) = n + FieldSize
<1>1. \A n \in Int : uint16(n) \in Int /\ 0 <= uint16(n) /\ uint16(n) < FieldSize
  BY FieldSizes, SMTT(60) DEF uint16
<1>2. \A n \in Int : 0 <= n /\ n < FieldSize => uint16(n) = n
  BY FieldSizes, SMTT(60) DEF uint16
<1>3. \A n \in Int : -FieldSize <= n /\ n < 0 => uint16(n) = n + FieldSize
  BY FieldSizes, SMTT(60) DEF uint16
<1> QED BY <1>1, <1>2, <1>3, FieldSizes, SMTT(60) DEF Field

\* A level that fits is valid in the field exactly when it was valid in the call.
LEMMA LevelKept ==
  ASSUME NEW n \in FitsField
  PROVE  (valid_severity(uint16(n)) <=> n \in 0 .. 3) /\ (n \in 0 .. 3 => uint16(n) = n)
<1>1. n \in Int /\ -(FieldSize \div 2) <= n /\ n < FieldSize
  BY FieldSizes, SMTT(60) DEF FitsField
<1>2. CASE 0 <= n
  <2>1. uint16(n) = n
    BY <1>1, <1>2, FieldSizes, Uint16, SMTT(60) DEF Field
  <2> QED BY <2>1 DEF valid_severity
<1>3. CASE n < 0
  <2>1. uint16(n) = n + FieldSize
    BY <1>1, <1>3, FieldSizes, Uint16, SMTT(60)
  <2> QED BY <1>1, <1>3, <2>1, FieldSizes, SMTT(60) DEF valid_severity
<1> QED BY <1>1, <1>2, <1>3, SMTT(60)

-----------------------------------------------------------------------------
(* The steps *)

\* Initially no call has been made and the invariant holds.
LEMMA ClientInit == Init => ClientInv
<1> SUFFICES ASSUME Init PROVE ClientInv
  OBVIOUS
<1>1. TypeOK
  BY ClientAssumption, SMTT(60) DEF Init, TypeOK, Answers
<1>2. sent \in Seq(Seq(Letters)) /\ loggers_buf \in Seq(Letters)
  BY SMTT(60) DEF Init
<1>3. ret # NONE /\ call.op = "none"
  BY ClientAssumption DEF Init
<1>4. CallOK /\ Clearing /\ Done
  BY <1>3 DEF CallOK, Clearing, Done
<1>5. InvalidRefused
  BY <1>3 DEF InvalidRefused, Ops
<1> QED BY <1>1, <1>2, <1>4, <1>5 DEF ClientInv

\* A call with a name: the length test of the library, then those of main.c.
LEMMA NamedCallStep ==
  ASSUME ClientInv, NEW op \in Ops, NEW len \in NameLengths, NEW message \in MessageLengths,
         NEW level \in Levels, NamedCall(op, len, message, level)
  PROVE  ClientInv'
<1> DEFINE m == [op |-> op, name_len |-> len, message_len |-> uint16(message), severity |-> uint16(level)]
<1>1. len \in Nat /\ message \in Nat /\ level \in Int
  BY ClientAssumption
<1>2. /\ call' = [op |-> op, len |-> len, message |-> message, level |-> level]
      /\ sent' = <<>> /\ answers' = <<>> /\ UNCHANGED <<p, loggers_buf, result>>
      /\ op # "write" => message = 0
      /\ op \notin {"write", "set_level"} => level = 0
  BY DEF NamedCall
<1>3. CASE len >= LS_IPC_LOGGER_MAX_NAME_LEN - 1
  <2>1. request' = NONE /\ ret' = EINVAL
    BY <1>3 DEF NamedCall
  <2>2. TypeOK'
    BY <1>2, <2>1, SMTT(60) DEF ClientInv, TypeOK
  <2>3. len >= LS_IPC_LOGGER_MAX_NAME_LEN \/ len = LS_IPC_LOGGER_MAX_NAME_LEN - 1
    BY <1>1, <1>3, ClientAssumption, SMTT(60)
  <2>4. call'.len = len
    BY <1>2
  <2>5. InvalidRefused'
    BY <2>1, <2>3, <2>4 DEF InvalidRefused, Invalid, NameTooBig
  <2>6. CallOK' /\ Clearing' /\ Done'
    BY <1>1, <1>2, <2>1, ClientAssumption DEF CallOK, Clearing, Done, Ops
  <2> QED BY <1>2, <2>2, <2>5, <2>6, SMTT(60) DEF ClientInv
<1>4. CASE ~(len >= LS_IPC_LOGGER_MAX_NAME_LEN - 1)
  <2>1. request' = m /\ ret' \in IF RequestTaken(m) THEN Answers ELSE {EINVAL}
    BY <1>4 DEF NamedCall
  <2>2. ret' \in Answers \cup {EINVAL} /\ (ret' = EINVAL <=> ~RequestTaken(m))
    BY <2>1, ClientAssumption DEF Answers
  <2>3. RequestTaken(m) <=> /\ op = "write" => uint16(message) <= LS_MAX_MESSAGE_LEN
                            /\ op \in {"write", "set_level"} => valid_severity(uint16(level))
    BY DEF RequestTaken
  <2>4. m \in [op : Ops, name_len : 0 .. LS_IPC_LOGGER_MAX_NAME_LEN - 1,
               message_len : Field, severity : Field]
    <3>1. len \in 0 .. LS_IPC_LOGGER_MAX_NAME_LEN - 1
      BY <1>1, <1>4, ClientAssumption, SMTT(60)
    <3>2. uint16(message) \in Field /\ uint16(level) \in Field
      BY <1>1, Uint16, SMTT(60)
    <3> QED BY <3>1, <3>2
  <2> HIDE DEF m
  <2>5. TypeOK'
    BY <1>2, <2>1, <2>2, <2>4, SMTT(60) DEF ClientInv, TypeOK
  <2>6. CallOK' /\ Clearing' /\ Done'
    BY <1>1, <1>2, <2>2, ClientAssumption DEF CallOK, Clearing, Done, Ops, Answers
  <2>7. ASSUME message \in Field, level \in FitsField
        PROVE  /\ ret' = EINVAL <=> message > LS_MAX_MESSAGE_LEN \/ level \notin 0 .. 3
               /\ ret' # EINVAL => m = [op |-> op, name_len |-> len, message_len |-> message, severity |-> level]
    <3>1. uint16(message) = message
      BY <1>1, <2>7, Uint16
    <3>2. valid_severity(uint16(level)) <=> level \in 0 .. 3
      BY <2>7, LevelKept
    <3>3. op \notin {"write", "set_level"} => level \in 0 .. 3
      BY <1>2, SMTT(60)
    <3>4. op # "write" => message <= LS_MAX_MESSAGE_LEN
      BY <1>2, ClientAssumption, SMTT(60)
    <3>5. RequestTaken(m) <=> message <= LS_MAX_MESSAGE_LEN /\ level \in 0 .. 3
      BY <2>3, <3>1, <3>2, <3>3, <3>4
    <3>6. level \in 0 .. 3 => uint16(level) = level
      BY <2>7, LevelKept
    <3>7. message > LS_MAX_MESSAGE_LEN <=> ~(message <= LS_MAX_MESSAGE_LEN)
      BY <1>1, ClientAssumption, SMTT(60)
    <3> QED BY <2>2, <3>1, <3>5, <3>6, <3>7 DEF m
  <2>8. ~(len >= LS_IPC_LOGGER_MAX_NAME_LEN)
    BY <1>1, <1>4, ClientAssumption, SMTT(60)
  <2>9. call'.len = len /\ call'.message = message /\ call'.level = level /\ call'.op = op
    BY <1>2
  <2>10. Invalid' <=> message > LS_MAX_MESSAGE_LEN \/ level \notin 0 .. 3
    BY <2>8, <2>9 DEF Invalid, NameTooBig
  <2>11. InvalidRefused'
    BY <2>1, <2>7, <2>9, <2>10 DEF InvalidRefused, AsPassed
  <2> QED BY <1>2, <2>5, <2>6, <2>11, SMTT(60) DEF ClientInv
<1> QED BY <1>3, <1>4

\* A call without a name sends one request and returns its answer.
LEMMA PlainCallStep ==
  ASSUME ClientInv, NEW op \in {"initialize", "clear_all"}, PlainCall(op)
  PROVE  ClientInv'
<1>1. /\ call' = [op |-> op] /\ request' = [op |-> op] /\ ret' \in Answers
      /\ sent' = <<>> /\ answers' = <<>> /\ UNCHANGED <<p, loggers_buf, result>>
  BY DEF PlainCall
<1>2. ret' # NONE /\ call'.op \notin Ops /\ call'.op # "clear"
  BY <1>1, ClientAssumption DEF Answers, Ops
<1>3. TypeOK'
  BY <1>1, SMTT(60) DEF ClientInv, TypeOK
<1>4. CallOK' /\ Clearing' /\ Done' /\ InvalidRefused'
  BY <1>1, <1>2 DEF CallOK, Clearing, Done, InvalidRefused
<1> QED BY <1>1, <1>3, <1>4, SMTT(60) DEF ClientInv

\* The list is measured before anything is sent.
LEMMA ClearLogsStep ==
  ASSUME ClientInv, NEW list \in Lists, minix_ls_clear_logs(list)
  PROVE  ClientInv'
<1>1. /\ call' = [op |-> "clear", list |-> list]
      /\ ret' = IF Len(list) > MAX_LOGGERS_LEN - 1 \/ TooLongName(list) THEN EINVAL ELSE NONE
      /\ p' = 0 /\ loggers_buf' = <<>> /\ result' = OK
      /\ sent' = <<>> /\ answers' = <<>> /\ request' = NONE
  BY DEF minix_ls_clear_logs
<1>2. list \in Seq(Letters) /\ Len(list) <= MaxList /\ Len(list) \in Nat
  <2>1. PICK n \in 0 .. MaxList : list \in [1 .. n -> Letters]
    BY DEF Lists, Letters
  <2>2. n \in Nat /\ n <= MaxList
    BY <2>1, ClientAssumption, SMTT(60)
  <2> QED BY <2>1, <2>2, SMTT(60)
<1>3. ret' = IF Accepted(list) THEN NONE ELSE EINVAL
  BY <1>1, <1>2, ClientAssumption, SMTT(60) DEF Accepted
<1>4. call'.op = "clear" /\ call'.list = list /\ call'.op \notin Ops
  BY <1>1 DEF Ops
<1>5. TypeOK'
  BY <1>1, <1>3, ClientAssumption, SMTT(60) DEF TypeOK, Answers
<1>6. CallOK'
  BY <1>2, <1>4 DEF CallOK
<1>7. Clearing'
  <2>1. /\ SentUpTo(list, 0, <<>>)
        /\ 0 \in Passed(list, 0) /\ LastPassed(list, 0, 0) /\ <<>> = SubSeq(list, 0 + 1, 0)
    BY <1>2, NothingSent, SMTT(60)
  <2>2. Reported'
    BY <1>1, SMTT(60) DEF Reported
  <2>3. ret' = NONE => Accepted(list)
    BY <1>3, ClientAssumption
  <2> QED BY <1>1, <1>2, <1>4, <2>1, <2>2, <2>3, SMTT(60) DEF Clearing
<1>8. Done'
  BY <1>1, <1>3, <1>4 DEF Done
<1>9. InvalidRefused'
  BY <1>4 DEF InvalidRefused
<1>10. sent' \in Seq(Seq(Letters)) /\ loggers_buf' \in Seq(Letters)
  BY <1>1, SMTT(60)
<1> QED BY <1>5, <1>6, <1>7, <1>8, <1>9, <1>10 DEF ClientInv

\* An error among the answers is kept, whatever the later answers are.
LEMMA AnswerKept ==
  ASSUME Reported, answers \in Seq(Answers), result \in Answers, NEW a \in Answers, Request(a)
  PROVE  /\ Reported' /\ answers' \in Seq(Answers) /\ Len(answers') = Len(answers) + 1
         /\ result' \in Answers
<1>1. answers' = Append(answers, a) /\ result' = IF a # OK THEN a ELSE result
  BY DEF Request
<1>2. /\ answers' \in Seq(Answers) /\ Len(answers') = Len(answers) + 1 /\ Len(answers) \in Nat
      /\ answers'[Len(answers) + 1] = a /\ \A i \in 1 .. Len(answers) : answers'[i] = answers[i]
  BY <1>1, SMTT(60)
<1>3. (\A i \in 1 .. Len(answers') : answers'[i] = OK) <=> a = OK /\ \A i \in 1 .. Len(answers) : answers[i] = OK
  <2>1. \A i \in 1 .. Len(answers') : i \in 1 .. Len(answers) \/ i = Len(answers) + 1
    BY <1>2, SMTT(60)
  <2>2. Len(answers) + 1 \in 1 .. Len(answers') /\ \A i \in 1 .. Len(answers) : i \in 1 .. Len(answers')
    BY <1>2, SMTT(60)
  <2> QED BY <1>2, <2>1, <2>2
<1>4. Reported'
  BY <1>1, <1>3 DEF Reported
<1> QED BY <1>1, <1>2, <1>4

\* t is s with one element more.
Longer(t, s, e, S) ==
  /\ t \in Seq(S) /\ t # <<>> /\ Len(t) = Len(s) + 1
  /\ DOMAIN t = 1 .. Len(s) + 1 /\ DOMAIN s = 1 .. Len(s) /\ Len(s) \in Nat
  /\ t[Len(s) + 1] = e /\ \A i \in 1 .. Len(s) : t[i] = s[i]

\* What Append does.
LEMMA Appended ==
  ASSUME NEW S, NEW s \in Seq(S), NEW e \in S
  PROVE  Longer(Append(s, e), s, e, S)
BY SMTT(60) DEF Longer

\* A request of the second loop sends the name that ends at the next comma, and
\* it fits the field of the request.
LEMMA RequestStep ==
  ASSUME ClientInv, ret = NONE, p + 1 \in Commas(call.list), NEW a \in Answers, Request(a)
  PROVE  /\ SentUpTo(call.list, p + 1, sent') /\ sent' \in Seq(Seq(Letters)) /\ sent' # <<>>
         /\ \A i \in DOMAIN sent' : Len(sent'[i]) < LS_IPC_LOGGER_MAX_NAME_LEN
         /\ Reported' /\ answers' \in Seq(Answers) /\ Len(answers') = Len(sent')
         /\ result' \in Answers /\ loggers_buf' = <<>>
<1> DEFINE list == call.list
<1>1. /\ list \in Seq(Letters) /\ p \in 0 .. Len(list) /\ Accepted(list)
      /\ SentUpTo(list, p, sent) /\ sent \in Seq(Seq(Letters)) /\ loggers_buf \in Seq(Letters)
      /\ Reported
  BY SMTT(60) DEF ClientInv, TypeOK, Clearing, CallOK, Ops
<1>2. PICK b \in Passed(list, p) : LastPassed(list, p, b) /\ loggers_buf = SubSeq(list, b + 1, p)
  BY DEF ClientInv, Clearing
<1>3. sent' = Append(sent, loggers_buf) /\ loggers_buf' = <<>>
  BY DEF Request
<1> HIDE DEF list
<1>4. SentUpTo(list, p + 1, sent')
  BY <1>1, <1>2, <1>3, SendsName DEF list
<1>5. /\ b \in Commas(list) /\ Adjacent(list, b, p + 1) /\ loggers_buf = Part(list, b, p + 1)
  BY <1>1, <1>2, NameEnds DEF list
<1>6. Len(loggers_buf) < LS_IPC_LOGGER_MAX_NAME_LEN
  <2>1. ~(Len(loggers_buf) > LS_IPC_LOGGER_MAX_NAME_LEN - 1)
    BY <1>1, <1>5 DEF Accepted, TooLongName, list
  <2>2. Len(loggers_buf) \in Nat
    BY <1>1, SMTT(60)
  <2> QED BY <2>1, <2>2, ClientAssumption, SMTT(60)
<1>7. Longer(sent', sent, loggers_buf, Seq(Letters))
  BY <1>1, <1>3, Appended
<1>8. ASSUME NEW i \in DOMAIN sent' PROVE Len(sent'[i]) < LS_IPC_LOGGER_MAX_NAME_LEN
  <2>1. i \in 1 .. Len(sent) \/ i = Len(sent) + 1
    BY <1>7, SMTT(60) DEF Longer
  <2>2. \A j \in 1 .. Len(sent) : Len(sent[j]) < LS_IPC_LOGGER_MAX_NAME_LEN
    BY <1>7 DEF Longer, ClientInv, TypeOK
  <2> QED BY <1>6, <1>7, <2>1, <2>2 DEF Longer
<1>9. answers \in Seq(Answers) /\ result \in Answers /\ Len(answers) = Len(sent)
  BY DEF ClientInv, TypeOK
<1>10. /\ Reported' /\ answers' \in Seq(Answers) /\ Len(answers') = Len(answers) + 1
       /\ result' \in Answers
  BY <1>1, <1>9, AnswerKept
<1> QED BY <1>3, <1>4, <1>7, <1>8, <1>9, <1>10 DEF list, Longer

\* One character of the list.
LEMMA ClearStepStep ==
  ASSUME ClientInv, ClearStep
  PROVE  ClientInv'
<1> DEFINE list == call.list
<1>1. /\ ret = NONE /\ p < Len(list) /\ p' = p + 1 /\ call' = call /\ ret' = ret /\ request' = request
  BY DEF ClearStep
<1>2. /\ list \in Seq(Letters) /\ p \in 0 .. Len(list) /\ Accepted(list) /\ Len(list) <= MaxList
      /\ SentUpTo(list, p, sent) /\ Reported
      /\ call.op = "clear" /\ call.op \notin Ops /\ sent \in Seq(Seq(Letters)) /\ loggers_buf \in Seq(Letters)
  BY <1>1, SMTT(60) DEF ClientInv, TypeOK, Clearing, CallOK, Ops
<1>3. p + 1 \in 0 .. MaxList /\ p + 1 \in 1 .. Len(list) /\ p + 1 < MAX_LOGGERS_LEN
  BY <1>1, <1>2, ClientAssumption, SMTT(60) DEF Accepted
<1>4. CallOK' /\ InvalidRefused' /\ Done'
  <2>1. call'.op = "clear" /\ ret' = NONE
    BY <1>1, <1>2
  <2> QED BY <1>1, <1>2, <2>1 DEF ClientInv, CallOK, InvalidRefused, Done, Idle
<1>5. CASE list[p + 1] = Comma
  <2>1. PICK a \in Answers : Request(a)
    BY <1>5 DEF ClearStep
  <2>2. p + 1 \in Commas(list)
    BY <1>2, <1>3, <1>5, SMTT(60) DEF Commas
  <2>3. /\ SentUpTo(list, p + 1, sent') /\ sent' \in Seq(Seq(Letters))
        /\ \A i \in DOMAIN sent' : Len(sent'[i]) < LS_IPC_LOGGER_MAX_NAME_LEN
        /\ Reported' /\ answers' \in Seq(Answers) /\ Len(answers') = Len(sent')
        /\ result' \in Answers /\ loggers_buf' = <<>>
    BY <1>1, <2>1, <2>2, RequestStep
  <2>4. LastPassed(list, p + 1, p + 1) /\ p + 1 \in Passed(list, p + 1)
    BY <1>2, <2>2, OneMorePassed DEF LastPassed
  <2>5. <<>> = SubSeq(list, (p + 1) + 1, p + 1)
    BY <1>2, <1>3, SMTT(60)
  <2>6. TypeOK'
    <3>1. Len(<<>>) < MAX_LOGGERS_LEN
      BY ClientAssumption, SMTT(60)
    <3> QED BY <1>1, <1>3, <2>3, <3>1 DEF ClientInv, TypeOK
  <2>7. Clearing'
    BY <1>1, <1>2, <1>3, <2>3, <2>4, <2>5, SMTT(60) DEF Clearing
  <2> QED BY <1>4, <2>3, <2>6, <2>7, SMTT(60) DEF ClientInv
<1>6. CASE list[p + 1] # Comma
  <2>1. loggers_buf' = Append(loggers_buf, list[p + 1]) /\ UNCHANGED <<sent, answers, result>>
    BY <1>6 DEF ClearStep
  <2>2. PICK b \in Passed(list, p) : LastPassed(list, p, b) /\ loggers_buf = SubSeq(list, b + 1, p)
    BY <1>1 DEF ClientInv, Clearing
  <2>3. /\ LastPassed(list, p + 1, b) /\ SentUpTo(list, p + 1, sent)
        /\ SubSeq(list, b + 1, p + 1) = Append(SubSeq(list, b + 1, p), list[p + 1])
    BY <1>1, <1>2, <1>6, <2>2, Buffers
  <2>4. b \in Passed(list, p + 1) /\ loggers_buf' = SubSeq(list, b + 1, p + 1)
    BY <2>1, <2>2, <2>3 DEF LastPassed
  <2>5. b \in 0 .. p
    BY <1>2, <2>2, CommaSet, SMTT(60) DEF Passed
  <2>6. loggers_buf' \in Seq(Letters) /\ Len(loggers_buf') < MAX_LOGGERS_LEN
    <3>1. list[p + 1] \in Letters
      BY <1>2, <1>3, SMTT(60)
    <3>2. Len(SubSeq(list, b + 1, p + 1)) = (p + 1) - b
      BY <1>2, <1>3, <2>5, SMTT(60)
    <3>3. (p + 1) - b < MAX_LOGGERS_LEN
      BY <1>2, <1>3, <2>5, ClientAssumption, SMTT(60)
    <3>4. loggers_buf' \in Seq(Letters)
      BY <1>2, <2>1, <3>1, SMTT(60)
    <3>5. Len(loggers_buf') < MAX_LOGGERS_LEN
      BY <2>4, <3>2, <3>3
    <3> QED BY <3>4, <3>5
  <2>7. TypeOK'
    BY <1>1, <1>3, <2>1, <2>6 DEF ClientInv, TypeOK
  <2>8. Reported'
    BY <1>2, <2>1 DEF Reported
  <2>9. Clearing'
    <3>1. \E c \in Passed(list, p + 1) :
            LastPassed(list, p + 1, c) /\ loggers_buf' = SubSeq(list, c + 1, p + 1)
      BY <2>3, <2>4
    <3>2. p + 1 <= Len(list)
      BY <1>2, <1>3, SMTT(60)
    <3> HIDE DEF list
    <3>3. call'.list = list /\ call'.op = "clear" /\ p' = p + 1 /\ sent' = sent
      BY <1>1, <1>2, <2>1 DEF list
    <3> QED BY <1>2, <2>3, <2>8, <3>1, <3>2, <3>3 DEF Clearing
  <2> QED BY <1>2, <1>4, <2>1, <2>6, <2>7, <2>9 DEF ClientInv
<1> QED BY <1>5, <1>6

\* What follows the loop: the last name, which may be empty.
LEMMA ClearLastStep ==
  ASSUME ClientInv, ClearLast
  PROVE  ClientInv'
<1> DEFINE list == call.list
<1>1. /\ ret = NONE /\ p = Len(list) /\ p' = p /\ call' = call /\ ret' = result' /\ request' = request
  BY DEF ClearLast
<1>2. /\ list \in Seq(Letters) /\ call.op = "clear" /\ call.op \notin Ops
  BY <1>1 DEF ClientInv, Clearing, CallOK, Ops
<1>3. PICK a \in Answers : Request(a)
  BY DEF ClearLast
<1>4. p + 1 \in Commas(list)
  BY <1>1, <1>2, CommaSet
<1>5. /\ SentUpTo(list, p + 1, sent') /\ sent' \in Seq(Seq(Letters)) /\ sent' # <<>>
      /\ \A i \in DOMAIN sent' : Len(sent'[i]) < LS_IPC_LOGGER_MAX_NAME_LEN
      /\ Reported' /\ answers' \in Seq(Answers) /\ Len(answers') = Len(sent')
      /\ result' \in Answers /\ loggers_buf' = <<>>
  BY <1>1, <1>3, <1>4, RequestStep
<1>6. ret' # NONE
  BY <1>1, <1>5, ClientAssumption DEF Answers
<1>7. TypeOK'
  <2>1. Len(<<>>) < MAX_LOGGERS_LEN
    BY ClientAssumption, SMTT(60)
  <2> QED BY <1>1, <1>5, <2>1 DEF ClientInv, TypeOK
<1>8. CallOK' /\ Clearing' /\ InvalidRefused'
  BY <1>1, <1>2, <1>6 DEF ClientInv, CallOK, Clearing, InvalidRefused
<1>9. Done'
  BY <1>1, <1>5 DEF Done
<1> QED BY <1>5, <1>7, <1>8, <1>9, SMTT(60) DEF ClientInv

\* The invariant is inductive.
LEMMA ClientStep == ClientInv /\ [Next]_vars => ClientInv'
<1> SUFFICES ASSUME ClientInv, [Next]_vars PROVE ClientInv'
  OBVIOUS
<1>1. CASE \E op \in Ops, len \in NameLengths, message \in MessageLengths, level \in Levels :
             NamedCall(op, len, message, level)
  BY <1>1, NamedCallStep
<1>2. CASE \E op \in {"initialize", "clear_all"} : PlainCall(op)
  BY <1>2, PlainCallStep
<1>3. CASE \E list \in Lists : minix_ls_clear_logs(list)
  BY <1>3, ClearLogsStep
<1>4. CASE ClearStep
  BY <1>4, ClearStepStep
<1>5. CASE ClearLast
  BY <1>5, ClearLastStep
<1>6. CASE UNCHANGED vars
  <2>1. TypeOK' /\ CallOK'
    BY <1>6 DEF vars, ClientInv, TypeOK, CallOK, Idle
  <2>2. Clearing' /\ Done'
    BY <1>6 DEF vars, ClientInv, Clearing, Done, Reported
  <2>3. InvalidRefused'
    <3>1. Invalid' <=> Invalid
      BY <1>6 DEF vars, Invalid, NameTooBig
    <3>2. AsPassed' = AsPassed
      BY <1>6 DEF vars, AsPassed
    <3> QED BY <1>6, <3>1, <3>2 DEF vars, ClientInv, InvalidRefused, Idle
  <2> QED BY <1>6, <2>1, <2>2, <2>3 DEF vars, ClientInv
<1> QED BY <1>1, <1>2, <1>3, <1>4, <1>5, <1>6 DEF Next

-----------------------------------------------------------------------------

\* ClientInv holds in every state.
THEOREM ClientInvariant == Spec => []ClientInv
BY ClientInit, ClientStep, PTL DEF Spec

\* Every name fits its field of the request and the list fits its buffer, for
\* lists and names of any length: the first loop has measured them.
THEOREM ClientTypes == Spec => []TypeOK
<1>1. ClientInv => TypeOK
  BY DEF ClientInv
<1> QED BY <1>1, ClientInvariant, PTL

\* minix_ls_clear_logs sends every name of the list, in order, or nothing.
THEOREM ListCleared == Spec => []AllOrNothing
<1>1. ClientInv => AllOrNothing
  <2> SUFFICES ASSUME ClientInv, call.op = "clear", ret # NONE PROVE AllOrNothing
    BY DEF AllOrNothing, Cleared, Idle
  <2>1. call.list \in Seq(Letters) /\ Len(call.list) \in Nat
    BY SMTT(60) DEF ClientInv, CallOK, Ops
  <2>2. CASE sent = <<>>
    <3>1. ret = EINVAL /\ ~Accepted(call.list)
      BY <2>2 DEF ClientInv, Done
    <3> QED BY <2>1, <2>2, <3>1, ClientAssumption, SMTT(60) DEF Accepted, AllOrNothing
  <2>3. CASE sent # <<>>
    <3>1. SentUpTo(call.list, Len(call.list) + 1, sent)
      BY <2>3 DEF ClientInv, Done
    <3> QED BY <2>1, <2>3, <3>1, AllSent DEF AllOrNothing
  <2> QED BY <2>2, <2>3
<1> QED BY <1>1, ClientInvariant, PTL

\* It returns OK exactly when every request of the list was answered OK.
THEOREM ErrorReported == Spec => []AnyErrorReported
<1>1. ClientInv => AnyErrorReported
  <2> SUFFICES ASSUME ClientInv, call.op = "clear", ret # NONE, sent # <<>>
               PROVE  ret = OK <=> \A i \in DOMAIN answers : answers[i] = OK
    BY DEF AnyErrorReported, Cleared, Idle
  <2>1. Reported /\ ret = result
    BY DEF ClientInv, Done
  <2>2. DOMAIN answers = 1 .. Len(answers)
    BY SMTT(60) DEF ClientInv, TypeOK
  <2> QED BY <2>1, <2>2 DEF Reported
<1> QED BY <1>1, ClientInvariant, PTL

\* Arguments out of range are refused and all others reach the server unchanged,
\* for every argument that fits a field of 16 bits.
THEOREM RefusesInvalid == Spec => []InvalidRefused
<1>1. ClientInv => InvalidRefused
  BY DEF ClientInv
<1> QED BY <1>1, ClientInvariant, PTL

=============================================================================
