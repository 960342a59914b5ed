------------------------- MODULE IndexReaderProofs -------------------------
(***************************************************************************)
(* The safety properties of IndexReader, for index files of any size.      *)
(*                                                                         *)
(* Entries are sent and received in the order of the file, so the index is *)
(* 1 .. c for some c and the channel holds c + 1 .. Sent.  How far the     *)
(* reader has come, and whether it failed, then decides the rest.          *)
(***************************************************************************)
EXTENDS IndexReader, TLAPS

\* The reader met a damaged entry, and has reported it or is about to.
Failed == equeue = 1 \/ result = "error" \/ producer = "fail"

\* Entries sent so far: the one read last is not, when it is still in the
\* reader's hands or could not be read.
Sent == IF producer = "send" \/ Failed THEN next - 2 ELSE next - 1

InOrder ==
    \E c \in Nat :
        /\ index = 1 .. c
        /\ c + Len(nqueue) = Sent
        /\ \A i \in 1 .. Len(nqueue) : nqueue[i] = c + i

Undamaged == \A n \in 1 .. Sent : n <= whole /\ n \notin bad

Reader ==
    /\ producer = "check" => ~ Failed
    /\ producer = "read" => ~ Failed /\ next <= whole + (IF torn THEN 1 ELSE 0)
    /\ producer = "send" =>
          ~ Failed /\ next >= 2 /\ next - 1 <= whole /\ next - 1 \notin bad
    /\ producer = "fail" => equeue = 0 /\ result = "none"
    /\ producer \in {"close", "done"} /\ ~ Failed => Sent >= whole /\ ~ torn
    /\ Failed => Damaged /\ next >= 2

Ends ==
    /\ closed <=> producer = "done"
    /\ consumer = "done" => nqueue = <<>> /\ closed
    /\ result # "none" => producer = "done" /\ consumer = "done" /\ equeue = 0

IInv == TypeOK /\ InOrder /\ Undamaged /\ Reader /\ Ends

LEMMA InitIInv == Init => IInv
<1> SUFFICES ASSUME Init PROVE IInv
  OBVIOUS
<1>1. Sent = 0 /\ ~ Failed
  BY DEF Init, Sent, Failed
<1>2. TypeOK
  <2>1. whole \in Nat
    BY IndexReaderAssumption DEF Init
  <2>2. nqueue \in Seq(1 .. whole)
    BY DEF Init
  <2>3. bad \subseteq 1 .. whole /\ torn \in BOOLEAN
    BY DEF Init
  <2>4. next \in 1 .. whole + 2
    BY <2>1 DEF Init
  <2>5. closed \in BOOLEAN /\ index \subseteq 1 .. whole
    BY DEF Init
  <2>6. equeue \in 0 .. 1
    BY DEF Init
  <2>7. /\ producer \in {"check", "read", "send", "fail", "close", "done"}
        /\ consumer \in {"range", "done"}
        /\ result \in {"none", "ok", "error"}
    BY DEF Init
  <2> QED BY <2>1, <2>2, <2>3, <2>4, <2>5, <2>6, <2>7 DEF TypeOK
<1>3. Reader
  BY <1>1 DEF Init, Reader
<1>4. Ends
  BY DEF Init, Ends
<1>5. Undamaged
  BY <1>1 DEF Undamaged
<1>6. InOrder
  <2>1. index = 1 .. 0 /\ Len(nqueue) = 0
    BY DEF Init
  <2> QED BY <1>1, <2>1 DEF InOrder
<1> QED BY <1>2, <1>3, <1>4, <1>5, <1>6 DEF IInv

\* Steps of the reader that send nothing keep the order.
LEMMA OrderKept ==
    ASSUME InOrder, index' = index, nqueue' = nqueue, Sent' = Sent
    PROVE  InOrder'
BY DEF InOrder

LEMMA ProducerCheckStep == ASSUME IInv, ProducerCheck PROVE IInv'
<1> USE DEF IInv
<1>1. /\ producer = "check" /\ ~ Failed
      /\ result = "none" /\ consumer \in {"range", "done"}
      /\ UNCHANGED <<whole, torn, bad, next, nqueue, closed, equeue, index>>
      /\ UNCHANGED <<consumer, result>>
  BY DEF ProducerCheck, fileVars, Reader, Ends, TypeOK
<1>2. equeue = 0
  BY <1>1 DEF Failed, TypeOK
<1>3. \/ producer' = "read" /\ next <= whole + (IF torn THEN 1 ELSE 0)
      \/ producer' = "close" /\ ~ next <= whole + (IF torn THEN 1 ELSE 0)
  BY <1>2 DEF ProducerCheck
<1>4. ~ Failed' /\ Sent' = Sent /\ Sent = next - 1
  BY <1>1, <1>3 DEF Failed, Sent
<1>5. TypeOK'
  BY <1>1, <1>3 DEF TypeOK
<1>6. InOrder'
  BY <1>1, <1>4, OrderKept
<1>7. Undamaged'
  BY <1>1, <1>4 DEF Undamaged
<1>8. Reader'
  <2>1. CASE producer' = "read"
    BY <1>1, <1>3, <1>4, <2>1 DEF Reader
  <2>2. CASE producer' = "close"
    <3>1. whole \in Nat /\ next \in Nat /\ next >= 1
      BY DEF TypeOK
    <3>2. ~ torn
      <4>1. ASSUME torn PROVE FALSE
        <5>1. next - 1 >= whole + 1
          BY <1>3, <2>2, <3>1, <4>1
        <5>2. next - 1 \in 1 .. Sent
          BY <1>4, <3>1, <5>1
        <5> QED BY <3>1, <5>1, <5>2 DEF Undamaged
      <4> QED BY <4>1
    <3>3. Sent >= whole
      BY <1>3, <1>4, <2>2, <3>1, <3>2
    <3> QED BY <1>1, <1>4, <2>2, <3>2, <3>3 DEF Reader
  <2> QED BY <1>3, <2>1, <2>2
<1>9. Ends'
  BY <1>1, <1>3 DEF Ends
<1> QED BY <1>5, <1>6, <1>7, <1>8, <1>9

LEMMA ProducerReadStep == ASSUME IInv, ProducerRead PROVE IInv'
<1> USE DEF IInv
<1>1. /\ producer = "read" /\ ~ Failed
      /\ next <= whole + (IF torn THEN 1 ELSE 0)
      /\ next' = next + 1
      /\ UNCHANGED <<whole, torn, bad, nqueue, closed, equeue, index>>
      /\ UNCHANGED <<consumer, result>>
  BY DEF ProducerRead, fileVars, Reader
<1>2. /\ whole \in Nat /\ next \in Nat /\ next >= 1
      /\ next + 1 \in 1 .. whole + 2
  <2>1. whole \in Nat /\ next \in Nat /\ next >= 1
    BY DEF TypeOK
  <2>2. next <= whole + 1
    BY <1>1, <2>1
  <2> QED BY <2>1, <2>2
<1>3. \/ producer' = "fail" /\ (next > whole \/ next \in bad)
      \/ producer' = "send" /\ next <= whole /\ next \notin bad
  BY <1>2 DEF ProducerRead, ReadFails
<1>4. Sent = next - 1
  BY <1>1 DEF Sent
<1>5. Sent' = Sent
  BY <1>1, <1>2, <1>3, <1>4 DEF Sent, Failed
<1>6. result = "none" /\ equeue = 0
  BY <1>1 DEF Failed, Ends, TypeOK
<1>7. TypeOK'
  BY <1>1, <1>2, <1>3 DEF TypeOK
<1>8. InOrder'
  BY <1>1, <1>5, OrderKept
<1>9. Undamaged'
  BY <1>1, <1>5 DEF Undamaged
<1>10. Reader'
  <2>1. CASE producer' = "fail"
    <3>1. Damaged'
      <4>1. CASE next > whole
        BY <1>1, <1>2, <4>1 DEF Damaged
      <4>2. CASE next \in bad
        BY <1>1, <4>2 DEF Damaged
      <4> QED BY <1>3, <2>1, <4>1, <4>2
    <3> QED BY <1>1, <1>2, <1>6, <2>1, <3>1 DEF Reader, Failed
  <2>2. CASE producer' = "send"
    <3>1. ~ Failed'
      BY <1>1, <1>6, <2>2 DEF Failed
    <3>2. next' >= 2 /\ next' - 1 = next
      BY <1>1, <1>2
    <3>3. next' - 1 <= whole' /\ next' - 1 \notin bad'
      BY <1>1, <1>3, <2>2, <3>2
    <3> QED BY <2>2, <3>1, <3>2, <3>3 DEF Reader
  <2> QED BY <1>3, <2>1, <2>2
<1>11. Ends'
  BY <1>1, <1>3 DEF Ends
<1> QED BY <1>7, <1>8, <1>9, <1>10, <1>11

LEMMA ProducerSendStep == ASSUME IInv, ProducerSend PROVE IInv'
<1> USE DEF IInv
<1>1. /\ producer = "send" /\ producer' = "check" /\ ~ Failed
      /\ next >= 2 /\ next - 1 <= whole /\ next - 1 \notin bad
      /\ nqueue' = Append(nqueue, next - 1)
      /\ UNCHANGED <<whole, torn, bad, next, closed, equeue, index>>
      /\ UNCHANGED <<consumer, result>>
  BY DEF ProducerSend, fileVars, Reader
<1>2. /\ whole \in Nat /\ next \in Nat
      /\ nqueue \in Seq(1 .. whole) /\ Len(nqueue) \in Nat
      /\ next - 1 \in 1 .. whole
  BY <1>1 DEF TypeOK
<1>3. ~ Failed'
  BY <1>1 DEF Failed
<1>4. Sent = next - 2 /\ Sent' = next - 1
  BY <1>1, <1>3 DEF Sent
<1>5. nqueue' \in Seq(1 .. whole)
  BY <1>1, <1>2
<1>6. TypeOK'
  BY <1>1, <1>5 DEF TypeOK
<1>7. InOrder'
  <2>1. PICK c \in Nat :
          /\ index = 1 .. c
          /\ c + Len(nqueue) = Sent
          /\ \A i \in 1 .. Len(nqueue) : nqueue[i] = c + i
    BY DEF InOrder
  <2>2. Len(nqueue') = Len(nqueue) + 1
    BY <1>1, <1>2
  <2>3. c + Len(nqueue') = Sent'
    BY <1>2, <1>4, <2>1, <2>2
  <2>4. ASSUME NEW i \in 1 .. Len(nqueue')
        PROVE  nqueue'[i] = c + i
    <3>1. CASE i = Len(nqueue) + 1
      <4>1. nqueue'[i] = next - 1
        BY <1>1, <1>2, <3>1
      <4> QED BY <1>2, <1>4, <2>1, <3>1, <4>1
    <3>2. CASE i \in 1 .. Len(nqueue)
      BY <1>1, <1>2, <2>1, <3>2
    <3> QED BY <1>2, <2>2, <3>1, <3>2
  <2> QED BY <1>1, <2>1, <2>3, <2>4 DEF InOrder
<1>8. Undamaged'
  <2> SUFFICES ASSUME NEW n \in 1 .. next - 1
               PROVE  n <= whole /\ n \notin bad
    BY <1>1, <1>4 DEF Undamaged
  <2>1. CASE n = next - 1
    BY <1>1, <2>1
  <2>2. CASE n # next - 1
    <3>1. n \in 1 .. next - 2
      BY <1>2, <2>2
    <3> QED BY <1>4, <3>1 DEF Undamaged
  <2> QED BY <2>1, <2>2
<1>9. Reader'
  BY <1>1, <1>3 DEF Reader
<1>10. Ends'
  <2>1. ~ closed /\ result = "none" /\ consumer # "done"
    BY <1>1 DEF Ends
  <2> QED BY <1>1, <2>1 DEF Ends
<1> QED BY <1>6, <1>7, <1>8, <1>9, <1>10

LEMMA ProducerFailStep == ASSUME IInv, ProducerFail PROVE IInv'
<1> USE DEF IInv
<1>1. /\ producer = "fail" /\ producer' = "close"
      /\ equeue = 0 /\ equeue' = 1
      /\ result = "none"
      /\ UNCHANGED <<whole, torn, bad, next, nqueue, closed, index>>
      /\ UNCHANGED <<consumer, result>>
  BY DEF ProducerFail, fileVars, Reader
<1>2. Failed /\ Failed' /\ Sent' = Sent
  BY <1>1 DEF Failed, Sent
<1>3. TypeOK'
  BY <1>1 DEF TypeOK
<1>4. InOrder'
  BY <1>1, <1>2, OrderKept
<1>5. Undamaged'
  BY <1>1, <1>2 DEF Undamaged
<1>6. Reader'
  BY <1>1, <1>2 DEF Reader, Damaged
<1>7. Ends'
  BY <1>1 DEF Ends
<1> QED BY <1>3, <1>4, <1>5, <1>6, <1>7

LEMMA ProducerEndsStep == ASSUME IInv, ProducerEnds PROVE IInv'
<1> USE DEF IInv
<1>1. /\ producer = "close" /\ producer' = "done" /\ closed' = TRUE
      /\ UNCHANGED <<whole, torn, bad, next, nqueue, equeue, index>>
      /\ UNCHANGED <<consumer, result>>
  BY DEF ProducerEnds, fileVars
<1>2. (Failed' <=> Failed) /\ Sent' = Sent
  BY <1>1 DEF Failed, Sent
<1>3. TypeOK'
  BY <1>1 DEF TypeOK
<1>4. InOrder'
  BY <1>1, <1>2, OrderKept
<1>5. Undamaged'
  BY <1>1, <1>2 DEF Undamaged
<1>6. Reader'
  BY <1>1, <1>2 DEF Reader, Damaged
<1>7. Ends'
  BY <1>1 DEF Ends
<1> QED BY <1>3, <1>4, <1>5, <1>6, <1>7

LEMMA ConsumerReceivesStep == ASSUME IInv, ConsumerReceives PROVE IInv'
<1> USE DEF IInv
<1>1. /\ consumer = "range" /\ nqueue # <<>>
      /\ index' = index \cup {Head(nqueue)}
      /\ nqueue' = Tail(nqueue)
      /\ UNCHANGED <<whole, torn, bad, next, closed, equeue>>
      /\ UNCHANGED <<producer, consumer, result>>
  BY DEF ConsumerReceives, fileVars
<1>2. (Failed' <=> Failed) /\ Sent' = Sent
  BY <1>1 DEF Failed, Sent
<1>3. /\ nqueue \in Seq(1 .. whole) /\ Len(nqueue) \in Nat
      /\ Len(nqueue) >= 1
      /\ Head(nqueue) = nqueue[1] /\ nqueue[1] \in 1 .. whole
      /\ nqueue' \in Seq(1 .. whole)
      /\ Len(nqueue') = Len(nqueue) - 1
      /\ \A i \in 1 .. Len(nqueue) - 1 : nqueue'[i] = nqueue[i + 1]
  BY <1>1 DEF TypeOK
<1>4. TypeOK'
  BY <1>1, <1>3 DEF TypeOK
<1>5. InOrder'
  <2>1. PICK c \in Nat :
          /\ index = 1 .. c
          /\ c + Len(nqueue) = Sent
          /\ \A i \in 1 .. Len(nqueue) : nqueue[i] = c + i
    BY DEF InOrder
  <2>2. index' = 1 .. c + 1
    BY <1>1, <1>3, <2>1
  <2>3. c + 1 + Len(nqueue') = Sent'
    BY <1>2, <1>3, <2>1
  <2>4. \A i \in 1 .. Len(nqueue') : nqueue'[i] = c + 1 + i
    BY <1>3, <2>1
  <2>5. c + 1 \in Nat
    OBVIOUS
  <2> QED BY <2>2, <2>3, <2>4, <2>5 DEF InOrder
<1>6. Undamaged'
  BY <1>1, <1>2 DEF Undamaged
<1>7. Reader'
  BY <1>1, <1>2 DEF Reader, Damaged
<1>8. Ends'
  BY <1>1 DEF Ends
<1> QED BY <1>4, <1>5, <1>6, <1>7, <1>8

LEMMA ConsumerEndsStep == ASSUME IInv, ConsumerEnds PROVE IInv'
<1> USE DEF IInv
<1>1. /\ consumer = "range" /\ nqueue = <<>> /\ closed /\ consumer' = "done"
      /\ UNCHANGED <<whole, torn, bad, next, nqueue, closed, equeue, index>>
      /\ UNCHANGED <<producer, result>>
  BY DEF ConsumerEnds, fileVars
<1>2. (Failed' <=> Failed) /\ Sent' = Sent
  BY <1>1 DEF Failed, Sent
<1>3. TypeOK'
  BY <1>1 DEF TypeOK
<1>4. InOrder'
  BY <1>1, <1>2, OrderKept
<1>5. Undamaged'
  BY <1>1, <1>2 DEF Undamaged
<1>6. Reader'
  BY <1>1, <1>2 DEF Reader, Damaged
<1>7. Ends'
  BY <1>1 DEF Ends
<1> QED BY <1>3, <1>4, <1>5, <1>6, <1>7

LEMMA ReturnStep == ASSUME IInv, Return PROVE IInv'
<1> USE DEF IInv
<1>1. /\ result = "none" /\ producer = "done" /\ consumer = "done"
      /\ result' = IF equeue > 0 THEN "error" ELSE "ok"
      /\ equeue' = 0
      /\ UNCHANGED <<whole, torn, bad, next, nqueue, closed, index>>
      /\ UNCHANGED <<producer, consumer>>
  BY DEF Return, fileVars
<1>2. (Failed' <=> Failed) /\ Sent' = Sent
  <2>1. Failed' <=> Failed
    BY <1>1 DEF Failed, TypeOK
  <2> QED BY <1>1, <2>1 DEF Sent
<1>3. TypeOK'
  BY <1>1 DEF TypeOK
<1>4. InOrder'
  BY <1>1, <1>2, OrderKept
<1>5. Undamaged'
  BY <1>1, <1>2 DEF Undamaged
<1>6. Reader'
  BY <1>1, <1>2 DEF Reader, Damaged
<1>7. Ends'
  BY <1>1 DEF Ends
<1> QED BY <1>3, <1>4, <1>5, <1>6, <1>7

LEMMA NextIInv == IInv /\ [Next]_vars => IInv'
<1> SUFFICES ASSUME IInv, [Next]_vars PROVE IInv'
  OBVIOUS
<1>1. CASE Step
  BY <1>1, ProducerCheckStep, ProducerReadStep, ProducerSendStep,
     ProducerFailStep, ProducerEndsStep, ConsumerReceivesStep,
     ConsumerEndsStep, ReturnStep DEF Step
<1>2. CASE UNCHANGED vars
  <2>1. (Failed' <=> Failed) /\ Sent' = Sent
    BY <1>2 DEF vars, Failed, Sent
  <2>2. InOrder'
    BY <1>2, <2>1, OrderKept DEF vars, IInv
  <2>3. TypeOK' /\ Undamaged' /\ Ends'
    BY <1>2, <2>1 DEF vars, fileVars, IInv, TypeOK, Undamaged, Ends
  <2>4. Reader'
    BY <1>2, <2>1 DEF vars, fileVars, IInv, Reader, Damaged
  <2> QED BY <2>2, <2>3, <2>4 DEF IInv
<1> QED BY <1>1, <1>2 DEF Next, Finished

LEMMA SpecIInv == Spec => []IInv
BY InitIInv, NextIInv, PTL DEF Spec

\* Every reachable state of the reader is well typed, and what is sent or
\* indexed is a whole entry.
THEOREM TypeCorrect == Spec => []TypeOK
<1>1. IInv => TypeOK
  BY DEF IInv
<1> QED BY <1>1, SpecIInv, PTL

\* recoveryIndex never reports success with an entry missing, nor an error for
\* an undamaged file, for a file of any size.
THEOREM AllIndexedOrError == Spec => []AllOrError
<1>1. IInv => AllOrError
  <2> SUFFICES ASSUME IInv PROVE AllOrError
    OBVIOUS
  <2>1. result = "error" => Damaged
    BY DEF IInv, Reader, Failed
  <2>2. ASSUME result = "ok"
        PROVE  ~ Damaged /\ index = 1 .. whole
    <3>1. /\ producer = "done" /\ equeue = 0 /\ nqueue = <<>> /\ ~ Failed
          /\ whole \in Nat /\ bad \subseteq 1 .. whole
      BY <2>2 DEF IInv, Ends, Failed, TypeOK
    <3>2. Sent >= whole /\ ~ torn
      BY <3>1 DEF IInv, Reader
    <3>3. PICK c \in Nat : index = 1 .. c /\ c + Len(nqueue) = Sent
      BY DEF IInv, InOrder
    <3>4. Sent = c
      BY <3>1, <3>3
    <3>5. Sent <= whole
      <4>1. CASE Sent = 0
        BY <3>1, <4>1
      <4>2. CASE Sent # 0
        <5>1. Sent \in 1 .. Sent
          BY <3>3, <3>4, <4>2
        <5> QED BY <5>1 DEF IInv, Undamaged
      <4> QED BY <4>1, <4>2
    <3>6. c = whole
      BY <3>1, <3>2, <3>4, <3>5
    <3>7. bad = {}
      BY <3>1, <3>4, <3>6 DEF IInv, Undamaged
    <3> QED BY <3>2, <3>3, <3>6, <3>7 DEF Damaged
  <2> QED BY <2>1, <2>2 DEF AllOrError
<1> QED BY <1>1, SpecIInv, PTL

\* Neither channel ever makes the reader wait, for a file of any size.
THEOREM ReaderNeverWaits == Spec => []NeverWaits
<1>1. IInv => NeverWaits
  <2> SUFFICES ASSUME IInv PROVE NeverWaits
    OBVIOUS
  <2>1. producer = "fail" => equeue = 0
    BY DEF IInv, Reader
  <2>2. ASSUME producer = "send"
        PROVE  Len(nqueue) < Capacity
    <3>1. /\ next - 1 <= whole /\ Sent = next - 2
          /\ whole \in Nat /\ next \in Nat /\ Len(nqueue) \in Nat
      BY <2>2 DEF IInv, Reader, Sent, TypeOK
    <3>2. PICK c \in Nat : c + Len(nqueue) = Sent
      BY DEF IInv, InOrder
    <3> QED BY <3>1, <3>2 DEF Capacity
  <2> QED BY <2>1, <2>2 DEF NeverWaits
<1> QED BY <1>1, SpecIInv, PTL

=============================================================================
