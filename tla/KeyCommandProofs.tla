--------------------------- MODULE KeyCommandProofs --------------------------
(* First the chunk assembler alone: its types, that it hands on nothing    *)
(* but whole messages, and each sending of a chunked message once.  Then a *)
(* command of the digital key is a behaviour of the assembler with the     *)
(* handler attached, and what it answers to the phone is so.               *)
EXTENDS KeyCommand, TLAPS

(* The chunk that WriteChunk of phone p writes: its sending and its index, *)
(* and what remains for the phone to write.                                *)
Writes(p, of, index, next) ==
  /\ assembled = None
  /\ writing[p] # None
  /\ of = writing[p].of
  /\ \/ /\ index = writing[p].next /\ index < Total[of[1]]
        /\ next = index + 1
     \/ /\ index = writing[p].next - 1 /\ writing[p].next > 0
        /\ next = writing[p].next
  /\ ingest(of, index)
  /\ writing' = [writing EXCEPT ![p] = [of |-> of, next |-> next]]
  /\ UNCHANGED sendings

LEMMA WriteChunkWrites ==
  ASSUME ChunkTypeOK, NEW p \in Phones, WriteChunk(p)
  PROVE  \E of \in Sendings : \E index, next \in Nat : Writes(p, of, index, next)
<1> DEFINE of == writing[p].of
           n == writing[p].next
<1>1. writing[p] \in [of : Sendings, next : Nat]
  BY DEF ChunkTypeOK, WriteChunk
<1>2. of \in Sendings /\ n \in Nat /\ writing[p] = [of |-> of, next |-> n]
  BY <1>1
<1>3. CASE /\ n < Total[of[1]]
           /\ ingest(of, n)
           /\ writing' = [writing EXCEPT ![p] = [of |-> of, next |-> n + 1]]
  <2>1. Writes(p, of, n, n + 1)
    BY <1>3 DEF WriteChunk, Writes
  <2>2. QED
    BY <2>1, <1>2
<1>4. CASE n > 0 /\ ingest(of, n - 1) /\ UNCHANGED writing
  <2>1. writing' = [writing EXCEPT ![p] = [of |-> of, next |-> n]]
    BY <1>2, <1>4 DEF ChunkTypeOK
  <2>2. n - 1 \in Nat
    BY <1>2, <1>4
  <2>3. Writes(p, of, n - 1, n)
    BY <1>4, <2>1 DEF WriteChunk, Writes
  <2>4. QED
    BY <2>2, <2>3, <1>2
<1>5. QED
  BY <1>3, <1>4 DEF WriteChunk

-----------------------------------------------------------------------------

(* What is held after a chunk: the chunk, and what was held before if the  *)
(* chunk continues it.                                                     *)
LEMMA HeldFacts ==
  ASSUME NEW of, NEW index
  PROVE  /\ Held(of, index)[index] = of
         /\ index \in DOMAIN Held(of, index)
  BY DEF Held, Nowhere

LEMMA HeldContinued ==
  ASSUME NEW of, NEW index, Continues(of[1], index)
  PROVE  /\ DOMAIN Held(of, index) = DOMAIN parts \cup {index}
         /\ \A i \in DOMAIN parts : i # index => Held(of, index)[i] = parts[i]
  BY DEF Held, Nowhere

LEMMA HeldFresh ==
  ASSUME NEW of, NEW index, ~Continues(of[1], index)
  PROVE  DOMAIN Held(of, index) = {index}
  BY DEF Held, Nowhere

(* Everything has its type, in every reachable state.                      *)
THEOREM ChunkTypeCorrect == ChunkSpec => []ChunkTypeOK
<1>1. ChunkInit => ChunkTypeOK
  <2> SUFFICES ASSUME ChunkInit PROVE ChunkTypeOK
    OBVIOUS
  <2>1. DOMAIN Nowhere = {}
    BY DEF Nowhere
  <2>2. sendings \in [Messages -> Nat]
    BY DEF ChunkInit
  <2>3. writing = [p \in Phones |-> None] /\ parts = Nowhere
    BY DEF ChunkInit
  <2>4. writing \in [Phones -> [of : Sendings, next : Nat] \cup {None}]
    BY <2>3
  <2>5. \A i \in DOMAIN parts : i \in Nat /\ parts[i] \in Sendings
    BY <2>1, <2>3
  <2>6. QED
    BY <2>2, <2>4, <2>5 DEF ChunkInit, ChunkTypeOK
<1>2. ChunkTypeOK /\ [ChunkNext]_chunkVars => ChunkTypeOK'
  <2> SUFFICES ASSUME ChunkTypeOK, [ChunkNext]_chunkVars PROVE ChunkTypeOK'
    OBVIOUS
  <2> USE DEF ChunkTypeOK
  <2>1. ASSUME NEW m \in Messages, BeginMessage(m) PROVE ChunkTypeOK'
    <3>1. sendings' \in [Messages -> Nat] /\ sendings'[m] \in Nat \ {0}
      BY <2>1 DEF BeginMessage
    <3>2. [of |-> <<m, sendings'[m]>>, next |-> 0] \in [of : Sendings, next : Nat]
      BY <3>1 DEF Sendings
    <3>3. writing' \in [Phones -> [of : Sendings, next : Nat] \cup {None}]
      BY <2>1, <3>2, PhoneAssumption DEF BeginMessage
    <3>4. QED
      BY <2>1, <3>1, <3>3 DEF BeginMessage, assemblerVars
  <2>2. ASSUME NEW p \in Phones, Abandon(p) PROVE ChunkTypeOK'
    BY <2>2 DEF Abandon, assemblerVars
  <2>3. ASSUME NEW p \in Phones, WriteChunk(p) PROVE ChunkTypeOK'
    <3>1. PICK of \in Sendings, index \in Nat, next \in Nat :
             Writes(p, of, index, next)
      BY <2>3, WriteChunkWrites
    <3>2. writing' \in [Phones -> [of : Sendings, next : Nat] \cup {None}]
      BY <3>1 DEF Writes
    <3> DEFINE held == Held(of, index)
    <3>3. \A i \in DOMAIN held : i \in Nat /\ held[i] \in Sendings
      <4> SUFFICES ASSUME NEW i \in DOMAIN held
                   PROVE  i \in Nat /\ held[i] \in Sendings
        OBVIOUS
      <4>1. held[index] = of
        BY HeldFacts
      <4>2. CASE Continues(of[1], index)
        <5>1. DOMAIN held = DOMAIN parts \cup {index}
          BY <4>2, HeldContinued
        <5>2. \A j \in DOMAIN parts : j # index => held[j] = parts[j]
          BY <4>2, HeldContinued
        <5> HIDE DEF held
        <5>3. QED
          BY <4>1, <5>1, <5>2
      <4>3. CASE ~Continues(of[1], index)
        <5>1. DOMAIN held = {index}
          BY <4>3, HeldFresh
        <5> HIDE DEF held
        <5>2. QED
          BY <4>1, <5>1
      <4>4. QED
        BY <4>2, <4>3
    <3>4. \A i \in DOMAIN parts' : i \in Nat /\ parts'[i] \in Sendings
      <4>1. CASE parts' = Nowhere
        BY <4>1 DEF Nowhere
      <4>2. CASE parts' = held
        <5> HIDE DEF held
        <5>1. QED
          BY <4>2, <3>3
      <4>3. QED
        BY <3>1, <4>1, <4>2 DEF Writes, ingest
    <3>5. of[1] \in Messages
      BY DEF Sendings
    <3>6. expired' \in BOOLEAN /\ assembled' \in Messages \cup {None}
      BY <3>1, <3>5 DEF Writes, ingest
    <3>7. QED
      BY <3>1, <3>2, <3>4, <3>6 DEF Writes
  <2>4. ASSUME NEW p \in Phones, WriteWhole(p) PROVE ChunkTypeOK'
    <3>1. writing[p].of[1] \in Messages
      BY <2>4 DEF WriteWhole, Sendings
    <3>2. QED
      BY <2>4, <3>1 DEF WriteWhole, Nowhere
  <2>5. CASE Expire
    BY <2>5 DEF Expire
  <2>6. CASE Processed
    BY <2>6 DEF Processed, assemblerVars
  <2>7. CASE UNCHANGED chunkVars
    BY <2>7 DEF chunkVars, assemblerVars
  <2>8. QED
    BY <2>1, <2>2, <2>3, <2>4, <2>5, <2>6, <2>7 DEF ChunkNext, PhonesAndWrites
<1>3. QED
  BY <1>1, <1>2, PTL DEF ChunkSpec

-----------------------------------------------------------------------------

(* What makes the message of a phone whole.  Everything held is of one     *)
(* sending, under the id and the total of its message; and if its phone    *)
(* sends something else by now, the phone has not yet written the first    *)
(* chunk of it, which will start over.                                     *)
HeldOfOne ==
  \A i, j \in DOMAIN parts : parts[i] = parts[j]

HeldUnderId ==
  \A i \in DOMAIN parts :
    chunk_id = Id[parts[i][1]] /\ total = Total[parts[i][1]]

WriterIsPhone ==
  \A p \in Phones : writing[p] # None => Phone[writing[p].of[1]] = p

HeldIsCurrent ==
  \A i \in DOMAIN parts :
    LET w == writing[Phone[parts[i][1]]]
    IN w # None => w.of = parts[i] \/ w.next = 0

WholeInv == HeldOfOne /\ HeldUnderId /\ WriterIsPhone /\ HeldIsCurrent

(* A chunk that continues what is held comes from the same sending.        *)
LEMMA ContinuesSameSending ==
  ASSUME ChunkTypeOK, WholeInv,
         NEW p \in Phones, NEW of \in Sendings, NEW index \in Nat, NEW next \in Nat,
         Writes(p, of, index, next), Continues(of[1], index)
  PROVE  \A i \in DOMAIN parts : parts[i] = of
<1> SUFFICES ASSUME NEW i \in DOMAIN parts PROVE parts[i] = of
  OBVIOUS
<1>1. of[1] \in Messages /\ parts[i] \in Sendings /\ parts[i][1] \in Messages
  BY DEF ChunkTypeOK, Sendings
<1>2. Id[parts[i][1]] = Id[of[1]]
  BY DEF WholeInv, HeldUnderId, Continues
<1>3. Phone[parts[i][1]] = Phone[of[1]]
  BY <1>1, <1>2, IdAssumption
<1>4. Phone[of[1]] = p
  BY DEF Writes, WholeInv, WriterIsPhone
<1>5. writing[p].of = parts[i] \/ writing[p].next = 0
  BY <1>3, <1>4 DEF WholeInv, HeldIsCurrent, Writes
<1>6. writing[p].next # 0
  <2>1. writing[p].next \in Nat
    BY DEF ChunkTypeOK, Writes
  <2>2. index # 0
    BY DEF Continues
  <2>3. QED
    BY <2>1, <2>2 DEF Writes
<1>7. QED
  BY <1>5, <1>6 DEF Writes

(* So whatever is held after a chunk is of the chunk's sending.            *)
LEMMA HeldAfterwards ==
  ASSUME ChunkTypeOK, WholeInv,
         NEW p \in Phones, NEW of \in Sendings, NEW index \in Nat, NEW next \in Nat,
         Writes(p, of, index, next)
  PROVE  \A i \in DOMAIN Held(of, index) : Held(of, index)[i] = of
<1>1. Held(of, index)[index] = of
  BY HeldFacts
<1>2. CASE Continues(of[1], index)
  <2>1. \A i \in DOMAIN parts : parts[i] = of
    BY <1>2, ContinuesSameSending
  <2>2. /\ DOMAIN Held(of, index) = DOMAIN parts \cup {index}
        /\ \A i \in DOMAIN parts : i # index => Held(of, index)[i] = parts[i]
    BY <1>2, HeldContinued
  <2>3. QED
    BY <1>1, <2>1, <2>2
<1>3. CASE ~Continues(of[1], index)
  <2>1. DOMAIN Held(of, index) = {index}
    BY <1>3, HeldFresh
  <2>2. QED
    BY <1>1, <2>1
<1>4. QED
  BY <1>2, <1>3

LEMMA WriteKeepsWholeInv ==
  ASSUME ChunkTypeOK, WholeInv,
         NEW p \in Phones, NEW of \in Sendings, NEW index \in Nat, NEW next \in Nat,
         Writes(p, of, index, next)
  PROVE  WholeInv'
<1>1. of[1] \in Messages /\ Phone[of[1]] = p
  BY DEF Writes, WholeInv, WriterIsPhone, Sendings
<1>2. writing' = [writing EXCEPT ![p] = [of |-> of, next |-> next]]
  BY DEF Writes
<1>3. writing \in [Phones -> [of : Sendings, next : Nat] \cup {None}]
  BY DEF ChunkTypeOK
<1>4. WriterIsPhone'
  <2> SUFFICES ASSUME NEW q \in Phones, writing'[q] # None
               PROVE  Phone[writing'[q].of[1]] = q
    BY DEF WriterIsPhone
  <2>1. CASE q = p
    BY <1>1, <1>2, <1>3, <2>1
  <2>2. CASE q # p
    BY <1>2, <1>3, <2>2 DEF WholeInv, WriterIsPhone
  <2>3. QED
    BY <2>1, <2>2
<1>5. \A i \in DOMAIN parts' : parts'[i] = of
  <2>1. parts' = Nowhere \/ parts' = Held(of, index)
    BY DEF Writes, ingest
  <2>2. DOMAIN Nowhere = {}
    BY DEF Nowhere
  <2>3. \A i \in DOMAIN Held(of, index) : Held(of, index)[i] = of
    BY HeldAfterwards
  <2>4. QED
    BY <2>1, <2>2, <2>3
<1>6. HeldOfOne'
  BY <1>5 DEF HeldOfOne
<1>7. HeldUnderId'
  <2> SUFFICES ASSUME NEW i \in DOMAIN parts'
               PROVE  chunk_id' = Id[parts'[i][1]] /\ total' = Total[parts'[i][1]]
    BY DEF HeldUnderId
  <2>1. parts' # Nowhere
    BY DEF Nowhere
  <2>2. chunk_id' = Id[of[1]] /\ total' = Total[of[1]]
    BY <2>1 DEF Writes, ingest
  <2>3. QED
    BY <1>5, <2>2
<1>8. HeldIsCurrent'
  <2> SUFFICES ASSUME NEW i \in DOMAIN parts'
               PROVE  writing'[Phone[parts'[i][1]]].of = parts'[i]
    BY DEF HeldIsCurrent
  <2>1. parts'[i] = of
    BY <1>5
  <2>2. writing'[p].of = of
    BY <1>2, <1>3
  <2>3. QED
    BY <1>1, <2>1, <2>2
<1>9. QED
  BY <1>4, <1>6, <1>7, <1>8 DEF WholeInv

(* No other step changes what is held and who has written it, except that  *)
(* a phone may turn to something else.                                     *)
LEMMA OthersKeepWholeInv ==
  ASSUME ChunkTypeOK, WholeInv, [ChunkNext]_chunkVars,
         \A p \in Phones : ~WriteChunk(p)
  PROVE  WholeInv' /\ handed' = handed
<1>1. ASSUME NEW m \in Messages, BeginMessage(m)
      PROVE  WholeInv' /\ handed' = handed
  <2>1. /\ Phone[m] \in Phones
        /\ writing' = [writing EXCEPT ![Phone[m]] =
                         [of |-> <<m, sendings'[m]>>, next |-> 0]]
        /\ parts' = parts /\ chunk_id' = chunk_id /\ total' = total
        /\ handed' = handed
    BY <1>1, PhoneAssumption DEF BeginMessage, assemblerVars
  <2>2. writing \in [Phones -> [of : Sendings, next : Nat] \cup {None}]
    BY DEF ChunkTypeOK
  <2>3. HeldOfOne' /\ HeldUnderId'
    BY <2>1 DEF WholeInv, HeldOfOne, HeldUnderId
  <2>4. WriterIsPhone'
    <3> SUFFICES ASSUME NEW q \in Phones, writing'[q] # None
                 PROVE  Phone[writing'[q].of[1]] = q
      BY DEF WriterIsPhone
    <3>1. CASE q = Phone[m]
      <4>1. writing'[q].of = <<m, sendings'[m]>>
        BY <2>1, <2>2, <3>1
      <4>2. QED
        BY <3>1, <4>1
    <3>2. CASE q # Phone[m]
      BY <2>1, <2>2, <3>2 DEF WholeInv, WriterIsPhone
    <3>3. QED
      BY <3>1, <3>2
  <2>5. HeldIsCurrent'
    <3> SUFFICES ASSUME NEW i \in DOMAIN parts, writing'[Phone[parts[i][1]]] # None
                 PROVE  \/ writing'[Phone[parts[i][1]]].of = parts[i]
                        \/ writing'[Phone[parts[i][1]]].next = 0
      BY <2>1 DEF HeldIsCurrent
    <3>1. Phone[parts[i][1]] \in Phones
      BY PhoneAssumption DEF ChunkTypeOK, Sendings
    <3>2. CASE Phone[parts[i][1]] = Phone[m]
      BY <2>1, <2>2, <3>2
    <3>3. CASE Phone[parts[i][1]] # Phone[m]
      BY <2>1, <2>2, <3>1, <3>3 DEF WholeInv, HeldIsCurrent
    <3>4. QED
      BY <3>2, <3>3
  <2>6. QED
    BY <2>1, <2>3, <2>4, <2>5 DEF WholeInv
<1>2. ASSUME NEW p \in Phones, Abandon(p)
      PROVE  WholeInv' /\ handed' = handed
  <2>1. /\ writing' = [writing EXCEPT ![p] = None]
        /\ parts' = parts /\ chunk_id' = chunk_id /\ total' = total
        /\ handed' = handed
    BY <1>2 DEF Abandon, assemblerVars
  <2>2. writing \in [Phones -> [of : Sendings, next : Nat] \cup {None}]
    BY DEF ChunkTypeOK
  <2>3. \A q \in Phones : writing'[q] # None => writing'[q] = writing[q]
    BY <2>1, <2>2
  <2>4. \A i \in DOMAIN parts : Phone[parts[i][1]] \in Phones
    BY PhoneAssumption DEF ChunkTypeOK, Sendings
  <2>5. QED
    BY <2>1, <2>3, <2>4
       DEF WholeInv, HeldOfOne, HeldUnderId, WriterIsPhone, HeldIsCurrent
<1>3. ASSUME NEW p \in Phones, WriteWhole(p)
      PROVE  WholeInv' /\ handed' = handed
  <2>1. /\ writing' = [writing EXCEPT ![p] = None]
        /\ parts' = Nowhere /\ handed' = handed
    BY <1>3 DEF WriteWhole
  <2>2. writing \in [Phones -> [of : Sendings, next : Nat] \cup {None}]
    BY DEF ChunkTypeOK
  <2>3. \A q \in Phones : writing'[q] # None => writing'[q] = writing[q]
    BY <2>1, <2>2
  <2>4. DOMAIN parts' = {}
    BY <2>1 DEF Nowhere
  <2>5. QED
    BY <2>1, <2>3, <2>4
       DEF WholeInv, HeldOfOne, HeldUnderId, WriterIsPhone, HeldIsCurrent
<1>4. CASE Expire \/ Processed \/ UNCHANGED chunkVars
  <2>1. UNCHANGED <<writing, parts, chunk_id, total, handed>>
    BY <1>4 DEF Expire, Processed, chunkVars, assemblerVars
  <2>2. QED
    BY <2>1 DEF WholeInv, HeldOfOne, HeldUnderId, WriterIsPhone, HeldIsCurrent
<1>5. QED
  BY <1>1, <1>2, <1>3, <1>4 DEF ChunkNext, PhonesAndWrites

-----------------------------------------------------------------------------

(* What makes a sending be handed on once.  A phone whose sending was      *)
(* handed on has written its last chunk and can only write that again, so  *)
(* its first chunk is never held any more.                                 *)
Begun(s) == s \in Sendings /\ s[2] <= sendings[s[1]]

WritersBegun ==
  \A p \in Phones : writing[p] # None =>
    Begun(writing[p].of) /\ writing[p].next <= Total[writing[p].of[1]]

HeldWritten ==
  \A i \in DOMAIN parts :
    /\ Begun(parts[i])
    /\ \A p \in Phones :
         writing[p] # None /\ writing[p].of = parts[i] => i < writing[p].next

HandedWritten ==
  \A held \in handed : \A i \in DOMAIN held :
    /\ Begun(held[i])
    /\ \A p \in Phones :
         writing[p] # None /\ writing[p].of = held[i]
           => writing[p].next = Total[held[i][1]]

HandedNotHeld ==
  \A held \in handed : \A i \in DOMAIN held : \A j \in DOMAIN parts :
    parts[j] = held[i] /\ Total[held[i][1]] > 1 => j # 0

OnceInv == WritersBegun /\ HeldWritten /\ HandedWritten /\ HandedNotHeld

(* A sending that was handed on is not completed again.                    *)
LEMMA HandedNotCompleted ==
  ASSUME ChunkTypeOK, WholeInv, OnceInv,
         NEW p \in Phones, NEW of \in Sendings, NEW index \in Nat, NEW next \in Nat,
         Writes(p, of, index, next), Total[of[1]] > 1,
         NEW held \in handed, NEW k \in DOMAIN held, held[k] = of
  PROVE  0 \notin DOMAIN Held(of, index)
<1>1. Total[of[1]] \in Nat
  BY TotalAssumption DEF Sendings
<1>2. writing[p] # None /\ writing[p].of = of /\ writing[p].next \in Nat
  BY DEF Writes, ChunkTypeOK
<1>3. writing[p].next = Total[of[1]]
  BY <1>2 DEF OnceInv, HandedWritten
<1>4. index # 0
  BY <1>1, <1>3 DEF Writes
<1>5. CASE Continues(of[1], index)
  <2>1. \A i \in DOMAIN parts : parts[i] = of
    BY <1>5, ContinuesSameSending
  <2>2. 0 \notin DOMAIN parts
    BY <2>1 DEF OnceInv, HandedNotHeld
  <2>3. DOMAIN Held(of, index) = DOMAIN parts \cup {index}
    BY <1>5, HeldContinued
  <2>4. QED
    BY <1>4, <2>2, <2>3
<1>6. CASE ~Continues(of[1], index)
  <2>1. DOMAIN Held(of, index) = {index}
    BY <1>6, HeldFresh
  <2>2. QED
    BY <1>4, <2>1
<1>7. QED
  BY <1>5, <1>6

(* What is held after a chunk has been written by then.                    *)
LEMMA HeldBelowNext ==
  ASSUME ChunkTypeOK, WholeInv, OnceInv,
         NEW p \in Phones, NEW of \in Sendings, NEW index \in Nat, NEW next \in Nat,
         Writes(p, of, index, next)
  PROVE  \A i \in DOMAIN Held(of, index) : i \in Nat /\ i < next
<1>1. writing[p] # None /\ writing[p].of = of /\ writing[p].next \in Nat
  BY DEF Writes, ChunkTypeOK
<1>2. index < next /\ writing[p].next <= next
  BY <1>1 DEF Writes
<1>3. CASE Continues(of[1], index)
  <2>1. \A i \in DOMAIN parts : i \in Nat /\ i < writing[p].next
    BY <1>1, <1>3, ContinuesSameSending DEF OnceInv, HeldWritten, ChunkTypeOK
  <2>2. \A i \in DOMAIN parts : i < next
    BY <1>1, <1>2, <2>1
  <2>3. DOMAIN Held(of, index) = DOMAIN parts \cup {index}
    BY <1>3, HeldContinued
  <2>4. QED
    BY <1>2, <2>1, <2>2, <2>3
<1>4. CASE ~Continues(of[1], index)
  <2>1. DOMAIN Held(of, index) = {index}
    BY <1>4, HeldFresh
  <2>2. QED
    BY <1>2, <2>1
<1>5. QED
  BY <1>3, <1>4

LEMMA WriteKeepsOnceInv ==
  ASSUME ChunkTypeOK, WholeInv, OnceInv,
         NEW p \in Phones, NEW of \in Sendings, NEW index \in Nat, NEW next \in Nat,
         Writes(p, of, index, next)
  PROVE  OnceInv'
<1> DEFINE after == Held(of, index)
<1>1. /\ writing' = [writing EXCEPT ![p] = [of |-> of, next |-> next]]
      /\ sendings' = sendings
      /\ writing[p] # None /\ writing[p].of = of /\ writing[p].next \in Nat
  BY DEF Writes, ChunkTypeOK
<1>2. writing \in [Phones -> [of : Sendings, next : Nat] \cup {None}]
  BY DEF ChunkTypeOK
<1>3. Total[of[1]] \in Nat /\ next <= Total[of[1]] /\ writing[p].next <= next
  <2>1. Total[of[1]] \in Nat
    BY TotalAssumption DEF Sendings
  <2>2. writing[p].next <= Total[of[1]]
    BY <1>1 DEF OnceInv, WritersBegun
  <2>3. QED
    BY <1>1, <2>1, <2>2 DEF Writes
<1>4. \A s : Begun(s)' <=> Begun(s)
  BY <1>1 DEF Begun
<1>5. Begun(of)
  BY <1>1 DEF OnceInv, WritersBegun
<1>6. \A q \in Phones : /\ q = p => writing'[q].of = of /\ writing'[q].next = next
                        /\ q # p => writing'[q] = writing[q]
  BY <1>1, <1>2
<1>7. \A i \in DOMAIN after : after[i] = of /\ i \in Nat /\ i < next
  BY HeldAfterwards, HeldBelowNext
<1>8. \A q \in Phones : writing[q] # None /\ writing[q].of = of => q = p
  BY <1>1 DEF WholeInv, WriterIsPhone
<1>9. DOMAIN Nowhere = {}
  BY DEF Nowhere
<1>10. parts' = Nowhere \/ parts' = after
  BY DEF Writes, ingest
<1>11. \/ handed' = handed /\ parts' = after
       \/ /\ handed' = handed \cup {after} /\ parts' = Nowhere
          /\ DOMAIN after = 0 .. Total[of[1]] - 1
  BY DEF Writes, ingest
<1> HIDE DEF after
<1>12. WritersBegun'
  BY <1>3, <1>4, <1>5, <1>6 DEF OnceInv, WritersBegun
<1>13. HeldWritten'
  <2> SUFFICES ASSUME NEW i \in DOMAIN parts'
               PROVE  /\ Begun(parts'[i])
                      /\ \A q \in Phones :
                           writing'[q] # None /\ writing'[q].of = parts'[i]
                             => i < writing'[q].next
    BY <1>4 DEF HeldWritten
  <2>1. parts' = after /\ parts'[i] = of /\ i < next
    BY <1>7, <1>9, <1>10
  <2>2. QED
    BY <1>5, <1>6, <1>8, <2>1
<1>14. HandedWritten'
  <2> SUFFICES ASSUME NEW held \in handed', NEW i \in DOMAIN held
               PROVE  /\ Begun(held[i])
                      /\ \A q \in Phones :
                           writing'[q] # None /\ writing'[q].of = held[i]
                             => writing'[q].next = Total[held[i][1]]
    BY <1>4 DEF HandedWritten
  <2>1. CASE held \in handed
    <3>1. Begun(held[i])
      BY <2>1 DEF OnceInv, HandedWritten
    <3>2. ASSUME NEW q \in Phones, writing'[q] # None, writing'[q].of = held[i]
          PROVE  writing'[q].next = Total[held[i][1]]
      <4>1. CASE q = p
        <5>1. held[i] = of
          BY <1>6, <3>2, <4>1
        <5>2. writing[p].next = Total[of[1]]
          BY <1>1, <2>1, <5>1 DEF OnceInv, HandedWritten
        <5>3. next = Total[of[1]]
          BY <1>1, <1>3, <5>2
        <5>4. QED
          BY <1>6, <4>1, <5>1, <5>3
      <4>2. CASE q # p
        BY <1>6, <2>1, <3>2, <4>2 DEF OnceInv, HandedWritten
      <4>3. QED
        BY <4>1, <4>2
    <3>3. QED
      BY <3>1, <3>2
  <2>2. CASE held = after /\ DOMAIN after = 0 .. Total[of[1]] - 1
    <3>1. held[i] = of /\ i \in 0 .. Total[of[1]] - 1
      BY <1>7, <2>2
    <3>2. Total[of[1]] - 1 \in DOMAIN after
      BY <1>3, <2>2, <3>1
    <3>3. next = Total[of[1]]
      BY <1>3, <1>7, <3>2
    <3>4. QED
      BY <1>5, <1>6, <1>8, <3>1, <3>3
  <2>3. QED
    BY <1>11, <2>1, <2>2
<1>15. HandedNotHeld'
  <2> SUFFICES ASSUME NEW held \in handed', NEW i \in DOMAIN held,
                      NEW j \in DOMAIN parts',
                      parts'[j] = held[i], Total[held[i][1]] > 1
               PROVE  j # 0
    BY DEF HandedNotHeld
  <2>1. parts' = after /\ handed' = handed /\ parts'[j] = of
    BY <1>7, <1>9, <1>11
  <2>2. 0 \notin DOMAIN after
    BY <2>1, HandedNotCompleted DEF after
  <2>3. QED
    BY <2>1, <2>2
<1>16. QED
  BY <1>12, <1>13, <1>14, <1>15 DEF OnceInv

LEMMA OthersKeepOnceInv ==
  ASSUME ChunkTypeOK, OnceInv, [ChunkNext]_chunkVars,
         \A p \in Phones : ~WriteChunk(p)
  PROVE  OnceInv'
<1> USE DEF OnceInv, WritersBegun, HeldWritten, HandedWritten, HandedNotHeld
<1>1. ASSUME NEW m \in Messages, BeginMessage(m)
      PROVE  OnceInv'
  <2>0. PICK of : of = <<m, sendings'[m]>>
    OBVIOUS
  <2>1. /\ sendings' = [sendings EXCEPT ![m] = @ + 1]
        /\ writing' = [writing EXCEPT ![Phone[m]] = [of |-> of, next |-> 0]]
        /\ parts' = parts /\ handed' = handed
    BY <1>1, <2>0 DEF BeginMessage, assemblerVars
  <2>2. /\ sendings \in [Messages -> Nat]
        /\ writing \in [Phones -> [of : Sendings, next : Nat] \cup {None}]
    BY DEF ChunkTypeOK
  <2>3. Total[m] \in Nat /\ Phone[m] \in Phones
    BY TotalAssumption, PhoneAssumption
  <2>4. \A s : Begun(s) => Begun(s)' /\ s # of
    <3> SUFFICES ASSUME NEW s, Begun(s)
                 PROVE  s \in Sendings /\ s[2] <= sendings'[s[1]] /\ s # of
      BY DEF Begun
    <3>1. s \in Sendings /\ s[1] \in Messages /\ s[2] \in Nat
          /\ s[2] <= sendings[s[1]]
      BY DEF Begun, Sendings
    <3>2. sendings[s[1]] \in Nat /\ sendings'[m] = sendings[m] + 1
          /\ (s[1] # m => sendings'[s[1]] = sendings[s[1]])
      BY <2>1, <2>2, <3>1
    <3>3. of[1] = m /\ of[2] = sendings[m] + 1
      BY <2>0, <3>2
    <3>4. QED
      BY <3>1, <3>2, <3>3
  <2>5. of \in Sendings /\ Begun(of)' /\ of[1] = m
    <3>1. sendings'[m] \in Nat \ {0}
      BY <2>1, <2>2
    <3>2. of[1] = m /\ of[2] = sendings'[m] /\ of \in Sendings
      BY <2>0, <3>1 DEF Sendings
    <3>3. QED
      BY <3>1, <3>2 DEF Begun
  <2>6. \A q \in Phones :
          /\ q = Phone[m] => writing'[q].of = of /\ writing'[q].next = 0
          /\ q # Phone[m] => writing'[q] = writing[q]
    BY <2>1, <2>2
  <2>7. WritersBegun'
    BY <2>3, <2>4, <2>5, <2>6
  <2>8. HeldWritten'
    BY <2>1, <2>4, <2>6
  <2>9. HandedWritten'
    BY <2>1, <2>4, <2>6
  <2>10. HandedNotHeld'
    BY <2>1
  <2>11. QED
    BY <2>7, <2>8, <2>9, <2>10
<1>2. ASSUME NEW p \in Phones, Abandon(p) \/ WriteWhole(p)
      PROVE  OnceInv'
  <2>1. /\ writing' = [writing EXCEPT ![p] = None]
        /\ parts' = parts \/ parts' = Nowhere
        /\ handed' = handed /\ sendings' = sendings
    BY <1>2 DEF Abandon, WriteWhole, assemblerVars
  <2>2. writing \in [Phones -> [of : Sendings, next : Nat] \cup {None}]
    BY DEF ChunkTypeOK
  <2>3. \A q \in Phones : writing'[q] # None => writing'[q] = writing[q]
    BY <2>1, <2>2
  <2>4. \A s : Begun(s)' <=> Begun(s)
    BY <2>1 DEF Begun
  <2>5. DOMAIN Nowhere = {}
    BY DEF Nowhere
  <2>6. QED
    BY <2>1, <2>3, <2>4, <2>5
<1>3. CASE Expire \/ Processed \/ UNCHANGED chunkVars
  <2>1. UNCHANGED <<sendings, writing, parts, handed>>
    BY <1>3 DEF Expire, Processed, chunkVars, assemblerVars
  <2>2. QED
    BY <2>1 DEF Begun
<1>4. QED
  BY <1>1, <1>2, <1>3 DEF ChunkNext, PhonesAndWrites

(* The invariants on which both results about the messages rest.           *)
LEMMA ChunkInvariants == ChunkSpec => [](ChunkTypeOK /\ WholeInv /\ OnceInv)
<1>1. ChunkInit => WholeInv /\ OnceInv
  <2>1. DOMAIN Nowhere = {}
    BY DEF Nowhere
  <2>2. QED
    BY <2>1 DEF ChunkInit, WholeInv, HeldOfOne, HeldUnderId, WriterIsPhone,
                HeldIsCurrent, OnceInv, WritersBegun, HeldWritten,
                HandedWritten, HandedNotHeld
<1>2. ChunkTypeOK /\ WholeInv /\ OnceInv /\ [ChunkNext]_chunkVars
        => WholeInv' /\ OnceInv'
  <2> SUFFICES ASSUME ChunkTypeOK, WholeInv, OnceInv, [ChunkNext]_chunkVars
               PROVE  WholeInv' /\ OnceInv'
    OBVIOUS
  <2>1. ASSUME NEW p \in Phones, WriteChunk(p)
        PROVE  WholeInv' /\ OnceInv'
    <3>1. PICK of \in Sendings, index \in Nat, next \in Nat :
             Writes(p, of, index, next)
      BY <2>1, WriteChunkWrites
    <3>2. QED
      BY <3>1, WriteKeepsWholeInv, WriteKeepsOnceInv
  <2>2. CASE \A p \in Phones : ~WriteChunk(p)
    BY <2>2, OthersKeepWholeInv, OthersKeepOnceInv
  <2>3. QED
    BY <2>1, <2>2
<1>3. QED
  BY <1>1, <1>2, ChunkTypeCorrect, PTL DEF ChunkSpec

(* Whatever phones do, only whole messages are handed on.                  *)
THEOREM MessagesWhole == ChunkSpec => []WholeMessages
<1>1. ChunkInit => WholeMessages
  BY DEF ChunkInit, WholeMessages
<1>2. ChunkTypeOK /\ WholeInv /\ WholeMessages /\ [ChunkNext]_chunkVars
        => WholeMessages'
  <2> SUFFICES ASSUME ChunkTypeOK, WholeInv, WholeMessages, [ChunkNext]_chunkVars
               PROVE  WholeMessages'
    OBVIOUS
  <2>1. ASSUME NEW p \in Phones, WriteChunk(p)
        PROVE  WholeMessages'
    <3>1. PICK of \in Sendings, index \in Nat, next \in Nat :
             Writes(p, of, index, next)
      BY <2>1, WriteChunkWrites
    <3>2. handed' = handed \/ handed' = handed \cup {Held(of, index)}
      BY <3>1 DEF Writes, ingest
    <3>3. \A i \in DOMAIN Held(of, index) : Held(of, index)[i] = of
      BY <3>1, HeldAfterwards
    <3>4. QED
      BY <3>2, <3>3 DEF WholeMessages
  <2>2. CASE \A p \in Phones : ~WriteChunk(p)
    BY <2>2, OthersKeepWholeInv DEF WholeMessages
  <2>3. QED
    BY <2>1, <2>2
<1>3. QED
  BY <1>1, <1>2, ChunkInvariants, PTL DEF ChunkSpec

(* No sending of a chunked message is handed on twice: what is handed on   *)
(* again is another sending.                                               *)
THEOREM SentOnce == ChunkSpec => OncePerSending
<1> DEFINE Step == \A m \in Messages :
                     assembled = None /\ assembled' = m /\ Total[m] > 1
                       => handed' # handed
<1>1. ChunkTypeOK /\ WholeInv /\ OnceInv /\ [ChunkNext]_chunkVars
        => [Step]_chunkVars
  <2> SUFFICES ASSUME ChunkTypeOK, WholeInv, OnceInv, ChunkNext,
                      NEW m \in Messages,
                      assembled = None, assembled' = m, Total[m] > 1
               PROVE  handed' # handed
    BY DEF chunkVars
  <2>1. ASSUME NEW p \in Phones, WriteChunk(p)
        PROVE  handed' # handed
    <3>1. PICK of \in Sendings, index \in Nat, next \in Nat :
             Writes(p, of, index, next)
      BY <2>1, WriteChunkWrites
    <3> DEFINE held == Held(of, index)
    <3>2. /\ of[1] = m /\ DOMAIN held = 0 .. Total[m] - 1
          /\ handed' = handed \cup {held}
      BY <3>1, MessagesAssumption DEF Writes, ingest
    <3>3. Total[m] \in Nat
      BY TotalAssumption
    <3>4. 0 \in DOMAIN held
      BY <3>2, <3>3
    <3>5. held[0] = of
      BY <3>1, <3>4, HeldAfterwards
    <3>6. held \notin handed
      <4> HIDE DEF held
      <4> SUFFICES ASSUME held \in handed PROVE FALSE
        OBVIOUS
      <4>1. 0 \notin DOMAIN Held(of, index)
        BY <3>1, <3>2, <3>4, <3>5, HandedNotCompleted
      <4>2. QED
        BY <4>1, <3>4 DEF held
    <3>7. QED
      BY <3>2, <3>6
  <2>2. ASSUME NEW p \in Phones, WriteWhole(p)
        PROVE  FALSE
    <3>1. Total[m] = 0
      BY <2>2 DEF WriteWhole
    <3>2. QED
      BY <3>1
  <2>3. assembled' = assembled \/ assembled' = None
        \/ (\E p \in Phones : WriteChunk(p) \/ WriteWhole(p))
    BY DEF ChunkNext, PhonesAndWrites, BeginMessage, Abandon, Expire, Processed
  <2>4. QED
    BY <2>1, <2>2, <2>3, MessagesAssumption
<1>2. QED
  BY <1>1, ChunkInvariants, PTL DEF ChunkSpec, OncePerSending

-----------------------------------------------------------------------------

(* A step of the command path is a step of the chunk assembler or leaves   *)
(* it alone.                                                               *)
LEMMA KeyStepIsChunkStep == [KeyNext]_keyVars => [ChunkNext]_chunkVars
<1> SUFFICES ASSUME [KeyNext]_keyVars PROVE [ChunkNext]_chunkVars
  OBVIOUS
<1>1. CASE Write
  BY <1>1 DEF Write, ChunkNext
<1>2. CASE Refuse \/ RespondWithState \/ TimeOut
  BY <1>2 DEF Refuse, RespondWithState, TimeOut, Respond, ChunkNext
<1>3. CASE QueryState
  BY <1>3 DEF QueryState, Respond, ChunkNext
<1>4. CASE dispatch_ipc_command \/ ipc_thread
  BY <1>4 DEF dispatch_ipc_command, ipc_thread
<1>5. CASE JoystickButton \/ RestartRealtime \/ UNCHANGED keyVars
  BY <1>5 DEF JoystickButton, RestartRealtime, keyVars
<1>6. QED
  BY <1>1, <1>2, <1>3, <1>4, <1>5 DEF KeyNext

LEMMA KeyIsChunk == KeySpec => ChunkSpec
<1>1. KeyInit => ChunkInit
  BY DEF KeyInit
<1>2. QED
  BY <1>1, KeyStepIsChunkStep, PTL DEF KeySpec, ChunkSpec

(* So whatever the handler does, only whole messages reach it, and each    *)
(* sending once.                                                           *)
THEOREM KeyMessagesWhole == KeySpec => []WholeMessages /\ OncePerSending
  BY KeyIsChunk, MessagesWhole, SentOnce

-----------------------------------------------------------------------------

(* What the end of a callback leaves: no request.                          *)
LEMMA ProcessedEnds ==
  ASSUME NEW success \in BOOLEAN, NEW state \in States, Respond(success, state)
  PROVE  /\ assembled' = None
         /\ stage' = "none"
         /\ answer' = [success |-> success, vehicleState |-> state]
         /\ answer' \in [success : BOOLEAN, vehicleState : States]
<1>1. answer' = [success |-> success, vehicleState |-> state]
  BY DEF Respond
<1>2. answer' \in [success : BOOLEAN, vehicleState : States]
  BY <1>1
<1>3. QED
  BY <1>1, <1>2 DEF Respond, Processed

LEMMA EmptyQueue == <<>> \in Seq(Requests)
  OBVIOUS

LEMMA SendAppends ==
  ASSUME NEW command \in {"LOCK", "UNLOCK", "START", "GET_ALL"}, Send(command),
         queue \in Seq(Requests)
  PROVE  /\ queue' \in Seq(Requests)
         /\ Len(queue') = Len(queue) + 1
         /\ \A i \in 1 .. Len(queue) : queue'[i] = queue[i]
<1>1. [command |-> command, open |-> TRUE] \in Requests
  BY DEF Requests
<1>2. QED
  BY <1>1 DEF Send

LEMMA CloseKeeps ==
  ASSUME queue \in Seq(Requests),
         queue' = [i \in DOMAIN queue |-> [queue[i] EXCEPT !.open = FALSE]]
  PROVE  queue' \in Seq(Requests) /\ \A i \in DOMAIN queue' : ~queue'[i].open
<1>1. DOMAIN queue = 1 .. Len(queue) /\ Len(queue) \in Nat
  OBVIOUS
<1>2. \A i \in DOMAIN queue : queue[i] \in Requests
  OBVIOUS
<1>3. \A i \in DOMAIN queue :
        [queue[i] EXCEPT !.open = FALSE] \in Requests
        /\ ~[queue[i] EXCEPT !.open = FALSE].open
  BY <1>2 DEF Requests
<1>4. queue' \in [1 .. Len(queue) -> Requests]
  BY <1>1, <1>3
<1>5. queue' \in Seq(Requests)
  BY <1>1, <1>4
<1>6. QED
  BY <1>3, <1>5

(* The types of what the command path adds to the assembler.               *)
PathTypeOK ==
  /\ stage \in {"none", "action", "status"} /\ (stage # "none" => assembled # None)
  /\ queue \in Seq(Requests)
  /\ reply \in States \cup {None}
  /\ door_locked \in BOOLEAN /\ engine_on \in BOOLEAN
  /\ answer \in [success : BOOLEAN, vehicleState : States] \cup {None}

LEMMA PathTypeCorrect == KeySpec => [](ChunkTypeOK /\ PathTypeOK)
<1>1. KeyInit => PathTypeOK
  <2> SUFFICES ASSUME KeyInit PROVE PathTypeOK
    OBVIOUS
  <2>1. door_locked \in BOOLEAN /\ engine_on \in BOOLEAN
    BY DEF KeyInit
  <2>2. queue \in Seq(Requests)
    BY EmptyQueue DEF KeyInit
  <2>3. QED
    BY <2>1, <2>2 DEF KeyInit, PathTypeOK
<1>2. ChunkTypeOK /\ PathTypeOK /\ [KeyNext]_keyVars => PathTypeOK'
  <2> SUFFICES ASSUME ChunkTypeOK, PathTypeOK, [KeyNext]_keyVars PROVE PathTypeOK'
    OBVIOUS
  <2> USE DEF PathTypeOK
  <2>0. NoState \in States
    BY DEF States
  <2>1. CASE Write
    <3>1. assembled # None => assembled' = assembled
      BY <2>1 DEF Write, PhonesAndWrites, BeginMessage, Abandon, WriteChunk,
                  WriteWhole, Expire
    <3>2. QED
      BY <2>1, <3>1 DEF Write, requestVars, carVars
  <2>2. CASE Refuse
    <3>1. /\ stage' = "none"
          /\ answer' \in [success : BOOLEAN, vehicleState : States]
      BY <2>0, <2>2, ProcessedEnds DEF Refuse
    <3>2. QED
      BY <2>2, <3>1 DEF Refuse, carVars
  <2>3. CASE dispatch_ipc_command
    <3>1. Command[assembled] \in {"LOCK", "UNLOCK", "START", "GET_ALL"}
      BY <2>3, CommandAssumption DEF dispatch_ipc_command, ChunkTypeOK
    <3>2. queue' \in Seq(Requests)
      BY <2>3, <3>1, SendAppends DEF dispatch_ipc_command
    <3>3. QED
      BY <2>3, <3>2 DEF dispatch_ipc_command, chunkVars, carVars
  <2>4. CASE QueryState
    <3>1. reply \in States /\ reply' = None
      BY <2>4 DEF QueryState
    <3>2. CASE (Respond(TRUE, reply) \/ Respond(TRUE, NoState)) /\ queue' = queue
      <4>1. /\ stage' = "none"
            /\ answer' \in [success : BOOLEAN, vehicleState : States]
        <5>1. PICK state \in States : Respond(TRUE, state)
          BY <2>0, <3>1, <3>2
        <5>2. QED
          BY <5>1, ProcessedEnds
      <4>2. QED
        BY <2>4, <3>1, <3>2, <4>1 DEF QueryState, carVars
    <3>3. CASE Send("GET_ALL") /\ stage' = "status" /\ UNCHANGED <<chunkVars, answer>>
      <4>1. queue' \in Seq(Requests)
        BY <3>3, SendAppends
      <4>2. QED
        BY <2>4, <3>1, <3>3, <4>1 DEF QueryState, carVars, chunkVars
    <3>4. QED
      BY <2>4, <3>2, <3>3 DEF QueryState
  <2>5. CASE RespondWithState
    <3>1. reply \in States
      BY <2>5 DEF RespondWithState
    <3>2. /\ stage' = "none"
          /\ answer' \in [success : BOOLEAN, vehicleState : States]
      BY <2>5, <3>1, ProcessedEnds DEF RespondWithState
    <3>3. QED
      BY <2>5, <3>2 DEF RespondWithState, carVars
  <2>6. CASE TimeOut
    <3>1. queue' \in Seq(Requests)
      BY <2>6, CloseKeeps DEF TimeOut
    <3>2. PICK success \in BOOLEAN : Respond(success, NoState)
      BY <2>6 DEF TimeOut
    <3>3. /\ stage' = "none"
          /\ answer' \in [success : BOOLEAN, vehicleState : States]
      BY <2>0, <3>2, ProcessedEnds
    <3>4. QED
      BY <2>6, <3>1, <3>3 DEF TimeOut, carVars
  <2>7. CASE ipc_thread
    <3>1. Head(queue) \in Requests /\ queue' \in Seq(Requests)
      BY <2>7 DEF ipc_thread
    <3>2. door_locked' \in BOOLEAN /\ engine_on' \in BOOLEAN
      BY <2>7 DEF ipc_thread
    <3>3. reply' \in States \cup {None}
      <4>1. [locked |-> door_locked, engineOn |-> engine_on] \in States
        BY DEF States
      <4>2. QED
        BY <2>0, <2>7, <4>1 DEF ipc_thread
    <3>4. stage' = stage /\ assembled' = assembled /\ answer' = answer
      BY <2>7 DEF ipc_thread, chunkVars
    <3>5. QED
      BY <3>1, <3>2, <3>3, <3>4
  <2>8. CASE JoystickButton
    BY <2>8 DEF JoystickButton, chunkVars, requestVars
  <2>9. CASE RestartRealtime
    <3>1. door_locked' \in BOOLEAN /\ engine_on' \in BOOLEAN
      BY <2>9 DEF RestartRealtime
    <3>2. queue' \in Seq(Requests)
      BY <2>9, EmptyQueue DEF RestartRealtime
    <3>3. QED
      BY <2>9, <3>1, <3>2 DEF RestartRealtime, chunkVars
  <2>10. CASE UNCHANGED keyVars
    BY <2>10 DEF keyVars, chunkVars, requestVars, carVars
  <2>11. QED
    BY <2>1, <2>2, <2>3, <2>4, <2>5, <2>6, <2>7, <2>8, <2>9, <2>10 DEF KeyNext
<1>3. QED
  BY <1>1, <1>2, KeyIsChunk, ChunkTypeCorrect, PTL DEF KeySpec

-----------------------------------------------------------------------------

(* What makes the answer true.  The request that is waited for is the last *)
(* of the queue, so that when its reply is there nothing is left that      *)
(* could still change the doors.                                           *)
OpenIsLast ==
  \A i \in DOMAIN queue :
    queue[i].open => i = Len(queue) /\ stage # "none" /\ reply = None

ReplyIsFresh ==
  reply # None =>
    /\ stage # "none" /\ queue = <<>> /\ ran
    /\ reply # NoState /\ ~restarted => reply.locked = door_locked

StatusRan == stage = "status" => ran

AnswerFresh ==
  stage = "none" /\ answer # None /\ answer.success =>
    /\ ran
    /\ answer.vehicleState # NoState /\ ~restarted =>
         queue = <<>> /\ answer.vehicleState.locked = door_locked

PathInv == OpenIsLast /\ ReplyIsFresh /\ StatusRan /\ AnswerFresh

(* The end of a callback, with an answer that is true.                     *)
LEMMA RespondKeeps ==
  ASSUME NEW success \in BOOLEAN, NEW state \in States, Respond(success, state),
         success => ran',
         success /\ state # NoState /\ ~restarted'
           => queue' = <<>> /\ state.locked = door_locked',
         reply' = None, \A i \in DOMAIN queue' : ~queue'[i].open
  PROVE  PathInv'
<1>1. stage' = "none" /\ answer' = [success |-> success, vehicleState |-> state]
  BY ProcessedEnds
<1>2. answer'.success = success /\ answer'.vehicleState = state
  BY <1>1
<1>3. AnswerFresh'
  BY <1>2 DEF AnswerFresh
<1>4. QED
  BY <1>1, <1>3 DEF PathInv, OpenIsLast, ReplyIsFresh, StatusRan

LEMMA KeyStepKeepsPathInv ==
  ASSUME ChunkTypeOK, PathTypeOK, PathInv, [KeyNext]_keyVars
  PROVE  PathInv'
<1> USE DEF PathInv
<1>0. NoState \in States /\ queue \in Seq(Requests)
      /\ DOMAIN queue = 1 .. Len(queue) /\ Len(queue) \in Nat
  BY DEF States, PathTypeOK
<1>1. CASE Write
  <2>1. UNCHANGED <<stage, queue, reply, door_locked, answer, ran, restarted>>
    BY <1>1 DEF Write, requestVars, carVars
  <2>2. QED
    BY <2>1 DEF OpenIsLast, ReplyIsFresh, StatusRan, AnswerFresh
<1>2. CASE Refuse
  <2>1. Respond(FALSE, NoState) /\ queue' = queue /\ reply' = reply /\ stage = "none"
    BY <1>2 DEF Refuse
  <2>2. reply = None /\ \A i \in DOMAIN queue : ~queue[i].open
    BY <2>1 DEF OpenIsLast, ReplyIsFresh
  <2>3. QED
    BY <1>0, <2>1, <2>2, RespondKeeps
<1>3. CASE dispatch_ipc_command
  <2>1. Command[assembled] \in {"LOCK", "UNLOCK", "START", "GET_ALL"}
    BY <1>3, CommandAssumption DEF dispatch_ipc_command, ChunkTypeOK
  <2>2. /\ stage = "none" /\ stage' = "action" /\ reply' = reply /\ answer' = answer
    BY <1>3 DEF dispatch_ipc_command
  <2>3. reply = None /\ \A i \in DOMAIN queue : ~queue[i].open
    BY <2>2 DEF OpenIsLast, ReplyIsFresh
  <2>4. /\ queue' \in Seq(Requests) /\ Len(queue') = Len(queue) + 1
        /\ \A i \in 1 .. Len(queue) : queue'[i] = queue[i]
    BY <1>0, <1>3, <2>1, SendAppends DEF dispatch_ipc_command
  <2>5. DOMAIN queue' = 1 .. Len(queue) + 1
    BY <2>4
  <2>6. OpenIsLast'
    BY <1>0, <2>2, <2>3, <2>4, <2>5 DEF OpenIsLast
  <2>7. QED
    BY <2>2, <2>3, <2>6 DEF ReplyIsFresh, StatusRan, AnswerFresh
<1>4. CASE QueryState
  <2>1. /\ reply # None /\ reply \in States /\ reply' = None
        /\ stage = "action" /\ UNCHANGED <<door_locked, ran, restarted>>
    BY <1>4 DEF QueryState, PathTypeOK, carVars
  <2>2. queue = <<>> /\ ran /\ (reply # NoState /\ ~restarted => reply.locked = door_locked)
    BY <2>1 DEF ReplyIsFresh
  <2>3. CASE (Respond(TRUE, reply) \/ Respond(TRUE, NoState)) /\ queue' = queue
    <3>1. DOMAIN queue' = {}
      BY <2>2, <2>3
    <3>2. PICK state \in {reply, NoState} : Respond(TRUE, state)
      BY <2>3
    <3>3. state \in States /\ (state # NoState => state = reply)
      BY <1>0, <2>1
    <3>4. QED
      BY <2>1, <2>2, <2>3, <3>1, <3>2, <3>3, RespondKeeps
  <2>4. CASE Send("GET_ALL") /\ stage' = "status"
    <3>1. queue' \in Seq(Requests) /\ Len(queue') = 1
      BY <1>0, <2>2, <2>4, SendAppends
    <3>2. DOMAIN queue' = {1}
      BY <3>1
    <3>3. OpenIsLast'
      BY <2>1, <2>4, <3>1, <3>2 DEF OpenIsLast
    <3>4. QED
      BY <2>1, <2>2, <2>4, <3>3 DEF ReplyIsFresh, StatusRan, AnswerFresh
  <2>5. QED
    BY <1>4, <2>3, <2>4 DEF QueryState
<1>5. CASE RespondWithState
  <2>1. /\ reply # None /\ reply \in States /\ reply' = None
        /\ Respond(TRUE, reply) /\ UNCHANGED <<queue, door_locked, ran, restarted>>
    BY <1>5 DEF RespondWithState, PathTypeOK, carVars
  <2>2. queue = <<>> /\ ran /\ (reply # NoState /\ ~restarted => reply.locked = door_locked)
    BY <2>1 DEF ReplyIsFresh
  <2>3. DOMAIN queue' = {}
    BY <2>1, <2>2
  <2>4. QED
    BY <2>1, <2>2, <2>3, RespondKeeps
<1>6. CASE TimeOut
  <2>1. \A i \in DOMAIN queue' : ~queue'[i].open
    BY <1>0, <1>6, CloseKeeps DEF TimeOut
  <2>2. Respond(stage = "status", NoState) /\ reply' = None /\ ran' = ran
    BY <1>6 DEF TimeOut
  <2>3. PICK success \in BOOLEAN : success = (stage = "status")
    OBVIOUS
  <2>4. success => ran'
    BY <2>2, <2>3 DEF StatusRan
  <2>5. QED
    BY <1>0, <2>1, <2>2, <2>3, <2>4, RespondKeeps
<1>7. CASE ipc_thread
  <2>1. /\ queue # <<>> /\ queue' = Tail(queue) /\ Head(queue) = queue[1]
        /\ UNCHANGED <<stage, answer, restarted>>
    BY <1>7 DEF ipc_thread
  <2>2. ran => ran'
    BY <1>7 DEF ipc_thread
  <2>3. reply = None
    BY <2>1 DEF ReplyIsFresh
  <2>4. Len(queue) >= 1 /\ Len(queue') = Len(queue) - 1 /\ DOMAIN queue' = 1 .. Len(queue')
        /\ queue' \in Seq(Requests)
        /\ \A i \in DOMAIN queue' : i + 1 \in DOMAIN queue /\ queue'[i] = queue[i + 1]
    BY <1>0, <2>1
  <2>5. AnswerFresh'
    BY <2>1, <2>2 DEF AnswerFresh
  <2>6. StatusRan'
    BY <2>1, <2>2 DEF StatusRan
  <2>7. CASE ~Head(queue).open
    <3>1. reply' = None
      BY <1>7, <2>3, <2>7 DEF ipc_thread, Reaches
    <3>2. OpenIsLast'
      BY <1>0, <2>1, <2>4, <3>1 DEF OpenIsLast
    <3>3. QED
      BY <2>5, <2>6, <3>1, <3>2 DEF ReplyIsFresh
  <2>8. CASE Head(queue).open
    <3>1. Len(queue) = 1 /\ stage # "none"
      BY <1>0, <2>1, <2>4, <2>8 DEF OpenIsLast
    <3>2. queue' = <<>> /\ DOMAIN queue' = {}
      BY <2>4, <3>1
    <3>3. ran'
      BY <1>7, <2>8, <3>1 DEF ipc_thread, PathTypeOK, StatusRan
    <3>4. reply' = NoState \/ (reply'.locked = door_locked /\ door_locked' = door_locked)
      <4>1. CASE Head(queue).command = "GET_ALL"
        <5>1. reply' = [locked |-> door_locked, engineOn |-> engine_on]
              /\ door_locked' = door_locked
          BY <1>7, <2>8, <4>1 DEF ipc_thread, Reaches
        <5>2. QED
          BY <5>1
      <4>2. CASE Head(queue).command # "GET_ALL"
        BY <1>7, <2>8, <4>2 DEF ipc_thread, Reaches
      <4>3. QED
        BY <4>1, <4>2
    <3>5. ReplyIsFresh'
      BY <2>1, <3>1, <3>2, <3>3, <3>4 DEF ReplyIsFresh
    <3>6. QED
      BY <2>5, <2>6, <3>2, <3>5 DEF OpenIsLast
  <2>9. QED
    BY <2>7, <2>8
<1>8. CASE JoystickButton
  <2>1. UNCHANGED <<stage, queue, reply, door_locked, answer, ran, restarted>>
    BY <1>8 DEF JoystickButton, requestVars
  <2>2. QED
    BY <2>1 DEF OpenIsLast, ReplyIsFresh, StatusRan, AnswerFresh
<1>9. CASE RestartRealtime
  <2>1. queue' = <<>> /\ restarted' /\ UNCHANGED <<stage, reply, answer, ran>>
    BY <1>9 DEF RestartRealtime
  <2>2. QED
    BY <2>1 DEF OpenIsLast, ReplyIsFresh, StatusRan, AnswerFresh
<1>10. CASE UNCHANGED keyVars
  <2>1. UNCHANGED <<stage, queue, reply, door_locked, answer, ran, restarted>>
    BY <1>10 DEF keyVars, requestVars, carVars
  <2>2. QED
    BY <2>1 DEF OpenIsLast, ReplyIsFresh, StatusRan, AnswerFresh
<1>11. QED
  BY <1>1, <1>2, <1>3, <1>4, <1>5, <1>6, <1>7, <1>8, <1>9, <1>10 DEF KeyNext

LEMMA KeyInvariants == KeySpec => [](ChunkTypeOK /\ PathTypeOK /\ PathInv)
<1>1. KeyInit => PathInv
  BY DEF KeyInit, PathInv, OpenIsLast, ReplyIsFresh, StatusRan, AnswerFresh
<1>2. ChunkTypeOK /\ PathTypeOK /\ PathInv /\ [KeyNext]_keyVars => PathInv'
  BY KeyStepKeepsPathInv
<1>3. QED
  BY <1>1, <1>2, PathTypeCorrect, PTL DEF KeySpec

(* Everything has its type, in every reachable state; a reply is there     *)
(* only while it is waited for.                                            *)
THEOREM KeyTypeCorrect == KeySpec => []KeyTypeOK
<1>1. ChunkTypeOK /\ PathTypeOK /\ PathInv => KeyTypeOK
  BY DEF PathTypeOK, PathInv, ReplyIsFresh, KeyTypeOK
<1>2. QED
  BY <1>1, KeyInvariants, PTL

(* A success that the phone reads means that its command was executed, and *)
(* the doors are as the answer says until the next command: a request that *)
(* timed out is executed before the state is asked for, never after.       *)
THEOREM AnswersTruthful == KeySpec => []AnswerTruthful
<1>1. PathInv => AnswerTruthful
  BY DEF PathInv, AnswerFresh, AnswerTruthful
<1>2. QED
  BY <1>1, KeyInvariants, PTL

=============================================================================
