--------------------------- MODULE ChunkAssembler ----------------------------
(***************************************************************************)
(* The command messages of the digital key on their way from the phones,   *)
(* cut into chunks, through one write characteristic and the               *)
(* CommandChunkAssembler, which holds the chunks of one message at a time. *)
(*                                                                         *)
(* A chunk's data is abstracted to the sending it was cut from: sending n  *)
(* of message m.  Phones send their own messages one after the other, each *)
(* from its first chunk on; a phone may write a chunk again, give up in    *)
(* the middle, or send a message again from the start, and the writes of   *)
(* several phones interleave.                                              *)
(***************************************************************************)
EXTENDS Naturals, FiniteSets

CONSTANTS
  Messages,    \* command payloads
  Phones,
  Phone,       \* the phone that sends a message
  Id,          \* the chunk id of a message
  Total,       \* the number of its chunks, 0 if it is written unchunked
  MaxSendings, \* bound: how often a message is sent
  None         \* no chunk state, no message

ASSUME MessagesAssumption == None \notin Messages
ASSUME PhoneAssumption == Phone \in [Messages -> Phones]
ASSUME TotalAssumption == Total \in [Messages -> Nat]
ASSUME MaxSendingsAssumption == MaxSendings \in [Messages -> Nat]

(* Phones choose chunk ids that differ from each other's; two messages of  *)
(* one phone may share an id, as they do when the phone gives none.        *)
ASSUME IdAssumption == \A m, n \in Messages : Phone[m] # Phone[n] => Id[m] # Id[n]

VARIABLES
  sendings,   \* how often each message has been begun
  writing,    \* what each phone is sending and the index of its next chunk
  parts,      \* _state.parts; nothing in it stands for _state None
  chunk_id, total,  \* the other fields of _state
  expired,    \* _state was created more than ttl_seconds ago
  assembled,  \* the message being processed: nothing else is written then
  handed      \* history: the chunks of the messages handed to the processing

assemblerVars == <<parts, chunk_id, total, expired>>
chunkVars == <<sendings, writing, assemblerVars, assembled, handed>>

Nowhere == [i \in {} |-> None]

ChunkInit ==
  /\ sendings = [m \in Messages |-> 0]
  /\ writing = [p \in Phones |-> None]
  /\ parts = Nowhere /\ chunk_id = None /\ total = 0 /\ expired = FALSE
  /\ assembled = None
  /\ handed = {}

-----------------------------------------------------------------------------
(* The phones. *)

BeginMessage(m) ==
  /\ sendings[m] < MaxSendings[m]
  /\ sendings' = [sendings EXCEPT ![m] = @ + 1]
  /\ writing' = [writing EXCEPT ![Phone[m]] =
                   [of |-> <<m, sendings'[m]>>, next |-> 0]]
  /\ UNCHANGED <<assemblerVars, assembled, handed>>

(* The phone loses the connection or gives up. *)
Abandon(p) ==
  /\ writing[p] # None
  /\ writing' = [writing EXCEPT ![p] = None]
  /\ UNCHANGED <<sendings, assemblerVars, assembled, handed>>

-----------------------------------------------------------------------------
(* CommandChunkAssembler.ingest. *)

(* Mutant: the first chunk does not start over. *)
ContinuesAnyIndex(m, index) ==
  parts # Nowhere /\ chunk_id = Id[m] /\ total = Total[m] /\ ~expired

Continues(m, index) ==
  parts # Nowhere /\ chunk_id = Id[m] /\ total = Total[m] /\ ~expired /\ index # 0

(* The chunks held after this one: it is added to the state there is or to *)
(* a new one, whatever its index.                                          *)
Held(of, index) ==
  LET before == IF Continues(of[1], index) THEN parts ELSE Nowhere
  IN [i \in DOMAIN before \cup {index} |-> IF i = index THEN of ELSE before[i]]

(* Mutant: the state stays after a whole message. *)
ingest_again(of, index) ==
  LET held == Held(of, index)
      complete == DOMAIN held = 0 .. Total[of[1]] - 1
  IN /\ parts' = held
     /\ chunk_id' = Id[of[1]]
     /\ total' = Total[of[1]]
     /\ expired' = (expired /\ Continues(of[1], index))
     /\ assembled' = IF complete THEN of[1] ELSE None
     /\ handed' = IF complete THEN handed \cup {held} ELSE handed

(* A whole message is handed on and the state is dropped. *)
ingest(of, index) ==
  LET held == Held(of, index)
      complete == DOMAIN held = 0 .. Total[of[1]] - 1
  IN /\ parts' = IF complete THEN Nowhere ELSE held
     /\ chunk_id' = IF complete THEN None ELSE Id[of[1]]
     /\ total' = IF complete THEN 0 ELSE Total[of[1]]
     /\ expired' = IF complete THEN FALSE ELSE expired /\ Continues(of[1], index)
     /\ assembled' = IF complete THEN of[1] ELSE None
     /\ handed' = IF complete THEN handed \cup {held} ELSE handed

(* _on_command_write with a chunk: the phone's next, or the one before it  *)
(* once more.                                                              *)
WriteChunk(p) ==
  /\ assembled = None
  /\ writing[p] # None
  /\ LET of == writing[p].of
         next == writing[p].next
     IN \/ /\ next < Total[of[1]]
           /\ ingest(of, next)
           /\ writing' = [writing EXCEPT ![p] = [of |-> of, next |-> next + 1]]
        \/ /\ next > 0
           /\ ingest(of, next - 1)
           /\ UNCHANGED writing
  /\ UNCHANGED sendings

(* A message that is not cut into chunks drops what has been collected. *)
WriteWhole(p) ==
  /\ assembled = None
  /\ writing[p] # None
  /\ LET m == writing[p].of[1]
     IN Total[m] = 0 /\ assembled' = m
  /\ parts' = Nowhere /\ chunk_id' = None /\ total' = 0 /\ expired' = FALSE
  /\ writing' = [writing EXCEPT ![p] = None]
  /\ UNCHANGED <<sendings, handed>>

(* 15 seconds pass. *)
Expire ==
  /\ parts # Nowhere /\ ~expired
  /\ expired' = TRUE
  /\ UNCHANGED <<sendings, writing, parts, chunk_id, total, assembled, handed>>

(* The callback returns. *)
Processed ==
  /\ assembled # None
  /\ assembled' = None
  /\ UNCHANGED <<sendings, writing, assemblerVars, handed>>

PhonesAndWrites ==
  \/ \E m \in Messages : BeginMessage(m)
  \/ \E p \in Phones : Abandon(p) \/ WriteChunk(p) \/ WriteWhole(p)
  \/ Expire

ChunkNext == PhonesAndWrites \/ Processed

ChunkSpec == ChunkInit /\ [][ChunkNext]_chunkVars

-----------------------------------------------------------------------------

Sendings == Messages \X (Nat \ {0})

ChunkTypeOK ==
  /\ sendings \in [Messages -> Nat]
  /\ writing \in [Phones -> [of : Sendings, next : Nat] \cup {None}]
  /\ \A i \in DOMAIN parts : i \in Nat /\ parts[i] \in Sendings
  /\ expired \in BOOLEAN
  /\ assembled \in Messages \cup {None}

(* A message that is handed on is one that a phone sent: all its chunks    *)
(* come from one sending, however the writes of phones interleave, break   *)
(* off, start over or are repeated.                                        *)
WholeMessages ==
  \A held \in handed : \A i, j \in DOMAIN held : held[i] = held[j]

(* A message of several chunks is handed on once for each time it is sent, *)
(* also when its last chunk is written again.                              *)
OncePerSending ==
  [][\A m \in Messages :
       assembled = None /\ assembled' = m /\ Total[m] > 1 => handed' # handed]_chunkVars

=============================================================================
