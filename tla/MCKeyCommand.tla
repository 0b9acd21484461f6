---------------------------- MODULE MCKeyCommand -----------------------------
(* One phone sends two messages of two chunks under the same id, each      *)
(* twice, the other a message of two chunks and an unchunked query.        *)
EXTENDS KeyCommand
CONSTANTS p, q, lock, unlock, start, query
PhoneOf == [m \in Messages |-> IF m \in {lock, unlock} THEN p ELSE q]
IdOf == [m \in Messages |-> PhoneOf[m]]
TotalOf == [m \in Messages |-> IF m = query THEN 0 ELSE 2]
SendingsOf == [m \in Messages |-> IF m \in {lock, unlock} THEN 2 ELSE 1]
CommandOf == [m \in Messages |-> CASE m = lock -> "LOCK" [] m = unlock -> "UNLOCK"
                                   [] m = start -> "START" [] m = query -> "GET_ALL"]
=============================================================================
