----------------------------- MODULE FinsDriver -----------------------------
(***************************************************************************)
(* The FINS client of one PLC (finstcpcommand.cpp).  Calls come one at a    *)
(* time (driver_mu_) and nobody else sees the driver's fields, so a call is *)
(* the set of its outcomes: everything the network and the PLC may answer   *)
(* on the way.                                                              *)
(***************************************************************************)
EXTENDS Naturals

\* m_transmission_st; FAIL_CONNECT is never assigned.
Transmission == {"IDLE", "LONG_CONNECT", "RESET_ETHERNET", "REVERT_PLC"}

\* A driver: its state, whether m_socket is open, and whether it has itself
\* told the PLC to stop.  The PLC's own mode, run, goes with it.
Driver == [st : Transmission, sock : BOOLEAN, stopper : BOOLEAN, run : BOOLEAN]

\* A driver just created for a PLC in the given mode.
NewDriver(run) == [st |-> "IDLE", sock |-> FALSE, stopper |-> FALSE, run |-> run]

\* A request and its answer: answered; refused with an error code; or lost in
\* either direction, when time_out closes the socket.  acted: the PLC did it.
Ask(s) ==
    IF ~s.sock THEN {[ok |-> FALSE, acted |-> FALSE, sock |-> FALSE]}
    ELSE {[ok |-> TRUE, acted |-> TRUE, sock |-> TRUE],
          [ok |-> FALSE, acted |-> FALSE, sock |-> TRUE]}
         \cup [ok : {FALSE}, acted : BOOLEAN, sock : {FALSE}]

\* The old socket is closed and a new one may connect.
Connect(s) == {[s EXCEPT !.sock = c] : c \in BOOLEAN}

\* The node that the PLC gives to the connection: one of the first two points,
\* another one, or none, as the handshake fails.
Shakehand(s) ==
    {[node |-> n, s |-> s] : n \in IF s.sock THEN {"right", "wrong", "none"} ELSE {"none"}}
    \cup {[node |-> "none", s |-> [s EXCEPT !.sock = FALSE]]}

Greet(s) == UNION {Shakehand(c) : c \in Connect(s)}

At(s, st) == [s EXCEPT !.st = st]

TestCommunicate(s) == {[ok |-> r.ok, s |-> [s EXCEPT !.sock = r.sock]] : r \in Ask(s)}

SetStop(s) ==
    {[ok |-> r.ok, s |-> [s EXCEPT !.sock = r.sock, !.run = @ /\ ~r.acted,
                                   !.stopper = @ \/ r.acted]] : r \in Ask(s)}

(* Mutant: the reset has to be answered. *)
ResetEthernetAnswered(s) == {[ok |-> r.ok, s |-> [s EXCEPT !.sock = r.sock]] : r \in Ask(s)}

\* Counts as done whatever comes back: a PLC that resets does not answer.
ResetEthernet(s) == {[ok |-> TRUE, s |-> [s EXCEPT !.sock = r.sock]] : r \in Ask(s)}

SetRun(s) ==
    {[ok |-> r.ok, s |-> [s EXCEPT !.sock = r.sock, !.run = @ \/ r.acted]] : r \in Ask(s)}

\* One turn of the loop in verify_transmission, by the state at its start.
FromIdle(s) ==
    {[ok |-> FALSE, s |-> CASE g.node = "right" -> At(g.s, "LONG_CONNECT")
                            [] g.node = "wrong" -> At(g.s, "RESET_ETHERNET")
                            [] g.node = "none"  -> g.s] : g \in Greet(s)}

FromLongConnect(s) ==
    {IF t.ok THEN t ELSE [ok |-> FALSE, s |-> At(t.s, "IDLE")] : t \in TestCommunicate(s)}

\* A stop that failed is forgotten: the reset that follows sets the state.
FromReset(s) ==
    {[ok |-> FALSE, s |-> At(r.s, IF r.ok THEN "REVERT_PLC" ELSE "IDLE")] :
        r \in UNION {ResetEthernet(t.s) : t \in SetStop(s)}}

FromRevert(s) ==
    UNION {CASE g.node = "right" ->
                    {[ok |-> FALSE, s |-> IF t.ok THEN At(t.s, "LONG_CONNECT") ELSE t.s] :
                        t \in SetRun(g.s)}
             [] g.node = "wrong" -> {[ok |-> FALSE, s |-> At(g.s, "RESET_ETHERNET")]}
             [] g.node = "none"  -> {[ok |-> FALSE, s |-> g.s]} : g \in Greet(s)}

Turn(s) ==
    CASE s.st = "IDLE"           -> FromIdle(s)
      [] s.st = "LONG_CONNECT"   -> FromLongConnect(s)
      [] s.st = "RESET_ETHERNET" -> FromReset(s)
      [] s.st = "REVERT_PLC"     -> FromRevert(s)

\* One more turn of those that were not ended by a test that was answered.
Again(R) == UNION {IF r.ok THEN {r} ELSE Turn(r.s) : r \in R}

\* verify_transmission: at most five turns.
VerifyTransmission(s) ==
    Again(Again(Again(Again(Again({[ok |-> FALSE, s |-> s]})))))

\* What the four calls have in common: the transmission is verified, then the
\* command is sent; an answer that is not the right one closes the socket.
Transmit(s) ==
    UNION {IF ~v.ok THEN {[ok |-> FALSE, acted |-> FALSE, s |-> v.s]}
           ELSE {[ok |-> r.ok, acted |-> r.acted, s |-> [v.s EXCEPT !.sock = r.ok]] :
                    r \in Ask(v.s)} : v \in VerifyTransmission(s)}

\* Every driver with the outcomes of its next call (a set, which TLC computes once).
Calls == {[driver |-> s, outcomes |-> Transmit(s)] : s \in Driver}

\* The calls differ in the layout of their packets only.
Outcomes(s) == UNION {c.outcomes : c \in {c \in Calls : c.driver = s}}

fins_readbit(s) == Outcomes(s)
fins_writebit(s) == Outcomes(s)
fins_readword(s) == Outcomes(s)
fins_writeword(s) == Outcomes(s)
=============================================================================
