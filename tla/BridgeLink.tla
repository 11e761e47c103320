----------------------------- MODULE BridgeLink -----------------------------
(***************************************************************************)
(* The TCP connections between the expert advisor (the client) and the     *)
(* bridge server, as far as either can tell: lines under way to the        *)
(* server, replies under way to the client, and connections that end or    *)
(* go dead without either being told.                                      *)
(***************************************************************************)
EXTENDS Integers, Sequences, FiniteSets

CONSTANTS MaxDials,     \* bound: connections dialled in a behaviour
          MaxLines      \* bound: lines under way on one connection

ASSUME LinkAssumption == MaxDials \in Nat /\ MaxLines \in Nat

VARIABLES dialled,      \* connections dialled so far
          clientOpen,   \* those whose socket the client holds
          cut,          \* those that carry nothing any more
          up,           \* up[c]: lines under way to the server, oldest first
          down          \* down[c]: replies the client has not read

linkVars == <<dialled, clientOpen, cut, up, down>>

Conns == 1 .. MaxDials

Heartbeat == [seq |-> 0, life |-> 0]

LinkInit ==
    /\ dialled = 0
    /\ clientOpen = {}
    /\ cut = {}
    /\ up = [c \in Conns |-> <<>>]
    /\ down = [c \in Conns |-> 0]

(* A line written to a connection that is dead, or that the server has
   closed, is lost though the write succeeds. *)
WriteUp(c, line, alive) ==
    /\ Len(up[c]) < MaxLines
    /\ up' = IF alive /\ c \notin cut THEN [up EXCEPT ![c] = Append(@, line)] ELSE up
    /\ UNCHANGED <<dialled, clientOpen, cut, down>>

TakeUp(c) ==
    /\ up' = [up EXCEPT ![c] = Tail(@)]
    /\ UNCHANGED <<dialled, clientOpen, cut, down>>

WriteDown(c) ==
    /\ down' = IF c \in cut THEN down ELSE [down EXCEPT ![c] = @ + 1]
    /\ UNCHANGED <<dialled, clientOpen, cut, up>>

(* The network drops the connection, with all that is under way on it.     *)
Cut(c) ==
    /\ c \in 1 .. dialled
    /\ c \notin cut
    /\ cut' = cut \cup {c}
    /\ up' = [up EXCEPT ![c] = <<>>]
    /\ down' = [down EXCEPT ![c] = 0]
    /\ UNCHANGED <<dialled, clientOpen>>
=============================================================================
