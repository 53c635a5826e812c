------------------------------- MODULE Relay -------------------------------
(***************************************************************************)
(* What the proxy promises for one direction of its game sessions: each is *)
(* a reliable, ordered pipe of its own.  Messages come out of a pipe in    *)
(* the order they went into it, none twice and none skipped, each one as   *)
(* it was sent or as the message hook may rewrite it, and nothing comes    *)
(* out of any pipe once the proxy is shutting down.  Proxy implements it   *)
(* (UpRelays and DownRelays there).                                        *)
(***************************************************************************)
EXTENDS Naturals, Sequences

CONSTANTS Sessions,     \* the pipes
          Messages(_),  \* the messages that may be sent into a pipe
          Rewrites(_)   \* the forms in which a message may come out

VARIABLES sent,         \* what was sent into each pipe, in order
          delivered,    \* what came out of each pipe, in order
          over          \* the proxy is shutting down

relayVars == <<sent, delivered, over>>

RelayInit == /\ sent = [s \in Sessions |-> <<>>]
             /\ delivered = [s \in Sessions |-> <<>>]
             /\ over = FALSE

Put(s) == /\ \E m \in Messages(s) : sent' = [sent EXCEPT ![s] = Append(@, m)]
          /\ UNCHANGED <<delivered, over>>

\* The oldest message not yet taken comes out.
Take(s) == /\ ~over
           /\ Len(delivered[s]) < Len(sent[s])
           /\ \E m \in Rewrites(sent[s][Len(delivered[s]) + 1]) :
                 delivered' = [delivered EXCEPT ![s] = Append(@, m)]
           /\ UNCHANGED <<sent, over>>

Finish == /\ ~over
          /\ over' = TRUE
          /\ UNCHANGED <<sent, delivered>>

RelayNext == Finish \/ \E s \in Sessions : Put(s) \/ Take(s)

RelaySpec == RelayInit /\ [][RelayNext]_relayVars

\* What came out is a prefix of what went in, message by message a permitted
\* form of it: no pipe loses, repeats, reorders, or mixes with another.
InOrder == \A s \in Sessions :
             /\ Len(delivered[s]) <= Len(sent[s])
             /\ \A i \in 1..Len(delivered[s]) :
                   delivered[s][i] \in Rewrites(sent[s][i])
=============================================================================
