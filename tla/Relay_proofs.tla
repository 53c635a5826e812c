---------------------------- MODULE Relay_proofs ----------------------------
(***************************************************************************)
(* A Relay's pipes keep their order, for any pipes, any messages and any   *)
(* forms in which they may come out.                                       *)
(***************************************************************************)
EXTENDS Relay, TLAPS

In  == UNION {Messages(s) : s \in Sessions}
Out == UNION {Rewrites(m) : m \in In}

RelayTypeOK == /\ sent \in [Sessions -> Seq(In)]
               /\ delivered \in [Sessions -> Seq(Out)]

\* What came out of the pipe s, of which n messages have been taken, continues
\* what came out before with a form of the next message.
LEMMA TakeKeepsOrder ==
  ASSUME NEW s \in Sessions, RelayTypeOK, InOrder, Take(s)
  PROVE  RelayTypeOK' /\ InOrder'
<1>1. PICK m \in Rewrites(sent[s][Len(delivered[s]) + 1]) :
        delivered' = [delivered EXCEPT ![s] = Append(@, m)]
  BY DEF Take
<1>2. sent' = sent /\ Len(delivered[s]) < Len(sent[s]) BY DEF Take
<1>3. /\ sent[s] \in Seq(In) /\ delivered[s] \in Seq(Out)
      /\ Len(delivered[s]) \in Nat /\ Len(sent[s]) \in Nat
  BY DEF RelayTypeOK
<1>4. Len(delivered[s]) + 1 \in 1..Len(sent[s]) BY <1>2, <1>3
<1>5. sent[s][Len(delivered[s]) + 1] \in In BY <1>3, <1>4
<1>6. m \in Out BY <1>1, <1>5 DEF Out
<1>7. RelayTypeOK' BY <1>1, <1>2, <1>3, <1>6 DEF RelayTypeOK
<1>8. ASSUME NEW t \in Sessions
      PROVE  /\ Len(delivered'[t]) <= Len(sent'[t])
             /\ \A i \in 1..Len(delivered'[t]) : delivered'[t][i] \in Rewrites(sent'[t][i])
  <2>1. CASE t # s
    <3>1. delivered'[t] = delivered[t] BY <1>1, <2>1 DEF RelayTypeOK
    <3> QED BY <1>2, <3>1 DEF InOrder
  <2>2. CASE t = s
    <3>1. delivered'[s] = Append(delivered[s], m) BY <1>1 DEF RelayTypeOK
    <3>2. /\ Len(delivered'[s]) = Len(delivered[s]) + 1
          /\ delivered'[s][Len(delivered[s]) + 1] = m
          /\ \A i \in 1..Len(delivered[s]) : delivered'[s][i] = delivered[s][i]
      BY <1>3, <3>1
    <3>3. ASSUME NEW i \in 1..Len(delivered'[s])
          PROVE  delivered'[s][i] \in Rewrites(sent[s][i])
      <4>1. CASE i = Len(delivered[s]) + 1 BY <1>1, <3>2, <4>1
      <4>2. CASE i # Len(delivered[s]) + 1
        <5>1. i \in 1..Len(delivered[s]) BY <1>3, <3>2, <4>2
        <5> QED BY <3>2, <5>1 DEF InOrder
      <4> QED BY <4>1, <4>2
    <3>4. Len(delivered'[s]) <= Len(sent[s]) BY <1>3, <1>4, <3>2
    <3> QED BY <1>2, <2>2, <3>3, <3>4
  <2> QED BY <2>1, <2>2
<1> QED BY <1>7, <1>8 DEF InOrder

\* A message put into the pipe s changes nothing of those before it.
LEMMA PutKeepsOrder ==
  ASSUME NEW s \in Sessions, RelayTypeOK, InOrder, Put(s)
  PROVE  RelayTypeOK' /\ InOrder'
<1>1. PICK m \in Messages(s) : sent' = [sent EXCEPT ![s] = Append(@, m)]
  BY DEF Put
<1>2. delivered' = delivered BY DEF Put
<1>3. m \in In BY <1>1 DEF In
<1>4. /\ sent[s] \in Seq(In) /\ Len(sent[s]) \in Nat
      /\ \A t \in Sessions : Len(delivered[t]) \in Nat
  BY DEF RelayTypeOK
<1>5. RelayTypeOK' BY <1>1, <1>2, <1>3, <1>4 DEF RelayTypeOK
<1>6. ASSUME NEW t \in Sessions
      PROVE  /\ Len(delivered[t]) <= Len(sent'[t])
             /\ \A i \in 1..Len(delivered[t]) : delivered[t][i] \in Rewrites(sent'[t][i])
  <2>1. CASE t # s
    <3>1. sent'[t] = sent[t] BY <1>1, <2>1 DEF RelayTypeOK
    <3> QED BY <3>1 DEF InOrder
  <2>2. CASE t = s
    <3>1. sent'[s] = Append(sent[s], m) BY <1>1 DEF RelayTypeOK
    <3>2. /\ Len(sent'[s]) = Len(sent[s]) + 1
          /\ \A i \in 1..Len(sent[s]) : sent'[s][i] = sent[s][i]
      BY <1>4, <3>1
    <3>3. Len(delivered[s]) <= Len(sent[s])
          /\ \A i \in 1..Len(delivered[s]) : delivered[s][i] \in Rewrites(sent[s][i])
      BY DEF InOrder
    <3>4. \A i \in 1..Len(delivered[s]) : i \in 1..Len(sent[s])
      BY <1>4, <3>3
    <3>5. \A i \in 1..Len(delivered[s]) : delivered[s][i] \in Rewrites(sent'[s][i])
      BY <3>2, <3>3, <3>4
    <3>6. Len(delivered[s]) <= Len(sent'[s]) BY <1>4, <3>2, <3>3
    <3> QED BY <2>2, <3>5, <3>6
  <2> QED BY <2>1, <2>2
<1> QED BY <1>2, <1>5, <1>6 DEF InOrder

\* What comes out of each pipe is, message by message, a permitted form of what
\* went in: so does what the proxy relays down to each game client, which
\* implements Relay (client.cpp:34-38).
THEOREM OrderIsKept == RelaySpec => []InOrder
<1>1. RelayInit => RelayTypeOK /\ InOrder
  BY DEF RelayInit, RelayTypeOK, InOrder
<1>2. RelayTypeOK /\ InOrder /\ [RelayNext]_relayVars => RelayTypeOK' /\ InOrder'
  <2> SUFFICES ASSUME RelayTypeOK, InOrder, [RelayNext]_relayVars
               PROVE  RelayTypeOK' /\ InOrder'
    OBVIOUS
  <2>1. CASE Finish \/ UNCHANGED relayVars
    BY <2>1 DEF Finish, relayVars, RelayTypeOK, InOrder
  <2>2. CASE \E s \in Sessions : Put(s) \/ Take(s)
    BY <2>2, PutKeepsOrder, TakeKeepsOrder
  <2> QED BY <2>1, <2>2 DEF RelayNext
<1> QED BY <1>1, <1>2, PTL DEF RelaySpec
=============================================================================
