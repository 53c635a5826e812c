--------------------------- MODULE AThread_proofs ---------------------------
(***************************************************************************)
(* Proofs about AThread: for any number of objects and threads, whatever   *)
(* the memory of the objects held before.                                  *)
(***************************************************************************)
EXTENDS AThread, TLAPS

\* An object that was built holds a thread or the null handle.
LEMMA BuiltHandle ==
  ASSUME AThreadTypeOK, NEW o \in built
  PROVE  o \in Objects /\ thread[o] \in Threads \cup {NoThread}
BY DEF AThreadTypeOK

\* terminate tells the thread of o, if that still runs, and changes nothing else
\* (util.h:74-78).
LEMMA Terminate ==
  ASSUME AThreadTypeOK, NEW o \in Objects
  PROVE  /\ terminate(o) \in [Threads -> {"unmade", "running", "told", "ended"}]
         /\ \A t \in Threads : (t = thread[o] /\ state[t] = "running")
                                 => terminate(o)[t] = "told"
         /\ \A t \in Threads : (t # thread[o] \/ state[t] # "running")
                                 => terminate(o)[t] = state[t]
BY HandlesDistinct DEF AThreadTypeOK, terminate, running, wait

-----------------------------------------------------------------------------
(* The type invariant.                                                     *)

LEMMA TypeStep ==
  ASSUME AThreadTypeOK, [AThreadNext]_athreadVars
  PROVE  AThreadTypeOK'
<1>1. ASSUME NEW o \in Objects, ResetStarts(o) PROVE AThreadTypeOK'
  <2>1. ASSUME NEW t \in Threads, state' = [terminate(o) EXCEPT ![t] = "running"],
               thread' = [thread EXCEPT ![o] = t]
        PROVE  AThreadTypeOK'
    BY <1>1, <2>1, Terminate, HandlesDistinct DEF ResetStarts, AThreadTypeOK
  <2>2. CASE state' = terminate(o) /\ thread' = [thread EXCEPT ![o] = NoThread]
    BY <1>1, <2>2, Terminate, HandlesDistinct DEF ResetStarts, AThreadTypeOK
  <2> QED BY <1>1, <2>1, <2>2 DEF ResetStarts
<1>2. ASSUME NEW o \in Objects, Reset(o) PROVE AThreadTypeOK'
  BY <1>2, Terminate, HandlesDistinct DEF Reset, AThreadTypeOK
<1>3. ASSUME NEW o \in Objects, Terminates(o) PROVE AThreadTypeOK'
  BY <1>3, Terminate DEF Terminates, AThreadTypeOK
<1>4. ASSUME NEW o \in Objects, Destroyed(o) PROVE AThreadTypeOK'
  BY <1>4 DEF Destroyed, Loses, AThreadTypeOK
<1>5. ASSUME NEW o \in Objects, NEW other \in Objects, Copies(o, other)
      PROVE  AThreadTypeOK'
  BY <1>5 DEF Copies, Loses, AThreadTypeOK
<1>6. ASSUME NEW t \in Threads, Ends(t) PROVE AThreadTypeOK'
  BY <1>6 DEF Ends, AThreadTypeOK
<1>7. CASE UNCHANGED athreadVars
  BY <1>7 DEF athreadVars, AThreadTypeOK
<1> QED BY <1>1, <1>2, <1>3, <1>4, <1>5, <1>6, <1>7 DEF AThreadNext

\* Every object that was built holds a thread or the null handle, whatever its
\* memory held before (util.h:12-90).
THEOREM TypeCorrect == AThreadSpec => []AThreadTypeOK
<1>1. AThreadInit => AThreadTypeOK
  BY DEF AThreadInit, AThreadTypeOK
<1> QED BY <1>1, TypeStep, PTL DEF AThreadSpec

-----------------------------------------------------------------------------
(* No thread is left behind.                                               *)

\* NoneLeftBehind is kept by every step.
LEMMA NoneLeftStep ==
  ASSUME AThreadTypeOK, NoneLeftBehind, [AThreadNext]_athreadVars
  PROVE  NoneLeftBehind'
<1> SUFFICES ASSUME NEW t \in Threads, state'[t] = "running"
             PROVE  t \in dropped' \/ \E p \in built' : thread'[p] = t
  BY DEF NoneLeftBehind
<1>1. ASSUME NEW o \in Objects, ResetStarts(o)
      PROVE  t \in dropped' \/ \E p \in built' : thread'[p] = t
  <2>1. CASE thread'[o] = t
    BY <1>1, <2>1 DEF ResetStarts
  <2>2. CASE thread'[o] # t
    <3>1. state[t] = "running" /\ t # thread[o]
      BY <1>1, <2>2, Terminate DEF ResetStarts, AThreadTypeOK
    <3> QED BY <1>1, <3>1 DEF ResetStarts, NoneLeftBehind, AThreadTypeOK
  <2> QED BY <2>1, <2>2
<1>2. ASSUME NEW o \in Objects, Reset(o)
      PROVE  t \in dropped' \/ \E p \in built' : thread'[p] = t
  <2>1. state[t] = "running" /\ t # thread[o]
    BY <1>2, Terminate DEF Reset
  <2> QED BY <1>2, <2>1 DEF Reset, NoneLeftBehind, AThreadTypeOK
<1>3. ASSUME NEW o \in Objects, Terminates(o)
      PROVE  t \in dropped' \/ \E p \in built' : thread'[p] = t
  <2>1. state[t] = "running"
    BY <1>3, Terminate DEF Terminates
  <2> QED BY <1>3, <2>1 DEF Terminates, NoneLeftBehind
<1>4. ASSUME NEW o \in Objects, Destroyed(o)
      PROVE  t \in dropped' \/ \E p \in built' : thread'[p] = t
  BY <1>4 DEF Destroyed, Loses, NoneLeftBehind
<1>5. ASSUME NEW o \in Objects, NEW other \in Objects, Copies(o, other)
      PROVE  t \in dropped' \/ \E p \in built' : thread'[p] = t
  <2>1. state[t] = "running" BY <1>5 DEF Copies
  <2>2. CASE t \in dropped BY <1>5, <2>2 DEF Copies
  <2>3. ASSUME NEW p \in built, thread[p] = t, p # o
        PROVE  \E q \in built' : thread'[q] = t
    BY <1>5, <2>3 DEF Copies, AThreadTypeOK
  <2>4. CASE o \in built /\ thread[o] = t /\ \A p \in built \ {o} : thread[p] # t
    BY <1>5, <2>4 DEF Copies, Loses, AThreadTypeOK
  <2> QED BY <2>1, <2>2, <2>3, <2>4 DEF NoneLeftBehind
<1>6. ASSUME NEW u \in Threads, Ends(u)
      PROVE  t \in dropped' \/ \E p \in built' : thread'[p] = t
  BY <1>6 DEF Ends, NoneLeftBehind, AThreadTypeOK
<1>7. CASE UNCHANGED athreadVars
  BY <1>7 DEF athreadVars, NoneLeftBehind
<1> QED BY <1>1, <1>2, <1>3, <1>4, <1>5, <1>6, <1>7 DEF AThreadNext

\* No sequence of resets, copies and destructions leaves a thread running that
\* nothing could end, but by overwriting or destroying the last object that had
\* it (util.h:35-46).
THEOREM NoThreadLeftBehind == AThreadSpec => []NoneLeftBehind
<1>1. AThreadInit => NoneLeftBehind
  BY DEF AThreadInit, NoneLeftBehind
<1> QED BY <1>1, TypeCorrect, NoneLeftStep, PTL DEF AThreadSpec
=============================================================================
