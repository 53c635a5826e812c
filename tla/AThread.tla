------------------------------ MODULE AThread ------------------------------
(***************************************************************************)
(* util::athread, a thread and the handle to it, as objects are built,     *)
(* copied, assigned, reset and destroyed and the threads themselves run    *)
(* and return.  Proxy::Server holds one and assigns a temporary to it.     *)
(*                                                                         *)
(* A thread is known by its handle.  The memory of an object keeps what it *)
(* held: there is no destructor, and the constructors read the handle      *)
(* before they assign it.  TerminateThread only asks: the thread may still *)
(* return by itself.  get_exit_code and the getters change nothing; they   *)
(* are left out.                                                           *)
(***************************************************************************)
EXTENDS Naturals, FiniteSets

CONSTANTS Objects,  \* places in memory where an athread may be
          Threads,  \* bound: the threads that CreateThread may make
          NoThread, \* a null handle
          Wild      \* a handle of nothing, which no wait succeeds on

ASSUME HandlesDistinct == {NoThread, Wild} \cap Threads = {} /\ NoThread # Wild

VARIABLES thread,   \* the handle in each place
          built,    \* the places where an object is
          state,    \* of each thread
          dropped   \* history: threads whose last object was assigned or destroyed

athreadVars == <<thread, built, state, dropped>>

AThreadTypeOK ==
  /\ thread \in [Objects -> Threads \cup {NoThread, Wild}]
  /\ \A o \in built : o \in Objects /\ thread[o] # Wild
  /\ state \in [Threads -> {"unmade", "running", "told", "ended"}]
  /\ dropped \in SUBSET Threads

AThreadInit ==
  /\ thread \in [Objects -> {NoThread, Wild}] /\ built = {}
  /\ state = [t \in Threads |-> "unmade"] /\ dropped = {}

wait(o) == CASE thread[o] = NoThread -> "NOTHREAD"
             [] thread[o] = Wild     -> "FINISHED"
             [] OTHER -> IF state[thread[o]] = "ended" THEN "FINISHED" ELSE "TIMEOUT"

running(o) == wait(o) = "TIMEOUT"

\* Fault: the thread is left running.
terminate_Not(o) == state

\* terminate(o): the states of the threads after it.
terminate(o) ==
  IF running(o) /\ state[thread[o]] = "running"
  THEN [state EXCEPT ![thread[o]] = "told"] ELSE state

\* The threads that nothing in memory would designate any more.
Loses(o) == {t \in Threads : t = thread[o] /\ \A p \in built \ {o} : thread[p] # t}

\* reset, of an object or by a constructor: a new thread, which may fail, ...
ResetStarts(o) ==
  /\ built' = built \cup {o}
  /\ \/ \E t \in Threads : /\ state[t] = "unmade"
                           /\ state' = [terminate(o) EXCEPT ![t] = "running"]
                           /\ thread' = [thread EXCEPT ![o] = t]
     \/ state' = terminate(o) /\ thread' = [thread EXCEPT ![o] = NoThread]
  /\ UNCHANGED dropped

\* Fault: what does not run is kept.
Reset_Keeps(o) == /\ built' = built \cup {o} /\ state' = terminate(o)
                  /\ UNCHANGED <<thread, dropped>>

\* ... or none.
Reset(o) == /\ built' = built \cup {o}
            /\ state' = terminate(o) /\ thread' = [thread EXCEPT ![o] = NoThread]
            /\ UNCHANGED dropped

Terminates(o) == /\ o \in built /\ state' = terminate(o)
                 /\ UNCHANGED <<thread, built, dropped>>

\* Copied or assigned from another: what the object held is not ended.
Copies(o, other) ==
  /\ other \in built \ {o} /\ built' = built \cup {o}
  /\ thread' = [thread EXCEPT ![o] = thread[other]]
  /\ dropped' = dropped \cup (IF o \in built /\ thread[o] # thread[other]
                              THEN Loses(o) ELSE {})
  /\ UNCHANGED state

Destroyed(o) == /\ o \in built /\ built' = built \ {o}
                /\ dropped' = dropped \cup Loses(o)
                /\ UNCHANGED <<thread, state>>

\* A thread returns, or is ended as it was told.
Ends(t) == /\ state[t] \in {"running", "told"} /\ state' = [state EXCEPT ![t] = "ended"]
           /\ UNCHANGED <<thread, built, dropped>>

AThreadNext ==
  \/ \E o \in Objects :
       \/ ResetStarts(o) \/ Reset(o) \/ Terminates(o) \/ Destroyed(o)
       \/ \E other \in Objects : Copies(o, other)
  \/ \E t \in Threads : Ends(t)

AThreadSpec == AThreadInit /\ [][AThreadNext]_athreadVars

-----------------------------------------------------------------------------
(* Properties.                                                             *)

\* Every thread that nobody has told to end can still be told: an object has
\* its handle, unless the last one that had it was overwritten or destroyed.
\* An object that is reset again and again leaves no thread behind
\* (util.h:35-46).
NoneLeftBehind ==
  \A t \in Threads : state[t] = "running" =>
    t \in dropped \/ \E o \in built : thread[o] = t
=============================================================================
