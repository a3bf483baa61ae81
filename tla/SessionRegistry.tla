--------------------------- MODULE SessionRegistry ---------------------------
(***************************************************************************)
(* What coffeecatch promises about the process's signal handlers, without  *)
(* its lock, its table or its key: threads hold sessions, the handlers     *)
(* belong to the host or to the library, and they change hands only while  *)
(* nobody holds a session.  Module Registry implements it.                 *)
(***************************************************************************)
CONSTANT Threads

VARIABLES
    holders,  \* threads that hold a session
    owner,    \* whose handlers are installed
    doomed    \* the process is dying: nothing is promised any more

vars == <<holders, owner, doomed>>

Owners == {"host", "mixed", "coffee"}

TypeOK ==
    /\ holders \subseteq Threads
    /\ owner \in Owners
    /\ doomed \in BOOLEAN

Init ==
    /\ holders = {}
    /\ owner = "host"
    /\ doomed = FALSE

(* A session opens on handlers that are all the library's.                  *)
Open(t) ==
    /\ t \notin holders
    /\ doomed \/ owner = "coffee"
    /\ holders' = holders \cup {t}
    /\ UNCHANGED <<owner, doomed>>

(* It closes without touching them: the last one out gives them back later. *)
Close(t) ==
    /\ t \in holders
    /\ holders' = holders \ {t}
    /\ UNCHANGED <<owner, doomed>>

(* One or more handlers change hands.                                       *)
HandOver ==
    /\ doomed \/ holders = {}
    /\ owner' \in Owners \ {owner}
    /\ UNCHANGED <<holders, doomed>>

(* A thread gives up on a crash nobody claims.                              *)
GiveUp ==
    /\ ~doomed
    /\ doomed' = TRUE
    /\ owner' \in Owners
    /\ UNCHANGED holders

Next ==
    \/ \E t \in Threads : Open(t) \/ Close(t)
    \/ HandOver
    \/ GiveUp

(* The hand-over that ends an idle period.                                  *)
GiveBack ==
    /\ ~doomed
    /\ HandOver
    /\ owner' = "host"

Spec == Init /\ [][Next]_vars

FairSpec == Spec /\ WF_vars(GiveBack)

=============================================================================
