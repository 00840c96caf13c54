----------------------------- MODULE Succession -----------------------------
(***************************************************************************)
(* Daemons that follow one another.  One runs at a time, and only the one  *)
(* that runs changes where the clients connect and which pid is recorded.  *)
(* It serves once both are its own, and neither changes while it serves.   *)
(* What it leaves behind when it ends stays, until its record is forgotten *)
(* or the next one takes over.  Nothing is promised any more once two of   *)
(* them have raced.                                                        *)
(***************************************************************************)
CONSTANTS Daemons, None

VARIABLES
  running,  \* the daemon that runs, or None
  serving,  \* it takes connections
  socket,   \* the daemon whose socket the clients find
  record,   \* the daemon whose pid is recorded
  raced

vars == <<running, serving, socket, record, raced>>

Init ==
  /\ running = None /\ serving = FALSE
  /\ socket = None /\ record = None
  /\ raced = FALSE

Begin(d) ==
  /\ running = None /\ running' = d
  /\ UNCHANGED <<serving, socket, record>>

\* Before it serves a daemon makes room for its own, afterwards it cleans up.
Arrange(d) ==
  /\ running = d /\ ~serving
  /\ socket' \in {socket, None} /\ record' \in {record, None, d}
  /\ UNCHANGED <<running, serving>>

Serve(d) ==
  /\ running = d /\ ~serving /\ record = d
  /\ socket = None /\ socket' = d
  /\ serving' = TRUE
  /\ UNCHANGED <<running, record>>

Leave(d) ==
  /\ running = d /\ serving /\ serving' = FALSE
  /\ UNCHANGED <<running, socket, record>>

\* In order, or killed while it serves.
End(d) ==
  /\ running = d /\ running' = None
  /\ serving' = FALSE
  /\ UNCHANGED <<socket, record>>

Forget ==
  /\ running = None /\ record' = None
  /\ UNCHANGED <<running, serving, socket>>

Step ==
  \/ Forget
  \/ \E d \in Daemons : Begin(d) \/ Arrange(d) \/ Serve(d) \/ Leave(d) \/ End(d)

Next == (Step /\ UNCHANGED raced) \/ raced' = TRUE

Spec == Init /\ [][Next]_vars
=============================================================================
