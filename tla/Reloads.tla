------------------------------ MODULE Reloads ------------------------------
(***************************************************************************)
(* What a reload promises, however many steps it takes and wherever it     *)
(* fails: the programs of the daemon change all at once or not at all, to  *)
(* those of one file that was accepted.  A program that the file leaves    *)
(* alone, but for startretries, stays the one it was with all it has; any  *)
(* other has the configuration of the file.  Nothing but a reload changes  *)
(* them.                                                                   *)
(***************************************************************************)
CONSTANT Contents  \* what an accepted file may hold: maps from names to configurations

VARIABLES
  programs,  \* a map from names to records with a field config
  daemon     \* "starting", "serving", "over"

vars == <<programs, daemon>>

SameConfig(c, d) == c = [d EXCEPT !.startretries = c.startretries]

Kept(n, new) == n \in DOMAIN programs /\ SameConfig(programs[n].config, new[n])

\* The daemon may be looked at from when it has its first programs.
Init ==
  \/ daemon = "starting" /\ DOMAIN programs = {}
  \/ /\ daemon = "serving"
     /\ \E new \in Contents :
          DOMAIN programs = DOMAIN new /\ \A n \in DOMAIN new : programs[n].config = new[n]

Load(new) ==
  /\ DOMAIN programs' = DOMAIN new
  /\ \A n \in DOMAIN new :
       IF Kept(n, new) THEN programs'[n] = programs[n] ELSE programs'[n].config = new[n]

Start(new) == daemon = "starting" /\ daemon' = "serving" /\ Load(new)

Reload(new) == daemon = "serving" /\ UNCHANGED daemon /\ Load(new)

\* Nothing is promised of the programs a daemon leaves behind.
End == daemon # "over" /\ daemon' = "over" /\ DOMAIN programs' = {}

Next == End \/ \E new \in Contents : Start(new) \/ Reload(new)

Spec == Init /\ [][Next]_vars
=============================================================================
