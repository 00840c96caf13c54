------------------------------ MODULE Handover ------------------------------
(***************************************************************************)
(* Who a descriptor number belongs to, when the worker opens pipes and     *)
(* another thread closes them.  A number is opened only when it is         *)
(* nobody's, and a pipe is closed only after its process has given it up:  *)
(* not before its output was read to the end, unless the process has       *)
(* started again or was replaced by then, so that nobody reads for it any  *)
(* more.                                                                   *)
(***************************************************************************)
EXTENDS Integers

CONSTANTS Procs, Clients, Fds

VARIABLES
  role,    \* "nobody", "client", or what has become of a pipe: "used",
           \* "ending", "abandoned", "lost"
  of,      \* its process or its client
  unread,  \* how much there is to read
  open,    \* more may come
  closing  \* numbers that were just closed, until the list forgets them

vars == <<role, of, unread, open, closing>>

Init ==
  /\ role = [fd \in Fds |-> "nobody"]
  /\ of = [fd \in Fds |-> "none"]
  /\ unread = [fd \in Fds |-> 0]
  /\ open = [fd \in Fds |-> FALSE]
  /\ closing = {}

IsPipe(fd) == role[fd] \notin {"nobody", "client"}

Write(fd) ==
  /\ IsPipe(fd) /\ open[fd]
  /\ unread' = [unread EXCEPT ![fd] = @ + 1]
  /\ UNCHANGED <<role, of, open, closing>>

NoMore(fd) ==
  /\ IsPipe(fd)
  /\ open' = [open EXCEPT ![fd] = FALSE]
  /\ UNCHANGED <<role, of, unread, closing>>

Read(fd) ==
  /\ IsPipe(fd) /\ unread[fd] > 0
  /\ unread' = [unread EXCEPT ![fd] = @ - 1]
  /\ UNCHANGED <<role, of, open, closing>>

Take(fd, owner) ==
  /\ role[fd] = "nobody"
  /\ of' = [of EXCEPT ![fd] = owner]
  /\ unread' = [unread EXCEPT ![fd] = 0]
  /\ open' = [open EXCEPT ![fd] = TRUE]
  /\ UNCHANGED closing

PipesOf(p, r) == {fd \in Fds : role[fd] = r /\ of[fd] = p}

\* Once a process has a new pipe, nobody reads the one it gave up.
Start(p, fd) ==
  /\ Take(fd, p)
  /\ PipesOf(p, "used") = {}
  /\ role' = [f \in Fds |-> CASE f = fd -> "used"
                              [] f # fd /\ f \in PipesOf(p, "ending") -> "abandoned"
                              [] OTHER -> role[f]]

\* A process gives its pipe up, to be closed; in vain if its number is still
\* being forgotten, for it is then taken for the pipe that was closed.
End(p) ==
  /\ role' = [f \in Fds |-> IF f \in PipesOf(p, "used")
                            THEN IF f \in closing THEN "lost" ELSE "ending"
                            ELSE role[f]]
  /\ UNCHANGED <<of, unread, open, closing>>

\* A new process takes the place of p.
Replace(p) ==
  /\ closing = {}
  /\ role' = [f \in Fds |-> CASE f \in PipesOf(p, "used") -> "lost"
                              [] f \in PipesOf(p, "ending") -> "abandoned"
                              [] OTHER -> role[f]]
  /\ UNCHANGED <<of, unread, open, closing>>

Connect(c, fd) ==
  /\ Take(fd, c)
  /\ role' = [role EXCEPT ![fd] = "client"]

Drop(fd) ==
  /\ role' = [role EXCEPT ![fd] = "nobody"]
  /\ of' = [of EXCEPT ![fd] = "none"]
  /\ unread' = [unread EXCEPT ![fd] = 0]
  /\ open' = [open EXCEPT ![fd] = FALSE]

Disconnect(fd) == role[fd] = "client" /\ Drop(fd) /\ UNCHANGED closing

Drained(fd) == unread[fd] = 0 /\ ~open[fd]

Close(fd) ==
  /\ \/ role[fd] = "ending" /\ Drained(fd)
     \/ role[fd] = "abandoned"
  /\ Drop(fd)
  /\ closing = {} /\ closing' = {fd}

Forget == closing' = {} /\ UNCHANGED <<role, of, unread, open>>

Next ==
  \/ Forget
  \/ \E fd \in Fds :
       \/ Write(fd) \/ NoMore(fd) \/ Read(fd) \/ Close(fd) \/ Disconnect(fd)
       \/ \E p \in Procs : Start(p, fd)
       \/ \E c \in Clients : Connect(c, fd)
  \/ \E p \in Procs : End(p) \/ Replace(p)

Spec == Init /\ [][Next]_vars
=============================================================================
