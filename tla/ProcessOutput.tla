--------------------------- MODULE ProcessOutput ---------------------------
(***************************************************************************)
(* The descriptors of the daemon: the pipes the programs write to, the     *)
(* connections of the clients, the list PollFds that the worker thread and *)
(* the main thread share, and the main loop that polls it, forwards the    *)
(* output of the programs and closes what is stale                         *)
(* (src/server/PollFds.cpp, Taskmaster.cpp, the output half of             *)
(* Process.cpp).                                                           *)
(*                                                                         *)
(* Descriptor numbers are reused: a pipe or a connection takes any number  *)
(* that is free.  A Process has one pipe here; standard error goes through *)
(* a second one of the same kind.  Of the life of a process only the       *)
(* visits that touch descriptors are left (module TaskManager has the      *)
(* rest).  The worker holds the pool mutex for a whole pass; what matters  *)
(* here is that it holds it from pipe(2) to add_poll_fd (phase "forked"),  *)
(* from there to the byte that wakes the main thread (waking), and that    *)
(* the main thread holds it while it reads (readers # {}).  The list has a *)
(* mutex of its own.                                                       *)
(***************************************************************************)
EXTENDS Integers, SequencesExt

CONSTANTS
  Procs,     \* the Process objects of the pool
  Clients,   \* the clients that may connect
  Fds,       \* the descriptor numbers that pipes and connections share
  MaxData    \* bound: reads' worth of data a pipe may hold

ASSUME ProcessOutputAssumption ==
  /\ {"none", "server", "wake"} \cap Fds = {}
  /\ MaxData \in Nat \ {0}

VARIABLES
  file,        \* what each descriptor number refers to
  poll_fds,    \* the list of PollFds, with its metadata
  phase,       \* where each process is in its life
  pipe,        \* _stdout_pipe[PIPE_READ]
  waking,      \* the worker has changed the list, and has not written the byte yet
  attached,    \* _attached_client
  conn,        \* the connection of each client
  request,     \* the command a client has sent, not read yet
  subscribed,  \* history: who attached to what and did not detach
  main,        \* what the main thread is at
  snapshot,    \* the copy of poll_fds the main thread polls
  events,      \* the entries poll(2) returned, not handled yet
  current,     \* the entry being handled
  readers      \* the processes still to read from it, the pool mutex being held

worker_vars == <<phase, pipe, waking>>
client_vars == <<conn, request>>
batch_vars == <<main, snapshot, events, current, readers>>
vars == <<file, poll_fds, worker_vars, attached, client_vars, subscribed,
          batch_vars>>

-----------------------------------------------------------------------------

NoFd == "none"
NoFile == [kind |-> "free", of |-> "none", data |-> 0, writer |-> FALSE]
NoEvent == [fd |-> NoFd, type |-> "none", stale |-> FALSE, in |-> FALSE]

AllFds == Fds \cup {"server", "wake"}

FileType ==
  [kind   : {"free", "pipe", "client", "server", "wake"},
   of     : Procs \cup Clients \cup {"none"},
   data   : 0..MaxData,     \* what read(2) would return now
   writer : BOOLEAN]        \* somebody holds the other end

EntryType ==
  [fd : AllFds, type : {"Server", "Client", "Process", "WakeUp"}, stale : BOOLEAN]

EventType == [fd : AllFds, type : {"Server", "Client", "Process", "WakeUp"},
              stale : BOOLEAN, in : BOOLEAN]

Requests == [op : {"attach", "detach"}, p : Procs]
            \cup {[op |-> "none"], [op |-> "close"]}

TypeOK ==
  /\ file \in [AllFds -> FileType]
  /\ poll_fds \in Seq(EntryType)
  /\ phase \in [Procs -> {"fresh", "forked", "up", "ended", "down"}]
  /\ pipe \in [Procs -> Fds \cup {NoFd}]
  /\ waking \in BOOLEAN
  /\ attached \in [Procs -> SUBSET Fds]
  /\ conn \in [Clients -> {"out", "connecting", "in"}]
  /\ request \in [Clients -> Requests]
  /\ subscribed \subseteq Clients \X Procs
  /\ main \in {"idle", "poll", "handle", "read", "close", "remove", "hangup",
             "dead"}
  /\ snapshot \in Seq(EntryType)
  /\ events \subseteq EventType
  /\ current \in EventType \cup {NoEvent}
  /\ readers \subseteq Procs

Entry(fd, type) == [fd |-> fd, type |-> type, stale |-> FALSE]

\* The constructor of Taskmaster.
Init ==
  /\ file = [fd \in AllFds |->
               IF fd \in Fds THEN NoFile
               ELSE [NoFile EXCEPT !.kind = fd, !.writer = TRUE]]
  /\ poll_fds = <<Entry("server", "Server"), Entry("wake", "WakeUp")>>
  /\ phase = [p \in Procs |-> "fresh"]
  /\ pipe = [p \in Procs |-> NoFd]
  /\ waking = FALSE
  /\ attached = [p \in Procs |-> {}]
  /\ conn = [c \in Clients |-> "out"]
  /\ request = [c \in Clients |-> [op |-> "none"]]
  /\ subscribed = {}
  /\ main = "idle"
  /\ snapshot = <<>>
  /\ events = {}
  /\ current = NoEvent
  /\ readers = {}

-----------------------------------------------------------------------------
(* PollFds: a list, and lookups that take the first entry of a number.      *)

IndexOf(list, fd) == SelectInSeq(list, LAMBDA e : e.fd = fd)
Listed(fd) == \E i \in DOMAIN poll_fds : poll_fds[i].fd = fd

AddPollFd(fd, type) == poll_fds' = Append(poll_fds, Entry(fd, type))

\* Mutation of RemovePollFd: the last entry of the number is removed.
RemoveLastPollFd(fd) ==
  /\ Listed(fd)
  /\ poll_fds' = RemoveAt(poll_fds, SelectLastInSeq(poll_fds, LAMBDA e : e.fd = fd))

\* Mutation of RemovePollFd: the metadata that is erased is the last.
RemovePollFdShifting(fd) ==
  /\ Listed(fd)
  /\ LET rest == RemoveAt(poll_fds, IndexOf(poll_fds, fd))
     IN poll_fds' = [i \in DOMAIN rest |-> [poll_fds[i] EXCEPT !.fd = rest[i].fd]]

RemovePollFd(fd) ==
  /\ Listed(fd)
  /\ poll_fds' = RemoveAt(poll_fds, IndexOf(poll_fds, fd))

StalePollFd(fd) ==
  /\ Listed(fd)
  /\ poll_fds' = [poll_fds EXCEPT ![IndexOf(poll_fds, fd)].stale = TRUE]

Free == {fd \in Fds : file[fd].kind = "free"}

-----------------------------------------------------------------------------
(* The worker thread, on the visits that touch descriptors.                 *)

WorkerHolds == waking \/ \E p \in Procs : phase[p] = "forked"
MutexFree == ~WorkerHolds /\ readers = {} /\ main # "dead"

\* start(): pipe(2) and fork(2).  The number of the previous pipe is
\* overwritten, whether the main thread has closed it or not.
StartProcess(p) ==
  /\ MutexFree
  /\ phase[p] \in {"fresh", "down"}
  /\ \E fd \in Free :
       /\ file' = [file EXCEPT ![fd] = [kind |-> "pipe", of |-> p, data |-> 0,
                                        writer |-> TRUE]]
       /\ pipe' = [pipe EXCEPT ![p] = fd]
  /\ phase' = [phase EXCEPT ![p] = "forked"]
  /\ UNCHANGED <<poll_fds, waking, attached, client_vars, subscribed, batch_vars>>

\* Mutation of Register: the main thread is not woken.
RegisterQuietly(p) ==
  /\ phase[p] = "forked" /\ main # "dead"
  /\ AddPollFd(pipe[p], "Process")
  /\ phase' = [phase EXCEPT ![p] = "up"]
  /\ UNCHANGED <<file, pipe, waking, attached, client_vars, subscribed, batch_vars>>

\* Mutation of Register: the byte is written first.
RegisterLast(p) ==
  /\ phase[p] = "forked" /\ main # "dead"
  /\ waking' = ~waking
  /\ IF waking
       THEN /\ AddPollFd(pipe[p], "Process")
            /\ phase' = [phase EXCEPT ![p] = "up"]
            /\ UNCHANGED file
       ELSE /\ file' = [file EXCEPT !["wake"].data = 1]
            /\ UNCHANGED <<poll_fds, phase>>
  /\ UNCHANGED <<pipe, attached, client_vars, subscribed, batch_vars>>

\* The rest of that visit: add_poll_fd, and WakeMain.
Register(p) ==
  /\ phase[p] = "forked" /\ main # "dead"
  /\ AddPollFd(pipe[p], "Process")
  /\ phase' = [phase EXCEPT ![p] = "up"]
  /\ waking' = TRUE
  /\ UNCHANGED <<file, pipe, attached, client_vars, subscribed, batch_vars>>

\* The visit that changed the list writes to the wake-up pipe.
WakeMain ==
  /\ waking /\ main # "dead"
  /\ file' = [file EXCEPT !["wake"].data = 1]
  /\ waking' = FALSE
  /\ UNCHANGED <<poll_fds, phase, pipe, attached, client_vars, subscribed, batch_vars>>

\* A visit finds the child ended, and the process is Stopped.
EndProcess(p) ==
  /\ MutexFree
  /\ phase[p] = "up"
  /\ phase' = [phase EXCEPT ![p] = "ended"]
  /\ UNCHANGED <<file, poll_fds, pipe, waking, attached, client_vars, subscribed,
                 batch_vars>>

\* The first visit in Stopped: stale_poll_fd, and WakeMain.  The pipe is left to the
\* main thread to close.
StaleProcess(p) ==
  /\ MutexFree
  /\ phase[p] = "ended"
  /\ StalePollFd(pipe[p])
  /\ phase' = [phase EXCEPT ![p] = "down"]
  /\ waking' = TRUE
  /\ UNCHANGED <<file, pipe, attached, client_vars, subscribed, batch_vars>>

Worker ==
  \/ \E p \in Procs : StartProcess(p) \/ Register(p) \/ EndProcess(p) \/ StaleProcess(p)
  \/ WakeMain

-----------------------------------------------------------------------------
(* The programs and the clients.                                            *)

ChildWrites(fd) ==
  /\ file[fd].kind = "pipe" /\ file[fd].writer /\ file[fd].data < MaxData
  /\ file' = [file EXCEPT ![fd].data = @ + 1]
  /\ UNCHANGED <<poll_fds, worker_vars, attached, client_vars, subscribed, batch_vars>>

\* The last holder of the write end closes it or ends.  A descendant of the
\* program may keep it after the program has ended.
WriterCloses(fd) ==
  /\ file[fd].kind = "pipe" /\ file[fd].writer
  /\ file' = [file EXCEPT ![fd].writer = FALSE]
  /\ UNCHANGED <<poll_fds, worker_vars, attached, client_vars, subscribed, batch_vars>>

ClientConnects(c) ==
  /\ conn[c] = "out"
  /\ conn' = [conn EXCEPT ![c] = "connecting"]
  /\ UNCHANGED <<file, poll_fds, worker_vars, attached, request, subscribed, batch_vars>>

\* The client writes a command or closes its end.
ClientSends(c) ==
  /\ conn[c] = "in" /\ request[c].op = "none"
  /\ \E r \in Requests \ {[op |-> "none"]} : request' = [request EXCEPT ![c] = r]
  /\ UNCHANGED <<file, poll_fds, worker_vars, attached, conn, subscribed, batch_vars>>

-----------------------------------------------------------------------------
(* The main thread.                                                         *)

TakeSnapshot ==
  /\ main = "idle"
  /\ snapshot' = poll_fds
  /\ main' = "poll"
  /\ UNCHANGED <<file, poll_fds, worker_vars, attached, client_vars, subscribed,
                 events, current, readers>>

\* revents # 0, and POLLIN: a pipe whose writer is gone and that is empty
\* reports POLLHUP alone.
Ready(fd) ==
  \/ file[fd].data > 0
  \/ file[fd].kind = "pipe" /\ ~file[fd].writer
  \/ file[fd].kind = "free"
  \/ file[fd].kind = "client" /\ request[file[fd].of].op # "none"
  \/ file[fd].kind = "server" /\ \E c \in Clients : conn[c] = "connecting"

Event(e) == [fd |-> e.fd, type |-> e.type, stale |-> e.stale,
             in |-> file[e.fd].data > 0]

PollReturns ==
  /\ main = "poll"
  /\ events' = {Event(e) : e \in {d \in Range(snapshot) : Ready(d.fd)}}
  /\ events' # {}
  /\ snapshot' = <<>>
  /\ main' = "handle"
  /\ UNCHANGED <<file, poll_fds, worker_vars, attached, client_vars, subscribed,
                 current, readers>>

\* The batch is handled in the order of the list, whose first entries are those of the
\* server and of the wake-up pipe.  The order of the others is left open.
Position == [Server |-> 1, WakeUp |-> 2, Process |-> 3, Client |-> 3]

Handling(e, type) ==
  /\ main = "handle" /\ e \in events /\ e.type = type
  /\ \A d \in events : Position[type] <= Position[d.type]
  /\ events' = events \ {e}

\* Mutation of AfterRead: whatever is hung up is closed.
AfterReadClosing(e, r) == IF ~r THEN "close" ELSE "handle"

\* Mutation of AfterRead: only a read that meets the end of the pipe closes it.
AfterReadAtEnd(e, r) == IF e.stale /\ e.in /\ ~r THEN "close" ELSE "handle"

\* Mutation of AfterRead: what is stale is closed, data or not.
AfterReadStale(e, r) == IF e.stale THEN "close" ELSE "handle"

\* handle_process_output closes a stale descriptor that gave no data.
AfterRead(e, r) == IF e.stale /\ ~r THEN "close" ELSE "handle"

Continue(e, r) ==
  /\ main' = AfterRead(e, r)
  /\ current' = IF main' = "close" THEN e ELSE NoEvent

\* With POLLIN, every process whose pipe has this number reads, one after the
\* other, under the pool mutex.
HandleOutput(e) ==
  /\ Handling(e, "Process")
  /\ IF e.in
       THEN /\ MutexFree
            /\ readers' = {p \in Procs : pipe[p] = e.fd}
       ELSE UNCHANGED readers
  /\ IF readers' = {}
       THEN Continue(e, FALSE)
       ELSE main' = "read" /\ current' = e
  /\ UNCHANGED <<file, poll_fds, worker_vars, attached, client_vars, subscribed, snapshot>>

\* A read blocks while the pipe is empty and somebody may still write to it.
ReadReturns(fd) == file[fd].data > 0 \/ ~file[fd].writer

Drained(n) == IF n > 0 THEN n - 1 ELSE 0

\* Forwarding p's output meets a client that has closed its end: the write
\* raises SIGPIPE, which nothing handles.
Breaks(p) ==
  /\ file[current.fd].data > 0
  /\ \E fd \in attached[p] : /\ file[fd].kind = "client"
                            /\ request[file[fd].of].op = "close"

ReadOutput(p) ==
  /\ main = "read" /\ p \in readers
  /\ ReadReturns(current.fd) /\ ~Breaks(p)
  /\ file' = [file EXCEPT ![current.fd].data = Drained(@)]
  /\ readers' = readers \ {p}
  /\ IF readers' = {}
       THEN Continue(current, file[current.fd].data > 0)
       ELSE UNCHANGED <<main, current>>
  /\ UNCHANGED <<poll_fds, worker_vars, attached, client_vars, subscribed,
                 snapshot, events>>

\* Mutation of CloseOutput: the entry stays in the list.
CloseOutputOnly ==
  /\ main = "close"
  /\ file' = [file EXCEPT ![current.fd] = NoFile]
  /\ main' = "handle" /\ current' = NoEvent
  /\ UNCHANGED <<poll_fds, worker_vars, attached, client_vars, subscribed,
                 snapshot, events, readers>>

DieOfBrokenPipe(p) ==
  /\ main = "read" /\ p \in readers
  /\ Breaks(p)
  /\ main' = "dead"
  /\ readers' = {} /\ events' = {} /\ current' = NoEvent
  /\ UNCHANGED <<file, poll_fds, worker_vars, attached, client_vars, subscribed,
                 snapshot>>

\* close, then remove_poll_fd: two steps, neither under the pool mutex.
CloseOutput ==
  /\ main = "close"
  /\ file' = [file EXCEPT ![current.fd] = NoFile]
  /\ main' = "remove"
  /\ UNCHANGED <<poll_fds, worker_vars, attached, client_vars, subscribed,
                 snapshot, events, current, readers>>

RemoveOutput ==
  /\ main = "remove"
  /\ RemovePollFd(current.fd)
  /\ main' = "handle" /\ current' = NoEvent
  /\ UNCHANGED <<file, worker_vars, attached, client_vars, subscribed,
                 snapshot, events, readers>>

HandleWakeUp(e) ==
  /\ Handling(e, "WakeUp")
  /\ file' = [file EXCEPT !["wake"].data = 0]
  /\ UNCHANGED <<poll_fds, worker_vars, attached, client_vars, subscribed,
                 main, snapshot, current, readers>>

\* accept(2) fails when no number is left, and the client goes on waiting.
HandleConnection(e) ==
  /\ Handling(e, "Server")
  /\ \/ \E fd \in Free, c \in {d \in Clients : conn[d] = "connecting"} :
          /\ file' = [file EXCEPT ![fd] = [kind |-> "client", of |-> c, data |-> 0,
                                           writer |-> TRUE]]
          /\ AddPollFd(fd, "Client")
          /\ conn' = [conn EXCEPT ![c] = "in"]
     \/ Free = {} /\ UNCHANGED <<file, poll_fds, conn>>
  /\ UNCHANGED <<worker_vars, attached, request, subscribed,
                 main, snapshot, current, readers>>

ClientAt(fd) == file[fd].of

\* Mutation of Attach: a process has one attached client at most.
AttachFirst(fds, fd) == IF fds = {} THEN {fd} ELSE fds

\* attach_client keeps a number once.
Attach(fds, fd) == fds \cup {fd}

\* attach and detach, under the pool mutex.
HandleAttach(e) ==
  /\ Handling(e, "Client")
  /\ MutexFree
  /\ LET c == ClientAt(e.fd) IN
     /\ \/ /\ request[c].op = "attach"
           /\ attached' = [attached EXCEPT ![request[c].p] = Attach(@, e.fd)]
           /\ subscribed' = subscribed \cup {<<c, request[c].p>>}
        \/ /\ request[c].op = "detach"
           /\ attached' = [attached EXCEPT ![request[c].p] = @ \ {e.fd}]
           /\ subscribed' = subscribed \ {<<c, request[c].p>>}
     /\ request' = [request EXCEPT ![c] = [op |-> "none"]]
  /\ UNCHANGED <<file, poll_fds, worker_vars, conn,
                 main, snapshot, current, readers>>

\* disconnect_client: remove_poll_fd, then close.  Nothing is done to the
\* processes the client was attached to.
HandleDisconnect(e) ==
  /\ Handling(e, "Client")
  /\ request[ClientAt(e.fd)].op = "close"
  /\ RemovePollFd(e.fd)
  /\ main' = "hangup" /\ current' = e
  /\ UNCHANGED <<file, worker_vars, attached, client_vars, subscribed,
                 snapshot, readers>>

CloseClient ==
  /\ main = "hangup"
  /\ LET c == ClientAt(current.fd) IN
     /\ file' = [file EXCEPT ![current.fd] = NoFile]
     /\ conn' = [conn EXCEPT ![c] = "out"]
     /\ request' = [request EXCEPT ![c] = [op |-> "none"]]
     /\ subscribed' = {s \in subscribed : s[1] # c}
  /\ main' = "handle" /\ current' = NoEvent
  /\ UNCHANGED <<poll_fds, worker_vars, attached, snapshot, events, readers>>

EndBatch ==
  /\ main = "handle" /\ events = {}
  /\ main' = "idle"
  /\ UNCHANGED <<file, poll_fds, worker_vars, attached, client_vars, subscribed,
                 snapshot, events, current, readers>>

\* reload_config, after a batch: a program whose configuration changed gets a
\* new Process object.  The entry of the old one is not touched, and the
\* clients that were attached to it are not attached to the new one.
ReloadProcess(p) ==
  /\ main = "idle"
  /\ MutexFree
  /\ phase' = [phase EXCEPT ![p] = "fresh"]
  /\ pipe' = [pipe EXCEPT ![p] = NoFd]
  /\ attached' = [attached EXCEPT ![p] = {}]
  /\ subscribed' = {s \in subscribed : s[2] # p}
  /\ UNCHANGED <<file, poll_fds, waking, client_vars, batch_vars>>

Main ==
  \/ TakeSnapshot \/ PollReturns \/ EndBatch
  \/ CloseOutput \/ RemoveOutput \/ CloseClient
  \/ \E e \in events : \/ HandleOutput(e) \/ HandleWakeUp(e) \/ HandleConnection(e)
                       \/ HandleAttach(e) \/ HandleDisconnect(e)
  \/ \E p \in Procs : ReadOutput(p) \/ DieOfBrokenPipe(p)

Dead == main = "dead" /\ UNCHANGED vars

Next ==
  \/ Worker
  \/ Main
  \/ Dead
  \/ \E p \in Procs : ReloadProcess(p)
  \/ \E fd \in Fds : ChildWrites(fd) \/ WriterCloses(fd)
  \/ \E c \in Clients : ClientConnects(c) \/ ClientSends(c)

Spec == Init /\ [][Next]_vars

\* The system runs both threads, and the pool mutex, which the worker takes
\* over and over, is not kept from the main thread for ever.
Fairness ==
  /\ SF_vars(Main)
  /\ WF_vars(WakeMain)
  /\ \A p \in Procs : WF_vars(Register(p)) /\ SF_vars(StaleProcess(p))

FairSpec == Spec /\ Fairness

-----------------------------------------------------------------------------
(* Safety.                                                                  *)

\* No closed number is polled, and none twice: a number is closed and taken out
\* of the list in two steps, and the worker may add it again in between.
PolledFdsAreOpen ==
  main = "poll" =>
    /\ \A i \in DOMAIN snapshot : file[snapshot[i].fd].kind # "free"
    /\ \A i, j \in DOMAIN snapshot : snapshot[i].fd = snapshot[j].fd => i = j

\* The lookups of stale_poll_fd and remove_poll_fd find their entry: they throw
\* otherwise, which ends the worker or the main loop.  What is removed is an
\* entry that was staled, never the one of a pipe that took the number since.
LookupsSucceed ==
  /\ \A p \in Procs : phase[p] = "ended" => Listed(pipe[p])
  /\ main = "remove" =>
       Listed(current.fd) /\ poll_fds[IndexOf(poll_fds, current.fd)].stale

\* handle_process_output closes a pipe, and one no process writes to or is still
\* to stale, however old the snapshot is.
ClosesOnlyStale ==
  main = "close" =>
    /\ file[current.fd].kind = "pipe"
    /\ \A p \in Procs : pipe[p] = current.fd => phase[p] \in {"fresh", "down"}
                                             \/ file[current.fd].of # p

\* The pipe of a running program is in the list and not stale, so that its output
\* is read: no other program's end, restart or reload takes it out.
RunningIsPolled ==
  \A p \in Procs : phase[p] \in {"up", "ended"} =>
    \E i \in DOMAIN poll_fds :
      poll_fds[i] = Entry(pipe[p], "Process") /\ file[pipe[p]].of = p

\* A client that attached to a program, did not detach and did not leave is among
\* the descriptors the program's output is forwarded to.
SubscribersAreServed ==
  \A s \in subscribed :
    \E fd \in attached[s[2]] : file[fd].kind = "client" /\ file[fd].of = s[1]

\* The main thread never sleeps on a list that is out of date unless the wake-up
\* pipe, which it polls too, is there to end the sleep, or the worker is about to write
\* to it: whatever the worker lists or stales while the main thread copies the list,
\* reads the byte of an earlier change or polls, does not go unseen.
NoLostWakeUp ==
  main = "poll" =>
    /\ \E i \in DOMAIN snapshot : snapshot[i].fd = "wake"
    /\ snapshot = poll_fds \/ file["wake"].data > 0 \/ waking

-----------------------------------------------------------------------------
(* Liveness, under FairSpec.                                                *)

\* The main thread is in a read that nobody may ever let return.
Blocked == readers # {} /\ ~ReadReturns(current.fd)

\* What a running program writes is read, even when it starts to write while the
\* main thread sleeps in a poll of an older list.
OutputIsForwarded ==
  \A p \in Procs, fd \in Fds :
    pipe[p] = fd /\ phase[p] = "up" /\ file[fd].data > 0
      ~> pipe[p] # fd \/ file[fd].data = 0 \/ Blocked \/ main = "dead"

StaleEntry(fd) == \E i \in DOMAIN poll_fds : poll_fds[i].fd = fd /\ poll_fds[i].stale

\* A stale pipe whose writers are gone is closed and its entry leaves the list.
StaleIsRemoved ==
  \A fd \in Fds :
    StaleEntry(fd) /\ ~file[fd].writer ~> ~StaleEntry(fd) \/ Blocked \/ main = "dead"

-----------------------------------------------------------------------------
(* What the texts of the program say, and the code does not do.             *)

\* "Read data from a pipe and forward it to the main output descriptor as well as
\* all attached client sockets" (Process.cpp:288): the process that reads a pipe
\* is the one whose program writes to it.
ReadByItsProcess == \A p \in readers : file[current.fd].of = p

-----------------------------------------------------------------------------
(* The inductive invariant.                                                 *)

Kind(type) ==
  CASE type = "Process" -> "pipe" [] type = "Client" -> "client"
    [] type = "Server" -> "server" [] OTHER -> "wake"

Matches(e) == file[e.fd].kind = Kind(e.type)

\* From close(2) to remove_poll_fd.
Removing(fd) == main = "remove" /\ current.fd = fd

Uses(p, fd) == phase[p] \in {"forked", "up", "ended"} /\ pipe[p] = fd

Files ==
  /\ \A fd \in AllFds :
       /\ fd \in Fds <=> file[fd].kind \in {"free", "pipe", "client"}
       /\ file[fd].kind = "pipe" => file[fd].of \in Procs
       /\ file[fd].kind = "client" => file[fd].of \in Clients
  /\ \A p \in Procs, fd \in Fds : Uses(p, fd) =>
       file[fd].kind = "pipe" /\ file[fd].of = p
  /\ \A p \in Procs : phase[p] \in {"forked", "up", "ended"} => pipe[p] \in Fds

\* An entry is of an open file of its type, and a stale one is no longer used by
\* any process, but between close and remove: then the number may be in use again,
\* and be in the list twice, the stale entry first.
Entries ==
  \A i \in DOMAIN poll_fds :
    LET e == poll_fds[i] IN
    /\ Matches(e) \/ (Removing(e.fd) /\ e.stale)
    /\ e.stale => /\ e.type = "Process"
                  /\ Removing(e.fd) \/ \A p \in Procs : ~Uses(p, e.fd)
    /\ \A j \in DOMAIN poll_fds :
         i < j /\ poll_fds[j].fd = e.fd => Removing(e.fd) /\ e.stale /\ ~poll_fds[j].stale
    /\ \A p \in Procs : phase[p] = "forked" /\ pipe[p] = e.fd => Removing(e.fd) /\ e.stale

\* An entry that the main thread took from the list is still there.
Kept(e) ==
  \E i \in DOMAIN poll_fds :
    /\ poll_fds[i].fd = e.fd /\ poll_fds[i].type = e.type
    /\ e.stale => poll_fds[i].stale

Batch ==
  /\ main = "poll" =>
       \A i \in DOMAIN snapshot :
         /\ Kept(snapshot[i])
         /\ \A j \in DOMAIN snapshot : snapshot[i].fd = snapshot[j].fd => i = j
  /\ main \in {"idle", "poll", "dead"} => events = {}
  /\ \A e \in events :
       /\ Kept(e)
       /\ \A f \in events : e.fd = f.fd => e = f
       /\ main \in {"read", "close", "remove", "hangup"} => e.fd # current.fd

Current ==
  /\ main \in {"read", "close", "remove"} => current.type = "Process" /\ Kept(current)
  /\ main \in {"close", "remove"} => current.stale
  /\ main = "hangup" =>
       /\ current.type = "Client" /\ file[current.fd].kind = "client"
       /\ ~Listed(current.fd)

OutputInv ==
  /\ TypeOK /\ Files /\ Entries /\ Batch /\ Current
  /\ RunningIsPolled /\ SubscribersAreServed

\* The wake-up pipe stays in the list, as only pipes and connections leave it.
Listing ==
  /\ \A i \in DOMAIN poll_fds : poll_fds[i].type = "Process" => poll_fds[i].fd \in Fds
  /\ \E i \in DOMAIN poll_fds : poll_fds[i].fd = "wake"

WakeInv == OutputInv /\ Listing /\ NoLostWakeUp

-----------------------------------------------------------------------------
(* Who the numbers belong to (module Handover).                             *)

StaledFd(fd) == StaleEntry(fd) /\ ~Removing(fd)

Role(fd) ==
  CASE file[fd].kind = "free" -> "nobody"
    [] file[fd].kind = "client" -> "client"
    [] OTHER -> LET p == file[fd].of IN
                IF Uses(p, fd) THEN "used"
                ELSE IF ~StaledFd(fd) THEN "lost"
                ELSE IF pipe[p] = fd THEN "ending" ELSE "abandoned"

Roles == [fd \in Fds |-> Role(fd)]
Owners == [fd \in Fds |-> file[fd].of]
Unread == [fd \in Fds |-> file[fd].data]
Open == [fd \in Fds |-> file[fd].writer]
BeingRemoved == {fd \in Fds : Removing(fd)}

H == INSTANCE Handover WITH role <- Roles, of <- Owners, unread <- Unread,
                            open <- Open, closing <- BeingRemoved

\* No pipe is closed under a process that uses it, or before what an ended program
\* wrote was read, unless the process has started again or was replaced, however
\* the threads race for the numbers: the descriptors implement module Handover.
HandsOver == H!Spec

\* A pipe that reports its end alone has nothing to read, and what is about to be
\* closed was read to the end, if any process still answers to its number.
Ended(fd) == file[fd].data = 0 /\ ~file[fd].writer

Hangups ==
  /\ \A e \in events : e.type = "Process" /\ ~e.in => Ended(e.fd)
  /\ main = "close" => Ended(current.fd) \/ \A p \in Procs : pipe[p] # current.fd

HandoverInv == OutputInv /\ Hangups
=============================================================================
