---------------------- MODULE ProcessOutputRefinement ----------------------
(***************************************************************************)
(* ProcessOutput implements Handover: the worker and the main thread pass  *)
(* the descriptor numbers on to each other without closing a pipe that is  *)
(* used or whose output somebody is still to read.                         *)
(***************************************************************************)
EXTENDS ProcessOutputProofs

-----------------------------------------------------------------------------
(* Which events and which pipe to close have nothing left to read.          *)

LEMMA EventPipe ==
  ASSUME OutputInv, NEW e \in events, e.type = "Process"
  PROVE  e.fd \in AllFds /\ file[e.fd].kind = "pipe"
<1>1. Kept(e) /\ ~Removing(e.fd)
  BY DEF OutputInv, Batch, Removing
<1> QED
  BY <1>1, KeptIsOpen DEF Kind

LEMMA CurrentPipe ==
  ASSUME OutputInv, main \in {"read", "close"}
  PROVE  current.fd \in AllFds /\ file[current.fd].kind = "pipe"
<1>1. Kept(current) /\ ~Removing(current.fd) /\ current.type = "Process"
  BY DEF OutputInv, Current, Removing
<1> QED
  BY <1>1, KeptIsOpen DEF Kind

\* A step that begins no close and leaves the pipes that have ended as they are.
LEMMA SameHangups ==
  ASSUME HandoverInv,
         \A e \in events' : e \in events,
         main' = "close" => main = "close" /\ current' = current,
         \A p \in Procs : main = "close" => pipe'[p] = pipe[p] \/ pipe'[p] # current.fd,
         \A fd \in AllFds : file[fd].kind = "pipe" /\ Ended(fd) => Ended(fd)'
  PROVE  Hangups'
<1>1. \A e \in events' : e.type = "Process" /\ ~e.in => Ended(e.fd)'
  BY EventPipe DEF HandoverInv, Hangups
<1>2. ASSUME main' = "close"
      PROVE  Ended(current.fd)' \/ \A p \in Procs : pipe'[p] # current'.fd
  <2>1. /\ main = "close" /\ current' = current
        /\ current.fd \in AllFds /\ file[current.fd].kind = "pipe"
    BY <1>2, CurrentPipe DEF HandoverInv
  <2>2. CASE Ended(current.fd)
    <3>1. Ended(current.fd)'
      BY <2>1, <2>2 DEF Ended
    <3> QED
      BY <3>1
  <2>3. CASE \A p \in Procs : pipe[p] # current.fd
    BY <2>1, <2>3
  <2> QED
    BY <2>1, <2>2, <2>3 DEF HandoverInv, Hangups
<1> QED
  BY <1>1, <1>2 DEF Hangups

LEMMA PollReturnsHangups ==
  ASSUME HandoverInv, PollReturns
  PROVE  Hangups'
<1>1. /\ main = "poll" /\ main' = "handle" /\ UNCHANGED file
      /\ events' = {Event(e) : e \in {d \in Range(snapshot) : Ready(d.fd)}}
  BY DEF PollReturns
<1>2. ASSUME NEW f \in events', f.type = "Process", ~f.in
      PROVE  Ended(f.fd)
  <2>1. PICK i \in DOMAIN snapshot : f = Event(snapshot[i]) /\ Ready(snapshot[i].fd)
    BY <1>1, <1>2 DEF Range
  <2>2. /\ f.fd = snapshot[i].fd /\ snapshot[i].type = "Process"
        /\ ~(file[f.fd].data > 0) /\ Ready(f.fd)
    BY <1>2, <2>1 DEF Event
  <2>3. Kept(snapshot[i]) /\ ~Removing(snapshot[i].fd)
    BY <1>1 DEF HandoverInv, OutputInv, Batch, Removing
  <2>4. f.fd \in AllFds /\ file[f.fd].kind = "pipe"
    BY <2>2, <2>3, KeptIsOpen DEF HandoverInv, Kind
  <2>5. file[f.fd].data \in 0..MaxData /\ MaxData \in Nat
    BY <2>4, FileTyped, ProcessOutputAssumption DEF HandoverInv, OutputInv
  <2> QED
    BY <2>2, <2>4, <2>5 DEF Ready, Ended
<1> QED
  BY <1>1, <1>2 DEF Hangups, Ended

LEMMA HandleOutputHangups ==
  ASSUME HandoverInv, NEW e \in events, HandleOutput(e)
  PROVE  Hangups'
<1>1. /\ e.type = "Process" /\ events' = events \ {e} /\ UNCHANGED <<file, pipe>>
  BY DEF HandleOutput, Handling, worker_vars
<1>2. \A f \in events' : f.type = "Process" /\ ~f.in => Ended(f.fd)
  BY <1>1 DEF HandoverInv, Hangups
<1>3. ASSUME main' = "close"
      PROVE  current' = e /\ (Ended(e.fd) \/ \A p \in Procs : pipe[p] # e.fd)
  <2>1. readers' = {} /\ Continue(e, FALSE)
    BY <1>3 DEF HandleOutput
  <2>2. current' = e
    BY <1>3, <2>1 DEF Continue
  <2>3. CASE e.in
    BY <2>1, <2>2, <2>3 DEF HandleOutput
  <2>4. CASE ~e.in
    BY <1>1, <2>2, <2>4 DEF HandoverInv, Hangups
  <2> QED
    BY <2>3, <2>4
<1> QED
  BY <1>1, <1>2, <1>3 DEF Hangups, Ended

LEMMA ReadOutputHangups ==
  ASSUME HandoverInv, NEW p \in Procs, ReadOutput(p)
  PROVE  Hangups'
<1> DEFINE x == current.fd
<1>1. /\ main = "read" /\ UNCHANGED <<events, pipe>>
      /\ ReadReturns(x)
      /\ file' = [file EXCEPT ![x].data = Drained(file[x].data)]
      /\ main' = "close" => Continue(current, file[x].data > 0)
  BY DEF ReadOutput, worker_vars
<1>2. /\ x \in AllFds /\ file \in [AllFds -> FileType] /\ file[x] \in FileType
      /\ file[x].data \in 0..MaxData /\ MaxData \in Nat
  BY <1>1, CurrentPipe, FileTyped, ProcessOutputAssumption DEF HandoverInv, OutputInv
<1> HIDE DEF x
<1>3. /\ \A y \in AllFds : y # x => file'[y] = file[y]
      /\ file'[x].data = Drained(file[x].data) /\ file'[x].writer = file[x].writer
  BY <1>1, <1>2 DEF FileType
<1>4. \A y \in AllFds : Ended(y) => Ended(y)'
  BY <1>2, <1>3 DEF Ended, Drained
<1>5. \A e \in events' : e.type = "Process" /\ ~e.in => Ended(e.fd)'
  BY <1>1, <1>4, EventPipe DEF HandoverInv, Hangups
<1>6. ASSUME main' = "close" PROVE Ended(x)' /\ current' = current
  <2>1. ~(file[x].data > 0) /\ current' = current
    BY <1>1, <1>6 DEF Continue, AfterRead
  <2>3. file[x].data = 0 /\ ~file[x].writer
    BY <1>1, <1>2, <2>1 DEF ReadReturns
  <2>4. file'[x].data = 0 /\ ~file'[x].writer
    BY <1>3, <2>3 DEF Drained
  <2>5. x' = x
    BY <2>1 DEF x
  <2> QED
    BY <2>1, <2>4, <2>5 DEF Ended
<1> QED
  BY <1>5, <1>6 DEF Hangups, x

\* A byte written to the wake-up pipe or read from it changes no other file.
LEMMA WakeFile ==
  ASSUME OutputInv, NEW d, file' = [file EXCEPT !["wake"].data = d]
  PROVE  /\ \A x \in Fds : file'[x] = file[x]
         /\ \A x \in AllFds : file[x].kind = "pipe" => file'[x] = file[x]
<1>1. file \in [AllFds -> FileType] /\ "wake" \in AllFds /\ "wake" \notin Fds
  BY ProcessOutputAssumption DEF OutputInv, TypeOK, AllFds
<1>2. \A x \in AllFds : x # "wake" => file'[x] = file[x]
  BY <1>1
<1>3. file["wake"].kind # "pipe"
  BY <1>1 DEF OutputInv, Files
<1> QED
  BY <1>1, <1>2, <1>3 DEF AllFds

\* One descriptor number is opened or closed.
LEMMA OneFile ==
  ASSUME OutputInv, NEW x \in Fds, NEW f, file' = [file EXCEPT ![x] = f]
  PROVE  /\ file'[x] = f /\ \A y \in AllFds : y # x => file'[y] = file[y]
         /\ \A y \in Fds : y \in AllFds
BY DEF OutputInv, TypeOK, AllFds

LEMMA StartProcessHangups ==
  ASSUME HandoverInv, NEW p \in Procs, StartProcess(p)
  PROVE  Hangups'
<1>1. PICK x \in Free : /\ \E f : file' = [file EXCEPT ![x] = f]
                        /\ pipe' = [pipe EXCEPT ![p] = x]
                        /\ UNCHANGED <<events, current, main>>
  BY DEF StartProcess, batch_vars
<1>2. x \in Fds /\ file[x].kind = "free" /\ pipe \in [Procs -> Fds \cup {NoFd}]
  BY DEF Free, HandoverInv, OutputInv, TypeOK
<1>3. main = "close" => current.fd # x
  BY <1>2, CurrentPipe DEF HandoverInv
<1>4. \A q \in Procs : pipe'[q] = pipe[q] \/ pipe'[q] = x
  BY <1>1, <1>2
<1>5. \A y \in AllFds : file[y].kind = "pipe" => file'[y] = file[y]
  BY <1>1, <1>2, OneFile DEF HandoverInv
<1> QED
  BY <1>1, <1>3, <1>4, <1>5, SameHangups DEF Ended

LEMMA HandleConnectionHangups ==
  ASSUME HandoverInv, NEW e \in events, HandleConnection(e)
  PROVE  Hangups'
<1>1. /\ main = "handle" /\ events' = events \ {e}
      /\ UNCHANGED <<current, main, pipe>>
      /\ UNCHANGED file \/ \E x \in Free : \E f : file' = [file EXCEPT ![x] = f]
  BY DEF HandleConnection, Handling, worker_vars
<1>2. \A y \in AllFds : file[y].kind = "pipe" => file'[y] = file[y]
  BY <1>1, OneFile DEF HandoverInv, Free
<1> QED
  BY <1>1, <1>2, SameHangups DEF Ended

LEMMA CloseHangups ==
  ASSUME HandoverInv, CloseOutput \/ CloseClient
  PROVE  Hangups'
<1>1. /\ file' = [file EXCEPT ![current.fd] = NoFile]
      /\ UNCHANGED <<pipe, events>> /\ main' # "close"
  BY DEF CloseOutput, CloseClient, worker_vars
<1>2. \A y \in AllFds : Ended(y) => Ended(y)'
  BY <1>1 DEF Ended, NoFile, HandoverInv, OutputInv, TypeOK
<1> QED
  BY <1>1, <1>2, SameHangups DEF HandoverInv, Hangups

LEMMA ChildHangups ==
  ASSUME HandoverInv, NEW x \in Fds, ChildWrites(x) \/ WriterCloses(x)
  PROVE  Hangups'
<1>1. /\ UNCHANGED <<pipe, events, main, current>>
      /\ file[x].writer
      /\ \/ file' = [file EXCEPT ![x].data = file[x].data + 1]
         \/ file' = [file EXCEPT ![x].writer = FALSE]
  BY DEF ChildWrites, WriterCloses, worker_vars, batch_vars
<1>2. \A y \in AllFds : Ended(y) => y # x
  BY <1>1 DEF Ended
<1>3. \A y \in AllFds : Ended(y) => Ended(y)'
  BY <1>1, <1>2 DEF Ended, HandoverInv, OutputInv, TypeOK
<1> QED
  BY <1>1, <1>3, SameHangups

\* What the steps have in common that open and close nothing, and read no pipe.
BeginsNoClose ==
  /\ UNCHANGED file \/ \E d : file' = [file EXCEPT !["wake"].data = d]
  /\ \A e \in events' : e \in events
  /\ main' = "close" => main = "close" /\ current' = current
  /\ UNCHANGED pipe \/ main # "close"

LEMMA OtherHangups ==
  ASSUME HandoverInv,
         \/ \E p \in Procs : \/ Register(p) \/ EndProcess(p) \/ StaleProcess(p)
                             \/ ReloadProcess(p) \/ DieOfBrokenPipe(p)
         \/ \E c \in Clients : ClientConnects(c) \/ ClientSends(c)
         \/ TakeSnapshot \/ EndBatch \/ RemoveOutput \/ WakeMain
         \/ \E e \in events : HandleWakeUp(e) \/ HandleAttach(e) \/ HandleDisconnect(e)
         \/ UNCHANGED vars
  PROVE  Hangups'
<1>1. BeginsNoClose
  <2>1. ASSUME NEW p \in Procs, Register(p) \/ EndProcess(p) \/ StaleProcess(p)
        PROVE  BeginsNoClose
    BY <2>1 DEF BeginsNoClose, Register, EndProcess, StaleProcess, batch_vars
  <2>2. ASSUME NEW p \in Procs, ReloadProcess(p) \/ DieOfBrokenPipe(p)
        PROVE  BeginsNoClose
    BY <2>2 DEF BeginsNoClose, ReloadProcess, DieOfBrokenPipe, worker_vars, batch_vars
  <2>3. ASSUME NEW c \in Clients, ClientConnects(c) \/ ClientSends(c) PROVE BeginsNoClose
    BY <2>3 DEF BeginsNoClose, ClientConnects, ClientSends, worker_vars, batch_vars
  <2>4. ASSUME TakeSnapshot \/ EndBatch \/ RemoveOutput \/ WakeMain PROVE BeginsNoClose
    BY <2>4 DEF BeginsNoClose, TakeSnapshot, EndBatch, RemoveOutput, WakeMain, worker_vars,
               batch_vars
  <2>5. ASSUME NEW e \in events, HandleWakeUp(e) \/ HandleAttach(e) \/ HandleDisconnect(e)
        PROVE  BeginsNoClose
    BY <2>5 DEF BeginsNoClose, HandleWakeUp, HandleAttach, HandleDisconnect, Handling,
               worker_vars
  <2>6. ASSUME UNCHANGED vars PROVE BeginsNoClose
    BY <2>6 DEF BeginsNoClose, vars, worker_vars, batch_vars
  <2> QED
    BY <2>1, <2>2, <2>3, <2>4, <2>5, <2>6
<1>2. \A x \in AllFds : file[x].kind = "pipe" => file'[x] = file[x]
  BY <1>1, WakeFile DEF HandoverInv, BeginsNoClose
<1> QED
  BY <1>1, <1>2, SameHangups DEF Ended, BeginsNoClose

LEMMA NextHandoverInv ==
  ASSUME HandoverInv, [Next]_vars
  PROVE  HandoverInv'
<1>1. OutputInv'
  BY NextOutputInv DEF HandoverInv
<1>2. ASSUME Worker PROVE Hangups'
  BY <1>2, StartProcessHangups, OtherHangups DEF Worker
<1>3. ASSUME Main PROVE Hangups'
  BY <1>3, PollReturnsHangups, CloseHangups, HandleOutputHangups, ReadOutputHangups,
     HandleConnectionHangups, OtherHangups DEF Main
<1>4. ASSUME NEW x \in Fds, ChildWrites(x) \/ WriterCloses(x) PROVE Hangups'
  BY <1>4, ChildHangups
<1>5. ASSUME \/ \E p \in Procs : ReloadProcess(p)
             \/ \E c \in Clients : ClientConnects(c) \/ ClientSends(c)
             \/ Dead \/ UNCHANGED vars
      PROVE  Hangups'
  BY <1>5, OtherHangups DEF Dead
<1>6. Hangups'
  BY <1>2, <1>3, <1>4, <1>5 DEF Next
<1> QED
  BY <1>1, <1>6 DEF HandoverInv

-----------------------------------------------------------------------------
(* What a step does to the roles of the numbers.                            *)

\* What a number refers to, the process of its pipe and the list decide its role.
LEMMA SameRole ==
  ASSUME OutputInv, NEW x \in Fds, file'[x].kind = file[x].kind, file'[x].of = file[x].of,
         file[x].kind = "pipe" =>
           /\ \A p \in Procs : /\ Uses(p, x)' <=> Uses(p, x)
                               /\ pipe'[p] = x <=> pipe[p] = x
           /\ StaledFd(x)' <=> StaledFd(x)
  PROVE  Role(x)' = Role(x)
<1>1. x \in AllFds /\ file[x].kind \in {"free", "pipe", "client"}
  BY DEF OutputInv, Files, AllFds
<1>2. CASE file[x].kind \in {"free", "client"}
  BY <1>2 DEF Role
<1>3. CASE file[x].kind = "pipe"
  <2>1. file[x].of \in Procs
    BY <1>1, <1>3 DEF OutputInv, Files
  <2>2. /\ Uses(file[x].of, x)' <=> Uses(file[x].of, x)
        /\ pipe'[file'[x].of] = x <=> pipe[file[x].of] = x
    BY <1>3, <2>1 DEF Uses
  <2> QED
    BY <1>3, <2>2 DEF Role
<1> QED
  BY <1>1, <1>2, <1>3

\* A step after which every number means what it did.
LEMMA SameRoles ==
  ASSUME OutputInv, \A x \in Fds : file'[x] = file[x],
         \A p \in Procs, x \in Fds : Uses(p, x)' <=> Uses(p, x),
         UNCHANGED pipe,
         \A x \in Fds : file[x].kind = "pipe" => (StaledFd(x)' <=> StaledFd(x))
  PROVE  UNCHANGED <<Roles, Owners, Unread, Open>>
<1>1. \A x \in Fds : Role(x)' = Role(x)
  BY SameRole
<1> QED
  BY <1>1 DEF Roles, Owners, Unread, Open

LEMMA SameRemoved ==
  ASSUME \A x \in Fds : Removing(x)' <=> Removing(x)
  PROVE  UNCHANGED BeingRemoved
BY DEF BeingRemoved

\* An entry that is added is not stale.
LEMMA AppendedStaled ==
  ASSUME OutputInv, NEW fd \in AllFds, NEW type \in {"Process", "Client"},
         AddPollFd(fd, type), UNCHANGED <<main, current>>
  PROVE  \A x : StaledFd(x)' <=> StaledFd(x)
<1> DEFINE n == Len(poll_fds) + 1
<1>1. /\ DOMAIN poll_fds' = DOMAIN poll_fds \cup {n}
      /\ \A i \in DOMAIN poll_fds : poll_fds'[i] = poll_fds[i]
      /\ poll_fds'[n].stale = FALSE
  <2>1. TypeOK /\ Entry(fd, type).stale = FALSE
    BY DEF OutputInv, Entry
  <2> QED
    BY <2>1, Appended
<1> HIDE DEF n
<1>2. \A x : StaleEntry(x)' <=> StaleEntry(x)
  BY <1>1 DEF StaleEntry
<1> QED
  BY <1>2 DEF StaledFd, Removing

LEMMA SameStaled ==
  ASSUME UNCHANGED poll_fds, \A x \in Fds : Removing(x)' <=> Removing(x)
  PROVE  \A x \in Fds : StaledFd(x)' <=> StaledFd(x)
BY DEF StaledFd, StaleEntry

\* What one number refers to is replaced.
LEMMA OneMapped ==
  ASSUME OutputInv, NEW x \in Fds, NEW f, file' = [file EXCEPT ![x] = f]
  PROVE  /\ Owners' = [Owners EXCEPT ![x] = f.of]
         /\ Unread' = [Unread EXCEPT ![x] = f.data]
         /\ Open' = [Open EXCEPT ![x] = f.writer]
<1>1. \A y \in Fds : /\ file'[y].of = IF y = x THEN f.of ELSE file[y].of
                     /\ file'[y].data = IF y = x THEN f.data ELSE file[y].data
                     /\ file'[y].writer = IF y = x THEN f.writer ELSE file[y].writer
  <2>1. /\ file'[x] = f
        /\ \A y \in Fds : y # x => file'[y] = file[y]
    BY OneFile
  <2>2. ASSUME NEW y \in Fds PROVE file'[y] = IF y = x THEN f ELSE file[y]
    BY <2>1
  <2> QED
    BY <2>2
<1>2. Owners' = [Owners EXCEPT ![x] = f.of]
  BY <1>1 DEF Owners
<1>3. Unread' = [Unread EXCEPT ![x] = f.data]
  BY <1>1 DEF Unread
<1>4. Open' = [Open EXCEPT ![x] = f.writer]
  BY <1>1 DEF Open
<1> QED
  BY <1>2, <1>3, <1>4

\* Stale entries are of pipes that no process uses, and between close and remove
\* the number is not staled.
LEMMA StaledIsUnused ==
  ASSUME OutputInv, NEW x, StaledFd(x)
  PROVE  \A p \in Procs : ~Uses(p, x)
BY DEF OutputInv, Entries, StaledFd, StaleEntry

\* The pipe a process uses is the one of its name that has the role "used".
LEMMA UsedRole ==
  ASSUME OutputInv, NEW p \in Procs, NEW x \in Fds
  PROVE  Role(x) = "used" /\ file[x].of = p <=> Uses(p, x)
<1>1. Uses(p, x) => file[x].kind = "pipe" /\ file[x].of = p
  BY DEF OutputInv, Files
<1> QED
  BY <1>1 DEF Role

LEMMA EndingRole ==
  ASSUME OutputInv, NEW p \in Procs, NEW x \in Fds
  PROVE  Role(x) = "ending" /\ file[x].of = p
           <=> /\ file[x].kind = "pipe" /\ file[x].of = p
               /\ ~Uses(p, x) /\ StaledFd(x) /\ pipe[p] = x
<1>1. x \in AllFds /\ file[x].kind \in {"free", "pipe", "client"}
  BY DEF OutputInv, Files, AllFds
<1> QED
  BY <1>1 DEF Role

-----------------------------------------------------------------------------
(* The steps that pass no number on.                                        *)

\* No number, no entry of the list and no pipe of a process changes.
MovesNothing ==
  /\ \A x \in Fds : file'[x] = file[x]
  /\ UNCHANGED <<poll_fds, pipe>>
  /\ \A p \in Procs :
       phase'[p] \in {"forked", "up", "ended"} <=> phase[p] \in {"forked", "up", "ended"}
  /\ UNCHANGED <<main, current>> \/ (main # "remove" /\ main' # "remove")

LEMMA NothingMoves ==
  ASSUME OutputInv, MovesNothing
  PROVE  UNCHANGED H!vars
<1>1. \A x \in Fds : Removing(x)' <=> Removing(x)
  BY DEF MovesNothing, Removing
<1>2. \A x \in Fds : StaledFd(x)' <=> StaledFd(x)
  BY <1>1, SameStaled DEF MovesNothing
<1>3. \A p \in Procs, x \in Fds : Uses(p, x)' <=> Uses(p, x)
  BY DEF MovesNothing, Uses
<1>4. UNCHANGED <<Roles, Owners, Unread, Open>>
  BY <1>2, <1>3, SameRoles DEF MovesNothing
<1> QED
  BY <1>1, <1>4, SameRemoved DEF H!vars

LEMMA QuietSteps ==
  ASSUME OutputInv,
         \/ \E p \in Procs : EndProcess(p) \/ DieOfBrokenPipe(p)
         \/ \E c \in Clients : ClientConnects(c) \/ ClientSends(c)
         \/ TakeSnapshot \/ PollReturns \/ EndBatch \/ WakeMain
         \/ \E e \in events : HandleOutput(e) \/ HandleWakeUp(e) \/ HandleAttach(e)
         \/ UNCHANGED vars
  PROVE  UNCHANGED H!vars
<1>1. ASSUME NEW p \in Procs, EndProcess(p) PROVE MovesNothing
  <2>1. /\ phase' = [phase EXCEPT ![p] = "ended"] /\ phase[p] = "up"
        /\ UNCHANGED <<file, poll_fds, pipe, main, current>>
    BY <1>1 DEF EndProcess, batch_vars
  <2>2. \A q \in Procs : phase'[q] = IF q = p THEN "ended" ELSE phase[q]
    BY <2>1 DEF OutputInv, TypeOK
  <2> QED
    BY <2>1, <2>2 DEF MovesNothing
<1>2. ASSUME NEW p \in Procs, DieOfBrokenPipe(p) PROVE MovesNothing
  BY <1>2 DEF MovesNothing, DieOfBrokenPipe, worker_vars
<1>3. ASSUME NEW c \in Clients, ClientConnects(c) \/ ClientSends(c) PROVE MovesNothing
  BY <1>3 DEF MovesNothing, ClientConnects, ClientSends, worker_vars, batch_vars
<1>4. ASSUME TakeSnapshot \/ PollReturns \/ EndBatch PROVE MovesNothing
  BY <1>4 DEF MovesNothing, TakeSnapshot, PollReturns, EndBatch, worker_vars
<1>5. ASSUME NEW e \in events, HandleOutput(e) PROVE MovesNothing
  <2>1. main' \in {"read", "close", "handle"}
    BY <1>5 DEF HandleOutput, Continue, AfterRead
  <2> QED
    BY <1>5, <2>1 DEF MovesNothing, HandleOutput, Handling, worker_vars
<1>6. ASSUME NEW e \in events, HandleWakeUp(e) PROVE MovesNothing
  <2>1. \A x \in Fds : file'[x] = file[x]
    BY <1>6, WakeFile DEF HandleWakeUp
  <2> QED
    BY <1>6, <2>1 DEF MovesNothing, HandleWakeUp, worker_vars
<1>7. ASSUME NEW e \in events, HandleAttach(e) PROVE MovesNothing
  BY <1>7 DEF MovesNothing, HandleAttach, worker_vars
<1>8. ASSUME UNCHANGED vars PROVE MovesNothing
  BY <1>8 DEF MovesNothing, vars, worker_vars, batch_vars
<1>9. ASSUME WakeMain PROVE MovesNothing
  <2>1. \A x \in Fds : file'[x] = file[x]
    BY <1>9, WakeFile DEF WakeMain
  <2> QED
    BY <1>9, <2>1 DEF MovesNothing, WakeMain, batch_vars
<1> QED
  BY <1>1, <1>2, <1>3, <1>4, <1>5, <1>6, <1>7, <1>8, <1>9, NothingMoves

LEMMA RegisterStep ==
  ASSUME OutputInv, NEW p \in Procs, Register(p)
  PROVE  UNCHANGED H!vars
<1>1. /\ phase[p] = "forked" /\ AddPollFd(pipe[p], "Process")
      /\ phase' = [phase EXCEPT ![p] = "up"]
      /\ UNCHANGED <<file, pipe, main, current>>
  BY DEF Register, batch_vars
<1>2. pipe[p] \in AllFds
  BY <1>1 DEF OutputInv, Files, AllFds
<1>3. \A x : StaledFd(x)' <=> StaledFd(x)
  BY <1>1, <1>2, AppendedStaled
<1>4. \A q \in Procs, x \in Fds : Uses(q, x)' <=> Uses(q, x)
  <2>1. \A q \in Procs : phase'[q] = IF q = p THEN "up" ELSE phase[q]
    BY <1>1 DEF OutputInv, TypeOK
  <2> QED
    BY <1>1, <2>1 DEF Uses
<1>5. UNCHANGED <<Roles, Owners, Unread, Open>>
  BY <1>1, <1>3, <1>4, SameRoles
<1> QED
  BY <1>1, <1>5, SameRemoved DEF H!vars, Removing

\* The entry of a connection is not stale, so its removal does not matter to a pipe.
LEMMA HandleDisconnectStep ==
  ASSUME OutputInv, NEW e \in events, HandleDisconnect(e)
  PROVE  UNCHANGED H!vars
<1>1. /\ main = "handle" /\ main' = "hangup" /\ e.type = "Client"
      /\ RemovePollFd(e.fd) /\ UNCHANGED <<file, phase, pipe>>
  BY DEF HandleDisconnect, Handling, worker_vars
<1>2. file[e.fd].kind = "client"
  <2>1. Kept(e) /\ ~Removing(e.fd)
    BY <1>1 DEF OutputInv, Batch, Removing
  <2> QED
    BY <1>1, <2>1, KeptIsOpen DEF Kind
<1>3. \A x : ~Removing(x) /\ ~Removing(x)'
  BY <1>1 DEF Removing
<1>4. ASSUME NEW x, x # e.fd PROVE StaleEntry(x)' <=> StaleEntry(x)
  <2>1. TypeOK
    BY DEF OutputInv
  <2>2. PICK k \in DOMAIN poll_fds :
          /\ poll_fds[k].fd = e.fd
          /\ \A i \in DOMAIN poll_fds' : \E j \in DOMAIN poll_fds : poll_fds'[i] = poll_fds[j]
          /\ \A i \in DOMAIN poll_fds : i # k => \E j \in DOMAIN poll_fds' : poll_fds'[j] = poll_fds[i]
    BY <1>1, <2>1, TakenOut
  <2> QED
    BY <1>4, <2>2 DEF StaleEntry
<1>5. \A x \in Fds : file[x].kind = "pipe" => (StaledFd(x)' <=> StaledFd(x))
  BY <1>2, <1>3, <1>4 DEF StaledFd
<1>6. \A q \in Procs, x \in Fds : Uses(q, x)' <=> Uses(q, x)
  BY <1>1 DEF Uses
<1>7. UNCHANGED <<Roles, Owners, Unread, Open>>
  BY <1>1, <1>5, <1>6, SameRoles
<1> QED
  BY <1>3, <1>7, SameRemoved DEF H!vars

-----------------------------------------------------------------------------
(* What is written and read.                                                *)

\* A pipe stays what it is and keeps its role, while its data and its writers change.
LEMMA DataStep ==
  ASSUME OutputInv, NEW x \in Fds, NEW d, NEW w, file[x].kind = "pipe",
         \/ file' = [file EXCEPT ![x].data = d] /\ w = file[x].writer
         \/ file' = [file EXCEPT ![x].writer = w] /\ d = file[x].data,
         UNCHANGED <<poll_fds, phase, pipe>>, \A y \in Fds : Removing(y)' <=> Removing(y)
  PROVE  /\ UNCHANGED <<Roles, Owners, BeingRemoved>>
         /\ Unread' = [Unread EXCEPT ![x] = d] /\ Open' = [Open EXCEPT ![x] = w]
         /\ H!IsPipe(x)
<1>1. file[x] \in FileType /\ file \in [AllFds -> FileType] /\ \A y \in Fds : y \in AllFds
  BY DEF OutputInv, TypeOK, AllFds
<1>2. \A y \in Fds : /\ file'[y].kind = file[y].kind /\ file'[y].of = file[y].of
                     /\ file'[y].data = IF y = x THEN d ELSE file[y].data
                     /\ file'[y].writer = IF y = x THEN w ELSE file[y].writer
  BY <1>1 DEF FileType
<1>3. \A y \in Fds : StaledFd(y)' <=> StaledFd(y)
  BY SameStaled
<1>4. \A q \in Procs, y \in Fds : Uses(q, y)' <=> Uses(q, y)
  BY DEF Uses
<1>5. \A y \in Fds : Role(y)' = Role(y)
  BY <1>2, <1>3, <1>4, SameRole
<1>6. UNCHANGED <<Roles, Owners>>
  BY <1>2, <1>5 DEF Roles, Owners
<1>7. Unread' = [Unread EXCEPT ![x] = d]
  BY <1>2 DEF Unread
<1>8. Open' = [Open EXCEPT ![x] = w]
  BY <1>2 DEF Open
<1>9. H!IsPipe(x)
  BY DEF H!IsPipe, Roles, Role
<1> QED
  BY <1>6, <1>7, <1>8, <1>9, SameRemoved

LEMMA ChildStep ==
  ASSUME OutputInv, NEW x \in Fds, ChildWrites(x) \/ WriterCloses(x)
  PROVE  H!Write(x) \/ H!NoMore(x)
<1>1. /\ UNCHANGED <<poll_fds, phase, pipe>> /\ \A y \in Fds : Removing(y)' <=> Removing(y)
      /\ file[x].kind = "pipe" /\ file[x].writer
  BY DEF ChildWrites, WriterCloses, worker_vars, batch_vars, Removing
<1>2. file[x].writer \in BOOLEAN
  BY FileTyped DEF OutputInv, AllFds
<1>3. Unread = [Unread EXCEPT ![x] = file[x].data] /\ Open = [Open EXCEPT ![x] = file[x].writer]
  BY DEF Unread, Open
<1>4. CASE ChildWrites(x)
  <2>1. file' = [file EXCEPT ![x].data = file[x].data + 1]
    BY <1>4 DEF ChildWrites
  <2>2. /\ UNCHANGED <<Roles, Owners, BeingRemoved>> /\ H!IsPipe(x)
        /\ Unread' = [Unread EXCEPT ![x] = file[x].data + 1] /\ Open' = Open
    BY <1>1, <1>3, <2>1, DataStep
  <2>3. Unread[x] = file[x].data /\ Open[x] = file[x].writer
    BY DEF Unread, Open
  <2> QED
    BY <1>1, <1>2, <2>2, <2>3 DEF H!Write
<1>5. CASE WriterCloses(x)
  <2>1. file' = [file EXCEPT ![x].writer = FALSE]
    BY <1>5 DEF WriterCloses
  <2>2. /\ UNCHANGED <<Roles, Owners, BeingRemoved>> /\ H!IsPipe(x)
        /\ Unread' = Unread /\ Open' = [Open EXCEPT ![x] = FALSE]
    BY <1>1, <1>3, <2>1, DataStep
  <2> QED
    BY <2>2 DEF H!NoMore
<1> QED
  BY <1>4, <1>5

LEMMA ReadOutputStep ==
  ASSUME OutputInv, NEW p \in Procs, ReadOutput(p)
  PROVE  (\E x \in Fds : H!Read(x)) \/ UNCHANGED H!vars
<1> DEFINE x == current.fd
<1>1. /\ main = "read" /\ UNCHANGED <<poll_fds, phase, pipe>>
      /\ file' = [file EXCEPT ![x].data = Drained(file[x].data)]
      /\ UNCHANGED main \/ Continue(current, file[x].data > 0)
  BY DEF ReadOutput, worker_vars
<1>2. \A y : ~Removing(y) /\ ~Removing(y)'
  BY <1>1 DEF Continue, AfterRead, Removing
<1>3. file[x].kind = "pipe" /\ x \in Fds /\ file[x].data \in Nat
  <2>1. x \in AllFds /\ file[x].kind = "pipe"
    BY <1>1, CurrentPipe
  <2> QED
    BY <2>1, FileTyped, ProcessOutputAssumption DEF OutputInv, Files
<1>4. Open = [Open EXCEPT ![x] = file[x].writer] /\ Unread = [Unread EXCEPT ![x] = file[x].data]
  BY DEF Open, Unread
<1> HIDE DEF x
<1>5. /\ UNCHANGED <<Roles, Owners, BeingRemoved>> /\ H!IsPipe(x) /\ Open' = Open
      /\ Unread' = [Unread EXCEPT ![x] = Drained(file[x].data)]
  BY <1>1, <1>2, <1>3, <1>4, DataStep
<1>6. CASE file[x].data > 0
  <2>1. Drained(file[x].data) = file[x].data - 1 /\ Unread[x] = file[x].data
    BY <1>3, <1>6 DEF Drained, Unread
  <2>2. H!Read(x)
    BY <1>5, <1>6, <2>1 DEF H!Read
  <2> QED
    BY <1>3, <2>2
<1>7. CASE ~(file[x].data > 0)
  <2>1. Drained(file[x].data) = file[x].data
    BY <1>3, <1>7 DEF Drained
  <2>2. UNCHANGED Unread
    BY <1>4, <1>5, <2>1
  <2> QED
    BY <1>5, <2>2 DEF H!vars
<1> QED
  BY <1>6, <1>7

-----------------------------------------------------------------------------
(* Numbers that are opened.                                                 *)

LEMMA TakeStep ==
  ASSUME OutputInv, NEW x \in Free, NEW owner, NEW kind,
         file' = [file EXCEPT ![x] = [kind |-> kind, of |-> owner, data |-> 0,
                                      writer |-> TRUE]],
         UNCHANGED <<main, current>>
  PROVE  H!Take(x, owner) /\ \A y \in Fds : Removing(y)' <=> Removing(y)
<1> DEFINE f == [kind |-> kind, of |-> owner, data |-> 0, writer |-> TRUE]
<1>1. x \in Fds /\ Role(x) = "nobody"
  BY DEF Free, Role
<1>2. f.of = owner /\ f.data = 0 /\ f.writer = TRUE /\ file' = [file EXCEPT ![x] = f]
  OBVIOUS
<1> HIDE DEF f
<1>3. /\ Owners' = [Owners EXCEPT ![x] = owner]
      /\ Unread' = [Unread EXCEPT ![x] = 0]
      /\ Open' = [Open EXCEPT ![x] = TRUE]
  BY <1>1, <1>2, OneMapped
<1>4. \A y \in Fds : Removing(y)' <=> Removing(y)
  BY DEF Removing
<1>5. UNCHANGED BeingRemoved
  BY <1>4, SameRemoved
<1>6. Roles[x] = "nobody"
  BY <1>1 DEF Roles
<1> QED
  BY <1>3, <1>4, <1>5, <1>6 DEF H!Take

LEMMA StartProcessStep ==
  ASSUME OutputInv, NEW p \in Procs, StartProcess(p)
  PROVE  \E x \in Fds : H!Start(p, x)
<1>1. PICK x \in Free :
        /\ file' = [file EXCEPT ![x] = [kind |-> "pipe", of |-> p, data |-> 0,
                                        writer |-> TRUE]]
        /\ pipe' = [pipe EXCEPT ![p] = x]
  BY DEF StartProcess
<1>2. /\ phase[p] \in {"fresh", "down"} /\ phase' = [phase EXCEPT ![p] = "forked"]
      /\ UNCHANGED <<poll_fds, main, current>>
  BY DEF StartProcess, batch_vars
<1>3. x \in Fds /\ H!Take(x, p) /\ \A y \in Fds : Removing(y)' <=> Removing(y)
  BY <1>1, <1>2, TakeStep DEF Free
<1>4. /\ pipe'[p] = x /\ phase'[p] = "forked"
      /\ \A q \in Procs : q # p => pipe'[q] = pipe[q] /\ phase'[q] = phase[q]
      /\ file'[x].kind = "pipe" /\ file'[x].of = p
      /\ \A y \in Fds : y # x => file'[y] = file[y]
  <2>1. pipe \in [Procs -> Fds \cup {NoFd}] /\ DOMAIN phase = Procs
        /\ file \in [AllFds -> FileType] /\ x \in AllFds
    BY <1>3 DEF OutputInv, TypeOK, AllFds
  <2> QED
    BY <1>1, <1>2, <2>1
<1>5. \A y \in Fds : StaledFd(y)' <=> StaledFd(y)
  BY <1>2, <1>3, SameStaled
<1>6. /\ \A y : ~Uses(p, y)
      /\ Uses(p, x)' /\ \A y : y # x => ~Uses(p, y)'
      /\ \A q \in Procs, y \in Fds : q # p => (Uses(q, y)' <=> Uses(q, y))
  BY <1>2, <1>4 DEF Uses
<1>7. H!PipesOf(p, "used") = {}
  BY <1>6, UsedRole DEF H!PipesOf, Roles, Owners
<1>8. ASSUME NEW y \in Fds
      PROVE  Role(y)' = CASE y = x -> "used"
                          [] y # x /\ y \in H!PipesOf(p, "ending") -> "abandoned"
                          [] OTHER -> Roles[y]
  <2>1. CASE y = x
    BY <1>4, <1>6, <2>1 DEF Role
  <2>2. CASE y # x /\ y \in H!PipesOf(p, "ending")
    <3>1. file[y].kind = "pipe" /\ file[y].of = p /\ StaledFd(y)
      BY <2>2, EndingRole DEF H!PipesOf, Roles, Owners
    <3> QED
      BY <1>4, <1>5, <1>6, <2>2, <3>1 DEF Role
  <2>3. CASE y # x /\ y \notin H!PipesOf(p, "ending")
    <3>1. Role(y)' = Role(y)
      <4>1. CASE file[y].kind = "pipe" /\ file[y].of = p
        <5>1. ~(StaledFd(y) /\ pipe[p] = y)
          BY <1>6, <2>3, <4>1, EndingRole DEF H!PipesOf, Roles, Owners
        <5> QED
          BY <1>4, <1>5, <1>6, <2>3, <4>1, <5>1 DEF Role
      <4>2. CASE file[y].kind = "pipe" /\ file[y].of # p
        <5>1. file[y].of \in Procs
          BY <4>2 DEF OutputInv, Files, AllFds
        <5> QED
          BY <1>4, <1>5, <1>6, <2>3, <4>2, <5>1 DEF Role
      <4>3. CASE file[y].kind # "pipe"
        <5>1. file[y].kind \in {"free", "client"}
          BY <4>3 DEF OutputInv, Files, AllFds
        <5> QED
          BY <1>4, <2>3, <5>1 DEF Role
      <4> QED
        BY <4>1, <4>2, <4>3
    <3> QED
      BY <2>3, <3>1 DEF Roles
  <2> QED
    BY <2>1, <2>2, <2>3
<1>9. Roles' = [y \in Fds |-> CASE y = x -> "used"
                                [] y # x /\ y \in H!PipesOf(p, "ending") -> "abandoned"
                                [] OTHER -> Roles[y]]
  BY <1>8 DEF Roles
<1> QED
  BY <1>3, <1>7, <1>9 DEF H!Start

LEMMA HandleConnectionStep ==
  ASSUME OutputInv, NEW e \in events, HandleConnection(e)
  PROVE  (\E c \in Clients, x \in Fds : H!Connect(c, x)) \/ UNCHANGED H!vars
<1>1. main = "handle" /\ UNCHANGED <<phase, pipe, main, current>>
  BY DEF HandleConnection, Handling, worker_vars
<1>2. CASE UNCHANGED <<file, poll_fds>>
  BY <1>1, <1>2, NothingMoves DEF MovesNothing
<1>3. ASSUME NEW x \in Free, NEW c \in Clients, AddPollFd(x, "Client"),
             file' = [file EXCEPT ![x] = [kind |-> "client", of |-> c, data |-> 0,
                                          writer |-> TRUE]]
      PROVE  H!Connect(c, x) /\ x \in Fds
  <2>1. x \in Fds /\ H!Take(x, c)
    BY <1>1, <1>3, TakeStep DEF Free
  <2>2. \A y : StaledFd(y)' <=> StaledFd(y)
    BY <1>1, <1>3, <2>1, AppendedStaled DEF AllFds
  <2>3. file'[x].kind = "client" /\ \A y \in Fds : y # x => file'[y] = file[y]
    <3> DEFINE f == [kind |-> "client", of |-> c, data |-> 0, writer |-> TRUE]
    <3>1. file' = [file EXCEPT ![x] = f] /\ f.kind = "client"
      BY <1>3
    <3> HIDE DEF f
    <3> QED
      BY <2>1, <3>1, OneFile
  <2>4. \A q \in Procs : \A y \in Fds : Uses(q, y)' <=> Uses(q, y)
    BY <1>1 DEF Uses
  <2>5. \A y \in Fds : Role(y)' = IF y = x THEN "client" ELSE Role(y)
    <3>1. Role(x)' = "client"
      BY <2>3 DEF Role
    <3>2. \A y \in Fds : y # x => Role(y)' = Role(y)
      BY <1>1, <2>2, <2>3, <2>4, SameRole
    <3> QED
      BY <3>1, <3>2
  <2>6. Roles' = [Roles EXCEPT ![x] = "client"]
    BY <2>5 DEF Roles
  <2> QED
    BY <2>1, <2>6 DEF H!Connect
<1> QED
  BY <1>2, <1>3 DEF HandleConnection

-----------------------------------------------------------------------------
(* Numbers that are given up and closed.                                    *)

\* A pipe that is given up while its number is being removed from the list is taken
\* for the one that was closed, and lost.
LEMMA StaleProcessStep ==
  ASSUME OutputInv, NEW p \in Procs, StaleProcess(p)
  PROVE  H!End(p)
<1>0. PICK x : x = pipe[p]
  OBVIOUS
<1>1. /\ phase[p] = "ended" /\ phase' = [phase EXCEPT ![p] = "down"]
      /\ StalePollFd(x)
      /\ UNCHANGED <<file, pipe, main, current>>
  BY <1>0 DEF StaleProcess, batch_vars
<1>2. x \in Fds /\ file[x].kind = "pipe" /\ file[x].of = p /\ Uses(p, x)
  BY <1>0, <1>1 DEF OutputInv, Files, Uses
<1>3. pipe'[p] = x
  BY <1>0, <1>1
<1>4. \A y \in Fds : file'[y] = file[y]
  BY <1>1
<1>5. /\ \A y : ~Uses(p, y)' /\ (Uses(p, y) => y = x)
      /\ \A q \in Procs, y \in Fds : q # p => (Uses(q, y)' <=> Uses(q, y))
  <2>1. phase'[p] = "down" /\ \A q \in Procs : q # p => phase'[q] = phase[q]
    BY <1>1 DEF OutputInv, TypeOK
  <2> QED
    BY <1>0, <1>1, <2>1 DEF Uses
<1>6. \A y : Removing(y)' <=> Removing(y)
  BY <1>1 DEF Removing
<1>7. StaleEntry(x)' /\ \A y : y # x => (StaleEntry(y)' <=> StaleEntry(y))
  <2>1. TypeOK
    BY DEF OutputInv
  <2>2. PICK k : k = IndexOf(poll_fds, x)
    OBVIOUS
  <2>3. /\ DOMAIN poll_fds' = DOMAIN poll_fds /\ k \in DOMAIN poll_fds
        /\ poll_fds[k].fd = x /\ poll_fds'[k].fd = x /\ poll_fds'[k].stale
        /\ \A i \in DOMAIN poll_fds : i # k => poll_fds'[i] = poll_fds[i]
    BY <1>1, <2>1, <2>2, Staled
  <2>4. StaleEntry(x)'
    BY <2>3 DEF StaleEntry
  <2>5. ASSUME NEW y, y # x PROVE StaleEntry(y)' <=> StaleEntry(y)
    BY <2>3, <2>5 DEF StaleEntry
  <2> QED
    BY <2>4, <2>5
<1>8. ASSUME NEW y \in Fds
      PROVE  Role(y)' = IF y \in H!PipesOf(p, "used")
                        THEN IF y \in BeingRemoved THEN "lost" ELSE "ending"
                        ELSE Roles[y]
  <2>1. y \in H!PipesOf(p, "used") <=> y = x
    BY <1>2, <1>5, UsedRole DEF H!PipesOf, Roles, Owners
  <2>2. CASE y = x
    <3>1. file'[x].kind = "pipe" /\ file'[x].of = p /\ ~Uses(p, x)' /\ pipe'[p] = x
      BY <1>2, <1>3, <1>4, <1>5
    <3>2. StaledFd(x)' <=> ~Removing(x)
      BY <1>6, <1>7 DEF StaledFd
    <3>3. Role(x)' = IF Removing(x) THEN "lost" ELSE "ending"
      BY <3>1, <3>2 DEF Role
    <3> QED
      BY <1>2, <2>1, <2>2, <3>3 DEF BeingRemoved
  <2>3. CASE y # x
    <3>1. StaledFd(y)' <=> StaledFd(y)
      BY <1>6, <1>7, <2>3 DEF StaledFd
    <3>2. \A q \in Procs : Uses(q, y)' <=> Uses(q, y)
      BY <1>5, <2>3
    <3>3. Role(y)' = Role(y)
      BY <1>1, <1>4, <3>1, <3>2, SameRole
    <3> QED
      BY <2>1, <2>3, <3>3 DEF Roles
  <2> QED
    BY <2>2, <2>3
<1>9. Roles' = [y \in Fds |-> IF y \in H!PipesOf(p, "used")
                              THEN IF y \in BeingRemoved THEN "lost" ELSE "ending"
                              ELSE Roles[y]]
  BY <1>8 DEF Roles
<1>10. UNCHANGED <<Owners, Unread, Open, BeingRemoved>>
  BY <1>4, <1>6, SameRemoved DEF Owners, Unread, Open
<1> QED
  BY <1>9, <1>10 DEF H!End

LEMMA ReloadProcessStep ==
  ASSUME OutputInv, NEW p \in Procs, ReloadProcess(p)
  PROVE  H!Replace(p)
<1>1. /\ main = "idle" /\ UNCHANGED <<main, current, file, poll_fds>>
      /\ phase' = [phase EXCEPT ![p] = "fresh"] /\ pipe' = [pipe EXCEPT ![p] = NoFd]
  BY DEF ReloadProcess, batch_vars
<1>2. /\ phase'[p] = "fresh" /\ pipe'[p] = NoFd
      /\ \A q \in Procs : q # p => phase'[q] = phase[q] /\ pipe'[q] = pipe[q]
  BY <1>1 DEF OutputInv, TypeOK
<1>3. /\ \A y : ~Uses(p, y)'
      /\ \A q \in Procs, y \in Fds : q # p => (Uses(q, y)' <=> Uses(q, y))
  BY <1>2 DEF Uses
<1>4. \A y : ~Removing(y) /\ ~Removing(y)'
  BY <1>1 DEF Removing
<1>5. \A y \in Fds : StaledFd(y)' <=> StaledFd(y)
  BY <1>1, <1>4, SameStaled
<1>6. NoFd \notin Fds
  BY ProcessOutputAssumption DEF NoFd
<1>7. ASSUME NEW y \in Fds
      PROVE  Role(y)' = CASE y \in H!PipesOf(p, "used") -> "lost"
                          [] y \in H!PipesOf(p, "ending") -> "abandoned"
                          [] OTHER -> Roles[y]
  <2>1. /\ y \in H!PipesOf(p, "used") <=> Uses(p, y)
        /\ y \in H!PipesOf(p, "ending") <=>
             /\ file[y].kind = "pipe" /\ file[y].of = p
             /\ ~Uses(p, y) /\ StaledFd(y) /\ pipe[p] = y
    BY UsedRole, EndingRole DEF H!PipesOf, Roles, Owners
  <2>2. CASE Uses(p, y)
    <3>1. file[y].kind = "pipe" /\ file[y].of = p /\ ~StaledFd(y)
      BY <2>2, StaledIsUnused DEF OutputInv, Files
    <3>2. Role(y)' = "lost"
      BY <1>1, <1>3, <1>5, <3>1 DEF Role
    <3>3. y \in H!PipesOf(p, "used") /\ y \notin H!PipesOf(p, "ending")
      BY <2>1, <2>2
    <3> QED
      BY <3>2, <3>3
  <2>3. CASE ~Uses(p, y) /\ file[y].kind = "pipe" /\ file[y].of = p
    <3>1. Role(y)' = IF StaledFd(y) THEN "abandoned" ELSE "lost"
      BY <1>1, <1>2, <1>3, <1>5, <1>6, <2>3 DEF Role
    <3>2. Role(y) = IF ~StaledFd(y) THEN "lost"
                    ELSE IF pipe[p] = y THEN "ending" ELSE "abandoned"
      BY <2>3 DEF Role
    <3> QED
      BY <2>1, <2>3, <3>1, <3>2 DEF Roles
  <2>4. CASE ~Uses(p, y) /\ ~(file[y].kind = "pipe" /\ file[y].of = p)
    <3>1. Role(y)' = Role(y)
      <4>1. CASE file[y].kind = "pipe"
        <5>1. file[y].of \in Procs /\ file[y].of # p
          BY <2>4, <4>1 DEF OutputInv, Files, AllFds
        <5> QED
          BY <1>1, <1>2, <1>3, <1>5, <4>1, <5>1 DEF Role
      <4>2. CASE file[y].kind # "pipe"
        BY <1>1, <4>2, SameRole
      <4> QED
        BY <4>1, <4>2
    <3> QED
      BY <2>1, <2>4, <3>1 DEF Roles
  <2> QED
    BY <2>2, <2>3, <2>4
<1>8. Roles' = [y \in Fds |-> CASE y \in H!PipesOf(p, "used") -> "lost"
                                [] y \in H!PipesOf(p, "ending") -> "abandoned"
                                [] OTHER -> Roles[y]]
  BY <1>7 DEF Roles
<1>9. UNCHANGED <<Owners, Unread, Open, BeingRemoved>> /\ BeingRemoved = {}
  BY <1>1, <1>4 DEF Owners, Unread, Open, BeingRemoved
<1> QED
  BY <1>8, <1>9 DEF H!Replace

\* A number that is closed is nobody's, and the others keep their roles.
LEMMA ClosedStep ==
  ASSUME OutputInv, NEW x \in Fds, file' = [file EXCEPT ![x] = NoFile],
         UNCHANGED <<poll_fds, phase, pipe>>,
         \A y \in Fds : y # x => (Removing(y)' <=> Removing(y))
  PROVE  H!Drop(x)
<1>1. /\ file'[x] = NoFile /\ NoFile.kind = "free"
      /\ \A y \in Fds : y # x => file'[y] = file[y]
  BY OneFile DEF NoFile
<1>2. \A y \in Fds : y # x => (StaledFd(y)' <=> StaledFd(y))
  BY DEF StaledFd, StaleEntry
<1>3. \A q \in Procs, y \in Fds : Uses(q, y)' <=> Uses(q, y)
  BY DEF Uses
<1>4. \A y \in Fds : Role(y)' = IF y = x THEN "nobody" ELSE Role(y)
  <2>1. Role(x)' = "nobody"
    BY <1>1 DEF Role
  <2>2. \A y \in Fds : y # x => Role(y)' = Role(y)
    BY <1>1, <1>2, <1>3, SameRole
  <2> QED
    BY <2>1, <2>2
<1>5. Roles' = [Roles EXCEPT ![x] = "nobody"]
  BY <1>4 DEF Roles
<1>6. /\ Owners' = [Owners EXCEPT ![x] = "none"]
      /\ Unread' = [Unread EXCEPT ![x] = 0]
      /\ Open' = [Open EXCEPT ![x] = FALSE]
  <2>1. /\ Owners' = [Owners EXCEPT ![x] = NoFile.of]
        /\ Unread' = [Unread EXCEPT ![x] = NoFile.data]
        /\ Open' = [Open EXCEPT ![x] = NoFile.writer]
    BY OneMapped
  <2>2. NoFile.of = "none" /\ NoFile.data = 0 /\ NoFile.writer = FALSE
    BY DEF NoFile
  <2> QED
    BY <2>1, <2>2
<1> QED
  BY <1>5, <1>6 DEF H!Drop

\* The main thread closes a pipe that was given up, and that was read to the end
\* unless no process answers to its number any more.
LEMMA CloseOutputStep ==
  ASSUME HandoverInv, CloseOutput
  PROVE  \E x \in Fds : H!Close(x)
<1>0. PICK x : x = current.fd
  OBVIOUS
<1>1. /\ main = "close" /\ main' = "remove" /\ UNCHANGED <<poll_fds, phase, pipe, current>>
      /\ file' = [file EXCEPT ![x] = NoFile]
  BY <1>0 DEF CloseOutput, worker_vars
<1>2. x \in Fds /\ file[x].kind = "pipe" /\ file[x].of \in Procs
  <2>1. x \in AllFds /\ file[x].kind = "pipe"
    BY <1>0, <1>1, CurrentPipe DEF HandoverInv
  <2> QED
    BY <2>1 DEF HandoverInv, OutputInv, Files
<1>3. /\ \A y : ~Removing(y) /\ (Removing(y)' <=> y = x)
  BY <1>0, <1>1 DEF Removing
<1>4. StaledFd(x)
  <2>1. Kept(current) /\ current.stale
    BY <1>1 DEF HandoverInv, OutputInv, Current
  <2> QED
    BY <1>0, <1>3, <2>1 DEF Kept, StaledFd, StaleEntry
<1>5. \A p \in Procs : ~Uses(p, x)
  BY <1>4, StaledIsUnused DEF HandoverInv
<1>6. Roles[x] = IF pipe[file[x].of] = x THEN "ending" ELSE "abandoned"
  BY <1>2, <1>4, <1>5 DEF Roles, Role
<1>7. Roles[x] = "ending" => H!Drained(x)
  <2>1. ASSUME pipe[file[x].of] = x PROVE Ended(x)
    BY <1>0, <1>1, <1>2, <2>1 DEF HandoverInv, Hangups
  <2> QED
    BY <1>2, <1>6, <2>1 DEF H!Drained, Ended, Unread, Open
<1>8. H!Drop(x)
  BY <1>1, <1>2, <1>3, ClosedStep DEF HandoverInv
<1>9. BeingRemoved = {} /\ BeingRemoved' = {x}
  BY <1>2, <1>3 DEF BeingRemoved
<1> QED
  BY <1>2, <1>6, <1>7, <1>8, <1>9 DEF H!Close

LEMMA CloseClientStep ==
  ASSUME OutputInv, CloseClient
  PROVE  \E x \in Fds : H!Disconnect(x)
<1>0. PICK x : x = current.fd
  OBVIOUS
<1>1. /\ main = "hangup" /\ main' = "handle" /\ UNCHANGED <<poll_fds, phase, pipe>>
      /\ file' = [file EXCEPT ![x] = NoFile] /\ file[x].kind = "client"
  BY <1>0 DEF CloseClient, worker_vars, OutputInv, Current
<1>2. x \in Fds
  <2>1. x \in AllFds
    BY <1>0, <1>1 DEF OutputInv, Current, TypeOK, EventType, NoEvent
  <2> QED
    BY <1>1, <2>1 DEF OutputInv, Files
<1>3. \A y : ~Removing(y) /\ ~Removing(y)'
  BY <1>1 DEF Removing
<1>4. H!Drop(x)
  BY <1>1, <1>2, <1>3, ClosedStep
<1>5. Roles[x] = "client"
  BY <1>1, <1>2 DEF Roles, Role
<1>6. UNCHANGED BeingRemoved
  BY <1>3 DEF BeingRemoved
<1> QED
  BY <1>2, <1>4, <1>5, <1>6 DEF H!Disconnect

\* The stale entry of the number that was closed leaves the list.  If another pipe
\* has the number, its entry is not stale.
LEMMA RemoveOutputStep ==
  ASSUME OutputInv, RemoveOutput
  PROVE  H!Forget
<1>0. PICK x : x = current.fd
  OBVIOUS
<1>1. /\ main = "remove" /\ main' = "handle" /\ UNCHANGED <<file, phase, pipe>>
      /\ RemovePollFd(x)
  BY <1>0 DEF RemoveOutput, worker_vars
<1>2. \A y : (Removing(y) <=> y = x) /\ ~Removing(y)'
  BY <1>0, <1>1 DEF Removing
<1>3. PICK k : k = IndexOf(poll_fds, x)
  OBVIOUS
<1>4. TypeOK
  BY DEF OutputInv
<1>5. /\ k \in DOMAIN poll_fds /\ poll_fds[k].fd = x
      /\ \A j \in DOMAIN poll_fds : poll_fds[j].fd = x => j = k \/ k < j
      /\ \A i \in DOMAIN poll_fds' : \E j \in DOMAIN poll_fds : j # k /\ poll_fds'[i] = poll_fds[j]
      /\ \A i \in DOMAIN poll_fds : i # k => \E j \in DOMAIN poll_fds' : poll_fds'[j] = poll_fds[i]
  BY <1>1, <1>3, <1>4, TakenOut
<1>6. ~StaleEntry(x)'
  <2>1. ASSUME NEW j \in DOMAIN poll_fds, j # k, poll_fds[j].fd = x
        PROVE  ~poll_fds[j].stale
    <3>1. k < j
      BY <1>5, <2>1
    <3> QED
      BY <1>5, <2>1, <3>1 DEF OutputInv, Entries
  <2> QED
    BY <1>5, <2>1 DEF StaleEntry
<1>7. \A y : y # x => (StaleEntry(y)' <=> StaleEntry(y))
  <2>1. ASSUME NEW y, y # x, StaleEntry(y)' PROVE StaleEntry(y)
    BY <1>5, <2>1 DEF StaleEntry
  <2>2. ASSUME NEW y, y # x, StaleEntry(y) PROVE StaleEntry(y)'
    BY <1>5, <2>2 DEF StaleEntry
  <2> QED
    BY <2>1, <2>2
<1>8. \A y \in Fds : StaledFd(y)' <=> StaledFd(y)
  BY <1>2, <1>6, <1>7 DEF StaledFd
<1>9. \A q \in Procs, y \in Fds : Uses(q, y)' <=> Uses(q, y)
  BY <1>1 DEF Uses
<1>10. UNCHANGED <<Roles, Owners, Unread, Open>>
  BY <1>1, <1>8, <1>9, SameRoles
<1>11. BeingRemoved' = {}
  BY <1>2 DEF BeingRemoved
<1> QED
  BY <1>10, <1>11 DEF H!Forget

-----------------------------------------------------------------------------
(* Every step is one of Handover or changes nothing in it.                  *)

LEMMA InitHandsOver ==
  ASSUME Init
  PROVE  H!Init /\ HandoverInv
<1>1. /\ main = "idle" /\ events = {}
      /\ file = [fd \in AllFds |-> IF fd \in Fds THEN NoFile
                                   ELSE [NoFile EXCEPT !.kind = fd, !.writer = TRUE]]
  BY DEF Init
<1>2. \A x \in Fds : /\ file[x].kind = "free" /\ file[x].of = "none"
                     /\ file[x].data = 0 /\ file[x].writer = FALSE
  <2>1. \A x \in Fds : file[x] = NoFile
    BY <1>1 DEF AllFds
  <2> QED
    BY <2>1 DEF NoFile
<1>3. \A x \in Fds : Role(x) = "nobody" /\ ~Removing(x)
  BY <1>1, <1>2 DEF Role, Removing
<1>4. H!Init
  BY <1>2, <1>3 DEF H!Init, Roles, Owners, Unread, Open, BeingRemoved
<1> QED
  BY <1>1, <1>4, InitOutputInv DEF HandoverInv, Hangups

LEMMA StepHandsOver ==
  ASSUME HandoverInv, [Next]_vars
  PROVE  H!Next \/ UNCHANGED H!vars
<1> DEFINE Goal == H!Next \/ UNCHANGED H!vars
<1> HIDE DEF Goal
<1>0. OutputInv
  BY DEF HandoverInv
<1>1. ASSUME NEW p \in Procs,
             \/ StartProcess(p) \/ Register(p) \/ EndProcess(p) \/ StaleProcess(p)
             \/ ReloadProcess(p) \/ ReadOutput(p) \/ DieOfBrokenPipe(p)
      PROVE  Goal
  <2>1. ASSUME StartProcess(p) PROVE Goal
    BY <1>0, <2>1, StartProcessStep DEF Goal, H!Next
  <2>2. ASSUME StaleProcess(p) \/ ReloadProcess(p) PROVE Goal
    BY <1>0, <2>2, StaleProcessStep, ReloadProcessStep DEF Goal, H!Next
  <2>3. ASSUME ReadOutput(p) PROVE Goal
    BY <1>0, <2>3, ReadOutputStep DEF Goal, H!Next
  <2>4. ASSUME Register(p) PROVE Goal
    BY <1>0, <2>4, RegisterStep DEF Goal
  <2>5. ASSUME EndProcess(p) \/ DieOfBrokenPipe(p) PROVE Goal
    BY <1>0, <2>5, QuietSteps DEF Goal
  <2> QED
    BY <1>1, <2>1, <2>2, <2>3, <2>4, <2>5
<1>2. ASSUME CloseOutput \/ RemoveOutput \/ CloseClient PROVE Goal
  BY <1>0, <1>2, CloseOutputStep, RemoveOutputStep, CloseClientStep DEF Goal, H!Next
<1>3. ASSUME NEW e \in events, HandleConnection(e) PROVE Goal
  BY <1>0, <1>3, HandleConnectionStep DEF Goal, H!Next
<1>4. ASSUME NEW e \in events, HandleDisconnect(e) PROVE Goal
  BY <1>0, <1>4, HandleDisconnectStep DEF Goal
<1>5. ASSUME \/ \E c \in Clients : ClientConnects(c) \/ ClientSends(c)
             \/ TakeSnapshot \/ PollReturns \/ EndBatch \/ WakeMain
             \/ \E e \in events : HandleOutput(e) \/ HandleWakeUp(e) \/ HandleAttach(e)
             \/ Dead \/ UNCHANGED vars
      PROVE  Goal
  BY <1>0, <1>5, QuietSteps DEF Goal, Dead
<1>6. ASSUME NEW x \in Fds, ChildWrites(x) \/ WriterCloses(x) PROVE Goal
  BY <1>0, <1>6, ChildStep DEF Goal, H!Next
<1>7. Goal
  BY <1>1, <1>2, <1>3, <1>4, <1>5, <1>6 DEF Next, Worker, Main
<1> QED
  BY <1>7 DEF Goal

\* The worker and the main thread hand the descriptor numbers over to each other as
\* module Handover says, whatever they race for: no pipe is closed under a process
\* that uses it, and none before its output was read to the end, except of a process
\* that has started again or was replaced.
THEOREM NumbersAreHandedOver == Spec => HandsOver
<1>1. HandoverInv /\ [Next]_vars => HandoverInv' /\ [H!Next]_(H!vars)
  BY NextHandoverInv, StepHandsOver
<1> QED
  BY <1>1, InitHandsOver, PTL DEF Spec, HandsOver, H!Spec
=============================================================================
