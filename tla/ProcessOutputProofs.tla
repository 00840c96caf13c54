------------------------ MODULE ProcessOutputProofs ------------------------
(***************************************************************************)
(* Proofs about module ProcessOutput, for any number of processes, clients *)
(* and descriptor numbers: the copies and the duplicates of the list       *)
(* PollFds never mislead the main thread or the worker.                    *)
(***************************************************************************)
EXTENDS ProcessOutput, WellFoundedInduction, TLAPS

\* A set of numbers that is not empty has a least one.
LEMMA LeastNumber ==
  ASSUME NEW S, S \subseteq Nat, S # {}
  PROVE  \E x \in S : \A y \in S : x <= y
<1>1. IsWellFoundedOn(OpToRel(<, Nat), Nat)
  BY NatLessThanWellFounded
<1>2. PICK x \in S : \A y \in S : ~(<<y, x>> \in OpToRel(<, Nat))
  BY <1>1, WFMin
<1>3. \A y \in S : ~(y < x)
  BY <1>2 DEF OpToRel
<1> QED
  BY <1>3

\* A lookup finds the first entry of the number.
LEMMA FirstEntry ==
  ASSUME TypeOK, NEW fd, Listed(fd)
  PROVE  /\ IndexOf(poll_fds, fd) \in DOMAIN poll_fds
         /\ poll_fds[IndexOf(poll_fds, fd)].fd = fd
         /\ \A j \in DOMAIN poll_fds : poll_fds[j].fd = fd => IndexOf(poll_fds, fd) <= j
<1> DEFINE I == {i \in 1..Len(poll_fds) : poll_fds[i].fd = fd}
<1>1. IndexOf(poll_fds, fd) = IF I # {} THEN Min(I) ELSE 0
  BY DEF IndexOf, SelectInSeq
<1>2. poll_fds \in Seq(EntryType) /\ DOMAIN poll_fds = 1..Len(poll_fds) /\ Len(poll_fds) \in Nat
  BY DEF TypeOK
<1>3. I # {} /\ I \subseteq Nat
  BY <1>2 DEF Listed
<1> HIDE DEF I
<1>4. \E x \in I : \A y \in I : x <= y
  BY <1>3, LeastNumber
<1>5. Min(I) \in I /\ \A y \in I : Min(I) <= y
  BY <1>4 DEF Min
<1> QED
  BY <1>1, <1>2, <1>3, <1>5 DEF I

\* Where an entry of the list without its k-th one comes from.
Before(k, i) == IF i < k THEN i ELSE i + 1

LEMMA Removed ==
  ASSUME NEW S, NEW s \in Seq(S), NEW k \in DOMAIN s
  PROVE  /\ RemoveAt(s, k) \in Seq(S)
         /\ Len(RemoveAt(s, k)) = Len(s) - 1
         /\ \A i \in DOMAIN RemoveAt(s, k) : RemoveAt(s, k)[i] = s[Before(k, i)]
<1>1. k \in 1..Len(s) /\ Len(s) \in Nat
  OBVIOUS
<1> DEFINE a == SubSeq(s, 1, k - 1)
           b == SubSeq(s, k + 1, Len(s))
<1>2. /\ a \in Seq(S) /\ Len(a) = k - 1
      /\ \A i \in 1..(k - 1) : a[i] = s[i]
  BY <1>1
<1>3. /\ b \in Seq(S) /\ Len(b) = Len(s) - k
      /\ \A i \in 1..(Len(s) - k) : b[i] = s[k + i]
  BY <1>1
<1> HIDE DEF a, b
<1>4. /\ a \o b \in Seq(S) /\ Len(a \o b) = Len(s) - 1
      /\ \A i \in 1..(Len(s) - 1) : (a \o b)[i] = IF i < k THEN a[i] ELSE b[i - k + 1]
  BY <1>1, <1>2, <1>3
<1>5. RemoveAt(s, k) = a \o b
  BY DEF RemoveAt, a, b
<1>6. ASSUME NEW i \in 1..(Len(s) - 1)
      PROVE  (a \o b)[i] = s[Before(k, i)]
  <2>1. CASE i < k
    BY <1>1, <1>2, <1>4, <2>1 DEF Before
  <2>2. CASE ~(i < k)
    <3>1. i - k + 1 \in 1..(Len(s) - k) /\ k + (i - k + 1) = i + 1
      BY <1>1, <2>2
    <3>2. b[i - k + 1] = s[i + 1]
      BY <1>3, <3>1
    <3> QED
      BY <1>4, <2>2, <3>2 DEF Before
  <2> QED
    BY <2>1, <2>2
<1> DEFINE r == a \o b
<1>7. r \in Seq(S) /\ Len(r) = Len(s) - 1 /\ \A i \in 1..(Len(s) - 1) : r[i] = s[Before(k, i)]
  BY <1>4, <1>6
<1> HIDE DEF r
<1>8. DOMAIN r = 1..(Len(s) - 1)
  BY <1>1, <1>7
<1>9. RemoveAt(s, k) = r
  BY <1>5 DEF r
<1> QED
  BY <1>7, <1>8, <1>9
-----------------------------------------------------------------------------
(* The list, and what an entry says of its file.                            *)

LEMMA ListTyped ==
  ASSUME TypeOK
  PROVE  /\ DOMAIN poll_fds = 1..Len(poll_fds) /\ Len(poll_fds) \in Nat
         /\ \A i \in DOMAIN poll_fds :
              /\ poll_fds[i] \in EntryType
              /\ poll_fds[i].fd \in AllFds /\ poll_fds[i].stale \in BOOLEAN
              /\ poll_fds[i].type \in {"Server", "Client", "Process", "WakeUp"}
<1>1. poll_fds \in Seq(EntryType)
  BY DEF TypeOK
<1>2. \A i \in DOMAIN poll_fds : poll_fds[i] \in EntryType
  BY <1>1
<1> QED
  BY <1>1, <1>2 DEF EntryType

LEMMA FileTyped ==
  ASSUME TypeOK, NEW fd \in AllFds
  PROVE  /\ file \in [AllFds -> FileType] /\ file[fd] \in FileType
         /\ file[fd].kind \in {"free", "pipe", "client", "server", "wake"}
         /\ file[fd].data \in 0..MaxData /\ file[fd].writer \in BOOLEAN
BY DEF TypeOK, FileType

\* What the main thread took from the list is of an open file, of the type it says.
LEMMA KeptIsOpen ==
  ASSUME OutputInv, NEW e, Kept(e), ~Removing(e.fd)
  PROVE  e.fd \in AllFds /\ file[e.fd].kind = Kind(e.type)
<1>1. PICK i \in DOMAIN poll_fds : poll_fds[i].fd = e.fd /\ poll_fds[i].type = e.type
  BY DEF Kept
<1>2. Matches(poll_fds[i])
  BY <1>1 DEF OutputInv, Entries
<1> QED
  BY <1>1, <1>2, ListTyped DEF OutputInv, Matches

\* A step that leaves the list, the processes and the attached clients alone, and
\* opens and closes nothing.
LEMMA SameList ==
  ASSUME OutputInv, UNCHANGED <<poll_fds, phase, pipe, attached, subscribed>>,
         \A fd \in AllFds : file'[fd].kind = file[fd].kind /\ file'[fd].of = file[fd].of,
         \/ main = "remove" /\ main' = "remove" /\ current' = current
         \/ main # "remove" /\ main' # "remove"
  PROVE  Files' /\ Entries' /\ RunningIsPolled' /\ SubscribersAreServed'
<1>1. \A fd : Removing(fd)' <=> Removing(fd)
  BY DEF Removing
<1>2. \A p, fd : Uses(p, fd)' <=> Uses(p, fd)
  BY DEF Uses
<1>3. Files'
  <2>1. \A fd \in Fds : fd \in AllFds
    BY DEF AllFds
  <2> QED
    BY <1>2, <2>1 DEF OutputInv, Files
<1>4. \A i \in DOMAIN poll_fds : Matches(poll_fds[i])' <=> Matches(poll_fds[i])
  BY ListTyped DEF OutputInv, Matches
<1>5. Entries'
  BY <1>1, <1>2, <1>4 DEF OutputInv, Entries
<1>6. RunningIsPolled'
  <2>1. ASSUME NEW p \in Procs, phase'[p] \in {"up", "ended"}
        PROVE  \E i \in DOMAIN poll_fds' :
                 poll_fds'[i] = Entry(pipe'[p], "Process") /\ file'[pipe'[p]].of = p
    <3>1. pipe[p] \in AllFds
      BY <2>1 DEF OutputInv, Files, TypeOK, AllFds
    <3> QED
      BY <2>1, <3>1 DEF OutputInv, RunningIsPolled
  <2> QED
    BY <2>1 DEF RunningIsPolled, Entry
<1>7. SubscribersAreServed'
  <2>1. ASSUME NEW s \in subscribed
        PROVE  \E fd \in attached[s[2]] : file'[fd].kind = "client" /\ file'[fd].of = s[1]
    <3>1. attached[s[2]] \subseteq AllFds
      BY DEF OutputInv, TypeOK, AllFds
    <3> QED
      BY <2>1, <3>1 DEF OutputInv, SubscribersAreServed
  <2> QED
    BY <2>1 DEF SubscribersAreServed
<1> QED
  BY <1>3, <1>5, <1>6, <1>7

\* A step that does not touch the list keeps what was taken from it.
LEMMA SameKept ==
  ASSUME poll_fds' = poll_fds, NEW e
  PROVE  Kept(e)' <=> Kept(e)
BY DEF Kept

\* Nothing that the batch is made of changes.
LEMMA SameBatch ==
  ASSUME OutputInv, UNCHANGED poll_fds, UNCHANGED batch_vars,
         \A fd \in AllFds : file'[fd].kind = file[fd].kind
  PROVE  Batch' /\ Current'
<1> USE DEF batch_vars
<1>1. \A e : Kept(e)' <=> Kept(e)
  BY SameKept
<1>2. Batch'
  BY <1>1 DEF OutputInv, Batch
<1>3. Current'
  <2>1. main = "hangup" => current.fd \in AllFds
    BY DEF OutputInv, Current, TypeOK, EventType, NoEvent
  <2>2. \A fd : Listed(fd)' <=> Listed(fd)
    BY DEF Listed
  <2> QED
    BY <1>1, <2>1, <2>2 DEF OutputInv, Current
<1> QED
  BY <1>2, <1>3

-----------------------------------------------------------------------------
(* The steps that leave the list and the processes alone.                   *)

LEMMA ChildInv ==
  ASSUME OutputInv, NEW fd \in Fds, ChildWrites(fd) \/ WriterCloses(fd)
  PROVE  OutputInv'
<1>1. fd \in AllFds /\ file[fd] \in FileType /\ MaxData \in Nat
  BY FileTyped, ProcessOutputAssumption DEF OutputInv, AllFds
<1>2. PICK f \in FileType : /\ file' = [file EXCEPT ![fd] = f]
                            /\ f.kind = file[fd].kind /\ f.of = file[fd].of
  <2>1. CASE ChildWrites(fd)
    <3> DEFINE f == [file[fd] EXCEPT !.data = file[fd].data + 1]
    <3>1. file' = [file EXCEPT ![fd] = f] /\ file[fd].data < MaxData
      BY <2>1 DEF ChildWrites
    <3>2. f \in FileType /\ f.kind = file[fd].kind /\ f.of = file[fd].of
      BY <1>1, <3>1 DEF FileType
    <3> QED
      BY <3>1, <3>2
  <2>2. CASE WriterCloses(fd)
    <3> DEFINE f == [file[fd] EXCEPT !.writer = FALSE]
    <3>1. file' = [file EXCEPT ![fd] = f]
      BY <2>2 DEF WriterCloses
    <3>2. f \in FileType /\ f.kind = file[fd].kind /\ f.of = file[fd].of
      BY <1>1 DEF FileType
    <3> QED
      BY <3>1, <3>2
  <2> QED
    BY <2>1, <2>2
<1>3. /\ UNCHANGED <<poll_fds, worker_vars, attached, client_vars, subscribed, batch_vars>>
      /\ UNCHANGED <<poll_fds, phase, pipe, waking, attached, subscribed, main, current>>
  BY DEF ChildWrites, WriterCloses, worker_vars, batch_vars
<1>4. TypeOK'
  BY <1>1, <1>2, <1>3 DEF OutputInv, TypeOK, worker_vars, client_vars, batch_vars
<1>5. \A x \in AllFds : file'[x].kind = file[x].kind /\ file'[x].of = file[x].of
  BY <1>1, <1>2 DEF OutputInv, TypeOK
<1> QED
  BY <1>3, <1>4, <1>5, SameList, SameBatch DEF OutputInv

LEMMA ClientInv ==
  ASSUME OutputInv, NEW c \in Clients, ClientConnects(c) \/ ClientSends(c)
  PROVE  OutputInv'
<1>1. /\ UNCHANGED <<file, poll_fds, worker_vars, attached, subscribed, batch_vars>>
      /\ UNCHANGED <<file, poll_fds, phase, pipe, waking, attached, subscribed, main, current>>
  BY DEF ClientConnects, ClientSends, worker_vars, batch_vars
<1>2. conn' \in [Clients -> {"out", "connecting", "in"}] /\ request' \in [Clients -> Requests]
  BY DEF OutputInv, TypeOK, ClientConnects, ClientSends
<1>3. TypeOK'
  BY <1>1, <1>2 DEF OutputInv, TypeOK, worker_vars, batch_vars
<1> QED
  BY <1>1, <1>3, SameList, SameBatch DEF OutputInv

LEMMA TakeSnapshotInv ==
  ASSUME OutputInv, TakeSnapshot
  PROVE  OutputInv'
<1>1. /\ main = "idle" /\ main' = "poll" /\ snapshot' = poll_fds
      /\ UNCHANGED <<file, poll_fds, phase, pipe, waking, attached, conn, request, subscribed,
                     events, current, readers>>
  BY DEF TakeSnapshot, worker_vars, client_vars
<1>2. TypeOK'
  BY <1>1 DEF OutputInv, TypeOK
<1>3. Batch'
  <2>1. ASSUME NEW i \in DOMAIN poll_fds, NEW j \in DOMAIN poll_fds,
               poll_fds[i].fd = poll_fds[j].fd
        PROVE  i = j
    <3>1. ~(i < j) /\ ~(j < i)
      BY <1>1, <2>1 DEF OutputInv, Entries, Removing
    <3> QED
      BY <3>1, ListTyped DEF OutputInv
  <2>2. \A i \in DOMAIN poll_fds : Kept(poll_fds[i])'
    BY <1>1 DEF Kept
  <2> QED
    BY <1>1, <2>1, <2>2 DEF OutputInv, Batch
<1>4. Current'
  BY <1>1 DEF Current
<1> QED
  BY <1>1, <1>2, <1>3, <1>4, SameList DEF OutputInv

LEMMA PollReturnsInv ==
  ASSUME OutputInv, PollReturns
  PROVE  OutputInv'
<1>1. /\ main = "poll" /\ main' = "handle" /\ snapshot' = <<>>
      /\ events' = {Event(e) : e \in {d \in Range(snapshot) : Ready(d.fd)}}
      /\ UNCHANGED <<file, poll_fds, phase, pipe, waking, attached, conn, request, subscribed,
                     current, readers>>
  BY DEF PollReturns, worker_vars, client_vars
<1>2. \A f \in events' : \E i \in DOMAIN snapshot :
        /\ f = Event(snapshot[i]) /\ f.fd = snapshot[i].fd
        /\ f.type = snapshot[i].type /\ f.stale = snapshot[i].stale
  BY <1>1 DEF Range, Event
<1>3. TypeOK'
  <2>1. \A i \in DOMAIN snapshot : snapshot[i] \in EntryType
    BY DEF OutputInv, TypeOK
  <2>2. \A e \in EntryType : Event(e) \in EventType
    BY FileTyped DEF OutputInv, EntryType, EventType, Event
  <2>3. events' \subseteq EventType
    BY <1>2, <2>1, <2>2
  <2>4. <<>> \in Seq(EntryType)
    OBVIOUS
  <2> QED
    BY <1>1, <2>3, <2>4 DEF OutputInv, TypeOK
<1>4. Batch'
  <2>1. ASSUME NEW f \in events' PROVE Kept(f)'
    <3>1. PICK i \in DOMAIN snapshot :
            /\ f.fd = snapshot[i].fd /\ f.type = snapshot[i].type
            /\ f.stale = snapshot[i].stale
      BY <1>2
    <3>2. Kept(snapshot[i])
      BY <1>1 DEF OutputInv, Batch
    <3> QED
      BY <1>1, <3>1, <3>2 DEF Kept
  <2>2. ASSUME NEW f \in events', NEW g \in events', f.fd = g.fd PROVE f = g
    BY <1>1, <1>2, <2>2 DEF OutputInv, Batch
  <2> QED
    BY <1>1, <2>1, <2>2 DEF Batch
<1>5. Current'
  BY <1>1 DEF Current
<1> QED
  BY <1>1, <1>3, <1>4, <1>5, SameList DEF OutputInv

LEMMA EndBatchInv ==
  ASSUME OutputInv, EndBatch
  PROVE  OutputInv'
<1>1. /\ main = "handle" /\ main' = "idle" /\ events = {}
      /\ UNCHANGED <<file, poll_fds, phase, pipe, waking, attached, conn, request, subscribed,
                     snapshot, events, current, readers>>
  BY DEF EndBatch, worker_vars, client_vars
<1>2. TypeOK'
  BY <1>1 DEF OutputInv, TypeOK
<1>3. Batch' /\ Current'
  BY <1>1 DEF Batch, Current
<1> QED
  BY <1>1, <1>2, <1>3, SameList DEF OutputInv

\* The wake-up pipe is a file of its own.
LEMMA WakePipe ==
  ASSUME OutputInv, NEW n \in 0..1, file' = [file EXCEPT !["wake"].data = n]
  PROVE  /\ file' \in [AllFds -> FileType]
         /\ \A fd \in AllFds : file'[fd].kind = file[fd].kind /\ file'[fd].of = file[fd].of
<1>1. file \in [AllFds -> FileType] /\ "wake" \in AllFds /\ n \in 0..MaxData
  BY ProcessOutputAssumption DEF OutputInv, TypeOK, AllFds
<1> DEFINE f == [file["wake"] EXCEPT !.data = n]
<1>2. file' = [file EXCEPT !["wake"] = f]
  OBVIOUS
<1>3. f \in FileType /\ f.kind = file["wake"].kind /\ f.of = file["wake"].of
  BY <1>1 DEF FileType
<1> HIDE DEF f
<1> QED
  BY <1>1, <1>2, <1>3

LEMMA HandleWakeUpInv ==
  ASSUME OutputInv, NEW e \in events, HandleWakeUp(e)
  PROVE  OutputInv'
<1>1. /\ main = "handle" /\ events' = events \ {e}
      /\ file' = [file EXCEPT !["wake"].data = 0]
      /\ UNCHANGED <<poll_fds, phase, pipe, waking, attached, conn, request, subscribed,
                     main, snapshot, current, readers>>
  BY DEF HandleWakeUp, Handling, worker_vars, client_vars
<1>2. /\ file' \in [AllFds -> FileType]
      /\ \A fd \in AllFds : file'[fd].kind = file[fd].kind /\ file'[fd].of = file[fd].of
  BY <1>1, WakePipe
<1>3. TypeOK'
  BY <1>1, <1>2 DEF OutputInv, TypeOK
<1>4. Batch' /\ Current'
  <2>1. \A x : Kept(x)' <=> Kept(x)
    BY <1>1, SameKept
  <2> QED
    BY <1>1, <2>1 DEF OutputInv, Batch, Current
<1> QED
  BY <1>1, <1>2, <1>3, <1>4, SameList DEF OutputInv

LEMMA WakeMainInv ==
  ASSUME OutputInv, WakeMain
  PROVE  OutputInv'
<1>1. /\ file' = [file EXCEPT !["wake"].data = 1] /\ waking' = FALSE
      /\ UNCHANGED <<poll_fds, phase, pipe, attached, conn, request, subscribed,
                     main, snapshot, events, current, readers>>
      /\ UNCHANGED batch_vars
  BY DEF WakeMain, client_vars, batch_vars
<1>2. /\ file' \in [AllFds -> FileType]
      /\ \A fd \in AllFds : file'[fd].kind = file[fd].kind /\ file'[fd].of = file[fd].of
  BY <1>1, WakePipe
<1>3. TypeOK'
  BY <1>1, <1>2 DEF OutputInv, TypeOK
<1>4. Batch' /\ Current'
  BY <1>1, <1>2, SameBatch
<1> QED
  BY <1>1, <1>2, <1>3, <1>4, SameList DEF OutputInv

\* Where the main thread goes from an entry that was read, or gave nothing to read.
LEMMA ContinueTyped ==
  ASSUME NEW e \in EventType, NEW r \in BOOLEAN, Continue(e, r)
  PROVE  \/ main' = "close" /\ current' = e /\ e.stale
         \/ main' = "handle" /\ current' = NoEvent
<1>1. CASE e.stale /\ ~r
  <2>1. AfterRead(e, r) = "close"
    BY <1>1, Zenon DEF AfterRead
  <2> QED
    BY <1>1, <2>1 DEF Continue
<1>2. CASE ~(e.stale /\ ~r)
  <2>1. AfterRead(e, r) = "handle"
    BY <1>2, Zenon DEF AfterRead
  <2> QED
    BY <2>1 DEF Continue
<1> QED
  BY <1>1, <1>2

LEMMA HandleOutputInv ==
  ASSUME OutputInv, NEW e \in events, HandleOutput(e)
  PROVE  OutputInv'
<1>1. /\ main = "handle" /\ events' = events \ {e} /\ e.type = "Process"
      /\ UNCHANGED <<file, poll_fds, phase, pipe, waking, attached, conn, request, subscribed,
                     snapshot>>
  BY DEF HandleOutput, Handling, worker_vars, client_vars
<1>2. e \in EventType /\ Kept(e)
  BY DEF OutputInv, TypeOK, Batch
<1>3. readers' \subseteq Procs
  BY DEF HandleOutput, OutputInv, TypeOK
<1>4. \/ main' = "close" /\ current' = e /\ e.stale
      \/ main' = "handle" /\ current' = NoEvent
      \/ main' = "read" /\ current' = e
  BY <1>2, ContinueTyped DEF HandleOutput
<1>5. TypeOK'
  BY <1>1, <1>2, <1>3, <1>4 DEF OutputInv, TypeOK
<1>6. \A x : Kept(x)' <=> Kept(x)
  BY <1>1, SameKept
<1>7. Batch'
  BY <1>1, <1>4, <1>6 DEF OutputInv, Batch
<1>8. Current'
  BY <1>1, <1>2, <1>4, <1>6 DEF Current
<1> QED
  BY <1>1, <1>4, <1>5, <1>7, <1>8, SameList DEF OutputInv

LEMMA ReadOutputInv ==
  ASSUME OutputInv, NEW p \in Procs, ReadOutput(p)
  PROVE  OutputInv'
<1>1. /\ main = "read"
      /\ file' = [file EXCEPT ![current.fd].data = Drained(file[current.fd].data)]
      /\ UNCHANGED <<poll_fds, phase, pipe, waking, attached, conn, request, subscribed,
                     snapshot, events>>
      /\ readers' = readers \ {p}
  BY DEF ReadOutput, worker_vars, client_vars
<1>2. Kept(current) /\ current.type = "Process" /\ current \in EventType
  BY <1>1 DEF OutputInv, Current, TypeOK, NoEvent
<1>3. current.fd \in AllFds /\ file[current.fd] \in FileType
  BY <1>1, <1>2, FileTyped DEF OutputInv, EventType
<1>4. \/ main' = "close" /\ current' = current /\ current.stale
      \/ main' = "handle" /\ current' = NoEvent
      \/ main' = "read" /\ current' = current
  <2> DEFINE r == file[current.fd].data > 0
  <2>1. r \in BOOLEAN
    BY DEF r
  <2>2. readers' = {} => Continue(current, r)
    BY DEF ReadOutput
  <2>3. readers' # {} => main' = main /\ current' = current
    BY DEF ReadOutput
  <2> HIDE DEF r
  <2> QED
    BY <1>1, <1>2, <2>1, <2>2, <2>3, ContinueTyped
<1>5. /\ file' \in [AllFds -> FileType]
      /\ \A fd \in AllFds : file'[fd].kind = file[fd].kind /\ file'[fd].of = file[fd].of
  <2>1. file \in [AllFds -> FileType] /\ MaxData \in Nat
    BY ProcessOutputAssumption DEF OutputInv, TypeOK
  <2>2. PICK f \in FileType : /\ file' = [file EXCEPT ![current.fd] = f]
                              /\ f.kind = file[current.fd].kind
                              /\ f.of = file[current.fd].of
    <3> DEFINE f == [file[current.fd] EXCEPT !.data = Drained(file[current.fd].data)]
    <3>1. file' = [file EXCEPT ![current.fd] = f]
      BY <1>1
    <3>2. file[current.fd].data \in 0..MaxData
      BY <1>3 DEF FileType
    <3>3. Drained(file[current.fd].data) \in 0..MaxData
      BY <2>1, <3>2 DEF Drained
    <3>4. f \in FileType /\ f.kind = file[current.fd].kind /\ f.of = file[current.fd].of
      BY <1>3, <3>3 DEF FileType
    <3> QED
      BY <3>1, <3>4
  <2> QED
    BY <1>3, <2>1, <2>2
<1>6. TypeOK'
  BY <1>1, <1>2, <1>3, <1>4, <1>5 DEF OutputInv, TypeOK
<1>7. \A x : Kept(x)' <=> Kept(x)
  BY <1>1, SameKept
<1>8. Batch'
  BY <1>1, <1>4, <1>7 DEF OutputInv, Batch
<1>9. Current'
  BY <1>1, <1>2, <1>4, <1>7 DEF Current
<1> QED
  BY <1>1, <1>4, <1>5, <1>6, <1>8, <1>9, SameList DEF OutputInv

LEMMA DieOfBrokenPipeInv ==
  ASSUME OutputInv, NEW p \in Procs, DieOfBrokenPipe(p)
  PROVE  OutputInv'
<1>1. /\ main = "read" /\ main' = "dead" /\ readers' = {} /\ events' = {}
      /\ current' = NoEvent
      /\ UNCHANGED <<file, poll_fds, phase, pipe, waking, attached, conn, request, subscribed,
                     snapshot>>
  BY DEF DieOfBrokenPipe, worker_vars, client_vars
<1>2. TypeOK'
  BY <1>1 DEF OutputInv, TypeOK
<1>3. Batch' /\ Current'
  BY <1>1 DEF Batch, Current
<1> QED
  BY <1>1, <1>2, <1>3, SameList DEF OutputInv

-----------------------------------------------------------------------------
(* The steps that change the list, the processes or what is open.           *)

LEMMA StartProcessInv ==
  ASSUME OutputInv, NEW p \in Procs, StartProcess(p)
  PROVE  OutputInv'
<1>1. PICK fd \in Free :
        /\ file' = [file EXCEPT ![fd] = [kind |-> "pipe", of |-> p, data |-> 0,
                                         writer |-> TRUE]]
        /\ pipe' = [pipe EXCEPT ![p] = fd]
        /\ phase' = [phase EXCEPT ![p] = "forked"]
        /\ UNCHANGED <<poll_fds, waking, attached, conn, request, subscribed, main,
                       snapshot, events, current, readers>>
  BY DEF StartProcess, client_vars, batch_vars
<1>2. /\ fd \in Fds /\ fd \in AllFds /\ file[fd].kind = "free" /\ MaxData \in Nat
      /\ file \in [AllFds -> FileType] /\ phase[p] \notin {"forked", "up", "ended"}
  BY ProcessOutputAssumption DEF Free, AllFds, StartProcess, OutputInv, TypeOK
<1>3. /\ file'[fd].kind = "pipe" /\ file'[fd].of = p
      /\ \A x \in AllFds \ {fd} : file'[x] = file[x]
  BY <1>1, <1>2
<1>4. /\ phase'[p] = "forked" /\ pipe'[p] = fd
      /\ \A q \in Procs \ {p} : phase'[q] = phase[q] /\ pipe'[q] = pipe[q]
  BY <1>1 DEF OutputInv, TypeOK
<1>5. \A q \in Procs : \A x : Uses(q, x)' <=> Uses(q, x) \/ (q = p /\ x = fd)
  BY <1>2, <1>4 DEF Uses
<1>6. TypeOK'
  <2>1. [kind |-> "pipe", of |-> p, data |-> 0, writer |-> TRUE] \in FileType
    BY <1>2 DEF FileType
  <2> QED
    BY <1>1, <1>2, <2>1 DEF OutputInv, TypeOK
<1>7. Files'
  <2>1. \A x \in Fds : x \in AllFds
    BY DEF AllFds
  <2> QED
    BY <1>2, <1>3, <1>4, <1>5, <2>1 DEF OutputInv, Files, NoFd
<1>8. Entries'
  <2>1. ASSUME NEW i \in DOMAIN poll_fds, poll_fds[i].fd = fd
        PROVE  Removing(fd) /\ poll_fds[i].stale
    <3>1. ~Matches(poll_fds[i])
      BY <1>2, <2>1 DEF Matches, Kind
    <3> QED
      BY <2>1, <3>1 DEF OutputInv, Entries
  <2>2. \A i \in DOMAIN poll_fds :
          poll_fds[i].fd # fd => (Matches(poll_fds[i])' <=> Matches(poll_fds[i]))
    BY <1>1, <1>3, ListTyped DEF OutputInv, Matches
  <2>3. \A x : Removing(x)' <=> Removing(x)
    BY <1>1 DEF Removing
  <2> QED
    BY <1>1, <1>4, <1>5, <2>1, <2>2, <2>3 DEF OutputInv, Entries
<1>9. Batch' /\ Current'
  <2>1. \A e : Kept(e)' <=> Kept(e)
    BY <1>1, SameKept
  <2>2. main = "hangup" => current.fd \in AllFds \ {fd}
    BY <1>2 DEF OutputInv, Current, TypeOK, EventType, NoEvent
  <2>3. \A x : Listed(x)' <=> Listed(x)
    BY <1>1 DEF Listed
  <2> QED
    BY <1>1, <1>3, <2>1, <2>2, <2>3 DEF OutputInv, Batch, Current
<1>10. RunningIsPolled'
  <2>1. ASSUME NEW q \in Procs, phase'[q] \in {"up", "ended"}
        PROVE  \E i \in DOMAIN poll_fds' :
                 poll_fds'[i] = Entry(pipe'[q], "Process") /\ file'[pipe'[q]].of = q
    <3>1. q # p /\ pipe'[q] = pipe[q] /\ phase[q] \in {"up", "ended"}
      BY <1>4, <2>1
    <3>2. pipe[q] \in AllFds \ {fd}
      BY <1>2, <3>1 DEF OutputInv, Files, Uses, TypeOK, AllFds
    <3> QED
      BY <1>1, <1>3, <3>1, <3>2 DEF OutputInv, RunningIsPolled
  <2> QED
    BY <2>1 DEF RunningIsPolled, Entry
<1>11. SubscribersAreServed'
  <2>1. ASSUME NEW s \in subscribed
        PROVE  \E x \in attached[s[2]] : file'[x].kind = "client" /\ file'[x].of = s[1]
    <3>1. PICK x \in attached[s[2]] : file[x].kind = "client" /\ file[x].of = s[1]
      BY DEF OutputInv, SubscribersAreServed
    <3>2. x \in AllFds \ {fd}
      BY <1>2, <3>1 DEF OutputInv, TypeOK, AllFds
    <3> QED
      BY <1>3, <3>1, <3>2
  <2> QED
    BY <1>1, <2>1 DEF SubscribersAreServed
<1> QED
  BY <1>6, <1>7, <1>8, <1>9, <1>10, <1>11 DEF OutputInv

LEMMA EndProcessInv ==
  ASSUME OutputInv, NEW p \in Procs, EndProcess(p)
  PROVE  OutputInv'
<1>1. /\ phase[p] = "up" /\ phase' = [phase EXCEPT ![p] = "ended"]
      /\ UNCHANGED <<file, poll_fds, pipe, waking, attached, conn, request, subscribed,
                     batch_vars>>
      /\ UNCHANGED <<main, snapshot, events, current, readers>>
  BY DEF EndProcess, client_vars, batch_vars
<1>2. /\ phase'[p] = "ended" /\ \A q \in Procs \ {p} : phase'[q] = phase[q]
  BY <1>1 DEF OutputInv, TypeOK
<1>3. \A q \in Procs : \A x : Uses(q, x)' <=> Uses(q, x)
  BY <1>1, <1>2 DEF Uses
<1>4. TypeOK'
  BY <1>1 DEF OutputInv, TypeOK
<1>5. Files'
  BY <1>1, <1>2, <1>3 DEF OutputInv, Files
<1>6. Entries'
  <2>1. \A i \in DOMAIN poll_fds : Matches(poll_fds[i])' <=> Matches(poll_fds[i])
    BY <1>1 DEF Matches
  <2>2. \A x : Removing(x)' <=> Removing(x)
    BY <1>1 DEF Removing
  <2> QED
    BY <1>1, <1>2, <1>3, <2>1, <2>2 DEF OutputInv, Entries
<1>7. RunningIsPolled'
  BY <1>1, <1>2 DEF OutputInv, RunningIsPolled, Entry
<1>8. SubscribersAreServed'
  BY <1>1 DEF OutputInv, SubscribersAreServed
<1> QED
  BY <1>1, <1>4, <1>5, <1>6, <1>7, <1>8, SameBatch DEF OutputInv

\* add_poll_fd.
LEMMA Appended ==
  ASSUME TypeOK, NEW fd \in AllFds, NEW type \in {"Process", "Client"}, AddPollFd(fd, type)
  PROVE  /\ poll_fds' \in Seq(EntryType)
         /\ DOMAIN poll_fds' = DOMAIN poll_fds \cup {Len(poll_fds) + 1}
         /\ DOMAIN poll_fds = 1..Len(poll_fds) /\ Len(poll_fds) \in Nat
         /\ \A i \in DOMAIN poll_fds : poll_fds'[i] = poll_fds[i]
         /\ poll_fds'[Len(poll_fds) + 1] = Entry(fd, type)
         /\ \A e : Kept(e) => Kept(e)'
         /\ \A x : Listed(x)' => Listed(x) \/ x = fd
<1>1. poll_fds \in Seq(EntryType) /\ poll_fds' = Append(poll_fds, Entry(fd, type))
  BY DEF TypeOK, AddPollFd
<1>2. Entry(fd, type) \in EntryType /\ Entry(fd, type).fd = fd
  BY DEF Entry, EntryType
<1> DEFINE e == Entry(fd, type)
<1>3. /\ poll_fds' \in Seq(EntryType)
      /\ DOMAIN poll_fds' = DOMAIN poll_fds \cup {Len(poll_fds) + 1}
      /\ DOMAIN poll_fds = 1..Len(poll_fds) /\ Len(poll_fds) \in Nat
      /\ \A i \in DOMAIN poll_fds : poll_fds'[i] = poll_fds[i]
      /\ poll_fds'[Len(poll_fds) + 1] = e
  <2> HIDE DEF e
  <2>1. e \in EntryType /\ poll_fds' = Append(poll_fds, e)
    BY <1>1, <1>2 DEF e
  <2> QED
    BY <1>1, <2>1
<1>4. \A x : Kept(x) => Kept(x)'
  BY <1>3 DEF Kept
<1>5. \A x : Listed(x)' => Listed(x) \/ x = fd
  BY <1>2, <1>3 DEF Listed
<1> QED
  BY <1>3, <1>4, <1>5

LEMMA RegisterInv ==
  ASSUME OutputInv, NEW p \in Procs, Register(p)
  PROVE  OutputInv'
<1> DEFINE n == Len(poll_fds) + 1
           fd == pipe[p]
<1>1. /\ phase[p] = "forked" /\ AddPollFd(fd, "Process")
      /\ waking' = TRUE
      /\ phase' = [phase EXCEPT ![p] = "up"]
      /\ UNCHANGED <<file, pipe, attached, conn, request, subscribed, main, snapshot, events,
                     current, readers>>
  BY DEF Register, client_vars, batch_vars
<1>2. /\ fd \in Fds /\ fd \in AllFds /\ file[fd].kind = "pipe" /\ file[fd].of = p
      /\ Uses(p, fd)
  BY <1>1 DEF OutputInv, Files, Uses, TypeOK, AllFds
<1>3. /\ phase'[p] = "up" /\ \A q \in Procs \ {p} : phase'[q] = phase[q]
  BY <1>1 DEF OutputInv, TypeOK
<1>4. /\ poll_fds' \in Seq(EntryType) /\ DOMAIN poll_fds' = DOMAIN poll_fds \cup {n}
      /\ DOMAIN poll_fds = 1..Len(poll_fds) /\ Len(poll_fds) \in Nat
      /\ \A i \in DOMAIN poll_fds : poll_fds'[i] = poll_fds[i]
      /\ poll_fds'[n] = Entry(fd, "Process")
      /\ \A e : Kept(e) => Kept(e)'
      /\ \A x : Listed(x)' => Listed(x) \/ x = fd
  BY <1>1, <1>2, Appended DEF OutputInv
<1>5. /\ file' \in [AllFds -> FileType]
      /\ \A x \in AllFds : file'[x].kind = file[x].kind /\ file'[x].of = file[x].of
  BY <1>1 DEF OutputInv, TypeOK
<1>6. \A q \in Procs : \A x : Uses(q, x)' <=> Uses(q, x)
  BY <1>1, <1>3 DEF Uses
<1>7. TypeOK'
  BY <1>1, <1>4, <1>5 DEF OutputInv, TypeOK
<1>8. Files'
  <2>1. \A x \in Fds : x \in AllFds
    BY DEF AllFds
  <2> QED
    BY <1>1, <1>3, <1>5, <1>6, <2>1 DEF OutputInv, Files
<1>9. Entries'
  <2>1. \A i \in DOMAIN poll_fds :
          file'[poll_fds[i].fd].kind = Kind(poll_fds[i].type) <=> Matches(poll_fds[i])
    BY <1>5, ListTyped DEF OutputInv, Matches
  <2>2. \A x : Removing(x)' <=> Removing(x)
    BY <1>1 DEF Removing
  <2>3. \A i \in DOMAIN poll_fds : poll_fds[i].fd = fd => Removing(fd) /\ poll_fds[i].stale
    BY <1>1 DEF OutputInv, Entries
  <2>4. /\ poll_fds'[n].fd = fd /\ poll_fds'[n].stale = FALSE
        /\ file'[fd].kind = Kind(poll_fds'[n].type)
    BY <1>2, <1>4, <1>5 DEF Entry, Kind
  <2>5. \A q \in Procs : phase'[q] = "forked" => phase[q] = "forked" /\ pipe[q] # fd
    BY <1>1, <1>2, <1>3 DEF OutputInv, Files, Uses
  <2>6. ASSUME NEW i \in DOMAIN poll_fds
        PROVE  LET e == poll_fds[i] IN
               /\ file'[e.fd].kind = Kind(e.type) \/ (Removing(e.fd) /\ e.stale)
               /\ e.stale => /\ e.type = "Process"
                             /\ Removing(e.fd) \/ \A q \in Procs : ~Uses(q, e.fd)
               /\ \A j \in DOMAIN poll_fds' : i < j /\ poll_fds'[j].fd = e.fd =>
                    Removing(e.fd) /\ e.stale /\ ~poll_fds'[j].stale
               /\ \A q \in Procs : phase'[q] = "forked" /\ pipe[q] = e.fd =>
                    Removing(e.fd) /\ e.stale
    BY <1>4, <2>1, <2>3, <2>4, <2>5 DEF OutputInv, Entries
  <2>7. \A j \in DOMAIN poll_fds' : ~(n < j)
    BY <1>4
  <2>8. ASSUME NEW i \in DOMAIN poll_fds'
        PROVE  LET e == poll_fds'[i] IN
               /\ file'[e.fd].kind = Kind(e.type) \/ (Removing(e.fd) /\ e.stale)
               /\ e.stale => /\ e.type = "Process"
                             /\ Removing(e.fd) \/ \A q \in Procs : ~Uses(q, e.fd)
               /\ \A j \in DOMAIN poll_fds' : i < j /\ poll_fds'[j].fd = e.fd =>
                    Removing(e.fd) /\ e.stale /\ ~poll_fds'[j].stale
               /\ \A q \in Procs : phase'[q] = "forked" /\ pipe[q] = e.fd =>
                    Removing(e.fd) /\ e.stale
    <3>1. CASE i \in DOMAIN poll_fds
      <4>1. poll_fds'[i] = poll_fds[i]
        BY <1>4, <3>1
      <4> QED
        BY <2>6, <3>1, <4>1
    <3>2. CASE i = n
      BY <2>4, <2>5, <2>7, <3>2
    <3> QED
      BY <1>4, <3>1, <3>2
  <2> QED
    BY <1>1, <1>6, <2>2, <2>8 DEF Entries, Matches
<1>10. Batch' /\ Current'
  <2>1. main = "hangup" => current.fd \in AllFds /\ current.fd # fd
    BY <1>2 DEF OutputInv, Current, TypeOK, EventType, NoEvent
  <2> QED
    BY <1>1, <1>4, <1>5, <2>1 DEF OutputInv, Batch, Current
<1>11. RunningIsPolled'
  <2>1. ASSUME NEW q \in Procs, phase'[q] \in {"up", "ended"}
        PROVE  \E i \in DOMAIN poll_fds' :
                 poll_fds'[i] = Entry(pipe'[q], "Process") /\ file'[pipe'[q]].of = q
    <3>1. CASE q = p
      BY <1>1, <1>2, <1>4, <1>5, <3>1
    <3>2. CASE q # p
      <4>1. phase[q] \in {"up", "ended"} /\ pipe[q] \in AllFds
        BY <1>3, <2>1, <3>2 DEF OutputInv, Files, TypeOK, AllFds
      <4> QED
        BY <1>1, <1>4, <1>5, <4>1 DEF OutputInv, RunningIsPolled
    <3> QED
      BY <3>1, <3>2
  <2> QED
    BY <2>1 DEF RunningIsPolled, Entry
<1>12. SubscribersAreServed'
  <2>1. \A s \in subscribed : attached[s[2]] \subseteq AllFds
    BY DEF OutputInv, TypeOK, AllFds
  <2> QED
    BY <1>1, <1>5, <2>1 DEF OutputInv, SubscribersAreServed
<1> QED
  BY <1>7, <1>8, <1>9, <1>10, <1>11, <1>12 DEF OutputInv

\* stale_poll_fd marks the first entry of the number.
LEMMA Staled ==
  ASSUME TypeOK, NEW fd, StalePollFd(fd), NEW k, k = IndexOf(poll_fds, fd)
  PROVE  /\ poll_fds' \in Seq(EntryType) /\ DOMAIN poll_fds' = DOMAIN poll_fds
         /\ k \in DOMAIN poll_fds /\ poll_fds[k].fd = fd
         /\ \A j \in DOMAIN poll_fds : poll_fds[j].fd = fd => j = k \/ k < j
         /\ poll_fds'[k].fd = fd /\ poll_fds'[k].stale
         /\ poll_fds'[k].type = poll_fds[k].type
         /\ \A i \in DOMAIN poll_fds : i # k => poll_fds'[i] = poll_fds[i]
<1>1. poll_fds' = [poll_fds EXCEPT ![k].stale = TRUE] /\ Listed(fd)
  BY DEF StalePollFd
<1>2. /\ k \in DOMAIN poll_fds /\ poll_fds[k].fd = fd
      /\ \A j \in DOMAIN poll_fds : poll_fds[j].fd = fd => k <= j
  BY <1>1, FirstEntry
<1>3. /\ DOMAIN poll_fds = 1..Len(poll_fds) /\ Len(poll_fds) \in Nat
      /\ poll_fds \in Seq(EntryType) /\ poll_fds[k] \in EntryType
  BY <1>2, ListTyped DEF TypeOK
<1> DEFINE f == [poll_fds[k] EXCEPT !.stale = TRUE]
<1>4. poll_fds' = [poll_fds EXCEPT ![k] = f]
  BY <1>1
<1>5. /\ f \in EntryType /\ f.fd = poll_fds[k].fd /\ f.type = poll_fds[k].type
      /\ f.stale = TRUE
  BY <1>3 DEF EntryType
<1> HIDE DEF f
<1>6. poll_fds' \in Seq(EntryType) /\ DOMAIN poll_fds' = DOMAIN poll_fds
  BY <1>2, <1>3, <1>4, <1>5
<1>7. poll_fds'[k] = f /\ \A i \in DOMAIN poll_fds : i # k => poll_fds'[i] = poll_fds[i]
  BY <1>2, <1>4
<1>8. \A j \in DOMAIN poll_fds : poll_fds[j].fd = fd => j = k \/ k < j
  BY <1>2, <1>3
<1> QED
  BY <1>2, <1>5, <1>6, <1>7, <1>8

LEMMA StaleProcessInv ==
  ASSUME OutputInv, NEW p \in Procs, StaleProcess(p)
  PROVE  OutputInv'
<1>1. PICK fd, k : fd = pipe[p] /\ k = IndexOf(poll_fds, fd)
  OBVIOUS
<1>2. /\ phase[p] = "ended" /\ StalePollFd(fd)
      /\ waking' = TRUE
      /\ phase' = [phase EXCEPT ![p] = "down"]
      /\ UNCHANGED <<file, pipe, attached, conn, request, subscribed, main, snapshot, events,
                     current, readers>>
  BY <1>1 DEF StaleProcess, client_vars, batch_vars
<1>3. /\ fd \in Fds /\ fd \in AllFds /\ file[fd].kind = "pipe" /\ file[fd].of = p
      /\ Uses(p, fd)
  BY <1>1, <1>2 DEF OutputInv, Files, Uses, TypeOK, AllFds
<1>4. /\ phase'[p] = "down" /\ \A q \in Procs \ {p} : phase'[q] = phase[q]
  BY <1>2 DEF OutputInv, TypeOK
<1>5. /\ poll_fds' \in Seq(EntryType) /\ DOMAIN poll_fds' = DOMAIN poll_fds
      /\ k \in DOMAIN poll_fds /\ poll_fds[k].fd = fd
      /\ \A j \in DOMAIN poll_fds : poll_fds[j].fd = fd => j = k \/ k < j
      /\ poll_fds'[k].fd = fd /\ poll_fds'[k].stale
      /\ poll_fds'[k].type = poll_fds[k].type
      /\ \A i \in DOMAIN poll_fds : i # k => poll_fds'[i] = poll_fds[i]
  BY <1>1, <1>2, Staled DEF OutputInv
<1>6. /\ file' \in [AllFds -> FileType]
      /\ \A x \in AllFds : file'[x].kind = file[x].kind /\ file'[x].of = file[x].of
  BY <1>2 DEF OutputInv, TypeOK
<1>7. \A q \in Procs : \A x : Uses(q, x)' <=> Uses(q, x) /\ q # p
  BY <1>2, <1>4 DEF Uses
<1>8. \A q \in Procs : ~Uses(q, fd)'
  BY <1>3, <1>7 DEF OutputInv, Files
<1>9. \A x : Kept(x) => Kept(x)'
  BY <1>5 DEF Kept
<1>10. TypeOK'
  BY <1>2, <1>5, <1>6 DEF OutputInv, TypeOK
<1>11. Files'
  <2>1. \A x \in Fds : x \in AllFds
    BY DEF AllFds
  <2> QED
    BY <1>2, <1>4, <1>6, <1>7, <2>1 DEF OutputInv, Files
<1>12. Entries'
  <2>1. \A i \in DOMAIN poll_fds :
          file'[poll_fds[i].fd].kind = Kind(poll_fds[i].type) <=> Matches(poll_fds[i])
    BY <1>6, ListTyped DEF OutputInv, Matches
  <2>2. \A x : Removing(x)' <=> Removing(x)
    BY <1>2 DEF Removing
  <2>3. \A i \in DOMAIN poll_fds : poll_fds'[i].fd = poll_fds[i].fd
                                   /\ poll_fds'[i].type = poll_fds[i].type
    BY <1>5
  <2>4. poll_fds[k].type = "Process" /\ Matches(poll_fds[k])
    <3>1. PICK i \in DOMAIN poll_fds : poll_fds[i] = Entry(fd, "Process")
      BY <1>1, <1>2 DEF OutputInv, RunningIsPolled
    <3>2. i = k \/ (k < i /\ poll_fds[i].fd = poll_fds[k].fd)
      BY <1>5, <3>1 DEF Entry
    <3>3. poll_fds[k].type = "Process"
      BY <1>5, <3>1, <3>2 DEF OutputInv, Entries, Entry
    <3> QED
      BY <1>3, <1>5, <3>3 DEF Matches, Kind
  <2>5. \A q \in Procs : phase'[q] = "forked" => phase[q] = "forked" /\ pipe[q] # fd
    BY <1>2, <1>3, <1>4 DEF OutputInv, Files, Uses
  <2>6. ASSUME NEW i \in DOMAIN poll_fds
        PROVE  LET e == poll_fds'[i] IN
               /\ file'[e.fd].kind = Kind(e.type) \/ (Removing(e.fd) /\ e.stale)
               /\ e.stale => /\ e.type = "Process"
                             /\ Removing(e.fd) \/ \A q \in Procs : ~(Uses(q, e.fd) /\ q # p)
               /\ \A j \in DOMAIN poll_fds : i < j /\ poll_fds'[j].fd = e.fd =>
                    Removing(e.fd) /\ e.stale /\ ~poll_fds'[j].stale
               /\ \A q \in Procs : phase'[q] = "forked" /\ pipe[q] = e.fd =>
                    Removing(e.fd) /\ e.stale
    <3>1. CASE i = k
      <4>1. file'[fd].kind = Kind(poll_fds'[k].type) /\ poll_fds'[k].type = "Process"
        BY <1>5, <2>1, <2>4
      <4>2. ASSUME NEW j \in DOMAIN poll_fds, k < j, poll_fds'[j].fd = fd
            PROVE  Removing(fd) /\ ~poll_fds'[j].stale
        <5>1. j # k /\ poll_fds[j].fd = poll_fds[k].fd
          BY <1>5, <2>3, <4>2, ListTyped DEF OutputInv
        <5> QED
          BY <1>5, <4>2, <5>1 DEF OutputInv, Entries
      <4> QED
        BY <1>5, <1>7, <1>8, <2>5, <3>1, <4>1, <4>2
    <3>2. CASE i # k
      <4>1. poll_fds'[i] = poll_fds[i]
        BY <1>5, <3>2
      <4>2. \A j \in DOMAIN poll_fds : i < j /\ poll_fds[j].fd = poll_fds[i].fd => j # k
        <5>1. ~(i < k /\ k < i)
          BY <1>5, ListTyped DEF OutputInv
        <5> QED
          BY <1>5, <3>2, <5>1
      <4>3. \A j \in DOMAIN poll_fds : i < j /\ poll_fds'[j].fd = poll_fds[i].fd =>
              /\ Removing(poll_fds[i].fd) /\ poll_fds[i].stale
              /\ ~poll_fds'[j].stale
        BY <1>5, <2>3, <4>2 DEF OutputInv, Entries
      <4> QED
        BY <2>1, <2>5, <4>1, <4>3 DEF OutputInv, Entries
    <3> QED
      BY <3>1, <3>2
  <2> QED
    BY <1>2, <1>5, <1>7, <2>2, <2>6 DEF Entries, Matches
<1>13. Batch' /\ Current'
  <2>1. \A x : Listed(x)' <=> Listed(x)
    BY <1>5 DEF Listed
  <2>2. main = "hangup" => current.fd \in AllFds
    BY DEF OutputInv, Current, TypeOK, EventType, NoEvent
  <2> QED
    BY <1>2, <1>6, <1>9, <2>1, <2>2 DEF OutputInv, Batch, Current
<1>14. RunningIsPolled'
  <2>1. ASSUME NEW q \in Procs, phase'[q] \in {"up", "ended"}
        PROVE  \E i \in DOMAIN poll_fds' :
                 poll_fds'[i] = Entry(pipe[q], "Process") /\ file'[pipe[q]].of = q
    <3>1. q # p /\ phase[q] \in {"up", "ended"}
      BY <1>4, <2>1
    <3>2. pipe[q] \in AllFds /\ pipe[q] # fd
      BY <1>3, <3>1 DEF OutputInv, Files, Uses, AllFds
    <3>3. PICK i \in DOMAIN poll_fds :
            poll_fds[i] = Entry(pipe[q], "Process") /\ file[pipe[q]].of = q
      BY <3>1 DEF OutputInv, RunningIsPolled
    <3>4. i # k
      BY <1>5, <3>2, <3>3 DEF Entry
    <3> QED
      BY <1>5, <1>6, <3>2, <3>3, <3>4
  <2> QED
    BY <1>2, <2>1 DEF RunningIsPolled, Entry
<1>15. SubscribersAreServed'
  <2>1. \A s \in subscribed : attached[s[2]] \subseteq AllFds
    BY DEF OutputInv, TypeOK, AllFds
  <2> QED
    BY <1>2, <1>6, <2>1 DEF OutputInv, SubscribersAreServed
<1> QED
  BY <1>10, <1>11, <1>12, <1>13, <1>14, <1>15 DEF OutputInv

\* A step that closes the number x, which no process uses, and leaves the processes
\* alone.
LEMMA ClosedFiles ==
  ASSUME OutputInv, NEW x \in Fds, \A p \in Procs : ~Uses(p, x),
         file' = [file EXCEPT ![x] = NoFile], UNCHANGED <<phase, pipe, poll_fds>>
  PROVE  /\ file' \in [AllFds -> FileType] /\ file'[x].kind = "free"
         /\ \A y \in AllFds : y # x => file'[y] = file[y]
         /\ Files' /\ RunningIsPolled'
<1>1. x \in AllFds /\ file \in [AllFds -> FileType] /\ MaxData \in Nat
  BY ProcessOutputAssumption DEF AllFds, OutputInv, TypeOK
<1>2. NoFile \in FileType /\ NoFile.kind = "free"
  BY <1>1 DEF NoFile, FileType
<1>3. /\ file' \in [AllFds -> FileType] /\ file'[x].kind = "free"
      /\ \A y \in AllFds : y # x => file'[y] = file[y]
  BY <1>1, <1>2
<1>4. \A p \in Procs : \A y : Uses(p, y)' <=> Uses(p, y)
  BY DEF Uses
<1>5. \A y \in Fds : y \in AllFds
  BY DEF AllFds
<1>6. Files'
  BY <1>3, <1>4, <1>5 DEF OutputInv, Files
<1>7. RunningIsPolled'
  <2>1. ASSUME NEW p \in Procs, phase[p] \in {"up", "ended"}
        PROVE  pipe[p] \in AllFds /\ pipe[p] # x
    BY <2>1, <1>5 DEF OutputInv, Files, Uses
  <2> QED
    BY <1>3, <2>1 DEF OutputInv, RunningIsPolled, Entry
<1> QED
  BY <1>3, <1>6, <1>7

LEMMA CloseOutputInv ==
  ASSUME OutputInv, CloseOutput
  PROVE  OutputInv'
<1>1. PICK x : x = current.fd
  OBVIOUS
<1>2. /\ main = "close" /\ main' = "remove" /\ file' = [file EXCEPT ![x] = NoFile]
      /\ UNCHANGED <<poll_fds, phase, pipe, waking, attached, conn, request, subscribed,
                     snapshot, events, current, readers>>
  BY <1>1 DEF CloseOutput, worker_vars, client_vars
<1>3. /\ current.type = "Process" /\ Kept(current) /\ current.stale
      /\ \A y : ~Removing(y)
  BY <1>2 DEF OutputInv, Current, Removing
<1>4. x \in Fds /\ x \in AllFds /\ file[x].kind = "pipe"
  BY <1>1, <1>3, KeptIsOpen DEF OutputInv, Files, Kind
<1>5. PICK k \in DOMAIN poll_fds : poll_fds[k].fd = x /\ poll_fds[k].stale
  BY <1>1, <1>3 DEF Kept
<1>6. \A p \in Procs : ~Uses(p, x)
  BY <1>3, <1>5 DEF OutputInv, Entries
<1>7. /\ file' \in [AllFds -> FileType] /\ file'[x].kind = "free"
      /\ \A y \in AllFds : y # x => file'[y] = file[y]
      /\ Files' /\ RunningIsPolled'
  BY <1>2, <1>4, <1>6, ClosedFiles
<1>8. TypeOK'
  BY <1>2, <1>7 DEF OutputInv, TypeOK
<1>9. Entries'
  <2>1. \A y : Removing(y)' <=> y = x
    BY <1>1, <1>2 DEF Removing
  <2>2. \A p \in Procs : \A y : Uses(p, y)' <=> Uses(p, y)
    BY <1>2 DEF Uses
  <2>3. ASSUME NEW i \in DOMAIN poll_fds, poll_fds[i].fd = x
        PROVE  i = k
    <3>1. ~(i < k) /\ ~(k < i)
      BY <1>3, <1>5, <2>3 DEF OutputInv, Entries
    <3> QED
      BY <3>1, ListTyped DEF OutputInv
  <2>4. ASSUME NEW i \in DOMAIN poll_fds, poll_fds[i].fd # x
        PROVE  file'[poll_fds[i].fd].kind = Kind(poll_fds[i].type)
    BY <1>3, <1>7, <2>4, ListTyped DEF OutputInv, Entries, Matches
  <2>5. ASSUME NEW i \in DOMAIN poll_fds
        PROVE  LET e == poll_fds[i] IN
               /\ file'[e.fd].kind = Kind(e.type) \/ (e.fd = x /\ e.stale)
               /\ e.stale => e.type = "Process" /\ \A p \in Procs : ~Uses(p, e.fd)
               /\ \A j \in DOMAIN poll_fds : ~(i < j /\ poll_fds[j].fd = e.fd)
               /\ \A p \in Procs : ~(phase[p] = "forked" /\ pipe[p] = e.fd)
    BY <1>3, <1>5, <2>3, <2>4 DEF OutputInv, Entries
  <2> QED
    BY <1>2, <2>1, <2>2, <2>5 DEF Entries, Matches
<1>10. Batch' /\ Current'
  <2>1. \A y : Kept(y)' <=> Kept(y)
    BY <1>2, SameKept
  <2> QED
    BY <1>2, <1>3, <2>1 DEF OutputInv, Batch, Current
<1>11. SubscribersAreServed'
  <2>1. \A s \in subscribed : attached[s[2]] \subseteq AllFds
    BY DEF OutputInv, TypeOK, AllFds
  <2> QED
    BY <1>2, <1>4, <1>7, <2>1 DEF OutputInv, SubscribersAreServed
<1> QED
  BY <1>7, <1>8, <1>9, <1>10, <1>11 DEF OutputInv

\* remove_poll_fd takes the first entry of the number out and keeps the order of
\* the others.
LEMMA TakenOut ==
  ASSUME TypeOK, NEW fd, RemovePollFd(fd), NEW k, k = IndexOf(poll_fds, fd)
  PROVE  /\ poll_fds' \in Seq(EntryType)
         /\ k \in DOMAIN poll_fds /\ poll_fds[k].fd = fd
         /\ \A j \in DOMAIN poll_fds : poll_fds[j].fd = fd => j = k \/ k < j
         /\ \A i \in DOMAIN poll_fds' : /\ Before(k, i) \in DOMAIN poll_fds
                                        /\ Before(k, i) # k
                                        /\ poll_fds'[i] = poll_fds[Before(k, i)]
         /\ \A i, j \in DOMAIN poll_fds' : i < j => Before(k, i) < Before(k, j)
         /\ \A i \in DOMAIN poll_fds : i # k =>
              \E j \in DOMAIN poll_fds' : poll_fds'[j] = poll_fds[i]
<1>1. poll_fds' = RemoveAt(poll_fds, k) /\ Listed(fd)
  BY DEF RemovePollFd
<1>2. /\ k \in DOMAIN poll_fds /\ poll_fds[k].fd = fd
      /\ \A j \in DOMAIN poll_fds : poll_fds[j].fd = fd => k <= j
  BY <1>1, FirstEntry
<1>3. /\ DOMAIN poll_fds = 1..Len(poll_fds) /\ Len(poll_fds) \in Nat
      /\ poll_fds \in Seq(EntryType)
  BY ListTyped DEF TypeOK
<1>4. /\ poll_fds' \in Seq(EntryType) /\ Len(poll_fds') = Len(poll_fds) - 1
      /\ \A i \in DOMAIN poll_fds' : poll_fds'[i] = poll_fds[Before(k, i)]
  <2> DEFINE r == RemoveAt(poll_fds, k)
  <2>1. /\ r \in Seq(EntryType) /\ Len(r) = Len(poll_fds) - 1
        /\ \A i \in DOMAIN r : r[i] = poll_fds[Before(k, i)]
    BY <1>2, <1>3, Removed
  <2>2. poll_fds' = r
    BY <1>1
  <2> HIDE DEF r
  <2> QED
    BY <2>1, <2>2
<1>5. DOMAIN poll_fds' = 1..(Len(poll_fds) - 1)
  BY <1>2, <1>3, <1>4
<1>6. \A i \in DOMAIN poll_fds' : Before(k, i) \in DOMAIN poll_fds /\ Before(k, i) # k
  BY <1>2, <1>3, <1>5 DEF Before
<1>7. \A i, j \in DOMAIN poll_fds' : i < j => Before(k, i) < Before(k, j)
  BY <1>2, <1>3, <1>5 DEF Before
<1>8. ASSUME NEW i \in DOMAIN poll_fds, i # k
      PROVE  \E j \in DOMAIN poll_fds' : poll_fds'[j] = poll_fds[i]
  <2>1. CASE i < k
    <3>1. i \in DOMAIN poll_fds' /\ Before(k, i) = i
      BY <1>2, <1>3, <1>5, <2>1 DEF Before
    <3> QED
      BY <1>4, <3>1
  <2>2. CASE k < i
    <3>1. i - 1 \in DOMAIN poll_fds' /\ Before(k, i - 1) = i
      BY <1>2, <1>3, <1>5, <2>2 DEF Before
    <3> QED
      BY <1>4, <3>1
  <2> QED
    BY <1>2, <1>3, <1>8, <2>1, <2>2
<1>9. \A j \in DOMAIN poll_fds : poll_fds[j].fd = fd => j = k \/ k < j
  BY <1>2, <1>3
<1> QED
  BY <1>2, <1>4, <1>6, <1>7, <1>8, <1>9

\* A step that leaves files and processes alone.
LEMMA SameFiles ==
  ASSUME OutputInv, UNCHANGED <<file, phase, pipe>>
  PROVE  /\ Files' /\ \A q, x : Uses(q, x)' <=> Uses(q, x)
<1>1. \A q, x : Uses(q, x)' <=> Uses(q, x)
  BY DEF Uses
<1>2. Files'
  BY <1>1 DEF OutputInv, Files
<1> QED
  BY <1>1, <1>2

LEMMA RemoveOutputInv ==
  ASSUME OutputInv, RemoveOutput
  PROVE  OutputInv'
<1>1. PICK x, k : x = current.fd /\ k = IndexOf(poll_fds, x)
  OBVIOUS
<1>2. /\ main = "remove" /\ main' = "handle" /\ current' = NoEvent /\ RemovePollFd(x)
      /\ UNCHANGED <<file, phase, pipe, waking, attached, conn, request, subscribed,
                     snapshot, events, readers>>
  BY <1>1 DEF RemoveOutput, worker_vars, client_vars
<1>3. /\ poll_fds' \in Seq(EntryType)
      /\ k \in DOMAIN poll_fds /\ poll_fds[k].fd = x
      /\ \A j \in DOMAIN poll_fds : poll_fds[j].fd = x => j = k \/ k < j
      /\ \A i \in DOMAIN poll_fds' : /\ Before(k, i) \in DOMAIN poll_fds
                                     /\ Before(k, i) # k
                                     /\ poll_fds'[i] = poll_fds[Before(k, i)]
      /\ \A i, j \in DOMAIN poll_fds' : i < j => Before(k, i) < Before(k, j)
      /\ \A i \in DOMAIN poll_fds : i # k =>
           \E j \in DOMAIN poll_fds' : poll_fds'[j] = poll_fds[i]
  BY <1>1, <1>2, TakenOut DEF OutputInv
<1>4. \A y : ~Removing(y)' /\ (Removing(y) => y = x)
  BY <1>1, <1>2 DEF Removing
<1>5. poll_fds[k].stale
  <2>1. PICK i \in DOMAIN poll_fds : poll_fds[i].fd = x /\ poll_fds[i].stale
    BY <1>1, <1>2 DEF OutputInv, Current, Kept
  <2> QED
    BY <1>3, <2>1 DEF OutputInv, Entries
<1>6. \A m \in DOMAIN poll_fds : m # k /\ poll_fds[m].fd = x => ~poll_fds[m].stale
  BY <1>3 DEF OutputInv, Entries
<1>7. TypeOK'
  BY <1>2, <1>3 DEF OutputInv, TypeOK
<1>8. Files' /\ \A q, y : Uses(q, y)' <=> Uses(q, y)
  BY <1>2, SameFiles
<1>9. Entries'
  <2>1. ASSUME NEW m \in DOMAIN poll_fds, m # k
        PROVE  LET e == poll_fds[m] IN
               /\ Matches(e)
               /\ e.stale => e.type = "Process" /\ \A q \in Procs : ~Uses(q, e.fd)
               /\ \A n \in DOMAIN poll_fds : n # k => ~(m < n /\ poll_fds[n].fd = e.fd)
               /\ \A q \in Procs : ~(phase[q] = "forked" /\ pipe[q] = e.fd)
    BY <1>4, <1>6, <2>1 DEF OutputInv, Entries
  <2>2. ASSUME NEW i \in DOMAIN poll_fds'
        PROVE  LET e == poll_fds'[i] IN
               /\ Matches(e)
               /\ e.stale => e.type = "Process" /\ \A q \in Procs : ~Uses(q, e.fd)
               /\ \A j \in DOMAIN poll_fds' : ~(i < j /\ poll_fds'[j].fd = e.fd)
               /\ \A q \in Procs : ~(phase[q] = "forked" /\ pipe[q] = e.fd)
    BY <1>3, <2>1
  <2> QED
    BY <1>2, <1>8, <2>2 DEF Entries, Matches
<1>10. Batch' /\ Current'
  <2>1. ASSUME NEW e \in events PROVE Kept(e)'
    <3>1. PICK i \in DOMAIN poll_fds : /\ poll_fds[i].fd = e.fd
                                       /\ poll_fds[i].type = e.type
                                       /\ e.stale => poll_fds[i].stale
      BY DEF OutputInv, Batch, Kept
    <3>2. i # k
      BY <1>1, <1>2, <1>3, <3>1 DEF OutputInv, Batch
    <3> QED
      BY <1>3, <3>1, <3>2 DEF Kept
  <2> QED
    BY <1>2, <2>1 DEF OutputInv, Batch, Current
<1>11. RunningIsPolled'
  <2>1. ASSUME NEW q \in Procs, phase[q] \in {"up", "ended"}
        PROVE  \E i \in DOMAIN poll_fds' :
                 poll_fds'[i] = Entry(pipe[q], "Process") /\ file[pipe[q]].of = q
    <3>1. PICK i \in DOMAIN poll_fds :
            poll_fds[i] = Entry(pipe[q], "Process") /\ file[pipe[q]].of = q
      BY <2>1 DEF OutputInv, RunningIsPolled
    <3>2. i # k
      BY <1>5, <3>1 DEF Entry
    <3> QED
      BY <1>3, <3>1, <3>2
  <2> QED
    BY <1>2, <2>1 DEF RunningIsPolled, Entry
<1>12. SubscribersAreServed'
  BY <1>2 DEF OutputInv, SubscribersAreServed
<1> QED
  BY <1>7, <1>8, <1>9, <1>10, <1>11, <1>12 DEF OutputInv

LEMMA HandleDisconnectInv ==
  ASSUME OutputInv, NEW e \in events, HandleDisconnect(e)
  PROVE  OutputInv'
<1>1. PICK x, k : x = e.fd /\ k = IndexOf(poll_fds, x)
  OBVIOUS
<1>2. /\ main = "handle" /\ main' = "hangup" /\ current' = e /\ RemovePollFd(x)
      /\ e.type = "Client" /\ events' = events \ {e}
      /\ UNCHANGED <<file, phase, pipe, waking, attached, conn, request, subscribed,
                     snapshot, readers>>
  BY <1>1 DEF HandleDisconnect, Handling, worker_vars, client_vars
<1>3. /\ poll_fds' \in Seq(EntryType)
      /\ k \in DOMAIN poll_fds /\ poll_fds[k].fd = x
      /\ \A j \in DOMAIN poll_fds : poll_fds[j].fd = x => j = k \/ k < j
      /\ \A i \in DOMAIN poll_fds' : /\ Before(k, i) \in DOMAIN poll_fds
                                     /\ Before(k, i) # k
                                     /\ poll_fds'[i] = poll_fds[Before(k, i)]
      /\ \A i, j \in DOMAIN poll_fds' : i < j => Before(k, i) < Before(k, j)
      /\ \A i \in DOMAIN poll_fds : i # k =>
           \E j \in DOMAIN poll_fds' : poll_fds'[j] = poll_fds[i]
  BY <1>1, <1>2, TakenOut DEF OutputInv
<1>4. \A y : ~Removing(y)' /\ ~Removing(y)
  BY <1>2 DEF Removing
<1>5. e \in EventType /\ Kept(e) /\ file[x].kind = "client"
  BY <1>1, <1>2, <1>4, KeptIsOpen DEF OutputInv, TypeOK, Batch, Kind
<1>6. \A m \in DOMAIN poll_fds : poll_fds[m].fd = x => m = k
  BY <1>3, <1>4 DEF OutputInv, Entries
<1>7. poll_fds[k].type = "Client"
  BY <1>1, <1>2, <1>5, <1>6 DEF Kept
<1>8. TypeOK'
  BY <1>2, <1>3, <1>5 DEF OutputInv, TypeOK
<1>9. Files' /\ \A q, y : Uses(q, y)' <=> Uses(q, y)
  BY <1>2, SameFiles
<1>10. Entries'
  <2>1. ASSUME NEW m \in DOMAIN poll_fds
        PROVE  LET f == poll_fds[m] IN
               /\ Matches(f)
               /\ f.stale => f.type = "Process" /\ \A q \in Procs : ~Uses(q, f.fd)
               /\ \A n \in DOMAIN poll_fds : ~(m < n /\ poll_fds[n].fd = f.fd)
               /\ \A q \in Procs : ~(phase[q] = "forked" /\ pipe[q] = f.fd)
    BY <1>4 DEF OutputInv, Entries
  <2>2. ASSUME NEW i \in DOMAIN poll_fds'
        PROVE  LET f == poll_fds'[i] IN
               /\ Matches(f)
               /\ f.stale => f.type = "Process" /\ \A q \in Procs : ~Uses(q, f.fd)
               /\ \A j \in DOMAIN poll_fds' : ~(i < j /\ poll_fds'[j].fd = f.fd)
               /\ \A q \in Procs : ~(phase[q] = "forked" /\ pipe[q] = f.fd)
    BY <1>3, <2>1
  <2> QED
    BY <1>2, <1>9, <2>2 DEF Entries, Matches
<1>11. Batch' /\ Current'
  <2>1. ASSUME NEW f \in events' PROVE Kept(f)' /\ f.fd # x /\ f \in events
    <3>1. f \in events /\ f # e
      BY <1>2
    <3>2. f.fd # x /\ Kept(f)
      BY <1>1, <3>1 DEF OutputInv, Batch
    <3>3. PICK i \in DOMAIN poll_fds : /\ poll_fds[i].fd = f.fd
                                       /\ poll_fds[i].type = f.type
                                       /\ f.stale => poll_fds[i].stale
      BY <3>2 DEF Kept
    <3>4. i # k
      BY <1>3, <3>2, <3>3
    <3> QED
      BY <1>3, <3>1, <3>2, <3>3, <3>4 DEF Kept
  <2>2. \A i \in DOMAIN poll_fds' : poll_fds'[i].fd # x
    BY <1>3, <1>6
  <2> QED
    BY <1>1, <1>2, <1>5, <2>1, <2>2 DEF OutputInv, Batch, Current, Listed
<1>12. RunningIsPolled'
  <2>1. ASSUME NEW q \in Procs, phase[q] \in {"up", "ended"}
        PROVE  \E i \in DOMAIN poll_fds' :
                 poll_fds'[i] = Entry(pipe[q], "Process") /\ file[pipe[q]].of = q
    <3>1. PICK i \in DOMAIN poll_fds :
            poll_fds[i] = Entry(pipe[q], "Process") /\ file[pipe[q]].of = q
      BY <2>1 DEF OutputInv, RunningIsPolled
    <3>2. i # k
      BY <1>7, <3>1 DEF Entry
    <3> QED
      BY <1>3, <3>1, <3>2
  <2> QED
    BY <1>2, <2>1 DEF RunningIsPolled, Entry
<1>13. SubscribersAreServed'
  BY <1>2 DEF OutputInv, SubscribersAreServed
<1> QED
  BY <1>8, <1>9, <1>10, <1>11, <1>12, <1>13 DEF OutputInv

LEMMA CloseClientInv ==
  ASSUME OutputInv, CloseClient
  PROVE  OutputInv'
<1>1. PICK x, c : x = current.fd /\ c = file[x].of
  OBVIOUS
<1>2. /\ main = "hangup" /\ main' = "handle" /\ current' = NoEvent
      /\ file' = [file EXCEPT ![x] = NoFile]
      /\ conn' = [conn EXCEPT ![c] = "out"]
      /\ request' = [request EXCEPT ![c] = [op |-> "none"]]
      /\ subscribed' = {s \in subscribed : s[1] # c}
      /\ UNCHANGED <<poll_fds, phase, pipe, waking, attached, snapshot, events, readers>>
  BY <1>1 DEF CloseClient, ClientAt, worker_vars
<1>3. /\ file[x].kind = "client" /\ x \in AllFds
      /\ \A i \in DOMAIN poll_fds : poll_fds[i].fd # x
  BY <1>1, <1>2 DEF OutputInv, Current, TypeOK, EventType, NoEvent, Listed
<1>4. x \in Fds /\ \A p \in Procs : ~Uses(p, x)
  BY <1>3 DEF OutputInv, Files
<1>5. /\ file' \in [AllFds -> FileType] /\ file'[x].kind = "free"
      /\ \A y \in AllFds : y # x => file'[y] = file[y]
      /\ Files' /\ RunningIsPolled'
  BY <1>2, <1>4, ClosedFiles
<1>6. TypeOK'
  <2>1. conn' \in [Clients -> {"out", "connecting", "in"}]
    BY <1>2 DEF OutputInv, TypeOK
  <2>2. request' \in [Clients -> Requests]
    BY <1>2 DEF OutputInv, TypeOK, Requests
  <2> QED
    BY <1>2, <1>5, <2>1, <2>2 DEF OutputInv, TypeOK
<1>7. Entries'
  <2>1. \A i \in DOMAIN poll_fds :
          file'[poll_fds[i].fd].kind = Kind(poll_fds[i].type) <=> Matches(poll_fds[i])
    BY <1>3, <1>5, ListTyped DEF OutputInv, Matches
  <2>2. \A y : ~Removing(y) /\ ~Removing(y)'
    BY <1>2 DEF Removing
  <2>3. \A q, y : Uses(q, y)' <=> Uses(q, y)
    BY <1>2 DEF Uses
  <2> QED
    BY <1>2, <2>1, <2>2, <2>3 DEF OutputInv, Entries, Matches
<1>8. Batch' /\ Current'
  <2>1. \A y : Kept(y)' <=> Kept(y)
    BY <1>2, SameKept
  <2> QED
    BY <1>2, <2>1 DEF OutputInv, Batch, Current
<1>9. SubscribersAreServed'
  <2>1. \A s \in subscribed : attached[s[2]] \subseteq AllFds
    BY DEF OutputInv, TypeOK, AllFds
  <2> QED
    BY <1>1, <1>2, <1>5, <2>1 DEF OutputInv, SubscribersAreServed
<1> QED
  BY <1>5, <1>6, <1>7, <1>8, <1>9 DEF OutputInv

LEMMA HandleConnectionInv ==
  ASSUME OutputInv, NEW e \in events, HandleConnection(e)
  PROVE  OutputInv'
<1>1. /\ main = "handle" /\ events' = events \ {e}
      /\ UNCHANGED <<phase, pipe, waking, attached, request, subscribed, main, snapshot, current,
                     readers>>
  BY DEF HandleConnection, Handling, worker_vars
<1>2. CASE UNCHANGED <<file, poll_fds, conn>>
  <2>1. TypeOK'
    BY <1>1, <1>2 DEF OutputInv, TypeOK
  <2>2. \A y : Kept(y)' <=> Kept(y)
    BY <1>2, SameKept
  <2>3. Batch' /\ Current'
    BY <1>1, <2>2 DEF OutputInv, Batch, Current
  <2> QED
    BY <1>1, <1>2, <2>1, <2>3, SameList DEF OutputInv
<1>3. ASSUME NEW fd \in Free, NEW c \in Clients,
             file' = [file EXCEPT ![fd] = [kind |-> "client", of |-> c, data |-> 0,
                                           writer |-> TRUE]],
             AddPollFd(fd, "Client"), conn' = [conn EXCEPT ![c] = "in"]
      PROVE  OutputInv'
  <2> DEFINE n == Len(poll_fds) + 1
  <2>1. /\ fd \in Fds /\ fd \in AllFds /\ file[fd].kind = "free" /\ MaxData \in Nat
        /\ file \in [AllFds -> FileType]
    BY ProcessOutputAssumption DEF Free, AllFds, OutputInv, TypeOK
  <2>2. /\ file'[fd].kind = "client" /\ file'[fd].of = c
        /\ \A x \in AllFds : x # fd => file'[x] = file[x]
    BY <1>3, <2>1
  <2>3. /\ poll_fds' \in Seq(EntryType) /\ DOMAIN poll_fds' = DOMAIN poll_fds \cup {n}
        /\ DOMAIN poll_fds = 1..Len(poll_fds) /\ Len(poll_fds) \in Nat
        /\ \A i \in DOMAIN poll_fds : poll_fds'[i] = poll_fds[i]
        /\ poll_fds'[n] = Entry(fd, "Client")
        /\ \A x : Kept(x) => Kept(x)'
    BY <1>3, <2>1, Appended DEF OutputInv
  <2>4. \A y : ~Removing(y) /\ ~Removing(y)'
    BY <1>1 DEF Removing
  <2>5. \A q, y : Uses(q, y)' <=> Uses(q, y)
    BY <1>1 DEF Uses
  <2>6. \A q \in Procs : ~Uses(q, fd)
    BY <2>1 DEF OutputInv, Files
  <2>7. \A x \in Fds : x \in AllFds
    BY DEF AllFds
  <2>8. TypeOK'
    <3>1. file' \in [AllFds -> FileType]
      <4>1. [kind |-> "client", of |-> c, data |-> 0, writer |-> TRUE] \in FileType
        BY <2>1 DEF FileType
      <4> QED
        BY <1>3, <2>1, <4>1
    <3>2. conn' \in [Clients -> {"out", "connecting", "in"}]
      BY <1>3 DEF OutputInv, TypeOK
    <3> QED
      BY <1>1, <2>3, <3>1, <3>2 DEF OutputInv, TypeOK
  <2>9. Files'
    BY <1>1, <2>1, <2>2, <2>5, <2>6, <2>7 DEF OutputInv, Files
  <2>10. Entries'
    <3>1. ASSUME NEW i \in DOMAIN poll_fds
          PROVE  /\ poll_fds[i].fd # fd
                 /\ file'[poll_fds[i].fd].kind = Kind(poll_fds[i].type)
      <4>1. Matches(poll_fds[i])
        BY <2>4 DEF OutputInv, Entries
      <4>2. poll_fds[i].fd # fd
        BY <2>1, <4>1, ListTyped DEF OutputInv, Matches, Kind
      <4> QED
        BY <2>2, <4>1, <4>2, ListTyped DEF OutputInv, Matches
    <3>2. /\ poll_fds'[n].fd = fd /\ poll_fds'[n].stale = FALSE
          /\ file'[fd].kind = Kind(poll_fds'[n].type)
      BY <2>2, <2>3 DEF Entry, Kind
    <3>3. ASSUME NEW i \in DOMAIN poll_fds'
          PROVE  LET f == poll_fds'[i] IN
                 /\ file'[f.fd].kind = Kind(f.type)
                 /\ f.stale => f.type = "Process" /\ \A q \in Procs : ~Uses(q, f.fd)
                 /\ \A j \in DOMAIN poll_fds' : ~(i < j /\ poll_fds'[j].fd = f.fd)
                 /\ \A q \in Procs : ~(phase[q] = "forked" /\ pipe[q] = f.fd)
      <4>1. CASE i \in DOMAIN poll_fds
        <5>1. poll_fds'[i] = poll_fds[i]
          BY <2>3, <4>1
        <5> QED
          BY <2>3, <2>4, <3>1, <3>2, <4>1, <5>1 DEF OutputInv, Entries
      <4>2. CASE i = n
        <5>1. \A j \in DOMAIN poll_fds' : ~(n < j)
          BY <2>3
        <5>2. \A q \in Procs : ~(phase[q] = "forked" /\ pipe[q] = fd)
          BY <2>6 DEF Uses
        <5> QED
          BY <3>2, <4>2, <5>1, <5>2
      <4> QED
        BY <2>3, <4>1, <4>2
    <3> QED
      BY <1>1, <2>4, <2>5, <3>3 DEF Entries, Matches
  <2>11. Batch' /\ Current'
    BY <1>1, <2>3 DEF OutputInv, Batch, Current
  <2>12. RunningIsPolled'
    <3>1. ASSUME NEW q \in Procs, phase[q] \in {"up", "ended"}
          PROVE  \E i \in DOMAIN poll_fds' :
                   poll_fds'[i] = Entry(pipe[q], "Process") /\ file'[pipe[q]].of = q
      <4>1. pipe[q] \in AllFds /\ pipe[q] # fd
        BY <2>6, <2>7, <3>1 DEF OutputInv, Files, Uses
      <4> QED
        BY <2>2, <2>3, <3>1, <4>1 DEF OutputInv, RunningIsPolled
    <3> QED
      BY <1>1, <3>1 DEF RunningIsPolled, Entry
  <2>13. SubscribersAreServed'
    <3>1. \A s \in subscribed : attached[s[2]] \subseteq AllFds
      BY DEF OutputInv, TypeOK, AllFds
    <3> QED
      BY <1>1, <2>1, <2>2, <3>1 DEF OutputInv, SubscribersAreServed
  <2> QED
    BY <2>8, <2>9, <2>10, <2>11, <2>12, <2>13 DEF OutputInv
<1> QED
  BY <1>2, <1>3 DEF HandleConnection

LEMMA HandleAttachInv ==
  ASSUME OutputInv, NEW e \in events, HandleAttach(e)
  PROVE  OutputInv'
<1>1. PICK c, p : c = file[e.fd].of /\ p = request[c].p
  OBVIOUS
<1>2. /\ main = "handle" /\ events' = events \ {e} /\ e.type = "Client"
      /\ UNCHANGED <<file, poll_fds, phase, pipe, waking, conn, main, snapshot, current,
                     readers>>
      /\ request' = [request EXCEPT ![c] = [op |-> "none"]]
      /\ \/ /\ request[c].op = "attach"
            /\ attached' = [attached EXCEPT ![p] = attached[p] \cup {e.fd}]
            /\ subscribed' = subscribed \cup {<<c, p>>}
         \/ /\ request[c].op = "detach"
            /\ attached' = [attached EXCEPT ![p] = attached[p] \ {e.fd}]
            /\ subscribed' = subscribed \ {<<c, p>>}
  BY <1>1 DEF HandleAttach, Handling, ClientAt, Attach, worker_vars
<1>3. file[e.fd].kind = "client" /\ e.fd \in AllFds
  BY <1>2, KeptIsOpen DEF OutputInv, Batch, Kind, Removing
<1>4. e.fd \in Fds /\ c \in Clients
  BY <1>1, <1>3 DEF OutputInv, Files
<1>5. p \in Procs
  <2>1. request[c] \in Requests
    BY <1>4 DEF OutputInv, TypeOK
  <2>2. request[c] \in [op : {"attach", "detach"}, p : Procs]
    BY <1>2, <2>1 DEF Requests
  <2> QED
    BY <1>1, <2>2
<1>6. TypeOK'
  <2>1. request' \in [Clients -> Requests]
    BY <1>2 DEF OutputInv, TypeOK, Requests
  <2>2. attached' \in [Procs -> SUBSET Fds]
    <3>1. attached \in [Procs -> SUBSET Fds]
      BY DEF OutputInv, TypeOK
    <3>2. attached[p] \cup {e.fd} \in SUBSET Fds /\ attached[p] \ {e.fd} \in SUBSET Fds
      BY <1>4, <1>5, <3>1
    <3>3. PICK fds \in SUBSET Fds : attached' = [attached EXCEPT ![p] = fds]
      BY <1>2, <3>2
    <3> QED
      BY <3>1, <3>3
  <2>3. subscribed' \subseteq Clients \X Procs
    BY <1>2, <1>4, <1>5 DEF OutputInv, TypeOK
  <2> QED
    BY <1>2, <2>1, <2>2, <2>3 DEF OutputInv, TypeOK
<1>7. Files' /\ \A q, x : Uses(q, x)' <=> Uses(q, x)
  BY <1>2, SameFiles
<1>8. Entries'
  <2>1. \A y : Removing(y)' <=> Removing(y)
    BY <1>2 DEF Removing
  <2> QED
    BY <1>2, <1>7, <2>1 DEF OutputInv, Entries, Matches
<1>9. Batch' /\ Current'
  <2>1. \A y : Kept(y)' <=> Kept(y)
    BY <1>2, SameKept
  <2> QED
    BY <1>2, <2>1 DEF OutputInv, Batch, Current
<1>10. RunningIsPolled'
  BY <1>2 DEF OutputInv, RunningIsPolled, Entry
<1>11. SubscribersAreServed'
  <2>1. attached \in [Procs -> SUBSET Fds] /\ subscribed \subseteq Clients \X Procs
    BY DEF OutputInv, TypeOK
  <2>2. ASSUME NEW s \in subscribed'
        PROVE  \E fd \in attached'[s[2]] : file[fd].kind = "client" /\ file[fd].of = s[1]
    <3>1. CASE s = <<c, p>>
      <4>1. request[c].op = "attach" /\ e.fd \in attached'[p]
        BY <1>2, <1>5, <2>1, <2>2, <3>1
      <4> QED
        BY <1>1, <1>3, <3>1, <4>1
    <3>2. CASE s # <<c, p>>
      <4>1. s \in subscribed /\ s = <<s[1], s[2]>> /\ s[2] \in Procs
        BY <1>2, <2>1, <2>2, <3>2
      <4>2. PICK fd \in attached[s[2]] : file[fd].kind = "client" /\ file[fd].of = s[1]
        BY <4>1 DEF OutputInv, SubscribersAreServed
      <4>3. CASE s[2] = p
        <5>1. s[1] # c
          BY <3>2, <4>1, <4>3
        <5>2. fd # e.fd
          BY <1>1, <4>2, <5>1
        <5>3. fd \in attached'[s[2]]
          BY <1>2, <1>5, <2>1, <4>2, <4>3, <5>2
        <5> QED
          BY <4>2, <5>3
      <4>4. CASE s[2] # p
        <5>1. attached'[s[2]] = attached[s[2]]
          BY <1>2, <2>1, <4>1, <4>4
        <5> QED
          BY <4>2, <5>1
      <4> QED
        BY <4>3, <4>4
    <3> QED
      BY <3>1, <3>2
  <2> QED
    BY <1>2, <2>2 DEF SubscribersAreServed
<1> QED
  BY <1>6, <1>7, <1>8, <1>9, <1>10, <1>11 DEF OutputInv

LEMMA ReloadProcessInv ==
  ASSUME OutputInv, NEW p \in Procs, ReloadProcess(p)
  PROVE  OutputInv'
<1>1. /\ phase' = [phase EXCEPT ![p] = "fresh"] /\ pipe' = [pipe EXCEPT ![p] = NoFd]
      /\ attached' = [attached EXCEPT ![p] = {}]
      /\ subscribed' = {s \in subscribed : s[2] # p}
      /\ UNCHANGED <<file, poll_fds, waking, conn, request, main, snapshot, events, current,
                     readers>>
      /\ UNCHANGED batch_vars
  BY DEF ReloadProcess, client_vars, batch_vars
<1>2. /\ phase'[p] = "fresh"
      /\ \A q \in Procs : q # p => /\ phase'[q] = phase[q] /\ pipe'[q] = pipe[q]
                                   /\ attached'[q] = attached[q]
  BY <1>1 DEF OutputInv, TypeOK
<1>3. \A q \in Procs : \A y : Uses(q, y)' <=> Uses(q, y) /\ q # p
  BY <1>2 DEF Uses
<1>4. TypeOK'
  BY <1>1 DEF OutputInv, TypeOK
<1>5. Files'
  BY <1>1, <1>2, <1>3 DEF OutputInv, Files
<1>6. Entries'
  <2>1. \A y : Removing(y)' <=> Removing(y)
    BY <1>1 DEF Removing
  <2> QED
    BY <1>1, <1>2, <1>3, <2>1 DEF OutputInv, Entries, Matches
<1>7. RunningIsPolled'
  BY <1>1, <1>2 DEF OutputInv, RunningIsPolled, Entry
<1>8. SubscribersAreServed'
  <2>1. \A s \in subscribed : s[2] \in Procs
    BY DEF OutputInv, TypeOK
  <2> QED
    BY <1>1, <1>2, <2>1 DEF OutputInv, SubscribersAreServed
<1> QED
  BY <1>1, <1>4, <1>5, <1>6, <1>7, <1>8, SameBatch DEF OutputInv

-----------------------------------------------------------------------------
(* The invariant of every behaviour.                                        *)

LEMMA InitOutputInv ==
  ASSUME Init
  PROVE  OutputInv
<1>1. /\ \A p \in Procs : phase[p] = "fresh" /\ pipe[p] = NoFd
      /\ main = "idle" /\ events = {} /\ subscribed = {}
  BY DEF Init
<1>2. /\ "server" \in AllFds /\ "server" \notin Fds /\ "wake" \in AllFds
      /\ "wake" \notin Fds /\ MaxData \in Nat
  BY ProcessOutputAssumption DEF AllFds
<1>3. ASSUME NEW x \in AllFds
      PROVE  /\ file[x] \in FileType /\ file[x].kind = IF x \in Fds THEN "free" ELSE x
  <2>1. CASE x \in Fds
    <3>1. file[x] = NoFile
      BY <2>1 DEF Init
    <3>2. NoFile \in FileType /\ NoFile.kind = "free"
      BY <1>2 DEF NoFile, FileType
    <3> QED
      BY <2>1, <3>1, <3>2
  <2>2. CASE x \notin Fds
    <3>1. x \in {"server", "wake"}
      BY <2>2 DEF AllFds
    <3> DEFINE f == [kind |-> x, of |-> "none", data |-> 0, writer |-> TRUE]
    <3>2. file[x] = f
      BY <2>2 DEF Init, NoFile
    <3>3. f \in FileType /\ f.kind = x
      BY <1>2, <3>1 DEF FileType
    <3> QED
      BY <2>2, <3>2, <3>3
  <2> QED
    BY <2>1, <2>2
<1>4. /\ poll_fds \in Seq(EntryType) /\ DOMAIN poll_fds = {1, 2}
      /\ poll_fds[1] = Entry("server", "Server") /\ poll_fds[2] = Entry("wake", "WakeUp")
  <2>1. Entry("server", "Server") \in EntryType /\ Entry("wake", "WakeUp") \in EntryType
    BY <1>2 DEF Entry, EntryType
  <2> DEFINE a == Entry("server", "Server")
             b == Entry("wake", "WakeUp")
  <2>2. poll_fds = <<a, b>>
    BY DEF Init
  <2> HIDE DEF a, b
  <2>3. a \in EntryType /\ b \in EntryType
    BY <2>1 DEF a, b
  <2>4. poll_fds \in Seq(EntryType) /\ DOMAIN poll_fds = {1, 2}
        /\ poll_fds[1] = a /\ poll_fds[2] = b
    BY <2>2, <2>3
  <2> QED
    BY <2>4 DEF a, b
<1>5. TypeOK
  <2>1. file \in [AllFds -> FileType]
    <3>1. file = [fd \in AllFds |-> file[fd]]
      BY DEF Init
    <3> QED
      BY <1>3, <3>1
  <2>2. snapshot \in Seq(EntryType)
    <3>1. <<>> \in Seq(EntryType)
      OBVIOUS
    <3> QED
      BY <3>1 DEF Init
  <2>3. request \in [Clients -> Requests]
    BY DEF Init, Requests
  <2>4. /\ phase \in [Procs -> {"fresh", "forked", "up", "ended", "down"}]
        /\ pipe \in [Procs -> Fds \cup {NoFd}]
        /\ attached \in [Procs -> SUBSET Fds]
        /\ conn \in [Clients -> {"out", "connecting", "in"}]
    BY DEF Init
  <2>5. /\ current \in EventType \cup {NoEvent} /\ readers \subseteq Procs
        /\ waking \in BOOLEAN
    BY DEF Init
  <2> QED
    BY <1>1, <1>4, <2>1, <2>2, <2>3, <2>4, <2>5 DEF TypeOK
<1>6. Files
  <2>1. \A x \in AllFds : x \in Fds \/ x = "server" \/ x = "wake"
    BY DEF AllFds
  <2> QED
    BY <1>1, <1>2, <1>3, <2>1 DEF Files, Uses
<1>7. Entries
  <2>1. \A i \in DOMAIN poll_fds : Matches(poll_fds[i]) /\ poll_fds[i].stale = FALSE
    BY <1>2, <1>3, <1>4 DEF Matches, Kind, Entry
  <2>2. \A i, j \in DOMAIN poll_fds : poll_fds[i].fd = poll_fds[j].fd => i = j
    BY <1>4 DEF Entry
  <2>3. \A i \in DOMAIN poll_fds : ~(i < i)
    BY <1>4
  <2> QED
    BY <1>1, <2>1, <2>2, <2>3 DEF Entries
<1>8. Batch /\ Current /\ RunningIsPolled /\ SubscribersAreServed
  BY <1>1 DEF Batch, Current, RunningIsPolled, SubscribersAreServed
<1> QED
  BY <1>5, <1>6, <1>7, <1>8 DEF OutputInv

LEMMA StutterInv ==
  ASSUME OutputInv, UNCHANGED vars
  PROVE  OutputInv'
<1>1. /\ UNCHANGED <<file, poll_fds, phase, pipe, waking, attached, conn, request, subscribed, main,
                     snapshot, events, current, readers>>
      /\ UNCHANGED batch_vars
  BY DEF vars, worker_vars, client_vars, batch_vars
<1>2. TypeOK'
  BY <1>1 DEF OutputInv, TypeOK
<1> QED
  BY <1>1, <1>2, SameList, SameBatch DEF OutputInv

LEMMA NextOutputInv ==
  ASSUME OutputInv, [Next]_vars
  PROVE  OutputInv'
<1>1. CASE Worker
  BY <1>1, StartProcessInv, RegisterInv, EndProcessInv, StaleProcessInv, WakeMainInv
     DEF Worker
<1>2. CASE Main
  <2>1. ASSUME TakeSnapshot \/ PollReturns \/ EndBatch PROVE OutputInv'
    BY <2>1, TakeSnapshotInv, PollReturnsInv, EndBatchInv
  <2>2. ASSUME CloseOutput \/ RemoveOutput \/ CloseClient PROVE OutputInv'
    BY <2>2, CloseOutputInv, RemoveOutputInv, CloseClientInv
  <2>3. ASSUME NEW e \in events, \/ HandleOutput(e) \/ HandleWakeUp(e)
                                 \/ HandleConnection(e) \/ HandleAttach(e)
                                 \/ HandleDisconnect(e)
        PROVE  OutputInv'
    BY <2>3, HandleOutputInv, HandleWakeUpInv, HandleConnectionInv, HandleAttachInv,
       HandleDisconnectInv
  <2>4. ASSUME NEW p \in Procs, ReadOutput(p) \/ DieOfBrokenPipe(p) PROVE OutputInv'
    BY <2>4, ReadOutputInv, DieOfBrokenPipeInv
  <2> QED
    BY <1>2, <2>1, <2>2, <2>3, <2>4 DEF Main
<1>3. CASE \E p \in Procs : ReloadProcess(p)
  BY <1>3, ReloadProcessInv
<1>4. CASE \E fd \in Fds : ChildWrites(fd) \/ WriterCloses(fd)
  BY <1>4, ChildInv
<1>5. CASE \E c \in Clients : ClientConnects(c) \/ ClientSends(c)
  BY <1>5, ClientInv
<1>6. CASE Dead \/ UNCHANGED vars
  BY <1>6, StutterInv DEF Dead
<1> QED
  BY <1>1, <1>2, <1>3, <1>4, <1>5, <1>6 DEF Next

\* What the list of descriptors, the files they refer to, the processes and the
\* batch of the main thread have to do with each other, in every reachable state.
THEOREM OutputInvariance == Spec => []OutputInv
<1>1. Init => OutputInv
  BY InitOutputInv
<1>2. OutputInv /\ [Next]_vars => OutputInv'
  BY NextOutputInv
<1> QED
  BY <1>1, <1>2, PTL DEF Spec

\* Every variable of the main loop keeps to its type: descriptors name files, and
\* the batch is made of entries of the list.
THEOREM OutputTypes == Spec => []TypeOK
<1>1. OutputInv => TypeOK
  BY DEF OutputInv
<1> QED
  BY <1>1, OutputInvariance, PTL

\* poll(2) is never given a closed number, nor one number twice: the snapshot is
\* taken when no number is between close and remove_poll_fd.
THEOREM PollsOpenFds == Spec => []PolledFdsAreOpen
<1>1. ASSUME OutputInv PROVE PolledFdsAreOpen
  <2>1. \A type : Kind(type) # "free"
    BY DEF Kind
  <2>2. ASSUME main = "poll", NEW i \in DOMAIN snapshot
        PROVE  file[snapshot[i].fd].kind # "free"
    <3>1. Kept(snapshot[i]) /\ ~Removing(snapshot[i].fd)
      BY <1>1, <2>2 DEF OutputInv, Batch, Removing
    <3> QED
      BY <1>1, <2>1, <3>1, KeptIsOpen
  <2>3. ASSUME main = "poll", NEW i \in DOMAIN snapshot, NEW j \in DOMAIN snapshot,
               snapshot[i].fd = snapshot[j].fd
        PROVE  i = j
    BY <1>1, <2>3 DEF OutputInv, Batch
  <2> QED
    BY <2>2, <2>3 DEF PolledFdsAreOpen
<1> QED
  BY <1>1, OutputInvariance, PTL

\* stale_poll_fd and remove_poll_fd find their entry and never throw, and what
\* remove_poll_fd takes out was staled, even when the worker has added a pipe of
\* the same number between close and remove_poll_fd.
THEOREM LookupsFindTheirEntry == Spec => []LookupsSucceed
<1>1. ASSUME OutputInv PROVE LookupsSucceed
  <2>1. ASSUME NEW p \in Procs, phase[p] = "ended" PROVE Listed(pipe[p])
    BY <1>1, <2>1 DEF OutputInv, RunningIsPolled, Listed, Entry
  <2>2. ASSUME main = "remove"
        PROVE  Listed(current.fd) /\ poll_fds[IndexOf(poll_fds, current.fd)].stale
    <3>1. PICK i \in DOMAIN poll_fds : poll_fds[i].fd = current.fd /\ poll_fds[i].stale
      BY <1>1, <2>2 DEF OutputInv, Current, Kept
    <3>2. Listed(current.fd)
      BY <3>1 DEF Listed
    <3>3. PICK k : k = IndexOf(poll_fds, current.fd)
      OBVIOUS
    <3>4. k \in DOMAIN poll_fds /\ poll_fds[k].fd = current.fd /\ k <= i
      BY <1>1, <3>1, <3>2, <3>3, FirstEntry DEF OutputInv
    <3>5. k = i \/ k < i
      BY <1>1, <3>4, ListTyped DEF OutputInv
    <3>6. poll_fds[k].stale
      BY <1>1, <3>1, <3>4, <3>5 DEF OutputInv, Entries
    <3> QED
      BY <3>2, <3>3, <3>6
  <2> QED
    BY <2>1, <2>2 DEF LookupsSucceed
<1> QED
  BY <1>1, OutputInvariance, PTL

\* What handle_process_output closes is a pipe that no process uses any more,
\* although the entry it decides on is a copy made before poll(2) was called.
THEOREM OnlyStaleIsClosed == Spec => []ClosesOnlyStale
<1>1. ASSUME OutputInv PROVE ClosesOnlyStale
  <2>1. ASSUME main = "close"
        PROVE  /\ file[current.fd].kind = "pipe"
               /\ \A p \in Procs : pipe[p] = current.fd => phase[p] \in {"fresh", "down"}
    <3>1. /\ current.type = "Process" /\ Kept(current) /\ current.stale
          /\ \A x : ~Removing(x)
      BY <1>1, <2>1 DEF OutputInv, Current, Removing
    <3>2. file[current.fd].kind = "pipe"
      BY <1>1, <3>1, KeptIsOpen DEF Kind
    <3>3. \A p \in Procs : ~Uses(p, current.fd)
      BY <1>1, <3>1 DEF OutputInv, Entries, Kept
    <3>4. \A p \in Procs : phase[p] \in {"fresh", "forked", "up", "ended", "down"}
      BY <1>1 DEF OutputInv, TypeOK
    <3> QED
      BY <3>2, <3>3, <3>4 DEF Uses
  <2> QED
    BY <2>1 DEF ClosesOnlyStale
<1> QED
  BY <1>1, OutputInvariance, PTL

\* A running program's pipe is in the list under its own number and not stale,
\* whatever ends, restarts, is reloaded or is closed around it.
THEOREM RunningStaysPolled == Spec => []RunningIsPolled
<1>1. OutputInv => RunningIsPolled
  BY DEF OutputInv
<1> QED
  BY <1>1, OutputInvariance, PTL

\* A client that attached is forwarded to until it detaches or leaves, or the
\* program is reloaded, although the numbers of clients that left stay attached
\* and are given to others.
THEOREM SubscribersStayServed == Spec => []SubscribersAreServed
<1>1. OutputInv => SubscribersAreServed
  BY DEF OutputInv
<1> QED
  BY <1>1, OutputInvariance, PTL


-----------------------------------------------------------------------------
(* The sleep of the main thread.                                            *)

\* A step that changes neither the list nor what may end a sleep.
SleepsOn ==
  /\ UNCHANGED <<poll_fds, waking>>
  /\ main' = "poll" => /\ main = "poll" /\ UNCHANGED snapshot
                       /\ file'["wake"] = file["wake"]

LEMMA SleepsOnInv ==
  ASSUME WakeInv, SleepsOn
  PROVE  Listing' /\ NoLostWakeUp'
BY DEF WakeInv, SleepsOn, Listing, NoLostWakeUp

LEMMA OtherFile ==
  ASSUME OutputInv, NEW x \in Fds, NEW f, file' = [file EXCEPT ![x] = f]
  PROVE  file'["wake"] = file["wake"]
BY ProcessOutputAssumption DEF OutputInv, TypeOK, AllFds

LEMMA RegisterWakes ==
  ASSUME WakeInv, NEW p \in Procs, Register(p)
  PROVE  Listing' /\ NoLostWakeUp'
<1>1. /\ AddPollFd(pipe[p], "Process") /\ waking' = TRUE
      /\ UNCHANGED <<main, snapshot>> /\ phase[p] = "forked"
  BY DEF Register, batch_vars
<1>2. pipe[p] \in Fds /\ pipe[p] \in AllFds /\ TypeOK
  BY <1>1 DEF WakeInv, OutputInv, Files, AllFds
<1> DEFINE n == Len(poll_fds) + 1
<1>3. /\ DOMAIN poll_fds' = DOMAIN poll_fds \cup {n}
      /\ \A i \in DOMAIN poll_fds : poll_fds'[i] = poll_fds[i]
      /\ poll_fds'[n].fd = pipe[p]
  <2>1. Entry(pipe[p], "Process").fd = pipe[p]
    BY DEF Entry
  <2> QED
    BY <1>1, <1>2, <2>1, Appended
<1> HIDE DEF n
<1>4. Listing'
  BY <1>2, <1>3 DEF WakeInv, Listing
<1> QED
  BY <1>1, <1>4 DEF WakeInv, NoLostWakeUp

LEMMA StaleProcessWakes ==
  ASSUME WakeInv, NEW p \in Procs, StaleProcess(p)
  PROVE  Listing' /\ NoLostWakeUp'
<1>1. /\ StalePollFd(pipe[p]) /\ waking' = TRUE
      /\ UNCHANGED <<main, snapshot>>
  BY DEF StaleProcess, batch_vars
<1>2. TypeOK
  BY DEF WakeInv, OutputInv
<1>3. PICK k : k = IndexOf(poll_fds, pipe[p])
  OBVIOUS
<1>4. /\ DOMAIN poll_fds' = DOMAIN poll_fds
      /\ \A i \in DOMAIN poll_fds : /\ poll_fds'[i].fd = poll_fds[i].fd
                                    /\ poll_fds'[i].type = poll_fds[i].type
  BY <1>1, <1>2, <1>3, Staled
<1>5. Listing'
  BY <1>4 DEF WakeInv, Listing
<1> QED
  BY <1>1, <1>5 DEF WakeInv, NoLostWakeUp

LEMMA WakeMainWakes ==
  ASSUME WakeInv, WakeMain
  PROVE  Listing' /\ NoLostWakeUp'
<1>1. /\ file' = [file EXCEPT !["wake"].data = 1] /\ UNCHANGED <<poll_fds, main, snapshot>>
  BY DEF WakeMain, batch_vars
<1>2. file'["wake"].data = 1
  BY <1>1 DEF WakeInv, OutputInv, TypeOK, AllFds, FileType
<1> QED
  BY <1>1, <1>2 DEF WakeInv, Listing, NoLostWakeUp

\* What is removed is a pipe or a connection.
LEMMA RemovalWakes ==
  ASSUME WakeInv, RemoveOutput \/ \E e \in events : HandleDisconnect(e)
  PROVE  Listing' /\ NoLostWakeUp'
<1>1. PICK x \in Fds : RemovePollFd(x) /\ main' # "poll"
  <2>1. ASSUME RemoveOutput PROVE current.fd \in Fds
    <3>1. Kept(current) /\ current.type = "Process"
      BY <2>1 DEF RemoveOutput, WakeInv, OutputInv, Current
    <3> QED
      BY <3>1 DEF Kept, WakeInv, Listing
  <2>2. ASSUME NEW e \in events, HandleDisconnect(e) PROVE e.fd \in Fds
    <3>1. Kept(e) /\ e.type = "Client" /\ ~Removing(e.fd)
      BY <2>2 DEF HandleDisconnect, Handling, WakeInv, OutputInv, Batch, Removing
    <3>2. e.fd \in AllFds /\ file[e.fd].kind = "client"
      BY <3>1, KeptIsOpen DEF Kind, WakeInv
    <3> QED
      BY <3>2 DEF WakeInv, OutputInv, Files
  <2> QED
    BY <2>1, <2>2 DEF RemoveOutput, HandleDisconnect
<1>2. x # "wake" /\ TypeOK
  BY ProcessOutputAssumption DEF WakeInv, OutputInv
<1>3. PICK k : k = IndexOf(poll_fds, x)
  OBVIOUS
<1>4. /\ k \in DOMAIN poll_fds /\ poll_fds[k].fd = x
      /\ \A i \in DOMAIN poll_fds' : \E j \in DOMAIN poll_fds : poll_fds'[i] = poll_fds[j]
      /\ \A i \in DOMAIN poll_fds : i # k => \E j \in DOMAIN poll_fds' : poll_fds'[j] = poll_fds[i]
  BY <1>1, <1>2, <1>3, TakenOut
<1>5. Listing'
  BY <1>2, <1>4 DEF WakeInv, Listing
<1> QED
  BY <1>1, <1>5 DEF NoLostWakeUp

LEMMA HandleConnectionWakes ==
  ASSUME WakeInv, NEW e \in events, HandleConnection(e)
  PROVE  Listing' /\ NoLostWakeUp'
<1>1. /\ main' # "poll"
      /\ UNCHANGED poll_fds \/ \E x \in Fds : AddPollFd(x, "Client")
  BY DEF HandleConnection, Handling, Free
<1>2. CASE UNCHANGED poll_fds
  BY <1>1, <1>2 DEF WakeInv, Listing, NoLostWakeUp
<1>3. ASSUME NEW x \in Fds, AddPollFd(x, "Client") PROVE Listing'
  <2> DEFINE n == Len(poll_fds) + 1
  <2>1. /\ DOMAIN poll_fds' = DOMAIN poll_fds \cup {n}
        /\ \A i \in DOMAIN poll_fds : poll_fds'[i] = poll_fds[i]
        /\ poll_fds'[n].fd = x
    <3>1. Entry(x, "Client").fd = x /\ TypeOK /\ x \in AllFds
      BY DEF Entry, WakeInv, OutputInv, AllFds
    <3> QED
      BY <1>3, <3>1, Appended
  <2> HIDE DEF n
  <2> QED
    BY <2>1 DEF WakeInv, Listing
<1> QED
  BY <1>1, <1>2, <1>3 DEF NoLostWakeUp

\* The steps that leave the list alone.
LEMMA SleepingSteps ==
  ASSUME OutputInv,
         \/ \E p \in Procs : \/ StartProcess(p) \/ EndProcess(p) \/ ReloadProcess(p)
                             \/ ReadOutput(p) \/ DieOfBrokenPipe(p)
         \/ \E x \in Fds : ChildWrites(x) \/ WriterCloses(x)
         \/ \E c \in Clients : ClientConnects(c) \/ ClientSends(c)
         \/ PollReturns \/ EndBatch \/ CloseOutput \/ CloseClient
         \/ \E e \in events : HandleOutput(e) \/ HandleWakeUp(e) \/ HandleAttach(e)
         \/ UNCHANGED vars
  PROVE  SleepsOn
<1>1. ASSUME NEW p \in Procs, StartProcess(p) PROVE SleepsOn
  <2>1. \E x \in Fds : \E f : file' = [file EXCEPT ![x] = f]
    BY <1>1 DEF StartProcess, Free
  <2>2. file'["wake"] = file["wake"]
    BY <2>1, OtherFile
  <2> QED
    BY <1>1, <2>2 DEF SleepsOn, StartProcess, batch_vars
<1>2. ASSUME NEW p \in Procs, EndProcess(p) \/ ReloadProcess(p) PROVE SleepsOn
  BY <1>2 DEF SleepsOn, EndProcess, ReloadProcess, batch_vars
<1>3. ASSUME NEW p \in Procs, ReadOutput(p) PROVE SleepsOn
  <2>1. main' # "poll"
    BY <1>3 DEF ReadOutput, Continue, AfterRead
  <2> QED
    BY <1>3, <2>1 DEF SleepsOn, ReadOutput, worker_vars
<1>4. ASSUME NEW p \in Procs, DieOfBrokenPipe(p) PROVE SleepsOn
  BY <1>4 DEF SleepsOn, DieOfBrokenPipe, worker_vars
<1>5. ASSUME NEW x \in Fds, ChildWrites(x) \/ WriterCloses(x) PROVE SleepsOn
  <2>1. /\ file' = [file EXCEPT ![x].data = file[x].data + 1]
           \/ file' = [file EXCEPT ![x].writer = FALSE]
        /\ UNCHANGED <<poll_fds, waking, main, snapshot>>
    BY <1>5 DEF ChildWrites, WriterCloses, worker_vars, batch_vars
  <2>2. \E f : file' = [file EXCEPT ![x] = f]
    BY <2>1
  <2>3. file'["wake"] = file["wake"]
    BY <2>2, OtherFile
  <2> QED
    BY <2>1, <2>3 DEF SleepsOn
<1>6. ASSUME NEW c \in Clients, ClientConnects(c) \/ ClientSends(c) PROVE SleepsOn
  BY <1>6 DEF SleepsOn, ClientConnects, ClientSends, worker_vars, batch_vars
<1>7. ASSUME PollReturns \/ EndBatch \/ CloseOutput \/ CloseClient PROVE SleepsOn
  BY <1>7 DEF SleepsOn, PollReturns, EndBatch, CloseOutput, CloseClient,
                 worker_vars
<1>8. ASSUME NEW e \in events, HandleOutput(e) PROVE SleepsOn
  <2>1. main' # "poll"
    BY <1>8 DEF HandleOutput, Continue, AfterRead
  <2> QED
    BY <1>8, <2>1 DEF SleepsOn, HandleOutput, worker_vars
<1>9. ASSUME NEW e \in events, HandleWakeUp(e) \/ HandleAttach(e) PROVE SleepsOn
  BY <1>9 DEF SleepsOn, HandleWakeUp, HandleAttach, Handling, worker_vars
<1>10. ASSUME UNCHANGED vars PROVE SleepsOn
  BY <1>10 DEF SleepsOn, vars, worker_vars, batch_vars
<1> QED
  BY <1>1, <1>2, <1>3, <1>4, <1>5, <1>6, <1>7, <1>8, <1>9, <1>10

LEMMA NextWakeInv ==
  ASSUME WakeInv, [Next]_vars
  PROVE  WakeInv'
<1> DEFINE Goal == Listing' /\ NoLostWakeUp'
<1> HIDE DEF Goal
<1>0. OutputInv
  BY DEF WakeInv
<1>1. ASSUME SleepsOn PROVE Goal
  BY <1>1, SleepsOnInv DEF Goal
<1>2. ASSUME NEW p \in Procs, Register(p) \/ StaleProcess(p) PROVE Goal
  BY <1>2, RegisterWakes, StaleProcessWakes DEF Goal
<1>w. ASSUME WakeMain PROVE Goal
  BY <1>w, WakeMainWakes DEF Goal
<1>3. ASSUME RemoveOutput \/ \E e \in events : HandleDisconnect(e) PROVE Goal
  BY <1>3, RemovalWakes DEF Goal
<1>4. ASSUME NEW e \in events, HandleConnection(e) PROVE Goal
  BY <1>4, HandleConnectionWakes DEF Goal
<1>5. ASSUME TakeSnapshot PROVE Goal
  BY <1>5 DEF Goal, TakeSnapshot, WakeInv, Listing, NoLostWakeUp
<1>6. ASSUME Main PROVE Goal
  BY <1>0, <1>1, <1>3, <1>4, <1>5, <1>6, SleepingSteps DEF Main
<1>7. Goal
  BY <1>0, <1>1, <1>2, <1>6, <1>w, SleepingSteps DEF Next, Worker, Dead
<1>8. OutputInv'
  BY <1>0, NextOutputInv
<1> QED
  BY <1>7, <1>8 DEF WakeInv, Goal

\* The main thread does not sleep in poll(2) through a change of the list: it polls the
\* list as it is, or there is a byte in the wake-up pipe, or the worker, which changed
\* the list, is at the step that writes one.
THEOREM WakeUpsAreNotLost == Spec => []NoLostWakeUp
<1>1. Init => WakeInv
  <2>1. ASSUME Init PROVE Listing /\ NoLostWakeUp
    <3>1. poll_fds = <<Entry("server", "Server"), Entry("wake", "WakeUp")>> /\ main = "idle"
      BY <2>1 DEF Init
    <3>2. DOMAIN poll_fds = {1, 2} /\ poll_fds[1].type = "Server"
          /\ poll_fds[2].type = "WakeUp" /\ poll_fds[2].fd = "wake"
      BY <3>1 DEF Entry
    <3> QED
      BY <3>1, <3>2 DEF Listing, NoLostWakeUp
  <2> QED
    BY <2>1, InitOutputInv DEF WakeInv
<1>2. WakeInv /\ [Next]_vars => WakeInv'
  BY NextWakeInv
<1>3. WakeInv => NoLostWakeUp
  BY DEF WakeInv
<1> QED
  BY <1>1, <1>2, <1>3, PTL DEF Spec
=============================================================================
