-------------------------- MODULE ProcessPoolProofs --------------------------
(***************************************************************************)
(* Proofs about module ProcessPool, for any file, any bound on the open    *)
(* descriptors, and any file system.                                       *)
(***************************************************************************)
EXTENDS ProcessPool, TLAPS

-----------------------------------------------------------------------------
(* The parser.                                                              *)

LEMMA AcceptedValues ==
  ASSUME NEW node, ValidNode(node)
  PROVE  LET c == ParseProcessConfig(node) IN
         /\ c.numprocs \in Nat \ {0} /\ c.stoptime \in Nat \ {0}
         /\ c.starttime \in Nat /\ c.startretries \in Nat
         /\ c.autostart \in BOOLEAN
         /\ c.exitcodes \in Seq(0..255)
<1>1. \A f \in Fields : f \in DOMAIN node => Accepted(f, Given(node, f))
  BY DEF ValidNode, Given
<1>2. \A f \in Fields \ {"cmd"} : f \notin DOMAIN node => Given(node, f) = Default[f]
  BY DEF Given
<1>3. {"numprocs", "stoptime", "starttime", "startretries", "autostart", "exitcodes"}
        \subseteq Fields
  BY DEF Fields, Default
<1>4. /\ Given(node, "numprocs") = 1 \/ Accepted("numprocs", Given(node, "numprocs"))
      /\ Given(node, "stoptime") = 3 \/ Accepted("stoptime", Given(node, "stoptime"))
      /\ Given(node, "starttime") = 0 \/ Accepted("starttime", Given(node, "starttime"))
      /\ \/ Given(node, "startretries") = 0
         \/ Accepted("startretries", Given(node, "startretries"))
      /\ Given(node, "autostart") = TRUE \/ Accepted("autostart", Given(node, "autostart"))
      /\ Given(node, "exitcodes") = <<0>> \/ Accepted("exitcodes", Given(node, "exitcodes"))
  BY <1>1, <1>2, <1>3 DEF Default
<1>5. /\ Given(node, "numprocs") \in Nat \ {0}
      /\ Given(node, "stoptime") \in Nat \ {0}
      /\ Given(node, "starttime") \in Nat
      /\ Given(node, "startretries") \in Nat
      /\ Given(node, "autostart") \in BOOLEAN
  <2>1. \A v : /\ Accepted("numprocs", v) => v \in Nat \ {0}
               /\ Accepted("stoptime", v) => v \in Nat \ {0}
               /\ Accepted("starttime", v) => v \in Nat
               /\ Accepted("startretries", v) => v \in Nat
               /\ Accepted("autostart", v) => v \in BOOLEAN
    BY DEF Accepted, Positive
  <2>2. Given(node, "autostart") \in BOOLEAN
    BY <1>4, <2>1, Zenon
  <2>3. Given(node, "numprocs") \in Nat \ {0}
    BY <1>4, <2>1
  <2>4. Given(node, "stoptime") \in Nat \ {0}
    BY <1>4, <2>1
  <2>5. Given(node, "starttime") \in Nat /\ Given(node, "startretries") \in Nat
    BY <1>4, <2>1
  <2> QED
    BY <2>2, <2>3, <2>4, <2>5
<1>6. Items(Given(node, "exitcodes")) \in Seq(0..255)
  <2>1. CASE Given(node, "exitcodes") = <<0>>
    <3>1. <<0>> \in Seq(0..255) /\ <<>> \in Seq(0..255)
      OBVIOUS
    <3> QED
      BY <2>1, <3>1 DEF Items
  <2>2. CASE Accepted("exitcodes", Given(node, "exitcodes"))
    BY <2>2 DEF Accepted
  <2> QED
    BY <1>4, <2>1, <2>2
<1> QED
  BY <1>3, <1>5, <1>6 DEF ParseProcessConfig

LEMMA ItemsAreTyped ==
  ASSUME NEW T, NEW seq \in Seq(T)
  PROVE  Range(seq) \subseteq T
<1>1. \A i \in DOMAIN seq : seq[i] \in T
  OBVIOUS
<1> QED
  BY <1>1 DEF Range

\* Whatever a file that is not refused holds, the supervisor is given what its
\* own proofs assume of a configuration.
LEMMA ParsedIsConfig ==
  ASSUME NEW file, ~Refused(file), NEW n \in DOMAIN Parse(file)
  PROVE  IsConfig(Parse(file)[n])
<1> DEFINE i == EntryOf(file, n)
           c == ParseProcessConfig(file.entries[i].node)
<1>1. i \in DOMAIN file.entries
  BY DEF EntryOf, Parse
<1>2. ValidNode(file.entries[i].node)
  BY <1>1 DEF Refused
<1>3. Parse(file)[n] = c
  BY DEF Parse
<1>4. DOMAIN c = Fields
  BY DEF ParseProcessConfig
<1>5. /\ c.numprocs \in Nat \ {0} /\ c.stoptime \in Nat \ {0}
      /\ c.starttime \in Nat /\ c.startretries \in Nat
      /\ c.autostart \in BOOLEAN
      /\ c.exitcodes \in Seq(0..255)
  BY <1>2, AcceptedValues
<1>6. Range(c.exitcodes) \subseteq 0..255
  BY <1>5, ItemsAreTyped
<1>7. Supervised(c) \in ProcessConfig
  <2>1. (CASE c.autorestart = "true" -> "True"
           [] c.autorestart = "false" -> "False"
           [] OTHER -> "Unexpected") \in AutoRestart
    BY DEF AutoRestart
  <2>2. (IF c.stopsignal = "KILL" THEN "KILL" ELSE "OTHER") \in {"KILL", "OTHER"}
    OBVIOUS
  <2> QED
    BY <1>5, <1>6, <2>1, <2>2 DEF Supervised, ProcessConfig
<1> QED
  BY <1>3, <1>4, <1>5, <1>7 DEF IsConfig

-----------------------------------------------------------------------------
(* Partial functions and the descriptors of a pool.                         *)

LEMMA InOwned ==
  ASSUME NEW p, NEW x
  PROVE  x \in Owned(p) <=> \E n \in DOMAIN p : x \in Handles(p[n])
BY DEF Owned

LEMMA OwnedEmpty == DOMAIN Empty = {} /\ Owned(Empty) = {} /\ Living(Empty) = {}
BY DEF Owned, Empty, Living

LEMMA InLiving ==
  ASSUME NEW p, NEW x
  PROVE  x \in Living(p) <=> \E n \in DOMAIN p : \E i \in p[n].live : x = <<n, i>>
BY DEF Living

LEMMA OwnedPut ==
  ASSUME NEW p, NEW n, n \notin DOMAIN p, NEW g
  PROVE  /\ DOMAIN Put(p, n, g) = DOMAIN p \cup {n}
         /\ Put(p, n, g)[n] = g
         /\ \A m \in DOMAIN p : Put(p, n, g)[m] = p[m]
         /\ Owned(Put(p, n, g)) = Owned(p) \cup Handles(g)
<1>1. /\ DOMAIN Put(p, n, g) = DOMAIN p \cup {n}
      /\ Put(p, n, g)[n] = g
      /\ \A m \in DOMAIN p : Put(p, n, g)[m] = p[m]
  BY DEF Put
<1>2. \A x : x \in Owned(Put(p, n, g)) <=> x \in Owned(p) \cup Handles(g)
  BY <1>1, InOwned
<1> QED
  BY <1>1, <1>2

LEMMA OwnedMinus ==
  ASSUME NEW p, NEW n \in DOMAIN p, OwnLogs(p)
  PROVE  /\ DOMAIN Minus(p, {n}) = DOMAIN p \ {n}
         /\ \A m \in DOMAIN p \ {n} : Minus(p, {n})[m] = p[m]
         /\ Owned(Minus(p, {n})) = Owned(p) \ Handles(p[n])
<1>1. /\ DOMAIN Minus(p, {n}) = DOMAIN p \ {n}
      /\ \A m \in DOMAIN p \ {n} : Minus(p, {n})[m] = p[m]
  BY DEF Minus
<1>2. \A x : x \in Owned(Minus(p, {n})) <=> x \in Owned(p) \ Handles(p[n])
  <2>1. \A m \in DOMAIN p \ {n} : Handles(p[n]) \cap Handles(p[m]) = {}
    BY DEF OwnLogs
  <2>2. \A x : x \in Owned(Minus(p, {n}))
                <=> \E m \in DOMAIN p \ {n} : x \in Handles(p[m])
    BY <1>1, InOwned
  <2> QED
    BY <2>1, <2>2, InOwned
<1> QED
  BY <1>1, <1>2

WithLive(p, n, s) == [p EXCEPT ![n].live = s]

\* A group keeps its descriptors when the worker changes what is live of it.
LEMMA SameGroups ==
  ASSUME NEW p, NEW n \in DOMAIN p, NEW s, IsGroup(p[n]),
         NEW q, q = WithLive(p, n, s)
  PROVE  /\ DOMAIN q = DOMAIN p
         /\ q[n].live = s
         /\ \A m \in DOMAIN p \ {n} : q[m] = p[m]
         /\ \A m \in DOMAIN p :
              /\ q[m].config = p[m].config /\ q[m].out = p[m].out /\ q[m].err = p[m].err
              /\ DOMAIN q[m] = DOMAIN p[m] 
              /\ Handles(q[m]) = Handles(p[m])
         /\ Groups(q) = Groups(p) /\ Owned(q) = Owned(p)
         /\ OwnLogs(q) <=> OwnLogs(p)
<1>1. DOMAIN q = DOMAIN p
  BY DEF WithLive
<1>2. q[n] = [p[n] EXCEPT !.live = s] /\ \A m \in DOMAIN p \ {n} : q[m] = p[m]
  BY DEF WithLive
<1>3. /\ q[n].live = s /\ q[n].config = p[n].config /\ q[n].out = p[n].out
      /\ q[n].err = p[n].err /\ DOMAIN q[n] = DOMAIN p[n]
  BY <1>2 DEF IsGroup
<1>4. \A m \in DOMAIN p :
        /\ q[m].config = p[m].config /\ q[m].out = p[m].out /\ q[m].err = p[m].err
        /\ DOMAIN q[m] = DOMAIN p[m]
        /\ Handles(q[m]) = Handles(p[m])
  BY <1>2, <1>3 DEF Handles
<1>5. Groups(q) = Groups(p)
  BY <1>1, <1>4 DEF Groups
<1>6. \A x : x \in Owned(q) <=> x \in Owned(p)
  BY <1>1, <1>4, InOwned
<1>7. OwnLogs(q) <=> OwnLogs(p)
  BY ONLY <1>1, <1>4 DEF OwnLogs
<1> QED
  BY <1>1, <1>2, <1>3, <1>4, <1>5, <1>6, <1>7

-----------------------------------------------------------------------------
(* The invariant, action by action.                                         *)

LEMMA InitInv == Init => PoolInv
<1> SUFFICES ASSUME Init PROVE PoolInv
  OBVIOUS
<1> USE DEF Init
<1>1. TypeOK
  BY OwnedEmpty DEF TypeOK
<1>2. Progress
  BY DEF Progress, Starting
<1>3. Origins
  BY DEF Origins
<1>4. Descriptors
  BY OwnedEmpty DEF Descriptors, OwnLogs
<1>5. PoolIsFile /\ FailureChangesNothing /\ DropsOnlyTheDead
  BY DEF PoolIsFile, FailureChangesNothing, DropsOnlyTheDead
<1> QED
  BY <1>1, <1>2, <1>3, <1>4, <1>5 DEF PoolInv

LEMMA GroupsOf ==
  ASSUME NEW p
  PROVE  /\ DOMAIN Groups(p) = DOMAIN p
         /\ \A n \in DOMAIN p :
              /\ Groups(p)[n] = [config |-> p[n].config, handles |-> <<p[n].out, p[n].err>>]
              /\ Groups(p)[n].config = p[n].config
              /\ Range(Groups(p)[n].handles) = Handles(p[n])
<1>1. DOMAIN Groups(p) = DOMAIN p
  BY DEF Groups
<1>2. ASSUME NEW a, NEW b
      PROVE  Range(<<a, b>>) = {a, b}
  BY DEF Range
<1>3. ASSUME NEW n \in DOMAIN p
      PROVE  /\ Groups(p)[n] = [config |-> p[n].config, handles |-> <<p[n].out, p[n].err>>]
             /\ Groups(p)[n].config = p[n].config
             /\ Range(Groups(p)[n].handles) = Handles(p[n])
  <2>1. Groups(p)[n] = [config |-> p[n].config, handles |-> <<p[n].out, p[n].err>>]
    BY DEF Groups
  <2> QED
    BY <2>1, <1>2 DEF Handles
<1> QED
  BY <1>1, <1>3

LEMMA ReadFileInv ==
  ASSUME PoolInv, NEW file \in Files, ReadFile(file)
  PROVE  PoolInv'
<1> USE DEF PoolInv, ReadFile
<1>1. TypeOK'
  <2>1. \A n \in DOMAIN parsed' : IsConfig(parsed'[n])
    BY ParsedIsConfig
  <2>2. half = {}
    BY DEF Progress
  <2> QED
    BY <2>1, <2>2 DEF TypeOK
<1>2. Progress'
  BY OwnedEmpty DEF Progress, Starting
<1>3. Origins'
  BY GroupsOf, OwnedEmpty DEF Origins, Progress
<1>4. Descriptors'
  BY DEF Descriptors, OwnLogs, Progress
<1>5. PoolIsFile' /\ FailureChangesNothing' /\ DropsOnlyTheDead'
  BY DEF PoolIsFile, FailureChangesNothing, DropsOnlyTheDead
<1> QED
  BY <1>1, <1>2, <1>3, <1>4, <1>5

LEMMA RefuseFileInv ==
  ASSUME PoolInv, NEW file \in Files, RefuseFile(file)
  PROVE  PoolInv'
<1> USE DEF PoolInv, RefuseFile, GiveUp
<1>1. TypeOK'
  BY DEF TypeOK
<1>2. Progress'
  BY DEF Progress, Starting
<1>3. Origins'
  BY DEF Origins
<1>4. Descriptors'
  BY DEF Descriptors, OwnLogs
<1>5. PoolIsFile' /\ FailureChangesNothing' /\ DropsOnlyTheDead'
  BY DEF PoolIsFile, FailureChangesNothing, DropsOnlyTheDead, Starting
<1> QED
  BY <1>1, <1>2, <1>3, <1>4, <1>5

LEMMA OpenStdoutInv ==
  ASSUME PoolInv, NEW n \in DOMAIN parsed, OpenStdout(n)
  PROVE  PoolInv'
<1> PICK fd \in Fds : Open(fd, parsed[n].stdout) /\ half' = {[name |-> n, fd |-> fd]}
  BY DEF OpenStdout
<1>a. /\ fd \notin DOMAIN fds
      /\ DOMAIN fds' = DOMAIN fds \cup {fd}
      /\ fds'[fd] = parsed[n].stdout
      /\ \A d \in DOMAIN fds : fds'[d] = fds[d]
  BY DEF Open, Put
<1>b. \A h : h \in half' <=> h = [name |-> n, fd |-> fd]
  OBVIOUS
<1>0. /\ fd \notin DOMAIN fds
      /\ DOMAIN fds' = DOMAIN fds \cup {fd}
      /\ fds'[fd] = parsed[n].stdout
      /\ \A d \in DOMAIN fds : fds'[d] = fds[d]
      /\ \E h \in half' : h.name = n /\ h.fd = fd
      /\ \A h \in half' : h.name = n /\ h.fd = fd
      /\ \A h, i \in half' : h = i
  <2>1. \E h \in half' : h.name = n /\ h.fd = fd
    BY <1>b
  <2>2. \A h \in half' : h.name = n /\ h.fd = fd
    BY <1>b
  <2>3. \A h, i \in half' : h = i
    BY <1>b
  <2> QED
    BY <1>a, <2>1, <2>2, <2>3
<1> USE DEF PoolInv, OpenStdout
<1>1. TypeOK'
  BY <1>0 DEF TypeOK
<1>2. Progress'
  BY <1>0 DEF Progress, Starting
<1>3. Origins'
  BY DEF Origins, Fresh, TakenOver
<1>4. Descriptors'
  <2>1. OwnLogs(pool)' /\ OwnLogs(new_pool)'
    BY <1>0 DEF Descriptors, OwnLogs, Handles
  <2>2. {h.fd : h \in half'} = {fd} /\ {h.fd : h \in half} = {}
    BY <1>0
  <2> QED
    BY <1>0, <2>1, <2>2 DEF Descriptors
<1>5. PoolIsFile' /\ FailureChangesNothing' /\ DropsOnlyTheDead'
  BY DEF PoolIsFile, FailureChangesNothing, DropsOnlyTheDead
<1> QED
  BY <1>1, <1>2, <1>3, <1>4, <1>5

LEMMA OpenStderrInv ==
  ASSUME PoolInv, NEW h \in half, OpenStderr(h)
  PROVE  PoolInv'
<1> DEFINE path == parsed[h.name].stderr
           g(e) == [config |-> parsed[h.name], out |-> h.fd, err |-> e, live |-> {}]
<1> PICK fd \in Fds : /\ Open(fd, path)
                      /\ new_pool' = Put(new_pool, h.name, g(fd))
  BY DEF OpenStderr
<1>a. /\ main = "build" /\ half' = {} /\ todo' = todo \ {h.name}
      /\ UNCHANGED <<main, parsed, pool, result, before, leaked, lost>>
  BY DEF OpenStderr
<1>b. /\ h.name \in todo /\ h.name \in DOMAIN parsed /\ h.name \notin DOMAIN new_pool
      /\ h.fd \in Fds /\ {i.fd : i \in half} = {h.fd}
      /\ h.fd \notin Owned(pool) \cup Owned(new_pool) \cup leaked
      /\ h.fd \in DOMAIN fds /\ fds[h.fd] = parsed[h.name].stdout
  <2>1. {i.fd : i \in half} = {h.fd}
    BY <1>a DEF PoolInv, Progress
  <2> QED
    BY <1>a, <2>1 DEF PoolInv, Progress, TypeOK, Descriptors
<1>c. /\ fd \notin DOMAIN fds
      /\ DOMAIN fds' = DOMAIN fds \cup {fd}
      /\ fds'[fd] = path
      /\ \A d \in DOMAIN fds : fds'[d] = fds[d]
  BY DEF Open, Put
<1> DEFINE gg == g(fd)
<1>d. /\ gg.config = parsed[h.name] /\ gg.out = h.fd /\ gg.err = fd /\ gg.live = {}
      /\ DOMAIN gg = {"config", "out", "err", "live"}
      /\ Handles(gg) = {h.fd, fd}
  BY DEF Handles
<1> HIDE DEF g
<1>p. new_pool' = Put(new_pool, h.name, gg)
  OBVIOUS
<1> HIDE DEF gg
<1>e. /\ DOMAIN new_pool' = DOMAIN new_pool \cup {h.name}
      /\ new_pool'[h.name] = gg
      /\ \A m \in DOMAIN new_pool : new_pool'[m] = new_pool[m]
      /\ Owned(new_pool') = Owned(new_pool) \cup Handles(gg)
  <2>1. /\ DOMAIN new_pool' = DOMAIN new_pool \cup {h.name}
        /\ new_pool'[h.name] = gg
    BY <1>p DEF Put
  <2>2. \A m \in DOMAIN new_pool : new_pool'[m] = new_pool[m]
    BY <1>b, <1>p DEF Put
  <2>3. \A x : x \in Owned(new_pool') <=> x \in Owned(new_pool) \cup Handles(gg)
    BY <2>1, <2>2, <1>b, InOwned
  <2> QED
    BY <2>1, <2>2, <2>3
<1>1. TypeOK'
  BY <1>a, <1>b, <1>c, <1>d, <1>e DEF PoolInv, TypeOK, IsGroup
<1>2. Progress'
  BY <1>a, <1>b, <1>e DEF PoolInv, Progress, Starting
<1>3. Origins'
  <2>1. \A m \in DOMAIN before : Range(before[m].handles) \subseteq Owned(pool)
    <3>1. before = Groups(pool)
      BY <1>a DEF PoolInv, Progress
    <3>2. \A m \in DOMAIN pool : Handles(pool[m]) \subseteq Owned(pool)
      BY InOwned
    <3>3. \A m \in DOMAIN before : m \in DOMAIN pool /\ Range(before[m].handles) = Handles(pool[m])
      BY <3>1, GroupsOf
    <3> QED
      BY <3>2, <3>3
  <2>2. Owned(pool) \subseteq DOMAIN fds
    BY <1>a DEF PoolInv, Descriptors
  <2>3. Fresh(h.name)'
    BY <1>a, <1>b, <1>c, <1>d, <1>e, <2>1, <2>2, GroupsOf DEF PoolInv, Progress, Fresh
  <2>4. \A m \in DOMAIN new_pool : Fresh(m)'
    BY <1>a, <1>e DEF PoolInv, Origins, Fresh
  <2> QED
    BY <1>a, <1>e, <2>3, <2>4 DEF PoolInv, Origins
<1>4. Descriptors'
  <2>1. Owned(pool) \subseteq DOMAIN fds /\ Owned(new_pool) \subseteq DOMAIN fds
        /\ leaked \subseteq DOMAIN fds
    BY <1>a DEF PoolInv, Descriptors
  <2>2. OwnLogs(pool)'
    BY <1>a, <1>c DEF PoolInv, Descriptors, OwnLogs, Handles
  <2>3. OwnLogs(new_pool)'
    <3>1. \A m \in DOMAIN new_pool : Handles(new_pool[m]) \subseteq Owned(new_pool)
      BY InOwned
    <3>2. \A m \in DOMAIN new_pool : Handles(gg) \cap Handles(new_pool[m]) = {}
      BY <1>b, <1>c, <1>d, <2>1, <3>1
    <3> QED
      BY <1>a, <1>b, <1>c, <1>d, <1>e, <2>1, <3>1, <3>2 
      DEF PoolInv, Descriptors, OwnLogs, Handles
  <2>4. {i.fd : i \in half'} = {}
    BY <1>a
  <2>5. DOMAIN fds = Owned(pool) \cup Owned(new_pool) \cup {h.fd} \cup leaked
    BY <1>a, <1>b DEF PoolInv, Descriptors
  <2>6. DOMAIN fds' = Owned(pool) \cup Owned(new_pool') \cup {} \cup leaked
    BY <1>c, <1>d, <1>e, <2>5
  <2>7. Owned(pool) \cap Owned(new_pool') = {}
    <3>1. Owned(pool) \cap Owned(new_pool) = {}
      BY <1>a DEF PoolInv, Descriptors
    <3> QED
      BY <1>b, <1>c, <1>d, <1>e, <2>1, <3>1
  <2> QED
    BY <1>a, <2>2, <2>3, <2>4, <2>6, <2>7 DEF Descriptors
<1>5. PoolIsFile' /\ FailureChangesNothing' /\ DropsOnlyTheDead'
  BY <1>a DEF PoolInv, PoolIsFile, FailureChangesNothing, DropsOnlyTheDead
<1> QED
  BY <1>1, <1>2, <1>3, <1>4, <1>5 DEF PoolInv

LEMMA OpenFailsInv ==
  ASSUME PoolInv, NEW n \in DOMAIN parsed, OpenFails(n)
  PROVE  PoolInv'
<1> USE DEF PoolInv, OpenFails, Discard, GiveUp
<1>1. TypeOK'
  BY OwnedEmpty DEF TypeOK, Minus
<1>2. Progress'
  BY DEF Progress, Starting
<1>3. Origins'
  BY DEF Origins
<1>4. Descriptors'
  <2>1. /\ DOMAIN fds' = DOMAIN fds \ Owned(new_pool)
        /\ \A d \in DOMAIN fds' : fds'[d] = fds[d]
    BY DEF Minus
  <2>2. Owned(pool) \cap Owned(new_pool) = {} /\ leaked \cap Owned(new_pool) = {}
    BY InOwned DEF Descriptors, OwnLogs
  <2>3. \A m \in DOMAIN pool : Handles(pool[m]) \subseteq Owned(pool)
    BY InOwned
  <2>4. \A m \in DOMAIN pool : Handles(pool[m]) \cap leaked' = {}
    BY <2>3 DEF Descriptors, OwnLogs
  <2>5. OwnLogs(pool)'
    BY <2>1, <2>2, <2>3, <2>4 DEF Descriptors, OwnLogs, Handles
  <2>6. {i.fd : i \in half'} = {} /\ {i.fd : i \in half} \cap Owned(new_pool) = {}
    BY DEF Descriptors
  <2> QED
    BY <2>1, <2>2, <2>5, <2>6, OwnedEmpty DEF Descriptors, OwnLogs
<1>5. PoolIsFile' /\ FailureChangesNothing' /\ DropsOnlyTheDead'
  BY DEF PoolIsFile, FailureChangesNothing, DropsOnlyTheDead, Progress
<1> QED
  BY <1>1, <1>2, <1>3, <1>4, <1>5

LEMMA StartInv ==
  ASSUME PoolInv, Start
  PROVE  PoolInv'
<1> USE DEF PoolInv, Start, Built, Install
<1>0. half = {} /\ pool = Empty /\ DOMAIN new_pool = DOMAIN parsed /\ before = Groups(Empty)
  BY DEF Progress, Starting
<1>1. TypeOK'
  BY OwnedEmpty DEF TypeOK
<1>2. Progress'
  BY <1>0 DEF Progress, Starting
<1>3. Origins'
  BY DEF Origins
<1>4. Descriptors'
  <2>1. DOMAIN fds = Owned(new_pool) \cup {h.fd : h \in half} \cup leaked
    BY <1>0, OwnedEmpty DEF Descriptors
  <2>2. OwnLogs(pool)' /\ OwnLogs(new_pool)'
    BY OwnedEmpty DEF Descriptors, OwnLogs
  <2>3. half' = {} /\ pool' = new_pool /\ new_pool' = Empty /\ fds' = fds /\ leaked' = leaked
    BY <1>0
  <2> QED
    BY <2>1, <2>2, <2>3, <1>0, OwnedEmpty DEF Descriptors
<1>5. PoolIsFile'
  <2>1. DOMAIN before = {}
    BY <1>0, GroupsOf, OwnedEmpty
  <2> QED
    BY <1>0, <2>1 DEF PoolIsFile, Origins, Fresh
<1>6. FailureChangesNothing' /\ DropsOnlyTheDead'
  BY DEF FailureChangesNothing, DropsOnlyTheDead
<1> QED
  BY <1>1, <1>2, <1>3, <1>4, <1>5, <1>6

LEMMA LockInv ==
  ASSUME PoolInv, Lock
  PROVE  PoolInv'
<1> USE DEF PoolInv, Lock, Built
<1>0. half = {} /\ DOMAIN new_pool = DOMAIN parsed /\ before = Groups(pool)
  BY DEF Progress
<1>1. TypeOK'
  BY <1>0 DEF TypeOK
<1>2. Progress'
  BY <1>0 DEF Progress, Starting
<1>3. Origins'
  BY <1>0 DEF Origins, Fresh, TakenOver
<1>4. Descriptors'
  BY DEF Descriptors, OwnLogs
<1>5. PoolIsFile' /\ FailureChangesNothing' /\ DropsOnlyTheDead'
  BY DEF PoolIsFile, FailureChangesNothing, DropsOnlyTheDead
<1> QED
  BY <1>1, <1>2, <1>3, <1>4, <1>5

LEMMA ReplaceInv ==
  ASSUME PoolInv, NEW n \in DOMAIN parsed, Replace(n)
  PROVE  PoolInv'
<1> USE DEF PoolInv, Replace
<1>1. TypeOK'
  BY DEF TypeOK
<1>2. Progress'
  BY DEF Progress, Starting
<1>3. Origins'
  <2>1. n \in DOMAIN pool => ~SameConfig(before[n].config, parsed[n])
    BY GroupsOf DEF Unchanged, Origins, Fresh, TakenOver, Progress
  <2>2. \A m : (Fresh(m)' <=> Fresh(m)) /\ (TakenOver(m)' <=> TakenOver(m))
    BY DEF Fresh, TakenOver
  <2> QED
    BY <2>1, <2>2 DEF Origins
<1>4. Descriptors'
  BY DEF Descriptors, OwnLogs
<1>5. PoolIsFile' /\ FailureChangesNothing' /\ DropsOnlyTheDead'
  BY DEF PoolIsFile, FailureChangesNothing, DropsOnlyTheDead
<1> QED
  BY <1>1, <1>2, <1>3, <1>4, <1>5

LEMMA EndCompareInv ==
  ASSUME PoolInv, EndCompare
  PROVE  PoolInv'
<1> USE DEF PoolInv, EndCompare, ToKill
<1>1. TypeOK'
  BY DEF TypeOK
<1>2. Progress'
  BY DEF Progress, Starting
<1>3. Origins'
  <2>1. \A m : (Fresh(m)' <=> Fresh(m)) /\ (TakenOver(m)' <=> TakenOver(m))
    BY DEF Fresh, TakenOver
  <2> QED
    BY <2>1 DEF Origins
<1>4. Descriptors'
  BY DEF Descriptors, OwnLogs
<1>5. PoolIsFile' /\ FailureChangesNothing' /\ DropsOnlyTheDead'
  BY DEF PoolIsFile, FailureChangesNothing, DropsOnlyTheDead
<1> QED
  BY <1>1, <1>2, <1>3, <1>4, <1>5

LEMMA StopGroupInv ==
  ASSUME PoolInv, NEW n \in DOMAIN pool, StopGroup(n)
  PROVE  PoolInv'
<1> USE DEF PoolInv, StopGroup
<1>0. IsGroup(pool[n])
  BY DEF TypeOK
<1>a. /\ DOMAIN pool' = DOMAIN pool
      /\ pool'[n].live = {}
      /\ \A m \in DOMAIN pool \ {n} : pool'[m] = pool[m]
      /\ \A m \in DOMAIN pool :
           /\ pool'[m].config = pool[m].config /\ pool'[m].out = pool[m].out
           /\ pool'[m].err = pool[m].err /\ DOMAIN pool'[m] = DOMAIN pool[m]
           /\ Handles(pool'[m]) = Handles(pool[m])
      /\ Groups(pool') = Groups(pool) /\ Owned(pool') = Owned(pool)
  <2>1. pool' = WithLive(pool, n, {})
    BY DEF WithLive
  <2>2. n \in DOMAIN pool
    OBVIOUS
  <2> QED
    BY ONLY <1>0, <2>1, <2>2, SameGroups
<1>1. TypeOK'
  BY <1>a DEF TypeOK, IsGroup
<1>2. Progress'
  BY <1>a DEF Progress, Starting
<1>3. Origins'
  <2>1. \A m : (Fresh(m)' <=> Fresh(m)) /\ (TakenOver(m)' <=> TakenOver(m))
    BY <1>a DEF Fresh, TakenOver
  <2> QED
    BY <1>a, <2>1 DEF Origins
<1>4. Descriptors'
  <2>1. OwnLogs(pool)'
    <3>1. OwnLogs(pool) /\ fds' = fds /\ leaked' = leaked
      BY DEF Descriptors
    <3> QED
      BY ONLY <1>a, <3>1 DEF OwnLogs
  <2>2. OwnLogs(new_pool)'
    BY DEF Descriptors, OwnLogs
  <2> QED
    BY <1>a, <2>1, <2>2 DEF Descriptors
<1>5. PoolIsFile' /\ FailureChangesNothing' /\ DropsOnlyTheDead'
  BY DEF PoolIsFile, FailureChangesNothing, DropsOnlyTheDead
<1> QED
  BY <1>1, <1>2, <1>3, <1>4, <1>5

LEMMA VisitInv ==
  ASSUME PoolInv, NEW n \in DOMAIN pool, Visit(n)
  PROVE  PoolInv'
<1> PICK running \in SUBSET (1..pool[n].config.numprocs) :
           pool' = [pool EXCEPT ![n].live = running]
  BY DEF Visit
<1> USE DEF PoolInv, Visit
<1>0. IsGroup(pool[n])
  BY DEF TypeOK
<1>a. /\ DOMAIN pool' = DOMAIN pool
      /\ pool'[n].live = running
      /\ \A m \in DOMAIN pool \ {n} : pool'[m] = pool[m]
      /\ \A m \in DOMAIN pool :
           /\ pool'[m].config = pool[m].config /\ pool'[m].out = pool[m].out
           /\ pool'[m].err = pool[m].err /\ DOMAIN pool'[m] = DOMAIN pool[m]
           /\ Handles(pool'[m]) = Handles(pool[m])
      /\ Groups(pool') = Groups(pool) /\ Owned(pool') = Owned(pool)
  <2>1. pool' = WithLive(pool, n, running)
    BY DEF WithLive
  <2>2. n \in DOMAIN pool
    OBVIOUS
  <2> QED
    BY ONLY <1>0, <2>1, <2>2, SameGroups
<1>b. ~Starting
  BY OwnedEmpty DEF Progress
<1>1. TypeOK'
  BY <1>a DEF TypeOK, IsGroup
<1>2. Progress'
  BY <1>a, <1>b DEF Progress, Starting
<1>3. Origins'
  <2>1. \A m : (Fresh(m)' <=> Fresh(m)) /\ (TakenOver(m)' <=> TakenOver(m))
    BY <1>a DEF Fresh, TakenOver
  <2> QED
    BY <1>a, <2>1 DEF Origins
<1>4. Descriptors'
  <2>1. OwnLogs(pool)'
    <3>1. OwnLogs(pool) /\ fds' = fds /\ leaked' = leaked
      BY DEF Descriptors
    <3> QED
      BY ONLY <1>a, <3>1 DEF OwnLogs
  <2>2. OwnLogs(new_pool)'
    BY DEF Descriptors, OwnLogs
  <2> QED
    BY <1>a, <2>1, <2>2 DEF Descriptors
<1>5. PoolIsFile'
  BY <1>a DEF PoolIsFile
<1>6. FailureChangesNothing' /\ DropsOnlyTheDead'
  BY <1>a DEF FailureChangesNothing, DropsOnlyTheDead
<1> QED
  BY <1>1, <1>2, <1>3, <1>4, <1>5, <1>6

LEMMA KeepInv ==
  ASSUME PoolInv, NEW n \in DOMAIN parsed, Keep(n)
  PROVE  PoolInv'
<1>a. /\ main = "compare" /\ n \in todo /\ n \in DOMAIN pool /\ n \in DOMAIN new_pool
      /\ half = {} /\ ~Starting /\ DOMAIN new_pool = DOMAIN parsed
      /\ todo \subseteq DOMAIN parsed
      /\ SameConfig(pool[n].config, new_pool[n].config)
  BY DEF PoolInv, Progress, Keep, Unchanged
<1>b. /\ pool' = Minus(pool, {n}) /\ fds' = Minus(fds, Handles(new_pool[n]))
      /\ new_pool' = [new_pool EXCEPT ![n] = pool[n]]
      /\ todo' \in {todo, todo \ {n}}
      /\ UNCHANGED <<main, parsed, half, result, before, cut, leaked, lost>>
  BY DEF Keep, Closed
<1>c. OwnLogs(pool) /\ OwnLogs(new_pool) /\ Owned(pool) \cap Owned(new_pool) = {}
  BY <1>a DEF PoolInv, Descriptors
<1>p. /\ DOMAIN pool' = DOMAIN pool \ {n}
      /\ \A m \in DOMAIN pool' : pool'[m] = pool[m]
      /\ Owned(pool') = Owned(pool) \ Handles(pool[n])
  BY <1>a, <1>b, <1>c, OwnedMinus
<1>q. /\ DOMAIN new_pool' = DOMAIN new_pool
      /\ new_pool'[n] = pool[n]
      /\ \A m \in DOMAIN new_pool \ {n} : new_pool'[m] = new_pool[m]
  BY <1>a, <1>b
<1>r. Owned(new_pool') = (Owned(new_pool) \ Handles(new_pool[n])) \cup Handles(pool[n])
  <2>1. \A m \in DOMAIN new_pool \ {n} : Handles(new_pool[n]) \cap Handles(new_pool[m]) = {}
    BY <1>a, <1>c DEF OwnLogs
  <2>2. \A x : x \in Owned(new_pool')
                <=> \/ \E m \in DOMAIN new_pool \ {n} : x \in Handles(new_pool[m])
                    \/ x \in Handles(pool[n])
    BY <1>a, <1>q, InOwned
  <2> QED
    BY <2>1, <2>2, <1>a, InOwned
<1>s. /\ DOMAIN fds' = DOMAIN fds \ Handles(new_pool[n])
      /\ \A d \in DOMAIN fds' : fds'[d] = fds[d]
  BY <1>b DEF Minus
<1>1. TypeOK'
  BY <1>a, <1>b, <1>p, <1>q, <1>s DEF PoolInv, TypeOK
<1>2. Progress'
  BY <1>a, <1>b, <1>p, <1>q DEF PoolInv, Progress, Starting
<1>3. Origins'
  <2>1. n \in DOMAIN before /\ Groups(pool)[n] = before[n] /\ before[n].config = pool[n].config
    BY <1>a, GroupsOf DEF PoolInv, Origins
  <2>2. Fresh(n)
    BY <1>a DEF PoolInv, Origins, TakenOver
  <2>3. TakenOver(n)'
    <3>1. Groups(new_pool')[n] = Groups(pool)[n]
      BY <1>a, <1>q DEF Groups
    <3>2. SameConfig(before[n].config, parsed[n])
      BY <1>a, <2>1, <2>2 DEF Fresh
    <3>3. n \notin DOMAIN pool' /\ before' = before /\ parsed' = parsed
      BY <1>b, <1>p
    <3> QED
      BY <2>1, <3>1, <3>2, <3>3 DEF TakenOver
  <2>4. ASSUME NEW m \in DOMAIN new_pool \ {n}
        PROVE  (Fresh(m) => Fresh(m)') /\ (TakenOver(m) => TakenOver(m)')
    BY <1>a, <1>b, <1>p, <1>q, GroupsOf DEF Fresh, TakenOver
  <2>5. \A m \in DOMAIN pool' : m \in DOMAIN before /\ Groups(pool')[m] = before[m]
    <3>1. \A m \in DOMAIN pool : m \in DOMAIN before /\ Groups(pool)[m] = before[m]
      BY <1>a DEF PoolInv, Origins
    <3>2. \A m \in DOMAIN pool' : m \in DOMAIN pool /\ Groups(pool')[m] = Groups(pool)[m]
      BY <1>p DEF Groups
    <3> QED
      BY <3>1, <3>2
  <2>6. \A m \in DOMAIN pool' \cap DOMAIN new_pool' :
          m \in todo' \/ ~SameConfig(before[m].config, parsed[m])
    BY <1>a, <1>b, <1>p, <1>q DEF PoolInv, Origins
  <2>7. \A m \in DOMAIN new_pool' : Fresh(m)' \/ TakenOver(m)'
    BY <1>a, <1>q, <2>3, <2>4 DEF PoolInv, Origins
  <2> QED
    BY <1>a, <1>b, <2>5, <2>6, <2>7 DEF Origins
<1>4. Descriptors'
  <2>1. /\ \A m \in DOMAIN pool : Handles(pool[m]) \subseteq Owned(pool)
        /\ \A m \in DOMAIN new_pool : Handles(new_pool[m]) \subseteq Owned(new_pool)
    BY InOwned
  <2>2. \A m \in DOMAIN pool : Handles(pool[m]) \cap Handles(new_pool[n]) = {}
    BY <1>a, <1>c, <2>1
  <2>3. OwnLogs(pool)'
    <3>1. \A m \in DOMAIN pool' :
            /\ Handles(pool[m]) \subseteq DOMAIN fds'
            /\ \A d \in Handles(pool[m]) : fds'[d] = fds[d]
      BY <1>c, <1>p, <1>s, <2>2 DEF OwnLogs
    <3>2. \A m \in DOMAIN pool' : pool[m].out \in Handles(pool[m]) /\ pool[m].err \in Handles(pool[m])
      BY DEF Handles
    <3>3. \A m \in DOMAIN pool' : m \in DOMAIN pool /\ pool'[m] = pool[m]
      BY <1>p
    <3>4. leaked' = leaked
      BY <1>b
    <3> QED
      BY ONLY <1>c, <3>1, <3>2, <3>3, <3>4 DEF OwnLogs
  <2>4. OwnLogs(new_pool)'
    <3>1. \A m \in DOMAIN new_pool \ {n} :
            /\ Handles(new_pool[m]) \cap Handles(new_pool[n]) = {}
            /\ Handles(new_pool[m]) \cap Handles(pool[n]) = {}
      BY <1>a, <1>c, <2>1 DEF OwnLogs
    <3>2. \A m \in DOMAIN new_pool \ {n} :
            /\ Handles(new_pool[m]) \subseteq DOMAIN fds'
            /\ \A d \in Handles(new_pool[m]) : fds'[d] = fds[d]
      BY <1>c, <1>s, <3>1 DEF OwnLogs
    <3>3. /\ Handles(pool[n]) \subseteq DOMAIN fds'
          /\ \A d \in Handles(pool[n]) : fds'[d] = fds[d]
      BY <1>a, <1>c, <1>s, <2>2 DEF OwnLogs
    <3>4. \A g : g.out \in Handles(g) /\ g.err \in Handles(g)
      BY DEF Handles
    <3>5. leaked' = leaked /\ n \in DOMAIN pool
      BY <1>a, <1>b
    <3> QED
      BY ONLY <1>c, <1>q, <3>1, <3>2, <3>3, <3>4, <3>5 DEF OwnLogs
  <2>5. {h.fd : h \in half} = {} /\ half' = {} /\ leaked' = leaked /\ main' = main
    BY <1>a, <1>b
  <2>6. DOMAIN fds' = Owned(pool') \cup Owned(new_pool') \cup leaked
    <3>1. DOMAIN fds = Owned(pool) \cup Owned(new_pool) \cup leaked
      BY <1>a, <2>5 DEF PoolInv, Descriptors
    <3>2. Handles(new_pool[n]) \cap leaked = {} /\ Handles(pool[n]) \subseteq Owned(pool)
      BY <1>a, <1>c, <2>1 DEF OwnLogs
    <3> QED
      BY <1>a, <1>p, <1>r, <1>s, <2>1, <2>2, <1>c, <3>1, <3>2
  <2>7. Owned(pool') \cap Owned(new_pool') = {}
    BY <1>c, <1>p, <1>r
  <2> QED
    BY <2>3, <2>4, <2>5, <2>6, <2>7 DEF Descriptors
<1>5. PoolIsFile' /\ FailureChangesNothing' /\ DropsOnlyTheDead'
  BY <1>a, <1>b DEF PoolInv, PoolIsFile, FailureChangesNothing, DropsOnlyTheDead
<1> QED
  BY <1>1, <1>2, <1>3, <1>4, <1>5 DEF PoolInv

LEMMA KillFailsInv ==
  ASSUME PoolInv, NEW n \in DOMAIN pool, KillFails(n)
  PROVE  PoolInv'
<1> USE DEF PoolInv, KillFails
<1>1. TypeOK'
  BY OwnedEmpty DEF TypeOK, Minus
<1>2. Progress'
  BY DEF Progress, Starting
<1>3. Origins' /\ Descriptors' /\ PoolIsFile' /\ FailureChangesNothing'
  BY DEF Origins, Descriptors, PoolIsFile, FailureChangesNothing
<1>4. DropsOnlyTheDead'
  <2> DEFINE Could == UNION {{m} \X (1..parsed[m].numprocs) : m \in DOMAIN parsed}
  <2>1. ASSUME NEW m \in DOMAIN new_pool
        PROVE  m \in DOMAIN parsed /\ new_pool[m].live \subseteq 1..parsed[m].numprocs
    <3>1. IsGroup(new_pool[m]) /\ m \in DOMAIN parsed /\ IsConfig(parsed[m])
      BY <2>1 DEF TypeOK, Progress
    <3>2. Fresh(m) \/ TakenOver(m)
      BY <2>1 DEF Origins
    <3>3. CASE Fresh(m)
      BY <3>1, <3>3 DEF Fresh
    <3>4. CASE TakenOver(m)
      <4>1. /\ new_pool[m].config = before[m].config
            /\ SameConfig(before[m].config, parsed[m])
        BY <2>1, <3>4, GroupsOf DEF TakenOver
      <4>2. new_pool[m].config.numprocs = parsed[m].numprocs
        <5> DEFINE c == before[m].config
                   d == parsed[m]
        <5>1. DOMAIN d = Fields /\ "numprocs" \in Fields
          BY <3>1 DEF IsConfig, Fields, Default
        <5>2. c = [d EXCEPT !.startretries = c.startretries]
          BY <4>1 DEF SameConfig
        <5> HIDE DEF c, d
        <5>3. c["numprocs"] = d["numprocs"]
          BY ONLY <5>1, <5>2
        <5> QED
          BY <4>1, <5>3 DEF c, d
      <4> QED
        BY <3>1, <4>2 DEF IsGroup
    <3> QED
      BY <3>2, <3>3, <3>4
  <2>2. \A x \in Living(new_pool) : x \in Could
    BY <2>1, InLiving
  <2>3. lost \subseteq Could
    BY DEF DropsOnlyTheDead
  <2> QED
    BY <2>2, <2>3 DEF DropsOnlyTheDead
<1> QED
  BY <1>1, <1>2, <1>3, <1>4

LEMMA SwapInv ==
  ASSUME PoolInv, Swap
  PROVE  PoolInv'
<1> USE DEF PoolInv, Swap, Install
<1>0. half = {} /\ DOMAIN new_pool = DOMAIN parsed /\ ~Starting
  BY DEF Progress
<1>1. TypeOK'
  BY OwnedEmpty DEF TypeOK, Minus
<1>2. Progress'
  BY <1>0 DEF Progress, Starting
<1>3. Origins'
  BY DEF Origins
<1>4. Descriptors'
  <2>1. /\ DOMAIN fds' = DOMAIN fds \ Owned(pool)
        /\ \A d \in DOMAIN fds' : fds'[d] = fds[d]
    BY DEF Minus
  <2>2. \A m \in DOMAIN new_pool : Handles(new_pool[m]) \subseteq Owned(new_pool)
    BY InOwned
  <2>3. OwnLogs(pool)'
    BY <2>1, <2>2 DEF Descriptors, OwnLogs, Handles
  <2>4. OwnLogs(new_pool)'
    BY OwnedEmpty DEF OwnLogs
  <2>5. leaked \cap Owned(pool) = {}
    BY InOwned DEF Descriptors, OwnLogs
  <2>6. {h.fd : h \in half} = {} /\ half' = {}
    BY <1>0
  <2>7. DOMAIN fds' = Owned(new_pool) \cup leaked
    BY <2>1, <2>5, <2>6 DEF Descriptors
  <2> QED
    BY <2>3, <2>4, <2>6, <2>7, OwnedEmpty DEF Descriptors
<1>5. PoolIsFile'
  <2>1. ASSUME NEW m \in DOMAIN parsed, m \in DOMAIN before,
               SameConfig(before[m].config, parsed[m])
        PROVE  Groups(new_pool)[m] = before[m]
    <3>1. ~Fresh(m)
      BY <1>0, <2>1 DEF Origins, Fresh
    <3> QED
      BY <1>0, <2>1, <3>1 DEF Origins, TakenOver
  <2>2. ASSUME NEW m \in DOMAIN parsed,
               ~(m \in DOMAIN before /\ SameConfig(before[m].config, parsed[m]))
        PROVE  Fresh(m)
    BY <1>0, <2>2 DEF Origins, TakenOver
  <2> QED
    BY <1>0, <2>1, <2>2 DEF PoolIsFile, Fresh
<1>6. FailureChangesNothing'
  BY DEF FailureChangesNothing
<1>7. DropsOnlyTheDead'
  <2>1. Living(pool) = {}
    <3>1. \A m \in DOMAIN pool : pool[m].live = {}
      BY DEF Origins
    <3>2. \A x : x \notin Living(pool)
      BY <3>1, InLiving
    <3> QED
      BY <3>2
  <2> QED
    BY <2>1 DEF DropsOnlyTheDead
<1> QED
  BY <1>1, <1>2, <1>3, <1>4, <1>5, <1>6, <1>7

LEMMA StutterInv ==
  ASSUME PoolInv, UNCHANGED vars
  PROVE  PoolInv'
<1> USE DEF PoolInv, vars
<1>1. TypeOK' /\ Progress'
  BY DEF TypeOK, Progress, Starting
<1>2. Origins'
  BY DEF Origins, Fresh, TakenOver
<1>3. Descriptors'
  BY DEF Descriptors, OwnLogs
<1>4. PoolIsFile' /\ FailureChangesNothing' /\ DropsOnlyTheDead'
  BY DEF PoolIsFile, FailureChangesNothing, DropsOnlyTheDead
<1> QED
  BY <1>1, <1>2, <1>3, <1>4

-----------------------------------------------------------------------------
(* The theorems.                                                            *)

\* Reading the file, building, comparing, stopping and swapping, in any order that
\* reload_config allows, with the worker between them, keep the two pools apart
\* and the old one complete.
THEOREM PoolInvariance == Spec => []PoolInv
<1>1. Init => PoolInv
  BY InitInv
<1>2. PoolInv /\ [Next]_vars => PoolInv'
  <2> SUFFICES ASSUME PoolInv, [Next]_vars PROVE PoolInv'
    OBVIOUS
  <2>1. ASSUME NEW file \in Files, ReadFile(file) \/ RefuseFile(file) PROVE PoolInv'
    BY <2>1, ReadFileInv, RefuseFileInv
  <2>2. ASSUME NEW n \in DOMAIN parsed,
               OpenStdout(n) \/ OpenFails(n) \/ Keep(n) \/ Replace(n)
        PROVE  PoolInv'
    BY <2>2, OpenStdoutInv, OpenFailsInv, KeepInv, ReplaceInv
  <2>3. ASSUME NEW h \in half, OpenStderr(h) PROVE PoolInv'
    BY <2>3, OpenStderrInv
  <2>4. CASE Start \/ Lock \/ EndCompare \/ Swap
    BY <2>4, StartInv, LockInv, EndCompareInv, SwapInv
  <2>5. CASE Over \/ UNCHANGED vars
    BY <2>5, StutterInv DEF Over
  <2>6. ASSUME NEW n \in DOMAIN pool, StopGroup(n) \/ KillFails(n) \/ Visit(n)
        PROVE  PoolInv'
    BY <2>6, StopGroupInv, KillFailsInv, VisitInv
  <2> QED
    BY <2>1, <2>2, <2>3, <2>4, <2>5, <2>6 DEF Next
<1> QED
  BY <1>1, <1>2, PTL DEF Spec

\* Whatever the file holds, the worker is given configurations that make sense:
\* a positive number of processes and stop time, known exit codes and policies.
THEOREM TypeCorrect == Spec => []TypeOK
<1>1. PoolInv => TypeOK
  BY DEF PoolInv
<1> QED
  BY <1>1, PoolInvariance, PTL

\* A reload that succeeds leaves exactly the programs of the file; those that only
\* differ in startretries keep their group and their old value.
THEOREM ReloadMakesTheFile == Spec => []PoolIsFile
<1>1. PoolInv => PoolIsFile
  BY DEF PoolInv
<1> QED
  BY <1>1, PoolInvariance, PTL

\* A reload whose file is refused, or whose logs cannot be opened, leaves every
\* group as it was.
THEOREM FailedReloadIsHarmless == Spec => []FailureChangesNothing
<1>1. PoolInv => FailureChangesNothing
  BY DEF PoolInv
<1> QED
  BY <1>1, PoolInvariance, PTL

\* However many reloads there are, every open log is the log of one group, and
\* only a constructor that throws between its two logs leaves one open.
THEOREM EveryLogIsOwned == Spec => []LogsAreOwned
<1>1. PoolInv => LogsAreOwned
  <2> SUFFICES ASSUME PoolInv, main # "ended" PROVE LogsAreOwned
    BY DEF LogsAreOwned
  <2>1. OwnLogs(pool) /\ OwnLogs(new_pool) /\ Owned(pool) \cap Owned(new_pool) = {}
    BY DEF PoolInv, Descriptors
  <2>2. ASSUME NEW p \in {pool, new_pool}, NEW n \in DOMAIN p,
               NEW q \in {pool, new_pool}, NEW m \in DOMAIN q,
               Handles(p[n]) \cap Handles(q[m]) # {}
        PROVE  p = q /\ m = n
    <3>1. OwnLogs(p) /\ OwnLogs(q)
      BY <2>1
    <3>2. Handles(p[n]) \subseteq Owned(p) /\ Handles(q[m]) \subseteq Owned(q)
      BY InOwned
    <3>3. p = q
      BY <2>1, <2>2, <3>2
    <3>4. m = n
      BY <2>2, <3>1, <3>3 DEF OwnLogs
    <3> QED
      BY <3>3, <3>4
  <2>3. ASSUME NEW p \in {pool, new_pool}, NEW n \in DOMAIN p
        PROVE  /\ p[n].out # p[n].err /\ Handles(p[n]) \cap leaked = {}
               /\ fds[p[n].out] = p[n].config.stdout /\ fds[p[n].err] = p[n].config.stderr
    BY <2>1 DEF OwnLogs
  <2>4. DOMAIN fds = Owned(pool) \cup Owned(new_pool) \cup {h.fd : h \in half} \cup leaked
    BY DEF PoolInv, Descriptors
  <2> QED
    BY <2>2, <2>3, <2>4 DEF LogsAreOwned
<1> QED
  BY <1>1, PoolInvariance, PTL

\* A reload sends SIGKILL to every process it drops; only a kill(2) that fails
\* makes it drop some live, and only of programs it was to keep.
THEOREM ReloadDropsOnlyTheDead == Spec => []DropsOnlyTheDead
<1>1. PoolInv => DropsOnlyTheDead
  BY DEF PoolInv
<1> QED
  BY <1>1, PoolInvariance, PTL

-----------------------------------------------------------------------------
(* Refinement of module Reloads.                                            *)

\* What is being put in place was read from a file that was accepted.
WasRead == main \in {"build", "compare", "kill"} => parsed \in FileContents

LEMMA WasReadNext ==
  ASSUME WasRead, [Next]_vars
  PROVE  WasRead'
<1>1. ASSUME NEW file \in Files, ReadFile(file) PROVE WasRead'
  BY <1>1 DEF ReadFile, WasRead, FileContents
<1>2. ASSUME NEW file \in Files, RefuseFile(file) PROVE WasRead'
  BY <1>2 DEF RefuseFile, GiveUp, WasRead
<1>3. ASSUME NEW n, OpenStdout(n) \/ OpenFails(n) \/ Keep(n) \/ Replace(n) PROVE WasRead'
  BY <1>3 DEF OpenStdout, OpenFails, GiveUp, Keep, Replace, WasRead
<1>4. ASSUME NEW h, OpenStderr(h) PROVE WasRead'
  BY <1>4 DEF OpenStderr, WasRead
<1>5. CASE Start \/ Lock \/ EndCompare \/ Swap \/ Over \/ UNCHANGED vars
  BY <1>5 DEF Start, Built, Lock, EndCompare, Swap, Install, Over, vars, WasRead
<1>6. ASSUME NEW n, StopGroup(n) \/ KillFails(n) \/ Visit(n) PROVE WasRead'
  BY <1>6 DEF StopGroup, KillFails, Visit, WasRead
<1> QED
  BY <1>1, <1>2, <1>3, <1>4, <1>5, <1>6 DEF Next

LEMMA Unmoved ==
  ASSUME UNCHANGED <<Programs, Stage>>
  PROVE  UNCHANGED R!vars
BY DEF R!vars

\* The constructor of Taskmaster throws, or kill(2) fails: the daemon ends.
LEMMA EndStep ==
  ASSUME main # "ended", main' = "ended"
  PROVE  R!Next
BY OwnedEmpty DEF R!Next, R!End, Programs, Stage

\* The steps before the mutex is taken.
LEMMA BuildSteps ==
  ASSUME PoolInv, main \in {"idle", "build"}, main' \in {"idle", "build", "compare"},
         Groups(pool') = Groups(pool), Starting' <=> Starting,
         main' = "compare" => main = "build" /\ before' = before
  PROVE  UNCHANGED R!vars
<1>1. main = "build" => Groups(pool) = before
  BY DEF PoolInv, Progress
<1>2. main' # "compare" => Groups(pool)' = Groups(pool)
  OBVIOUS
<1>3. UNCHANGED Programs
  BY <1>1, <1>2 DEF Programs
<1>4. UNCHANGED Stage
  BY DEF Stage
<1> QED  BY <1>3, <1>4, Unmoved

\* The steps under the mutex, up to the swap.
LEMMA LockedSteps ==
  ASSUME main \in {"compare", "kill"}, main' \in {"compare", "kill"},
         UNCHANGED <<before, result>>
  PROVE  UNCHANGED R!vars
BY Unmoved DEF Programs, Stage, Starting

\* The pool that is put in place is that of the file, as seen from the one before.
LEMMA InstallStep ==
  ASSUME PoolInv, PoolInv', WasRead, Start \/ Swap
  PROVE  R!Next
<1>1. /\ main \in {"build", "kill"} /\ main' = "idle" /\ result' = "ok"
      /\ UNCHANGED <<parsed, before>>
  BY DEF Start, Built, Swap, Install
<1>2. parsed \in FileContents
  BY <1>1 DEF WasRead
<1>3. Programs = before
  BY <1>1 DEF Programs, PoolInv, Progress
<1>4. /\ Programs' = Groups(pool)' /\ Stage' = "serving"
      /\ Stage = IF Starting THEN "starting" ELSE "serving"
  BY <1>1 DEF Programs, Stage, Starting
<1>5. /\ DOMAIN pool' = DOMAIN parsed
      /\ \A n \in DOMAIN parsed :
           IF n \in DOMAIN before /\ SameConfig(before[n].config, parsed[n])
             THEN Groups(pool)'[n] = before[n] ELSE pool'[n].config = parsed[n]
  <2>1. PoolIsFile'
    BY DEF PoolInv
  <2> QED  BY <1>1, <2>1 DEF PoolIsFile
<1>6. /\ DOMAIN Groups(pool)' = DOMAIN parsed
      /\ \A n \in DOMAIN parsed : Groups(pool)'[n].config = pool'[n].config
  BY <1>5 DEF Groups
<1>7. R!Load(parsed)
  BY <1>3, <1>4, <1>5, <1>6 DEF R!Load, R!Kept, R!SameConfig, SameConfig
<1> QED
  BY <1>2, <1>4, <1>7 DEF R!Next, R!Start, R!Reload

LEMMA ReloadRefines ==
  ASSUME PoolInv, PoolInv', WasRead, [Next]_vars
  PROVE  [R!Next]_(R!vars)
<1>0. /\ main = "idle" => half = {}
      /\ main \in {"compare", "kill"} => ~Starting
  BY DEF PoolInv, Progress
<1>1. ASSUME NEW file \in Files, ReadFile(file) PROVE UNCHANGED R!vars
  BY <1>1, BuildSteps DEF ReadFile, Starting
<1>2. ASSUME NEW file \in Files, RefuseFile(file) PROVE [R!Next]_(R!vars)
  BY <1>2, BuildSteps, EndStep DEF RefuseFile, GiveUp, Starting
<1>3. ASSUME NEW n \in DOMAIN parsed, OpenFails(n) PROVE [R!Next]_(R!vars)
  BY <1>3, BuildSteps, EndStep DEF OpenFails, GiveUp, Starting
<1>4. ASSUME NEW n \in DOMAIN parsed, OpenStdout(n) PROVE UNCHANGED R!vars
  BY <1>4, BuildSteps DEF OpenStdout, Starting
<1>5. ASSUME NEW h \in half, OpenStderr(h) PROVE UNCHANGED R!vars
  BY <1>5, BuildSteps DEF OpenStderr, Starting
<1>6. CASE Lock
  BY <1>6, BuildSteps DEF Lock, Built, Starting
<1>7. CASE Start \/ Swap
  BY <1>7, InstallStep
<1>8. ASSUME NEW n \in DOMAIN parsed, Keep(n) \/ Replace(n) PROVE UNCHANGED R!vars
  BY <1>8, LockedSteps DEF Keep, Replace
<1>9. CASE EndCompare
  BY <1>9, LockedSteps DEF EndCompare
<1>10. ASSUME NEW n \in DOMAIN pool, StopGroup(n) PROVE UNCHANGED R!vars
  BY <1>10, LockedSteps DEF StopGroup
<1>11. ASSUME NEW n \in DOMAIN pool, KillFails(n) PROVE R!Next
  BY <1>11, EndStep DEF KillFails
<1>12. ASSUME NEW n \in DOMAIN pool, Visit(n) PROVE UNCHANGED R!vars
  <2>1. PICK live : pool' = WithLive(pool, n, live)
    BY <1>12 DEF Visit, WithLive
  <2>2. IsGroup(pool[n])
    BY DEF PoolInv, TypeOK
  <2>3. Groups(pool') = Groups(pool)
    BY ONLY <2>1, <2>2, SameGroups, n \in DOMAIN pool
  <2> QED  BY <1>12, <2>3, BuildSteps DEF Visit, Starting
<1>13. CASE Over \/ UNCHANGED vars
  <2>1. UNCHANGED <<main, before, pool, result>>
    BY <1>13 DEF Over, vars
  <2>2. Groups(pool)' = Groups(pool)
    BY <2>1
  <2> QED  BY <2>1, <2>2, Unmoved DEF Programs, Stage, Starting
<1> QED
  BY <1>1, <1>2, <1>3, <1>4, <1>5, <1>6, <1>7, <1>8, <1>9, <1>10, <1>11, <1>12, <1>13
  DEF Next

\* However the steps of a reload fall, and wherever one fails, the programs change
\* all at once to those of one accepted file, or not at all.
THEOREM ReloadsAreAtomic == Spec => ReloadIsAtomic
<1>1. Init => R!Init /\ WasRead
  BY OwnedEmpty DEF Init, R!Init, Programs, Stage, Starting, Groups, WasRead
<1>2. WasRead /\ [Next]_vars => WasRead'
  BY WasReadNext
<1>3. PoolInv /\ PoolInv' /\ WasRead /\ [Next]_vars => [R!Next]_(R!vars)
  BY ReloadRefines
<1> QED
  BY <1>1, <1>2, <1>3, PoolInvariance, PTL DEF Spec, ReloadIsAtomic, R!Spec
=============================================================================
