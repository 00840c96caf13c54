--------------------------- MODULE CtlSessionProofs ---------------------------
(***************************************************************************)
(* Proofs about module CtlSession, for any number of clients, any commands *)
(* and any amount of output under way.                                     *)
(***************************************************************************)
EXTENDS CtlSession, TLAPS

-----------------------------------------------------------------------------
(* What a write of the daemon does to the stream of a client.               *)

LEMMA EntriesTyped ==
  ASSUME NEW u \in Seq(CommandType)
  PROVE  \A i \in DOMAIN u : u[i] \in CommandType /\ u[i].id \in Nat \ {0}
<1>1. \A i \in DOMAIN u : u[i] \in CommandType
  OBVIOUS
<1> QED
  BY <1>1 DEF CommandType

LEMMA RangeOfAppended ==
  ASSUME NEW s \in Seq(Nat), NEW x \in Nat
  PROVE  Range(Append(s, x)) = Range(s) \cup {x}
<1> DEFINE r == Append(s, x)
<1>1. /\ DOMAIN s = 1..Len(s) /\ Len(s) \in Nat
      /\ DOMAIN r = 1..(Len(s) + 1)
      /\ r[Len(s) + 1] = x
      /\ \A i \in DOMAIN s : r[i] = s[i]
  OBVIOUS
<1> HIDE DEF r
<1>2. ASSUME NEW y \in Range(r) PROVE y \in Range(s) \/ y = x
  <2>1. PICK i \in DOMAIN r : y = r[i]
    BY DEF Range
  <2>2. CASE i \in DOMAIN s
    BY <1>1, <2>1, <2>2 DEF Range
  <2>3. CASE i = Len(s) + 1
    BY <1>1, <2>1, <2>3
  <2> QED
    BY <1>1, <2>2, <2>3
<1>3. Range(s) \subseteq Range(r)
  BY <1>1 DEF Range
<1>4. x \in Range(r)
  BY <1>1 DEF Range
<1>5. Range(r) = Range(s) \cup {x}
  BY <1>2, <1>3, <1>4
<1> QED
  BY <1>5 DEF r

\* The message is the last one of the stream, if the daemon survives the write.
Extended(c, id) ==
  /\ DOMAIN down[c] = 1..Len(down[c]) /\ Len(down[c]) \in Nat
  /\ DOMAIN down'[c] = 1..(Len(down[c]) + 1)
  /\ down'[c][Len(down[c]) + 1] = id
  /\ \A i \in DOMAIN down[c] : down'[c][i] = down[c][i]
  /\ Range(down'[c]) = Range(down[c]) \cup {id}

LEMMA SendEffect ==
  ASSUME TypeOK, NEW c \in Clients, NEW id \in Nat, Send(c, id)
  PROVE  /\ (main' = main /\ UNCHANGED <<reset, open>>) \/ main' = "killed"
         /\ reset' \in [Clients -> BOOLEAN] /\ open' \in [Clients -> BOOLEAN]
         /\ down' \in [Clients -> Seq(Nat)]
         /\ \A d \in Clients \ {c} : down'[d] = down[d]
         /\ down'[c] = down[c] \/ (Extended(c, id) /\ main' = main)
<1>1. CASE at[c] = "left"
  <2>1. /\ main' = "killed" /\ down' = down
        /\ open' = [d \in Clients |-> FALSE]
        /\ reset' = [d \in Clients |-> open[d] /\ up'[d] # <<>>]
    BY <1>1 DEF Send, CloseConnections
  <2>2. open' \in [Clients -> BOOLEAN]
    BY <2>1
  <2>3. reset' \in [Clients -> BOOLEAN]
    BY <2>1, Zenon
  <2> QED
    BY <2>1, <2>2, <2>3 DEF TypeOK
<1>2. CASE at[c] # "left"
  <2>1. down[c] \in Seq(Nat)
    BY DEF TypeOK
  <2>2. down' = [down EXCEPT ![c] = Append(down[c], id)] /\ UNCHANGED <<main, reset, open>>
    BY <1>2 DEF Send
  <2>3. down'[c] = Append(down[c], id) /\ \A d \in Clients \ {c} : down'[d] = down[d]
    BY <2>2 DEF TypeOK
  <2>4. down' \in [Clients -> Seq(Nat)]
    BY <2>1, <2>2 DEF TypeOK
  <2>5. Extended(c, id)
    <3> DEFINE s == down[c]
               r == down'[c]
    <3>1. r = Append(s, id) /\ s \in Seq(Nat)
      BY <2>1, <2>3
    <3> HIDE DEF s, r
    <3>2. /\ DOMAIN s = 1..Len(s) /\ Len(s) \in Nat
          /\ DOMAIN r = 1..(Len(s) + 1)
          /\ r[Len(s) + 1] = id
          /\ \A i \in DOMAIN s : r[i] = s[i]
          /\ Range(r) = Range(s) \cup {id}
      <4>1. /\ DOMAIN s = 1..Len(s) /\ Len(s) \in Nat
            /\ DOMAIN r = 1..(Len(s) + 1)
            /\ r[Len(s) + 1] = id
            /\ \A i \in DOMAIN s : r[i] = s[i]
        BY ONLY <3>1, id \in Nat
      <4>2. Range(r) = Range(s) \cup {id}
        BY <3>1, RangeOfAppended
      <4> QED
        BY ONLY <4>1, <4>2
    <3> QED
      BY <3>2 DEF s, r, Extended
  <2> QED
    BY <2>2, <2>3, <2>4, <2>5 DEF TypeOK
<1> QED
  BY <1>1, <1>2

\* An answer that is later than all that was read or is on its way keeps the order.
LEMMA ExtendedNumbered ==
  ASSUME SessionInv, NEW c \in Clients, NEW id \in Nat, Extended(c, id),
         id <= sent[c],
         id # 0 => /\ \A i \in DOMAIN down[c] : down[c][i] < id
                   /\ \A k \in shown[c] : k < id,
         \A j \in DOMAIN up'[c] : id < up'[c][j].id,
         up'[c] = up[c] \/ DOMAIN up'[c] = {}, sent'[c] = sent[c], shown'[c] = shown[c]
  PROVE  Numbered(c)'
<1> USE DEF Extended
<1>0. Numbered(c)
  BY DEF SessionInv
<1>1. \A i \in DOMAIN up'[c] : up'[c][i].id <= sent'[c]
  BY <1>0 DEF Numbered
<1>2. \A i, j \in DOMAIN up'[c] : i < j => up'[c][i].id < up'[c][j].id
  BY <1>0 DEF Numbered
<1>3. ASSUME NEW i \in DOMAIN down'[c]
      PROVE  down'[c][i] <= sent'[c] /\ \A j \in DOMAIN up'[c] : down'[c][i] < up'[c][j].id
  <2>1. CASE i \in DOMAIN down[c]
    BY <1>0, <2>1 DEF Numbered
  <2>2. CASE i = Len(down[c]) + 1
    BY <2>2
  <2> QED
    BY <2>1, <2>2
<1>4. ASSUME NEW i \in DOMAIN down'[c], NEW j \in DOMAIN down'[c], i < j, down'[c][j] # 0
      PROVE  down'[c][i] < down'[c][j]
  <2>1. i \in DOMAIN down[c]
    BY <1>4
  <2>2. CASE j \in DOMAIN down[c]
    BY <1>0, <1>4, <2>1, <2>2 DEF Numbered
  <2>3. CASE j = Len(down[c]) + 1
    BY <1>4, <2>1, <2>3
  <2> QED
    BY <2>2, <2>3
<1>5. ASSUME NEW k \in shown'[c]
      PROVE  /\ k \in 1..sent'[c]
             /\ \A i \in DOMAIN up'[c] : k < up'[c][i].id
             /\ \A i \in DOMAIN down'[c] : down'[c][i] # 0 => k < down'[c][i]
  <2>1. k \in 1..sent'[c] /\ \A i \in DOMAIN up'[c] : k < up'[c][i].id
    BY <1>0 DEF Numbered
  <2>2. ASSUME NEW i \in DOMAIN down'[c], down'[c][i] # 0
        PROVE  k < down'[c][i]
    <3>1. CASE i \in DOMAIN down[c]
      BY <1>0, <2>2, <3>1 DEF Numbered
    <3>2. CASE i = Len(down[c]) + 1
      BY <2>2, <3>2
    <3> QED
      BY <3>1, <3>2
  <2> QED
    BY <2>1, <2>2
<1> QED
  BY <1>1, <1>2, <1>3, <1>4, <1>5 DEF Numbered

-----------------------------------------------------------------------------
(* The invariant, action by action.                                         *)

\* A step that leaves the streams and the numbers alone.
LEMMA StreamsUndisturbed ==
  ASSUME SessionInv, UNCHANGED <<sent, hasty, up, down, shown, dropped>>
  PROVE  /\ \A d \in Clients : Numbered(d)' /\ Queued(d)'
         /\ DropsNeedHaste'
<1>1. ASSUME NEW d \in Clients PROVE Numbered(d)' /\ Queued(d)'
  BY DEF SessionInv, Numbered, Queued
<1>2. DropsNeedHaste'
  BY DEF SessionInv, DropsNeedHaste
<1> QED
  BY <1>1, <1>2

LEMMA SetSigintHandlerInv ==
  ASSUME SessionInv, NEW c \in Clients, SetSigintHandler(c)
  PROVE  SessionInv'
<1>1. TypeOK'
  BY DEF SessionInv, TypeOK, SetSigintHandler, client_vars, stream_vars, main_vars,
       session_vars
<1>2. /\ \A d \in Clients : Numbered(d)' /\ Queued(d)'
      /\ DropsNeedHaste'
  BY StreamsUndisturbed DEF SetSigintHandler, client_vars, stream_vars, main_vars,
       session_vars
<1>3. ASSUME NEW d \in Clients PROVE Pending(d)'
  BY DEF SessionInv, TypeOK, Pending, SetSigintHandler, client_vars, stream_vars,
       main_vars, session_vars
<1>4. ASSUME NEW d \in Clients PROVE Awaited(d)'
  BY DEF SessionInv, TypeOK, Awaited, Receiving, SetSigintHandler, client_vars,
       stream_vars, main_vars, session_vars
<1>5. Synchronised'
  BY DEF SessionInv, TypeOK, Synchronised, SetSigintHandler, client_vars, stream_vars,
       main_vars, session_vars
<1> QED
  BY <1>1, <1>2, <1>3, <1>4, <1>5 DEF SessionInv

LEMMA EndOfFileInv ==
  ASSUME SessionInv, NEW c \in Clients, EndOfFile(c)
  PROVE  SessionInv'
<1>1. TypeOK'
  BY DEF SessionInv, TypeOK, EndOfFile, Receiving, client_vars, stream_vars, main_vars,
       session_vars
<1>2. /\ \A d \in Clients : Numbered(d)' /\ Queued(d)'
      /\ DropsNeedHaste'
  BY StreamsUndisturbed DEF EndOfFile, client_vars, stream_vars, main_vars, session_vars
<1>3. ASSUME NEW d \in Clients PROVE Pending(d)'
  BY DEF SessionInv, TypeOK, Pending, EndOfFile, Receiving, client_vars, stream_vars,
       main_vars, session_vars
<1>4. ASSUME NEW d \in Clients PROVE Awaited(d)'
  BY DEF SessionInv, TypeOK, Awaited, Receiving, EndOfFile, client_vars, stream_vars,
       main_vars, session_vars
<1>5. Synchronised'
  BY DEF SessionInv, TypeOK, Synchronised, EndOfFile, Receiving, client_vars,
       stream_vars, main_vars, session_vars
<1> QED
  BY <1>1, <1>2, <1>3, <1>4, <1>5 DEF SessionInv

LEMMA CtrlCInv ==
  ASSUME SessionInv, NEW c \in Clients, CtrlC(c)
  PROVE  SessionInv'
<1>1. TypeOK'
  BY DEF SessionInv, TypeOK, CtrlC, CatchesSigint, Receiving, client_vars, stream_vars,
       main_vars, session_vars
<1>2. /\ \A d \in Clients : Numbered(d)' /\ Queued(d)'
      /\ DropsNeedHaste'
  BY StreamsUndisturbed DEF CtrlC, client_vars, stream_vars, main_vars, session_vars
<1>3. ASSUME NEW d \in Clients PROVE Pending(d)'
  BY DEF SessionInv, TypeOK, Pending, CtrlC, CatchesSigint, Receiving, client_vars,
       stream_vars, main_vars, session_vars
<1>4. ASSUME NEW d \in Clients PROVE Awaited(d)'
  BY DEF SessionInv, TypeOK, Awaited, Receiving, CtrlC, CatchesSigint, client_vars,
       stream_vars, main_vars, session_vars
<1>5. Synchronised'
  BY DEF SessionInv, TypeOK, Synchronised, CtrlC, CatchesSigint, Receiving, client_vars,
       stream_vars, main_vars, session_vars
<1> QED
  BY <1>1, <1>2, <1>3, <1>4, <1>5 DEF SessionInv

LEMMA LeaveInv ==
  ASSUME SessionInv, NEW c \in Clients, Leave(c)
  PROVE  SessionInv'
<1>1. TypeOK'
  BY DEF SessionInv, TypeOK, Leave, CatchesSigint, Receiving, client_vars, stream_vars,
       main_vars, session_vars
<1>2. /\ \A d \in Clients : Numbered(d)' /\ Queued(d)'
      /\ DropsNeedHaste'
  BY StreamsUndisturbed DEF Leave, client_vars, stream_vars, main_vars, session_vars
<1>3. ASSUME NEW d \in Clients PROVE Pending(d)'
  BY DEF SessionInv, TypeOK, Pending, Leave, CatchesSigint, Receiving, client_vars,
       stream_vars, main_vars, session_vars
<1>4. ASSUME NEW d \in Clients PROVE Awaited(d)'
  BY DEF SessionInv, TypeOK, Awaited, Receiving, Leave, CatchesSigint, client_vars,
       stream_vars, main_vars, session_vars
<1>5. Synchronised'
  BY DEF SessionInv, TypeOK, Synchronised, Leave, CatchesSigint, Receiving, client_vars,
       stream_vars, main_vars, session_vars
<1> QED
  BY <1>1, <1>2, <1>3, <1>4, <1>5 DEF SessionInv

LEMMA PollReturnsInv ==
  ASSUME SessionInv, PollReturns
  PROVE  SessionInv'
<1>1. TypeOK'
  BY DEF SessionInv, TypeOK, PollReturns, client_vars, stream_vars, main_vars, session_vars
<1>2. /\ \A d \in Clients : Numbered(d)' /\ Queued(d)'
      /\ DropsNeedHaste'
  BY StreamsUndisturbed DEF PollReturns, client_vars, stream_vars, main_vars, session_vars
<1>3. ASSUME NEW d \in Clients PROVE Pending(d)'
  BY DEF SessionInv, TypeOK, Pending, PollReturns, client_vars, stream_vars, main_vars,
       session_vars
<1>4. ASSUME NEW d \in Clients PROVE Awaited(d)'
  BY DEF SessionInv, TypeOK, Awaited, Receiving, PollReturns, client_vars, stream_vars,
       main_vars, session_vars
<1>5. Synchronised'
  BY DEF SessionInv, TypeOK, Synchronised, PollReturns, client_vars, stream_vars,
       main_vars, session_vars
<1> QED
  BY <1>1, <1>2, <1>3, <1>4, <1>5 DEF SessionInv

LEMMA EndBatchInv ==
  ASSUME SessionInv, EndBatch
  PROVE  SessionInv'
<1>1. TypeOK'
  BY DEF SessionInv, TypeOK, EndBatch, AfterBatch, NextIteration, client_vars,
       stream_vars, main_vars, session_vars
<1>2. /\ \A d \in Clients : Numbered(d)' /\ Queued(d)'
      /\ DropsNeedHaste'
  BY StreamsUndisturbed DEF EndBatch, client_vars, stream_vars, main_vars, session_vars
<1>3. ASSUME NEW d \in Clients PROVE Pending(d)'
  BY DEF SessionInv, TypeOK, Pending, EndBatch, AfterBatch, NextIteration, client_vars,
       stream_vars, main_vars, session_vars
<1>4. ASSUME NEW d \in Clients PROVE Awaited(d)'
  BY DEF SessionInv, TypeOK, Awaited, Receiving, EndBatch, AfterBatch, NextIteration,
       client_vars, stream_vars, main_vars, session_vars
<1>5. Synchronised'
  BY DEF SessionInv, TypeOK, Synchronised, EndBatch, AfterBatch, NextIteration,
       client_vars, stream_vars, main_vars, session_vars
<1> QED
  BY <1>1, <1>2, <1>3, <1>4, <1>5 DEF SessionInv

LEMMA SigHupInv ==
  ASSUME SessionInv, SigHup
  PROVE  SessionInv'
<1>1. TypeOK'
  BY DEF SessionInv, TypeOK, SigHup, client_vars, stream_vars, main_vars, session_vars
<1>2. /\ \A d \in Clients : Numbered(d)' /\ Queued(d)'
      /\ DropsNeedHaste'
  BY StreamsUndisturbed DEF SigHup, client_vars, stream_vars, main_vars, session_vars
<1>3. ASSUME NEW d \in Clients PROVE Pending(d)'
  BY DEF SessionInv, TypeOK, Pending, SigHup, client_vars, stream_vars, main_vars,
       session_vars
<1>4. ASSUME NEW d \in Clients PROVE Awaited(d)'
  BY DEF SessionInv, TypeOK, Awaited, Receiving, SigHup, client_vars, stream_vars,
       main_vars, session_vars
<1>5. Synchronised'
  BY DEF SessionInv, TypeOK, Synchronised, SigHup, client_vars, stream_vars, main_vars,
       session_vars
<1> QED
  BY <1>1, <1>2, <1>3, <1>4, <1>5 DEF SessionInv

LEMMA ReloadConfigInv ==
  ASSUME SessionInv, ReloadConfig
  PROVE  SessionInv'
<1>1. TypeOK'
  BY DEF SessionInv, TypeOK, ReloadConfig, client_vars, stream_vars, main_vars, session_vars
<1>2. /\ \A d \in Clients : Numbered(d)' /\ Queued(d)'
      /\ DropsNeedHaste'
  BY StreamsUndisturbed DEF ReloadConfig, client_vars, stream_vars, main_vars, session_vars
<1>3. ASSUME NEW d \in Clients PROVE Pending(d)'
  BY DEF SessionInv, TypeOK, Pending, ReloadConfig, client_vars, stream_vars, main_vars,
       session_vars
<1>4. ASSUME NEW d \in Clients PROVE Awaited(d)'
  BY DEF SessionInv, TypeOK, Awaited, Receiving, ReloadConfig, client_vars, stream_vars,
       main_vars, session_vars
<1>5. Synchronised'
  BY DEF SessionInv, TypeOK, Synchronised, ReloadConfig, client_vars, stream_vars,
       main_vars, session_vars
<1> QED
  BY <1>1, <1>2, <1>3, <1>4, <1>5 DEF SessionInv

LEMMA KillFailsInv ==
  ASSUME SessionInv, KillFails
  PROVE  SessionInv'
<1>1. TypeOK'
  BY DEF SessionInv, TypeOK, KillFails, client_vars, stream_vars, main_vars, session_vars
<1>2. /\ \A d \in Clients : Numbered(d)' /\ Queued(d)'
      /\ DropsNeedHaste'
  BY StreamsUndisturbed DEF KillFails, client_vars, stream_vars, main_vars, session_vars
<1>3. ASSUME NEW d \in Clients PROVE Pending(d)'
  BY DEF SessionInv, TypeOK, Pending, KillFails, client_vars, stream_vars, main_vars,
       session_vars
<1>4. ASSUME NEW d \in Clients PROVE Awaited(d)'
  BY DEF SessionInv, TypeOK, Awaited, Receiving, KillFails, client_vars, stream_vars,
       main_vars, session_vars
<1>5. Synchronised'
  BY DEF SessionInv, TypeOK, Synchronised, KillFails, client_vars, stream_vars,
       main_vars, session_vars
<1> QED
  BY <1>1, <1>2, <1>3, <1>4, <1>5 DEF SessionInv

LEMMA EndReloadInv ==
  ASSUME SessionInv, EndReload
  PROVE  SessionInv'
<1>1. TypeOK'
  BY DEF SessionInv, TypeOK, EndReload, NextIteration, client_vars, stream_vars,
       main_vars, session_vars
<1>2. /\ \A d \in Clients : Numbered(d)' /\ Queued(d)'
      /\ DropsNeedHaste'
  BY StreamsUndisturbed DEF EndReload, client_vars, stream_vars, main_vars, session_vars
<1>3. ASSUME NEW d \in Clients PROVE Pending(d)'
  BY DEF SessionInv, TypeOK, Pending, EndReload, NextIteration, client_vars, stream_vars,
       main_vars, session_vars
<1>4. ASSUME NEW d \in Clients PROVE Awaited(d)'
  BY DEF SessionInv, TypeOK, Awaited, Receiving, EndReload, NextIteration, client_vars,
       stream_vars, main_vars, session_vars
<1>5. Synchronised'
  BY DEF SessionInv, TypeOK, Synchronised, EndReload, NextIteration, client_vars,
       stream_vars, main_vars, session_vars
<1> QED
  BY <1>1, <1>2, <1>3, <1>4, <1>5 DEF SessionInv

LEMMA ExitInv ==
  ASSUME SessionInv, Exit
  PROVE  SessionInv'
<1>1. TypeOK'
  BY DEF SessionInv, TypeOK, Exit, CloseConnections, client_vars, stream_vars, main_vars,
       session_vars
<1>2. /\ \A d \in Clients : Numbered(d)' /\ Queued(d)'
      /\ DropsNeedHaste'
  BY StreamsUndisturbed DEF Exit, client_vars, stream_vars, main_vars, session_vars
<1>3. ASSUME NEW d \in Clients PROVE Pending(d)'
  BY DEF SessionInv, TypeOK, Pending, Exit, CloseConnections, client_vars, stream_vars,
       main_vars, session_vars
<1>4. ASSUME NEW d \in Clients PROVE Awaited(d)'
  BY DEF SessionInv, TypeOK, Awaited, Receiving, Exit, CloseConnections, client_vars,
       stream_vars, main_vars, session_vars
<1>5. Synchronised'
  BY DEF SessionInv, TypeOK, Synchronised, Exit, CloseConnections, client_vars,
       stream_vars, main_vars, session_vars
<1> QED
  BY <1>1, <1>2, <1>3, <1>4, <1>5 DEF SessionInv

LEMMA DisconnectInv ==
  ASSUME SessionInv, NEW c \in Clients, Disconnect(c)
  PROVE  SessionInv'
<1>1. TypeOK'
  BY DEF SessionInv, TypeOK, Disconnect, client_vars, stream_vars, main_vars, session_vars
<1>2. /\ \A d \in Clients : Numbered(d)' /\ Queued(d)'
      /\ DropsNeedHaste'
  BY StreamsUndisturbed DEF Disconnect, client_vars, stream_vars, main_vars, session_vars
<1>3. ASSUME NEW d \in Clients PROVE Pending(d)'
  BY DEF SessionInv, TypeOK, Pending, Disconnect, client_vars, stream_vars, main_vars,
       session_vars
<1>4. ASSUME NEW d \in Clients PROVE Awaited(d)'
  BY DEF SessionInv, TypeOK, Awaited, Receiving, Disconnect, client_vars, stream_vars,
       main_vars, session_vars
<1>5. Synchronised'
  BY DEF SessionInv, TypeOK, Synchronised, Disconnect, client_vars, stream_vars,
       main_vars, session_vars
<1> QED
  BY <1>1, <1>2, <1>3, <1>4, <1>5 DEF SessionInv

LEMMA OutputInv ==
  ASSUME SessionInv, NEW c \in Clients, Output(c)
  PROVE  SessionInv'
<1>k. /\ Send(c, 0) /\ 0 \in Nat
      /\ UNCHANGED <<client_vars, up, ready, running, sighup, listed, attached, dropped>>
      /\ main \in {"handle", "reload"} /\ request' = request
      /\ attached[c]
  BY DEF Output, SessionInv, TypeOK
<1>s. /\ (main' = main /\ UNCHANGED <<reset, open>>) \/ main' = "killed"
      /\ reset' \in [Clients -> BOOLEAN] /\ open' \in [Clients -> BOOLEAN]
      /\ down' \in [Clients -> Seq(Nat)]
      /\ \A d \in Clients \ {c} : down'[d] = down[d]
      /\ down'[c] = down[c] \/ (Extended(c, 0) /\ main' = main)
  BY <1>k, SendEffect DEF SessionInv
<1>r. request' \in [Clients -> Nat] /\ \A d \in Clients : request'[d] \in {request[d], 0}
  BY <1>k DEF SessionInv, TypeOK
<1>1. TypeOK'
  BY <1>k, <1>s, <1>r DEF SessionInv, TypeOK, client_vars
<1>2. ASSUME NEW d \in Clients PROVE Numbered(d)'
  <2>1. CASE d = c /\ Extended(c, 0)
    <3>1. Numbered(c) /\ Pending(c) /\ sent[c] \in Nat
      BY DEF SessionInv, TypeOK
    <3>2. sent' = sent /\ shown' = shown /\ up' = up
      BY <1>k DEF client_vars
    <3>3. \A j \in DOMAIN up'[c] : 0 < up'[c][j].id
      <4>1. \A j \in DOMAIN up[c] : up[c][j].id \in Nat \ {0}
        BY EntriesTyped DEF SessionInv, TypeOK
      <4> QED
        BY <1>k, <3>1, <3>2, <4>1 DEF Pending
    <3>4. 0 <= sent[c]
      BY <1>k, <3>1 DEF Pending
    <3>5. 0 # 0 => /\ \A i \in DOMAIN down[c] : down[c][i] < 0
                   /\ \A k \in shown[c] : k < 0
      BY <1>k, <3>1 DEF Pending
    <3> QED
      BY <1>k, <2>1, <3>2, <3>3, <3>4, <3>5, ExtendedNumbered
  <2>2. CASE down'[d] = down[d]
    BY <1>k, <2>2 DEF SessionInv, Numbered, client_vars
  <2> QED
    BY <1>s, <2>1, <2>2
<1>3. ASSUME NEW d \in Clients PROVE Pending(d)'
  <2>1. /\ Pending(d) /\ request[d] \in Nat
        /\ sent'[d] = sent[d] /\ shown'[d] = shown[d] /\ up'[d] = up[d]
        /\ ready' = ready /\ sighup' = sighup
    BY <1>k DEF SessionInv, TypeOK, client_vars
  <2>2. main' = main \/ main' = "killed"
    BY <1>s
  <2>3. CASE down'[d] = down[d]
    BY <1>k, <2>1, <2>2, <2>3 DEF Pending
  <2>4. CASE d = c /\ Extended(c, 0)
    <3>1. \A i \in DOMAIN down'[c] :
            (i \in DOMAIN down[c] /\ down'[c][i] = down[c][i]) \/ down'[c][i] = 0
      BY <2>4 DEF Extended
    <3>2. request'[c] = request[c]
      BY <1>k
    <3> QED
      BY <2>1, <2>2, <2>4, <3>1, <3>2 DEF Pending
  <2> QED
    BY <1>s, <2>3, <2>4
<1>4. ASSUME NEW d \in Clients PROVE Awaited(d)'
  <2>1. /\ Awaited(d) /\ attached'[d] = attached[d] /\ listed' = listed
        /\ at'[d] = at[d] /\ doing'[d] = doing[d] /\ early'[d] = early[d]
        /\ sent'[d] = sent[d] /\ got'[d] = got[d] /\ shown'[d] = shown[d]
        /\ up'[d] = up[d] /\ request'[d] \in {request[d], 0} /\ sent[d] \in Nat
    BY <1>k, <1>r DEF SessionInv, TypeOK, client_vars
  <2>2. sent[d] \in Range(down'[d]) /\ Receiving(d) /\ doing[d] = "detach" =>
          sent[d] \in Range(down[d])
    <3>1. CASE down'[d] = down[d]
      BY <3>1
    <3>2. CASE d = c /\ Extended(c, 0)
      BY <2>1, <3>2 DEF Extended, Awaited, Receiving
    <3> QED
      BY <1>s, <3>1, <3>2
  <2> QED
    BY <2>1, <2>2 DEF Awaited, Receiving
<1>5. ASSUME NEW d \in Clients PROVE Queued(d)'
  BY <1>k DEF SessionInv, Queued, client_vars
<1>6. Synchronised'
  BY <1>k, <1>s, <1>r DEF SessionInv, Synchronised, client_vars
<1>7. DropsNeedHaste'
  BY <1>k DEF SessionInv, DropsNeedHaste, client_vars
<1> QED
  BY <1>1, <1>2, <1>3, <1>4, <1>5, <1>6, <1>7 DEF SessionInv

LEMMA AnswerReloadInv ==
  ASSUME SessionInv, NEW c \in Clients, AnswerReload(c)
  PROVE  SessionInv'
<1>k. /\ Send(c, request[c]) /\ request[c] \in Nat
      /\ UNCHANGED <<client_vars, up, ready, running, sighup, listed, attached, dropped>>
      /\ request' = [request EXCEPT ![c] = 0]
      /\ main = "reloaded" /\ request[c] # 0
  BY DEF AnswerReload, SessionInv, TypeOK
<1>s. /\ (main' = main /\ UNCHANGED <<reset, open>>) \/ main' = "killed"
      /\ reset' \in [Clients -> BOOLEAN] /\ open' \in [Clients -> BOOLEAN]
      /\ down' \in [Clients -> Seq(Nat)]
      /\ \A d \in Clients \ {c} : down'[d] = down[d]
      /\ down'[c] = down[c] \/ (Extended(c, request[c]) /\ main' = main)
  BY <1>k, SendEffect DEF SessionInv
<1>r. request' \in [Clients -> Nat] /\ \A d \in Clients : request'[d] \in {request[d], 0}
  BY <1>k DEF SessionInv, TypeOK
<1>1. TypeOK'
  BY <1>k, <1>s, <1>r DEF SessionInv, TypeOK, client_vars
<1>2. ASSUME NEW d \in Clients PROVE Numbered(d)'
  <2>1. CASE d = c /\ Extended(c, request[c])
    <3>1. Numbered(c) /\ Pending(c) /\ sent[c] \in Nat
      BY DEF SessionInv, TypeOK
    <3>2. sent' = sent /\ shown' = shown /\ up' = up
      BY <1>k DEF client_vars
    <3>3. \A j \in DOMAIN up'[c] : request[c] < up'[c][j].id
      <4>1. \A j \in DOMAIN up[c] : up[c][j].id \in Nat \ {0}
        BY EntriesTyped DEF SessionInv, TypeOK
      <4> QED
        BY <1>k, <3>1, <3>2, <4>1 DEF Pending
    <3>4. request[c] <= sent[c]
      BY <1>k, <3>1 DEF Pending
    <3>5. request[c] # 0 => /\ \A i \in DOMAIN down[c] : down[c][i] < request[c]
                            /\ \A k \in shown[c] : k < request[c]
      BY <1>k, <3>1 DEF Pending
    <3> QED
      BY <1>k, <2>1, <3>2, <3>3, <3>4, <3>5, ExtendedNumbered
  <2>2. CASE down'[d] = down[d]
    BY <1>k, <2>2 DEF SessionInv, Numbered, client_vars
  <2> QED
    BY <1>s, <2>1, <2>2
<1>3. ASSUME NEW d \in Clients PROVE Pending(d)'
  <2>1. /\ Pending(d) /\ request[d] \in Nat
        /\ sent'[d] = sent[d] /\ shown'[d] = shown[d] /\ up'[d] = up[d]
        /\ ready' = ready /\ sighup' = sighup
    BY <1>k DEF SessionInv, TypeOK, client_vars
  <2>2. main' = main \/ main' = "killed"
    BY <1>s
  <2>3. CASE d # c
    <3>1. request'[d] = request[d] /\ down'[d] = down[d]
      BY <1>k, <1>s, <2>3 DEF SessionInv, TypeOK
    <3> QED
      BY <2>1, <2>2, <3>1 DEF Pending
  <2>4. CASE d = c
    <3>1. request'[c] = 0
      BY <1>r, <1>k DEF SessionInv, TypeOK
    <3> QED
      BY <2>4, <3>1 DEF Pending
  <2> QED
    BY <1>s, <2>3, <2>4
<1>4. ASSUME NEW d \in Clients PROVE Awaited(d)'
  <2>1. /\ Awaited(d) /\ attached'[d] = attached[d] /\ listed' = listed
        /\ at'[d] = at[d] /\ doing'[d] = doing[d] /\ early'[d] = early[d]
        /\ sent'[d] = sent[d] /\ got'[d] = got[d] /\ shown'[d] = shown[d]
        /\ up'[d] = up[d] /\ request'[d] \in {request[d], 0} /\ sent[d] \in Nat
    BY <1>k, <1>r DEF SessionInv, TypeOK, client_vars
  <2>2. sent[d] \in Range(down'[d]) /\ Receiving(d) /\ doing[d] = "detach" =>
          sent[d] \in Range(down[d])
    <3>1. CASE down'[d] = down[d]
      BY <3>1
    <3>2. CASE d = c /\ Extended(c, request[c])
      BY <2>1, <3>2 DEF Extended, Awaited
    <3> QED
      BY <1>s, <3>1, <3>2
  <2> QED
    BY <2>1, <2>2 DEF Awaited, Receiving
<1>5. ASSUME NEW d \in Clients PROVE Queued(d)'
  BY <1>k DEF SessionInv, Queued, client_vars
<1>6. Synchronised'
  BY <1>k, <1>s, <1>r DEF SessionInv, Synchronised, client_vars
<1>7. DropsNeedHaste'
  BY <1>k DEF SessionInv, DropsNeedHaste, client_vars
<1> QED
  BY <1>1, <1>2, <1>3, <1>4, <1>5, <1>6, <1>7 DEF SessionInv

LEMMA ReceiveInv ==
  ASSUME SessionInv, NEW c \in Clients, Receive(c)
  PROVE  SessionInv'
<1>k. /\ Receiving(c)
      /\ got' = [got EXCEPT ![c] = got[c] \/ sent[c] \in Range(down[c])]
      /\ shown' = [shown EXCEPT ![c] = shown[c] \cup Answers(down[c])]
      /\ down' = [down EXCEPT ![c] = <<>>]
      /\ at' = [at EXCEPT ![c] = "drain"]
      /\ UNCHANGED <<doing, hollow, sent, sigint, early, hasty, up, reset,
                     main_vars, session_vars>>
  BY DEF Receive
<1>d. /\ down[c] \in Seq(Nat) /\ Answers(down[c]) \subseteq Nat
      /\ \A k \in Answers(down[c]) : \E i \in DOMAIN down[c] : k = down[c][i] /\ k # 0
  BY DEF SessionInv, TypeOK, Answers, Range
<1>1. TypeOK'
  <2>1. got' \in [Clients -> BOOLEAN]
    BY <1>k DEF SessionInv, TypeOK
  <2>2. down' \in [Clients -> Seq(Nat)] /\ shown' \in [Clients -> SUBSET Nat]
    BY <1>k, <1>d DEF SessionInv, TypeOK
  <2> QED
    BY <1>k, <2>1, <2>2 DEF SessionInv, TypeOK, main_vars, session_vars
<1>2. ASSUME NEW d \in Clients PROVE Numbered(d)'
  <2>1. /\ Numbered(d) /\ sent[d] \in Nat /\ down[d] \in Seq(Nat)
        /\ sent'[d] = sent[d] /\ up'[d] = up[d]
    BY <1>k DEF SessionInv, TypeOK
  <2>2. CASE d # c
    BY <1>k, <2>1, <2>2 DEF Numbered, SessionInv, TypeOK
  <2>3. CASE d = c
    <3>1. DOMAIN down'[c] = {} /\ shown'[c] = shown[c] \cup Answers(down[c])
      BY <1>k DEF SessionInv, TypeOK
    <3> QED
      BY <1>d, <2>1, <2>3, <3>1 DEF Numbered
  <2> QED
    BY <2>2, <2>3
<1>3. ASSUME NEW d \in Clients PROVE Pending(d)'
  <2>1. /\ Pending(d) /\ sent'[d] = sent[d] /\ up'[d] = up[d] /\ request'[d] = request[d]
        /\ main' = main /\ sighup' = sighup /\ ready' = ready
    BY <1>k DEF SessionInv, main_vars, session_vars
  <2>2. CASE d # c
    BY <1>k, <2>1, <2>2 DEF Pending, SessionInv, TypeOK
  <2>3. CASE d = c
    <3>1. DOMAIN down'[c] = {} /\ shown'[c] = shown[c] \cup Answers(down[c])
      BY <1>k DEF SessionInv, TypeOK
    <3> QED
      BY <1>d, <2>1, <2>3, <3>1 DEF Pending
  <2> QED
    BY <2>2, <2>3
<1>4. ASSUME NEW d \in Clients PROVE Awaited(d)'
  <2>1. /\ Awaited(d) /\ sent'[d] = sent[d] /\ up'[d] = up[d] /\ request'[d] = request[d]
        /\ attached'[d] = attached[d] /\ listed' = listed /\ doing'[d] = doing[d]
        /\ early'[d] = early[d] /\ sent[d] \in Nat
    BY <1>k DEF SessionInv, TypeOK, session_vars
  <2>2. CASE d # c
    <3>1. /\ at'[d] = at[d] /\ got'[d] = got[d] /\ shown'[d] = shown[d]
          /\ down'[d] = down[d]
      BY <1>k, <2>2 DEF SessionInv, TypeOK
    <3> QED
      BY <2>1, <3>1 DEF Awaited, Receiving
  <2>3. CASE d = c
    <3>1. /\ at'[c] = "drain" /\ shown'[c] = shown[c] \cup Answers(down[c])
          /\ Range(down'[c]) = {} /\ sent[c] > 0
      <4>1. at'[c] = "drain" /\ shown'[c] = shown[c] \cup Answers(down[c]) /\ down'[c] = <<>>
        BY <1>k DEF SessionInv, TypeOK
      <4>2. sent[c] > 0
        BY <1>k, <2>1, <2>3 DEF Awaited, Receiving
      <4> QED
        BY <4>1, <4>2 DEF Range
    <3>2. got'[c] <=> got[c] \/ sent[c] \in Range(down[c])
      <4>1. got \in [Clients -> BOOLEAN]
        BY DEF SessionInv, TypeOK
      <4> QED
        BY <1>k, <4>1, Zenon
    <3>3. Answers(down[c]) = Range(down[c]) \ {0}
      BY DEF Answers
    <3> QED
      BY <1>k, <2>1, <2>3, <3>1, <3>2, <3>3 DEF Awaited, Receiving
  <2> QED
    BY <2>2, <2>3
<1>5. ASSUME NEW d \in Clients PROVE Queued(d)'
  BY <1>k DEF SessionInv, Queued
<1>6. Synchronised'
  BY <1>k DEF SessionInv, TypeOK, Synchronised, session_vars
<1>7. DropsNeedHaste'
  BY <1>k DEF SessionInv, DropsNeedHaste, session_vars
<1> QED
  BY <1>1, <1>2, <1>3, <1>4, <1>5, <1>6, <1>7 DEF SessionInv

LEMMA HandleCommandInv ==
  ASSUME SessionInv, NEW c \in Clients, HandleCommand(c)
  PROVE  SessionInv'
<1> DEFINE m == up[c][1]
<1>a. /\ main = "handle" /\ c \in ready /\ up[c] # <<>>
      /\ Kept(up[c]).line = m /\ Kept(up[c]).rest = Tail(up[c])
      /\ ready' = ready \ {c}
      /\ up' = [up EXCEPT ![c] = <<>>]
      /\ dropped' = [dropped EXCEPT ![c] = @ \cup Ids(Tail(up[c]))]
      /\ UNCHANGED <<client_vars, listed>>
      /\ \/ Ask(c, m) \/ Reload(c, m) \/ Quit(c, m) \/ Attach(c, m) \/ Detach(c, m)
         \/ Refuse(m)
  <2>1. Kept(up[c]).line = m /\ Kept(up[c]).rest = Tail(up[c])
    BY DEF Kept
  <2> QED
    BY <2>1 DEF HandleCommand
<1>b. /\ 1 \in DOMAIN up[c] /\ m \in CommandType /\ m.id \in Nat \ {0}
      /\ \A i \in DOMAIN up[c] : up[c][i].id \in Nat
      /\ DOMAIN up[c] = 1..Len(up[c]) /\ Len(up[c]) \in Nat
  <2>1. up[c] \in Seq(CommandType) /\ up[c] # <<>>
    BY <1>a DEF SessionInv, TypeOK
  <2>2. 1 \in DOMAIN up[c] /\ DOMAIN up[c] = 1..Len(up[c]) /\ Len(up[c]) \in Nat
    BY <2>1
  <2> QED
    BY <2>1, <2>2, EntriesTyped
<1>c. /\ Numbered(c) /\ Pending(c) /\ Awaited(c) /\ Queued(c)
      /\ request[c] = 0
      /\ m.id <= sent[c]
      /\ \A i \in DOMAIN down[c] : down[c][i] < m.id
      /\ \A k \in shown[c] : k < m.id
  <2>1. Numbered(c) /\ Pending(c) /\ Awaited(c) /\ Queued(c)
    BY DEF SessionInv
  <2> QED
    BY <1>a, <1>b, <2>1 DEF Numbered, Pending
<1>u. /\ DOMAIN up'[c] = {}
      /\ \A d \in Clients \ {c} : up'[d] = up[d]
      /\ up' \in [Clients -> Seq(CommandType)]
  BY <1>a DEF SessionInv, TypeOK
<1> HIDE DEF m
<1>s. /\ main' \in {main, "killed"}
      /\ reset' \in [Clients -> BOOLEAN] /\ open' \in [Clients -> BOOLEAN]
      /\ down' \in [Clients -> Seq(Nat)]
      /\ \A d \in Clients \ {c} : down'[d] = down[d]
      /\ down'[c] = down[c] \/ (Extended(c, m.id) /\ main' = main)
      /\ running' \in BOOLEAN /\ sighup' \in BOOLEAN /\ (sighup => sighup')
      /\ request' \in [Clients -> Nat]
      /\ \A d \in Clients \ {c} : request'[d] = request[d]
      /\ \/ request'[c] = 0
         \/ request'[c] = m.id /\ m.name = "reload" /\ sighup' /\ down'[c] = down[c] /\ main' = main
      /\ attached' \in [Clients -> BOOLEAN]
      /\ \A d \in Clients \ {c} : attached'[d] = attached[d]
      /\ attached'[c] => listed /\ (attached[c] \/ m.name = "attach")
      /\ attached'[c] /\ m.name = "detach" => down'[c] = down[c]
  <2> USE DEF SessionInv
  <2>t. /\ running \in BOOLEAN /\ sighup \in BOOLEAN /\ request \in [Clients -> Nat]
        /\ attached \in [Clients -> BOOLEAN] /\ (attached[c] => listed)
        /\ down \in [Clients -> Seq(Nat)] /\ reset \in [Clients -> BOOLEAN]
        /\ open \in [Clients -> BOOLEAN]
    BY <1>c DEF TypeOK, Awaited
  <2>1. CASE Ask(c, m)
    BY <2>1, <2>t, <1>b, <1>c, SendEffect DEF Ask
  <2>2. CASE Reload(c, m)
    BY <2>2, <2>t, <1>b, <1>c DEF Reload, Silent
  <2>3. CASE Quit(c, m)
    BY <2>3, <2>t, <1>b, <1>c, SendEffect DEF Quit
  <2>4. CASE Attach(c, m)
    <3>1. CASE listed
      BY <2>4, <3>1, <2>t, <1>b, <1>c DEF Attach, Silent
    <3>2. CASE ~listed
      BY <2>4, <3>2, <2>t, <1>b, <1>c, SendEffect DEF Attach
    <3> QED
      BY <3>1, <3>2
  <2>5. CASE Detach(c, m)
    <3>1. attached' = [attached EXCEPT ![c] = attached[c] /\ ~listed]
      BY <2>5 DEF Detach
    <3>2. ~(attached[c] /\ ~listed)
      BY <2>t
    <3>3. attached' = [attached EXCEPT ![c] = FALSE]
      BY <3>1, <3>2
    <3> QED
      BY <2>5, <3>3, <2>t, <1>b, <1>c, SendEffect DEF Detach
  <2>6. CASE Refuse(m)
    BY <2>6, <2>t, <1>b, <1>c DEF Refuse, Silent
  <2> QED
    BY <1>a, <2>1, <2>2, <2>3, <2>4, <2>5, <2>6
<1>d. /\ \A d \in Clients \ {c} : dropped'[d] = dropped[d]
      /\ dropped' \in [Clients -> SUBSET Nat]
      /\ dropped'[c] \subseteq hasty[c]
  <2>1. ASSUME NEW x \in Ids(Tail(up[c]))
        PROVE  x \in hasty[c] /\ x \in Nat
    <3>1. PICK i \in DOMAIN Tail(up[c]) : x = Tail(up[c])[i].id
      BY DEF Ids
    <3>2. i + 1 \in DOMAIN up[c] /\ i + 1 > 1 /\ Tail(up[c])[i] = up[c][i + 1]
      <4>1. up[c] \in Seq(CommandType) /\ up[c] # <<>>
        BY <1>a DEF SessionInv, TypeOK
      <4> QED
        BY <4>1
    <3> QED
      BY <3>1, <3>2, <1>b, <1>c DEF Queued
  <2>2. dropped[c] \subseteq hasty[c] /\ dropped \in [Clients -> SUBSET Nat]
    BY DEF SessionInv, DropsNeedHaste, TypeOK
  <2>3. dropped'[c] = dropped[c] \cup Ids(Tail(up[c])) /\ \A d \in Clients \ {c} : dropped'[d] = dropped[d]
    BY <1>a, <2>2
  <2>4. Ids(Tail(up[c])) \subseteq hasty[c] /\ Ids(Tail(up[c])) \subseteq Nat
    BY <2>1
  <2> QED
    BY <1>a, <2>2, <2>3, <2>4
<1>k. /\ UNCHANGED <<at, doing, hollow, sent, sigint, got, early, hasty, shown, listed>>
  BY <1>a DEF client_vars
<1>1. TypeOK'
  BY <1>a, <1>d, <1>k, <1>s, <1>u DEF SessionInv, TypeOK
<1>2. ASSUME NEW d \in Clients PROVE Numbered(d)'
  <2>1. CASE d = c /\ Extended(c, m.id)
    BY <1>b, <1>c, <1>k, <1>u, <2>1, ExtendedNumbered
  <2>2. CASE d = c /\ down'[c] = down[c]
    BY <1>c, <1>k, <1>u, <2>2 DEF Numbered
  <2>3. CASE d # c
    BY <1>k, <1>s, <1>u, <2>3 DEF SessionInv, Numbered
  <2> QED
    BY <1>s, <2>1, <2>2, <2>3
<1>3. ASSUME NEW d \in Clients PROVE Pending(d)'
  <2>1. CASE d = c
    BY <1>a, <1>b, <1>c, <1>k, <1>s, <1>u, <2>1 DEF Pending
  <2>2. CASE d # c
    BY <1>a, <1>k, <1>s, <1>u, <2>2 DEF SessionInv, Pending
  <2> QED
    BY <2>1, <2>2
<1>4. ASSUME NEW d \in Clients PROVE Awaited(d)'
  <2>1. CASE d = c
    <3>1. ~(sent[c] \in shown[c]) /\ ~(sent[c] \in Range(down[c]))
      <4>1. sent[c] \in Nat /\ \A i \in DOMAIN down[c] : down[c][i] # sent[c]
        BY <1>b, <1>c DEF SessionInv, TypeOK
      <4> QED
        BY <1>b, <1>c, <4>1 DEF Range
    <3>2. sent[c] \in Range(down'[c]) => Extended(c, m.id) /\ m.id = sent[c]
      BY <1>s, <3>1 DEF Extended
    <3>3. Extended(c, m.id) => down'[c] # down[c]
      BY DEF Extended
    <3>4. Receiving(c) /\ doing[c] = "detach" /\ m.id = sent[c] => m.name = "detach"
      BY <1>b, <1>c DEF Awaited, m
    <3>5. Receiving(c) /\ ~early[c] /\ doing[c] = "ask" => ~attached[c] /\ m.name # "attach"
      BY <1>b, <1>c DEF Awaited, m
    <3>6. Receiving(c) => sent[c] > 0
      BY <1>c DEF Awaited, Receiving
    <3>7. Receiving(c)' <=> Receiving(c)
      BY <1>k DEF Receiving
    <3>8. sent[c] \in Nat
      BY DEF SessionInv, TypeOK
    <3>9. Receiving(c)' /\ ~early'[c] =>
            /\ doing'[c] = "ask" =>
                 ~attached'[c] /\ \A i \in DOMAIN up'[c] : up'[c][i].name # "attach"
            /\ doing'[c] = "detach" /\ sent'[c] \in shown'[c] \cup Range(down'[c]) => ~attached'[c]
      BY <1>k, <1>s, <1>u, <3>1, <3>2, <3>3, <3>4, <3>5, <3>7
    <3>10. Receiving(c)' /\ doing'[c] = "detach" => request'[c] # sent'[c]
      BY <1>k, <1>s, <1>u, <3>4, <3>6, <3>7, <3>8
    <3> QED
      BY <1>c, <1>k, <1>s, <1>u, <2>1, <3>9, <3>10 DEF Awaited
  <2>2. CASE d # c
    <3>1. Awaited(d)
      BY DEF SessionInv
    <3>2. /\ up'[d] = up[d] /\ down'[d] = down[d] /\ request'[d] = request[d]
          /\ attached'[d] => attached[d]
          /\ at'[d] = at[d] /\ doing'[d] = doing[d] /\ early'[d] = early[d]
          /\ sent'[d] = sent[d] /\ got'[d] = got[d] /\ shown'[d] = shown[d]
      BY <1>k, <1>s, <1>u, <2>2
    <3>3. listed' = listed
      BY <1>k
    <3> QED
      BY <3>1, <3>2, <3>3 DEF Awaited, Receiving
  <2> QED
    BY <2>1, <2>2
<1>5. ASSUME NEW d \in Clients PROVE Queued(d)'
  BY <1>k, <1>u DEF SessionInv, Queued
<1>6. Synchronised'
  <2>1. ~(at[c] = "prompt" /\ ~early[c])
    BY <1>a DEF SessionInv, Synchronised
  <2> QED
    BY <1>k, <1>s, <1>u, <2>1 DEF SessionInv, Synchronised
<1>7. DropsNeedHaste'
  BY <1>d, <1>k DEF SessionInv, DropsNeedHaste
<1> QED
  BY <1>1, <1>2, <1>3, <1>4, <1>5, <1>6, <1>7 DEF SessionInv

-----------------------------------------------------------------------------
(* The client sends a command, or receive_response returns.                 *)

\* The last entry of the stream, if the connection is still there.
LEMMA SendCommandEffect ==
  ASSUME SessionInv, NEW c \in Clients, NEW name \in Names, NEW h \in BOOLEAN,
         NEW next \in {"attach", "wait"}, SendCommand(c, name, h, next)
  PROVE  /\ sent' \in [Clients -> Nat] /\ hasty' \in [Clients -> SUBSET Nat]
         /\ got' \in [Clients -> BOOLEAN] /\ up' \in [Clients -> Seq(CommandType)]
         /\ at' \in [Clients -> {"prompt", "attach", "wait", "drain", "left"}]
         /\ \A d \in Clients \ {c} :
              /\ sent'[d] = sent[d] /\ hasty'[d] = hasty[d] /\ got'[d] = got[d]
              /\ up'[d] = up[d] /\ at'[d] = at[d]
         /\ sent'[c] = sent[c] + 1 /\ ~got'[c] /\ at'[c] \in {next, "left"}
         /\ hasty[c] \subseteq hasty'[c]
         /\ early[c] \/ name = "detach" => sent[c] + 1 \in hasty'[c]
         /\ DOMAIN up[c] = 1..Len(up[c]) /\ Len(up[c]) \in Nat
         /\ \A i \in DOMAIN up'[c] :
              \/ i \in DOMAIN up[c] /\ up'[c][i] = up[c][i]
              \/ i = Len(up[c]) + 1 /\ up'[c][i].id = sent[c] + 1 /\ up'[c][i].name = name
<1> DEFINE id == sent[c] + 1
           e == [id |-> id, name |-> name, hollow |-> h]
<1>0. /\ sent \in [Clients -> Nat] /\ hasty \in [Clients -> SUBSET Nat]
      /\ got \in [Clients -> BOOLEAN] /\ up \in [Clients -> Seq(CommandType)]
      /\ at \in [Clients -> {"prompt", "attach", "wait", "drain", "left"}]
  BY DEF SessionInv, TypeOK
<1>1. e \in CommandType /\ e.id = id /\ e.name = name
  BY <1>0 DEF CommandType
<1>2. /\ sent' = [sent EXCEPT ![c] = id]
      /\ hasty' = [hasty EXCEPT ![c] = IF early[c] \/ name = "detach"
                                         THEN hasty[c] \cup {id} ELSE hasty[c]]
      /\ got' = [got EXCEPT ![c] = FALSE]
      /\ \/ up' = [up EXCEPT ![c] = Append(up[c], e)] /\ at' = [at EXCEPT ![c] = next]
         \/ up' = up /\ at' = [at EXCEPT ![c] = "left"]
  BY DEF SendCommand
<1>3. up[c] \in Seq(CommandType) /\ DOMAIN up[c] = 1..Len(up[c]) /\ Len(up[c]) \in Nat
  BY <1>0
<1> HIDE DEF e
<1>4. /\ up' \in [Clients -> Seq(CommandType)]
      /\ \A d \in Clients \ {c} : up'[d] = up[d]
      /\ up'[c] = up[c] \/ up'[c] = Append(up[c], e)
  <2>1. Append(up[c], e) \in Seq(CommandType)
    BY <1>1, <1>3
  <2>2. CASE up' = [up EXCEPT ![c] = Append(up[c], e)]
    <3> DEFINE longer == Append(up[c], e)
    <3>1. longer \in Seq(CommandType) /\ up' = [up EXCEPT ![c] = longer]
      BY <2>1, <2>2
    <3> HIDE DEF longer
    <3>2. /\ up' \in [Clients -> Seq(CommandType)]
          /\ \A d \in Clients \ {c} : up'[d] = up[d]
          /\ up'[c] = longer
      BY <1>0, <3>1
    <3> QED
      BY <3>2 DEF longer
  <2>3. CASE up' = up
    BY <1>0, <2>3
  <2> QED
    BY <1>2, <2>2, <2>3
<1>5. \A i \in DOMAIN up'[c] :
        \/ i \in DOMAIN up[c] /\ up'[c][i] = up[c][i]
        \/ i = Len(up[c]) + 1 /\ up'[c][i] = e
  BY <1>1, <1>3, <1>4
<1>6. /\ at' \in [Clients -> {"prompt", "attach", "wait", "drain", "left"}]
      /\ \A d \in Clients \ {c} : at'[d] = at[d]
      /\ at'[c] \in {next, "left"}
  BY <1>0, <1>2
<1>7. /\ sent' \in [Clients -> Nat] /\ hasty' \in [Clients -> SUBSET Nat]
      /\ got' \in [Clients -> BOOLEAN]
      /\ \A d \in Clients \ {c} : sent'[d] = sent[d] /\ hasty'[d] = hasty[d] /\ got'[d] = got[d]
      /\ sent'[c] = sent[c] + 1 /\ ~got'[c]
      /\ hasty[c] \subseteq hasty'[c]
      /\ early[c] \/ name = "detach" => sent[c] + 1 \in hasty'[c]
  BY <1>0, <1>2
<1> QED
  BY <1>1, <1>3, <1>4, <1>5, <1>6, <1>7

\* A command that is sent is later than all that is under way.
LEMMA SentInOrder ==
  ASSUME SessionInv, NEW c \in Clients, NEW name \in Names, NEW h \in BOOLEAN,
         NEW next \in {"attach", "wait"}, SendCommand(c, name, h, next),
         UNCHANGED <<shown, down, request, main, ready, sighup>>,
         early[c] \/ name = "detach" \/ up[c] = <<>>
  PROVE  \A d \in Clients : Numbered(d)' /\ Pending(d)' /\ Queued(d)'
<1> SUFFICES ASSUME NEW d \in Clients
             PROVE  Numbered(d)' /\ Pending(d)' /\ Queued(d)'
  OBVIOUS
<1>0. Numbered(d) /\ Pending(d) /\ Queued(d) /\ sent[d] \in Nat
  BY DEF SessionInv, TypeOK
<1>1. /\ \A x \in Clients \ {c} : /\ sent'[x] = sent[x] /\ hasty'[x] = hasty[x]
                                  /\ up'[x] = up[x]
      /\ sent'[c] = sent[c] + 1
      /\ hasty[c] \subseteq hasty'[c]
      /\ early[c] \/ name = "detach" => sent[c] + 1 \in hasty'[c]
      /\ DOMAIN up[c] = 1..Len(up[c]) /\ Len(up[c]) \in Nat
      /\ \A i \in DOMAIN up'[c] :
           \/ i \in DOMAIN up[c] /\ up'[c][i] = up[c][i]
           \/ i = Len(up[c]) + 1 /\ up'[c][i].id = sent[c] + 1
  BY SendCommandEffect
<1>2. CASE d # c
  BY <1>0, <1>1, <1>2 DEF Numbered, Pending, Queued
<1>3. CASE d = c
  <2>1. /\ down[c] \in Seq(Nat) /\ shown[c] \subseteq Nat /\ request[c] \in Nat
        /\ \A i \in DOMAIN up[c] : up[c][i].id \in Nat
        /\ \A i \in DOMAIN down[c] : down[c][i] \in Nat
    BY EntriesTyped DEF SessionInv, TypeOK
  <2>2. Numbered(c)'
    <3>1. /\ \A i \in DOMAIN up'[c] : up'[c][i].id <= sent'[c]
          /\ \A i \in DOMAIN down[c] : \A j \in DOMAIN up'[c] : down[c][i] < up'[c][j].id
          /\ \A k \in shown[c] : \A i \in DOMAIN up'[c] : k < up'[c][i].id
      <4>1. ASSUME NEW i \in DOMAIN up'[c]
            PROVE  /\ up'[c][i].id <= sent'[c]
                   /\ \A k \in DOMAIN down[c] : down[c][k] < up'[c][i].id
                   /\ \A k \in shown[c] : k < up'[c][i].id
        <5>1. CASE i \in DOMAIN up[c] /\ up'[c][i] = up[c][i]
          BY <1>0, <1>1, <1>3, <2>1, <5>1 DEF Numbered
        <5>2. CASE up'[c][i].id = sent[c] + 1
          <6>1. /\ \A k \in DOMAIN down[c] : down[c][k] <= sent[c]
                /\ \A k \in shown[c] : k \in 1..sent[c]
            BY <1>0, <1>3 DEF Numbered
          <6>2. sent[c] \in Nat /\ sent'[c] = sent[c] + 1
            BY <1>0, <1>1, <1>3
          <6>3. /\ \A k \in DOMAIN down[c] : down[c][k] < sent[c] + 1
                /\ \A k \in shown[c] : k < sent[c] + 1
            BY <2>1, <6>1, <6>2
          <6> QED
            BY <5>2, <6>2, <6>3
        <5> QED
          BY <1>1, <4>1, <5>1, <5>2
      <4> QED
        BY <4>1
    <3>2. ASSUME NEW i \in DOMAIN up'[c], NEW j \in DOMAIN up'[c], i < j
          PROVE  up'[c][i].id < up'[c][j].id
      <4>1. i \in DOMAIN up[c]
        BY <1>1, <3>2
      <4>2. CASE j \in DOMAIN up[c]
        BY <1>0, <1>1, <1>3, <3>2, <4>1, <4>2 DEF Numbered
      <4>3. CASE j = Len(up[c]) + 1
        BY <1>0, <1>1, <1>3, <2>1, <3>2, <4>1, <4>3 DEF Numbered
      <4> QED
        BY <1>1, <4>2, <4>3
    <3> QED
      BY <1>0, <1>1, <1>3, <2>1, <3>1, <3>2 DEF Numbered
  <2>3. Pending(c)'
    BY <1>0, <1>1, <1>3, <2>1 DEF Pending
  <2>4. Queued(c)'
    <3>1. ASSUME NEW i \in DOMAIN up'[c], i > 1
          PROVE  up'[c][i].id \in hasty'[c]
      <4>1. CASE i \in DOMAIN up[c]
        BY <1>0, <1>1, <1>3, <3>1, <4>1 DEF Queued
      <4>2. CASE i = Len(up[c]) + 1
        <5>1. up[c] # <<>>
          BY <1>1, <3>1, <4>2
        <5> QED
          BY <1>1, <3>1, <4>2, <5>1
      <4> QED
        BY <1>1, <4>1, <4>2
    <3> QED
      BY <3>1 DEF Queued
  <2> QED
    BY <1>3, <2>2, <2>3, <2>4
<1> QED
  BY <1>2, <1>3

LEMMA TypeInv ==
  ASSUME SessionInv, NEW c \in Clients, NEW name \in Typed, NEW h \in BOOLEAN,
         Type(c, name, h)
  PROVE  SessionInv'
<1> DEFINE next == IF name = "attach" THEN "attach" ELSE "wait"
<1>0. /\ name \in Names /\ name # "detach" /\ next \in {"attach", "wait"}
      /\ SendCommand(c, name, h, next) /\ at[c] = "prompt"
  BY CtlSessionAssumption DEF Type, ClientCallbacks
<1>k. /\ doing' = [doing EXCEPT ![c] = Call(name)]
      /\ hollow' = [hollow EXCEPT ![c] = h]
      /\ UNCHANGED <<sigint, early, shown, down, reset, main, ready, running, sighup,
                     request, open, listed, attached, dropped>>
  BY DEF Type, main_vars, session_vars
<1> HIDE DEF next
<1>s. /\ sent' \in [Clients -> Nat] /\ hasty' \in [Clients -> SUBSET Nat]
      /\ got' \in [Clients -> BOOLEAN] /\ up' \in [Clients -> Seq(CommandType)]
      /\ at' \in [Clients -> {"prompt", "attach", "wait", "drain", "left"}]
      /\ \A d \in Clients \ {c} :
           /\ sent'[d] = sent[d] /\ hasty'[d] = hasty[d] /\ got'[d] = got[d]
           /\ up'[d] = up[d] /\ at'[d] = at[d]
      /\ sent'[c] = sent[c] + 1 /\ ~got'[c] /\ at'[c] \in {next, "left"}
      /\ hasty[c] \subseteq hasty'[c]
      /\ \A i \in DOMAIN up'[c] :
           (i \in DOMAIN up[c] /\ up'[c][i] = up[c][i]) \/ up'[c][i].name = name
  BY <1>0, SendCommandEffect
<1>p. early[c] \/ (up[c] = <<>> /\ ~attached[c])
  BY <1>0 DEF SessionInv, Synchronised
<1>c. /\ Call(name) \in {"ask", "quit", "attach"}
      /\ next = "attach" => Call(name) = "attach"
      /\ Call(name) = "ask" => name # "attach"
  BY <1>0 DEF Call, next
<1>1. TypeOK'
  BY <1>0, <1>c, <1>k, <1>s DEF SessionInv, TypeOK
<1>2. \A d \in Clients : Numbered(d)' /\ Pending(d)' /\ Queued(d)'
  BY <1>0, <1>k, <1>p, SentInOrder
<1>3. ASSUME NEW d \in Clients PROVE Awaited(d)'
  <2>0. Awaited(d) /\ sent[c] \in Nat /\ doing \in [Clients -> {"ask", "quit", "attach", "detach"}]
    BY DEF SessionInv, TypeOK
  <2>1. CASE d = c
    <3>1. doing'[c] = Call(name)
      BY <1>k, <2>0
    <3>2. \A i \in DOMAIN up'[c] : early[c] \/ up'[c][i].name = name
      BY <1>s, <1>p
    <3> QED
      BY <1>c, <1>k, <1>p, <1>s, <2>0, <2>1, <3>1, <3>2 DEF Awaited, Receiving
  <2>2. CASE d # c
    BY <1>k, <1>s, <2>0, <2>2 DEF Awaited, Receiving
  <2> QED
    BY <2>1, <2>2
<1>4. Synchronised'
  BY <1>0, <1>k, <1>s DEF SessionInv, Synchronised
<1>5. DropsNeedHaste'
  BY <1>k, <1>s DEF SessionInv, DropsNeedHaste
<1> QED
  BY <1>1, <1>2, <1>3, <1>4, <1>5 DEF SessionInv

LEMMA ReturnInv ==
  ASSUME SessionInv, NEW c \in Clients, NEW sig \in BOOLEAN, Return(c, sig),
         Receiving(c), down[c] = <<>>, reset' \in [Clients -> BOOLEAN]
  PROVE  SessionInv'
<1>k. UNCHANGED <<hollow, shown, down, main, ready, running, sighup, request, open,
                  listed, attached, dropped>>
  BY DEF Return, main_vars, session_vars
<1>1. CASE BackToPrompt(c)
  <2>k. /\ at' = [at EXCEPT ![c] = IF doing[c] = "quit" THEN "left" ELSE "prompt"]
        /\ early' = [early EXCEPT ![c] = early[c] \/ ~got[c]]
        /\ sigint' = [sigint EXCEPT ![c] = FALSE]
        /\ UNCHANGED <<doing, sent, got, hasty, up>>
        /\ doing[c] # "attach"
    BY <1>1 DEF BackToPrompt
  <2>t. /\ at \in [Clients -> {"prompt", "attach", "wait", "drain", "left"}]
        /\ early \in [Clients -> BOOLEAN] /\ got \in [Clients -> BOOLEAN]
        /\ doing[c] \in {"ask", "quit", "attach", "detach"}
        /\ up[c] \in Seq(CommandType) /\ sent[c] \in Nat
        /\ request[c] \in Nat
    BY DEF SessionInv, TypeOK
  <2>e. /\ early'[c] <=> early[c] \/ ~got[c]
        /\ \A d \in Clients \ {c} : early'[d] = early[d] /\ at'[d] = at[d]
        /\ at'[c] \in {"left", "prompt"}
        /\ at'[c] = "prompt" => doing[c] \in {"ask", "detach"}
    BY <2>k, <2>t
  <2>1. TypeOK'
    <3>1. early' \in [Clients -> BOOLEAN]
      BY <2>k, <2>t, Zenon
    <3> QED
      BY <1>k, <2>k, <2>t, <3>1 DEF SessionInv, TypeOK
  <2>2. ASSUME NEW d \in Clients
        PROVE  Numbered(d)' /\ Pending(d)' /\ Queued(d)'
    BY <1>k, <2>k DEF SessionInv, Numbered, Pending, Queued
  <2>3. ASSUME NEW d \in Clients PROVE Awaited(d)'
    BY <1>k, <2>e, <2>k DEF SessionInv, Awaited, Receiving
  <2>4. Synchronised'
    <3>1. ASSUME at'[c] = "prompt", ~early'[c]
          PROVE  up[c] = <<>> /\ request[c] = 0 /\ ~attached[c]
      <4>1. ~early[c] /\ sent[c] \in shown[c] /\ Numbered(c) /\ Pending(c) /\ Awaited(c)
        BY <2>e, <3>1 DEF SessionInv, Awaited
      <4>2. \A i \in DOMAIN up[c] : up[c][i].id \in Nat
        BY <2>t, EntriesTyped
      <4>3. DOMAIN up[c] = {}
        BY <2>t, <4>1, <4>2 DEF Numbered
      <4>4. up[c] = <<>>
        <5>1. Len(up[c]) \in Nat /\ DOMAIN up[c] = 1..Len(up[c])
          BY <2>t
        <5>2. Len(up[c]) = 0
          <6>1. Len(up[c]) > 0 => 1 \in DOMAIN up[c]
            BY <5>1
          <6> QED
            BY <4>3, <5>1, <6>1
        <5> QED
          BY <2>t, <5>2
      <4>5. request[c] = 0
        BY <2>t, <4>1 DEF Pending
      <4>6. ~attached[c]
        BY <2>e, <3>1, <4>1 DEF Awaited
      <4> QED
        BY <4>4, <4>5, <4>6
    <3> QED
      BY <1>k, <2>e, <2>k, <3>1 DEF SessionInv, Synchronised
  <2>5. DropsNeedHaste'
    BY <1>k, <2>k DEF SessionInv, DropsNeedHaste
  <2> QED
    BY <2>1, <2>2, <2>3, <2>4, <2>5 DEF SessionInv
<1>2. CASE StayAttached(c, sig)
  <2>k. /\ at' = [at EXCEPT ![c] = "wait"] /\ doing[c] = "attach"
        /\ UNCHANGED <<doing, sent, sigint, got, early, hasty, up>>
    BY <1>2 DEF StayAttached
  <2>1. TypeOK'
    BY <1>k, <2>k DEF SessionInv, TypeOK
  <2>2. ASSUME NEW d \in Clients
        PROVE  Numbered(d)' /\ Pending(d)' /\ Queued(d)'
    BY <1>k, <2>k DEF SessionInv, Numbered, Pending, Queued
  <2>3. ASSUME NEW d \in Clients PROVE Awaited(d)'
    BY <1>k, <2>k DEF SessionInv, TypeOK, Awaited, Receiving
  <2>4. Synchronised' /\ DropsNeedHaste'
    BY <1>k, <2>k DEF SessionInv, TypeOK, Synchronised, DropsNeedHaste
  <2> QED
    BY <2>1, <2>2, <2>3, <2>4 DEF SessionInv
<1>3. CASE SendDetach(c, sig)
  <2>0. /\ SendCommand(c, "detach", hollow[c], "wait") /\ hollow[c] \in BOOLEAN
        /\ "detach" \in Names /\ "wait" \in {"attach", "wait"}
    BY <1>3 DEF SendDetach, SessionInv, TypeOK, Names, WithProgram
  <2>k. /\ doing' = [doing EXCEPT ![c] = "detach"]
        /\ sigint' = [sigint EXCEPT ![c] = TRUE] /\ UNCHANGED early
    BY <1>3 DEF SendDetach
  <2>s. /\ sent' \in [Clients -> Nat] /\ hasty' \in [Clients -> SUBSET Nat]
        /\ got' \in [Clients -> BOOLEAN] /\ up' \in [Clients -> Seq(CommandType)]
        /\ at' \in [Clients -> {"prompt", "attach", "wait", "drain", "left"}]
        /\ \A d \in Clients \ {c} :
             /\ sent'[d] = sent[d] /\ hasty'[d] = hasty[d] /\ got'[d] = got[d]
             /\ up'[d] = up[d] /\ at'[d] = at[d]
        /\ sent'[c] = sent[c] + 1 /\ ~got'[c] /\ at'[c] \in {"wait", "left"}
        /\ hasty[c] \subseteq hasty'[c]
        /\ \A i \in DOMAIN up'[c] :
             (i \in DOMAIN up[c] /\ up'[c][i] = up[c][i]) \/ up'[c][i].name = "detach"
    BY <2>0, SendCommandEffect
  <2>1. TypeOK'
    BY <1>k, <2>k, <2>s DEF SessionInv, TypeOK
  <2>2. \A d \in Clients : Numbered(d)' /\ Pending(d)' /\ Queued(d)'
    BY <1>k, <2>0, SentInOrder
  <2>3. ASSUME NEW d \in Clients PROVE Awaited(d)'
    <3>1. CASE d = c
      <4>0. /\ Awaited(c) /\ Numbered(c) /\ Pending(c) /\ sent[c] \in Nat /\ request[c] \in Nat
            /\ doing \in [Clients -> {"ask", "quit", "attach", "detach"}]
            /\ up[c] \in Seq(CommandType)
        BY DEF SessionInv, TypeOK
      <4>1. sent'[c] \notin shown[c] /\ request[c] # sent'[c]
        BY <2>s, <4>0 DEF Numbered, Pending
      <4>2. Range(down'[c]) = {}
        BY <1>k DEF Range
      <4>3. \A i \in DOMAIN up'[c] : up'[c][i].id = sent'[c] => up'[c][i].name = "detach"
        <5>1. \A i \in DOMAIN up[c] : up[c][i].id \in Nat /\ up[c][i].id <= sent[c]
          BY <4>0, EntriesTyped DEF Numbered
        <5> QED
          BY <2>s, <4>0, <5>1
      <4>4. doing'[c] = "detach"
        BY <2>k, <4>0
      <4> QED
        BY <1>k, <2>k, <2>s, <3>1, <4>0, <4>1, <4>2, <4>3, <4>4 DEF Awaited, Receiving
    <3>2. CASE d # c
      BY <1>k, <2>k, <2>s, <3>2 DEF SessionInv, TypeOK, Awaited, Receiving
    <3> QED
      BY <3>1, <3>2
  <2>4. Synchronised'
    BY <1>k, <2>k, <2>s DEF SessionInv, Synchronised
  <2>5. DropsNeedHaste'
    BY <1>k, <2>s DEF SessionInv, DropsNeedHaste
  <2> QED
    BY <2>1, <2>2, <2>3, <2>4, <2>5 DEF SessionInv
<1> QED
  BY <1>1, <1>2, <1>3 DEF Return

\* The four ways out of receive_response.
LEMMA ReceiveEndsInv ==
  ASSUME SessionInv, NEW c \in Clients,
         Timeout(c) \/ NothingMore(c) \/ ReadFails(c) \/ Interrupt(c)
  PROVE  SessionInv'
<1>1. sigint[c] \in BOOLEAN /\ reset \in [Clients -> BOOLEAN]
  BY DEF SessionInv, TypeOK
<1>2. /\ Receiving(c) /\ down[c] = <<>>
      /\ reset' \in [Clients -> BOOLEAN]
      /\ Return(c, sigint[c]) \/ Return(c, TRUE)
  BY <1>1 DEF Timeout, NothingMore, ReadFails, Interrupt, Receiving, CatchesSigint
<1> QED
  BY <1>1, <1>2, ReturnInv

-----------------------------------------------------------------------------
(* The theorems.                                                            *)

LEMMA InitInv == Init => SessionInv
<1> SUFFICES ASSUME Init PROVE SessionInv
  OBVIOUS
<1> USE DEF Init
<1>1. TypeOK
  <2>1. <<>> \in Seq(CommandType) /\ <<>> \in Seq(Nat) /\ {} \in SUBSET Nat
    OBVIOUS
  <2>2. up \in [Clients -> Seq(CommandType)] /\ down \in [Clients -> Seq(Nat)]
    BY <2>1
  <2>3. /\ hollow \in [Clients -> BOOLEAN] /\ sigint \in [Clients -> BOOLEAN]
        /\ got \in [Clients -> BOOLEAN] /\ reset \in [Clients -> BOOLEAN]
        /\ early \in [Clients -> BOOLEAN] /\ open \in [Clients -> BOOLEAN]
        /\ attached \in [Clients -> BOOLEAN]
    BY Zenon
  <2>4. /\ sent \in [Clients -> Nat] /\ request \in [Clients -> Nat]
        /\ hasty \in [Clients -> SUBSET Nat] /\ shown \in [Clients -> SUBSET Nat]
        /\ dropped \in [Clients -> SUBSET Nat]
    BY <2>1
  <2>5. /\ at \in [Clients -> {"prompt", "attach", "wait", "drain", "left"}]
        /\ doing \in [Clients -> {"ask", "quit", "attach", "detach"}]
        /\ main \in {"poll", "handle", "reload", "reloaded", "left", "gone", "killed"}
        /\ ready \subseteq Clients /\ running \in BOOLEAN /\ sighup \in BOOLEAN
        /\ listed \in BOOLEAN
    OBVIOUS
  <2> HIDE DEF Init
  <2> QED
    BY <2>2, <2>3, <2>4, <2>5 DEF TypeOK
<1>2. ASSUME NEW c \in Clients
      PROVE  Numbered(c) /\ Pending(c) /\ Awaited(c) /\ Queued(c)
  BY DEF Numbered, Pending, Awaited, Queued, Receiving
<1>3. Synchronised /\ DropsNeedHaste
  BY DEF Synchronised, DropsNeedHaste
<1> QED
  BY <1>1, <1>2, <1>3 DEF SessionInv

LEMMA StutterInv ==
  ASSUME SessionInv, UNCHANGED vars
  PROVE  SessionInv'
<1> USE DEF SessionInv, vars, client_vars, stream_vars, main_vars, session_vars
<1>1. TypeOK' /\ Synchronised' /\ DropsNeedHaste'
  BY DEF TypeOK, Synchronised, DropsNeedHaste
<1>2. ASSUME NEW c \in Clients
      PROVE  Numbered(c)' /\ Pending(c)' /\ Awaited(c)' /\ Queued(c)'
  BY DEF Numbered, Pending, Awaited, Queued, Receiving
<1> QED
  BY <1>1, <1>2

\* The two streams of every connection, the pending reload and the attachment keep
\* step with the numbers of the commands, whoever gives up, interrupts or leaves.
THEOREM SessionInvariance == Spec => []SessionInv
<1>1. Init => SessionInv
  BY InitInv
<1>2. SessionInv /\ [Next]_vars => SessionInv'
  <2> SUFFICES ASSUME SessionInv, [Next]_vars PROVE SessionInv'
    OBVIOUS
  <2>1. CASE Daemon
    <3>1. CASE \/ PollReturns \/ EndBatch \/ ReloadConfig \/ KillFails \/ EndReload
               \/ Exit \/ SigHup
      BY <3>1, PollReturnsInv, EndBatchInv, ReloadConfigInv, KillFailsInv, EndReloadInv,
         ExitInv, SigHupInv
    <3>2. ASSUME NEW c \in Clients,
                 HandleCommand(c) \/ Disconnect(c) \/ Output(c) \/ AnswerReload(c)
          PROVE  SessionInv'
      BY <3>2, HandleCommandInv, DisconnectInv, OutputInv, AnswerReloadInv
    <3> QED
      BY <2>1, <3>1, <3>2 DEF Daemon
  <2>2. ASSUME NEW c \in Clients, ClientStep(c) PROVE SessionInv'
    BY <2>2, SetSigintHandlerInv, ReceiveInv, ReceiveEndsInv, EndOfFileInv DEF ClientStep
  <2>3. ASSUME NEW c \in Clients, User(c) PROVE SessionInv'
    BY <2>3, TypeInv, ReceiveEndsInv, CtrlCInv, LeaveInv DEF User
  <2>4. CASE Over \/ UNCHANGED vars
    BY <2>4, StutterInv DEF Over
  <2> QED
    BY <2>1, <2>2, <2>3, <2>4 DEF Next
<1> QED
  BY <1>1, <1>2, PTL DEF Spec

\* Type correctness of the client, the streams and the main thread.
THEOREM SessionTypes == Spec => []TypeOK
<1>1. SessionInv => TypeOK
  BY DEF SessionInv
<1> QED
  BY <1>1, SessionInvariance, PTL

\* However late an answer is, the answers of a client come in the order of its
\* commands, each at most once.
THEOREM AnswersComeInOrder == Spec => []AnswersInOrder
<1>1. SessionInv => AnswersInOrder
  <2> SUFFICES ASSUME SessionInv, NEW c \in Clients, NEW j \in DOMAIN down[c], down[c][j] # 0
               PROVE  /\ \A i \in shown[c] : i < down[c][j]
                      /\ \A i \in 1..j-1 : down[c][i] < down[c][j]
    BY DEF AnswersInOrder
  <2>1. Numbered(c) /\ down[c] \in Seq(Nat)
    BY DEF SessionInv, TypeOK
  <2>2. \A i \in 1..j-1 : i \in DOMAIN down[c] /\ i < j
    BY <2>1
  <2> QED
    BY <2>1, <2>2 DEF Numbered
<1> QED
  BY <1>1, SessionInvariance, PTL

\* A client none of whose calls returned early has nothing under way when it is at
\* the prompt, and is attached to nothing.
THEOREM PromptIsSynchronised == Spec => []Synchronised
<1>1. SessionInv => Synchronised
  BY DEF SessionInv
<1> QED
  BY <1>1, SessionInvariance, PTL

\* The daemon throws away only commands that were sent in haste.
THEOREM OnlyHasteDrops == Spec => []DropsNeedHaste
<1>1. SessionInv => DropsNeedHaste
  BY DEF SessionInv
<1> QED
  BY <1>1, SessionInvariance, PTL

-----------------------------------------------------------------------------
(* Refinement of module Dialogue.                                           *)

\* A command that was thrown away is earlier than those in the stream, and is not
\* the reload that waits for its answer.
Discarded(c) ==
  \A k \in dropped[c] :
    /\ k \in 1..sent[c] /\ k # request[c]
    /\ \A i \in DOMAIN up[c] : k < up[c][i].id

Answered == [c \in Clients |-> Given(c)]

\* What a step does to the commands of one client, and nothing else that matters.
Untouched(d) ==
  /\ sent'[d] = sent[d] /\ dropped'[d] = dropped[d] /\ up'[d] = up[d]
  /\ shown'[d] = shown[d] /\ down'[d] = down[d] /\ request'[d] \in {request[d], 0}

LEMMA UntouchedDiscarded ==
  ASSUME NEW d \in Clients, Untouched(d), Discarded(d), sent[d] \in Nat
  PROVE  Discarded(d)' /\ Given(d)' = Given(d)
<1>1. Discarded(d)'
  BY DEF Untouched, Discarded
<1>2. Given(d)' = Given(d)
  BY DEF Untouched, Given, Answers
<1> QED  BY <1>1, <1>2

LEMMA TypesOf ==
  ASSUME SessionInv, NEW c \in Clients
  PROVE  /\ sent \in [Clients -> Nat] /\ dropped \in [Clients -> SUBSET Nat]
         /\ down \in [Clients -> Seq(Nat)] /\ down[c] \in Seq(Nat)
         /\ shown[c] \subseteq Nat /\ request[c] \in Nat /\ sent[c] \in Nat
         /\ \A i \in DOMAIN up[c] : up[c][i].id \in Nat \ {0}
         /\ Numbered(c) /\ Pending(c)
BY EntriesTyped DEF SessionInv, TypeOK

\* A step that touches nothing is a stutter; one that gives an answer and one that
\* throws commands away are those of the abstract module.
LEMMA QuietStep ==
  ASSUME SessionInv, \A d \in Clients : Discarded(d), \A d \in Clients : Untouched(d),
         UNCHANGED <<sent, dropped>>
  PROVE  (\A d \in Clients : Discarded(d)') /\ UNCHANGED A!vars
<1>1. \A d \in Clients : Discarded(d)' /\ Given(d)' = Given(d)
  BY UntouchedDiscarded, TypesOf
<1>2. UNCHANGED Answered
  BY <1>1 DEF Answered
<1> QED  BY <1>1, <1>2 DEF A!vars, Answered

\* Whatever is still to be answered is later than every answer given.
LEMMA DueLater ==
  ASSUME SessionInv, NEW c \in Clients, NEW id \in Nat,
         \A i \in DOMAIN down[c] : down[c][i] < id, \A k \in shown[c] : k < id
  PROVE  \A i \in Given(c) : i < id
<1>1. \A i \in Range(down[c]) : i < id
  BY DEF Range
<1> QED  BY <1>1 DEF Given, Answers

\* An answer that is written is given; output is none.
LEMMA GivenExtended ==
  ASSUME NEW c \in Clients, NEW id \in Nat, down'[c] = down[c] \/ Extended(c, id),
         shown'[c] = shown[c]
  PROVE  \/ Given(c)' = Given(c)
         \/ id # 0 /\ Given(c)' = Given(c) \cup {id}
<1>1. CASE down'[c] = down[c]
  BY <1>1 DEF Given, Answers
<1>2. CASE Extended(c, id)
  <2>1. Range(down[c])' = Range(down[c]) \cup {id}
    BY <1>2 DEF Extended
  <2> QED  BY <2>1 DEF Given, Answers
<1> QED  BY <1>1, <1>2

\* The function that Given makes changes at one client.
LEMMA AnsweredAt ==
  ASSUME NEW c \in Clients, NEW g, Given(c)' = g,
         \A d \in Clients \ {c} : Given(d)' = Given(d)
  PROVE  Answered' = [Answered EXCEPT ![c] = g]
BY DEF Answered

LEMMA SentStep ==
  ASSUME SessionInv, \A d \in Clients : Discarded(d),
         NEW c \in Clients, NEW name \in Names, NEW h \in BOOLEAN,
         NEW next \in {"attach", "wait"}, SendCommand(c, name, h, next),
         UNCHANGED <<shown, down, request, dropped>>
  PROVE  (\A d \in Clients : Discarded(d)') /\ A!Send(c)
<1>1. /\ \A d \in Clients \ {c} : sent'[d] = sent[d] /\ up'[d] = up[d]
      /\ sent'[c] = sent[c] + 1
      /\ \A i \in DOMAIN up'[c] :
           \/ i \in DOMAIN up[c] /\ up'[c][i] = up[c][i]
           \/ up'[c][i].id = sent[c] + 1
  BY SendCommandEffect
<1>2. ASSUME NEW d \in Clients \ {c} PROVE Discarded(d)'
  BY <1>1 DEF Discarded
<1>3. Discarded(c)'
  <2> SUFFICES ASSUME NEW k \in dropped[c], NEW i \in DOMAIN up'[c]
               PROVE  /\ k \in 1..sent'[c] /\ k # request[c]
                      /\ k < up'[c][i].id
    <3>1. \A k \in dropped[c] : k \in 1..sent'[c] /\ k # request[c]
      BY <1>1, TypesOf DEF Discarded
    <3> QED  BY <3>1 DEF Discarded
  <2>1. k \in 1..sent[c] /\ k # request[c] /\ sent[c] \in Nat
    BY TypesOf DEF Discarded
  <2>2. k < up'[c][i].id
    <3>1. CASE i \in DOMAIN up[c] /\ up'[c][i] = up[c][i]
      BY <3>1 DEF Discarded
    <3>2. CASE up'[c][i].id = sent[c] + 1
      BY <2>1, <3>2
    <3> QED  BY <1>1, <3>1, <3>2
  <2> QED  BY <1>1, <2>1, <2>2
<1>4. UNCHANGED Answered
  BY DEF Answered, Given, Answers
<1>5. sent' = [sent EXCEPT ![c] = sent[c] + 1]
  BY DEF SendCommand
<1> QED  BY <1>2, <1>3, <1>4, <1>5 DEF A!Send, Answered

\* Output, and the answer to a reload after the batch.
LEMMA WriteStep ==
  ASSUME SessionInv, \A d \in Clients : Discarded(d), NEW c \in Clients,
         Output(c) \/ AnswerReload(c)
  PROVE  (\A d \in Clients : Discarded(d)') /\ [A!Next]_(A!vars)
<1> DEFINE id == IF Output(c) THEN 0 ELSE request[c]
<1>0. /\ id \in Nat /\ Send(c, id) /\ UNCHANGED <<up, dropped, sent, shown>>
      /\ id # 0 => id = request[c]
      /\ request' = request \/ request' = [request EXCEPT ![c] = 0]
  BY TypesOf DEF Output, AnswerReload, client_vars
<1> HIDE DEF id
<1>1. /\ \A d \in Clients \ {c} : down'[d] = down[d]
      /\ down'[c] = down[c] \/ Extended(c, id)
  BY <1>0, SendEffect DEF SessionInv
<1>2. \A d \in Clients : request'[d] \in {request[d], 0}
  BY <1>0 DEF SessionInv, TypeOK
<1>3. \A d \in Clients \ {c} : Untouched(d)
  BY <1>0, <1>1, <1>2 DEF Untouched
<1>4. Discarded(c)'
  BY <1>0, <1>2, TypesOf DEF Discarded
<1>5. \A d \in Clients \ {c} : Discarded(d)' /\ Given(d)' = Given(d)
  BY <1>3, UntouchedDiscarded, TypesOf
<1>6. CASE Given(c)' = Given(c)
  <2>1. UNCHANGED Answered
    BY <1>5, <1>6 DEF Answered
  <2> QED  BY <1>0, <1>4, <1>5, <2>1 DEF A!vars, Answered
<1>7. CASE id # 0 /\ Given(c)' = Given(c) \cup {id}
  <2>1. /\ id = request[c] /\ id \in 1..sent[c] /\ id \notin dropped[c]
        /\ \A i \in DOMAIN down[c] : down[c][i] < id
        /\ \A k \in shown[c] : k < id
    BY <1>0, <1>7, TypesOf DEF Pending, Discarded
  <2>2. \A i \in Given(c) : i < id
    BY <2>1, <1>0, DueLater
  <2>3. Answered' = [Answered EXCEPT ![c] = Given(c) \cup {id}]
    BY <1>5, <1>7, AnsweredAt
  <2>4. Answered[c] = Given(c)
    BY DEF Answered
  <2>5. A!Answer(c, id)
    BY <1>0, <2>1, <2>2, <2>3, <2>4 DEF A!Answer, A!Due, Answered
  <2> QED  BY <1>4, <1>5, <2>1, <2>5 DEF A!Next
<1>8. Given(c)' = Given(c) \/ (id # 0 /\ Given(c)' = Given(c) \cup {id})
  BY <1>0, <1>1, GivenExtended
<1> QED  BY <1>6, <1>7, <1>8

\* A read takes the answers out of the stream.
LEMMA ReceiveStep ==
  ASSUME SessionInv, \A d \in Clients : Discarded(d), NEW c \in Clients, Receive(c)
  PROVE  (\A d \in Clients : Discarded(d)') /\ UNCHANGED A!vars
<1>0. /\ shown' = [shown EXCEPT ![c] = @ \cup Answers(down[c])]
      /\ down' = [down EXCEPT ![c] = <<>>]
      /\ UNCHANGED <<sent, up, dropped, request>>
      /\ shown \in [Clients -> SUBSET Nat] /\ down \in [Clients -> Seq(Nat)]
  BY DEF Receive, session_vars, SessionInv, TypeOK
<1>1. \A d \in Clients : Discarded(d)'
  BY <1>0 DEF Discarded
<1>2. shown'[c] = shown[c] \cup Answers(down[c]) /\ Answers(down[c])' = {}
  BY <1>0 DEF Answers, Range
<1>3. Given(c)' = Given(c)
  BY <1>2 DEF Given
<1>4. \A d \in Clients \ {c} : Given(d)' = Given(d)
  BY <1>0 DEF Given, Answers
<1>5. UNCHANGED Answered
  BY <1>3, <1>4 DEF Answered
<1> QED  BY <1>0, <1>1, <1>5 DEF A!vars, Answered

\* The daemon reads a stream: the first command is kept, those behind it are not.
LEMMA HandleStep ==
  ASSUME SessionInv, \A d \in Clients : Discarded(d), NEW c \in Clients, HandleCommand(c)
  PROVE  (\A d \in Clients : Discarded(d)') /\ A!Next
<1> DEFINE m == up[c][1]
           D == Ids(Tail(up[c]))
<1>a. /\ main = "handle" /\ c \in ready /\ up[c] # <<>>
      /\ Kept(up[c]).line = m /\ Kept(up[c]).rest = Tail(up[c])
      /\ up' = [up EXCEPT ![c] = <<>>]
      /\ dropped' = [dropped EXCEPT ![c] = @ \cup D]
      /\ UNCHANGED <<sent, shown>>
      /\ \/ Ask(c, m) \/ Reload(c, m) \/ Quit(c, m) \/ Attach(c, m) \/ Detach(c, m)
         \/ Refuse(m)
  <2>1. Kept(up[c]).line = m /\ Kept(up[c]).rest = Tail(up[c])
    BY DEF Kept
  <2> QED
    BY <2>1 DEF HandleCommand, client_vars
<1>b. /\ 1 \in DOMAIN up[c] /\ m.id \in Nat \ {0} /\ m.id \in 1..sent[c]
      /\ request[c] = 0
      /\ \A i \in DOMAIN down[c] : down[c][i] < m.id
      /\ \A k \in shown[c] : k < m.id
      /\ \A k \in dropped[c] : k < m.id
  <2>1. up[c] \in Seq(CommandType) /\ up[c] # <<>>
    BY <1>a DEF SessionInv, TypeOK
  <2>2. 1 \in DOMAIN up[c]
    BY <2>1
  <2> QED
    BY <1>a, <2>2, TypesOf DEF Numbered, Pending, Discarded
<1>d. D \subseteq (m.id + 1)..sent[c]
  <2> SUFFICES ASSUME NEW x \in D PROVE x \in (m.id + 1)..sent[c]
    OBVIOUS
  <2>1. PICK i \in DOMAIN Tail(up[c]) : x = Tail(up[c])[i].id
    BY DEF Ids
  <2>2. i + 1 \in DOMAIN up[c] /\ i + 1 > 1 /\ 1 \in DOMAIN up[c]
        /\ Tail(up[c])[i] = up[c][i + 1]
    <3>1. up[c] \in Seq(CommandType) /\ up[c] # <<>>
      BY <1>a DEF SessionInv, TypeOK
    <3> QED  BY <3>1
  <2>3. up[c][1].id < up[c][i + 1].id /\ up[c][i + 1].id <= sent[c]
        /\ up[c][i + 1].id \in Nat /\ sent[c] \in Nat /\ up[c][1].id \in Nat
    BY <2>2, TypesOf DEF Numbered
  <2> QED  BY <2>1, <2>2, <2>3
<1>u. DOMAIN up'[c] = {} /\ \A d \in Clients \ {c} : up'[d] = up[d]
  BY <1>a DEF SessionInv, TypeOK
<1>v. /\ dropped'[c] = dropped[c] \cup D
      /\ \A d \in Clients \ {c} : dropped'[d] = dropped[d]
  BY <1>a, TypesOf
<1> HIDE DEF m, D
<1>s. /\ down'[c] = down[c] \/ Extended(c, m.id)
      /\ \A d \in Clients \ {c} : down'[d] = down[d] /\ request'[d] = request[d]
      /\ request'[c] \in {0, m.id}
  <2>0. request \in [Clients -> Nat] /\ TypeOK
    BY DEF SessionInv, TypeOK
  <2>1. CASE Ask(c, m) \/ Quit(c, m) \/ Detach(c, m)
    BY <2>0, <2>1, <1>b, SendEffect DEF Ask, Quit, Detach
  <2>2. CASE Reload(c, m) \/ Refuse(m)
    BY <2>0, <2>2, <1>b DEF Reload, Refuse, Silent
  <2>3. CASE Attach(c, m)
    BY <2>0, <2>3, <1>b, SendEffect DEF Attach, Silent
  <2> QED  BY <1>a, <2>1, <2>2, <2>3
<1>1. \A d \in Clients \ {c} : Discarded(d)' /\ Given(d)' = Given(d)
  <2>1. \A d \in Clients \ {c} : Untouched(d)
    BY <1>a, <1>s, <1>u, <1>v DEF Untouched
  <2> QED  BY <2>1, UntouchedDiscarded, TypesOf
<1>2. Discarded(c)'
  <2>1. \A k \in dropped[c] : k \in 1..sent[c] /\ k < m.id
    BY <1>b DEF Discarded
  <2>2. \A k \in (m.id + 1)..sent[c] : k \in 1..sent[c] /\ m.id < k
    BY <1>b, TypesOf
  <2>3. ASSUME NEW k \in dropped[c] \cup D
        PROVE  k \in 1..sent[c] /\ k # 0 /\ k # m.id
    <3>1. sent[c] \in Nat /\ m.id \in Nat
      BY <1>b, TypesOf
    <3>2. k \in 1..sent[c] /\ (k < m.id \/ m.id < k)
      BY <1>d, <2>1, <2>2
    <3> QED  BY <3>1, <3>2
  <2> QED  BY <1>a, <1>s, <1>u, <1>v, <2>3 DEF Discarded
<1>3. \A i \in Given(c) : i < m.id
  BY <1>b, DueLater
<1>4. Answered' = [Answered EXCEPT ![c] = Given(c) \cup {m.id}] \/ UNCHANGED Answered
  <2>1. Given(c)' = Given(c) \/ Given(c)' = Given(c) \cup {m.id}
    BY <1>a, <1>b, <1>s, GivenExtended
  <2>2. CASE Given(c)' = Given(c)
    BY <1>1, <2>2 DEF Answered
  <2>3. CASE Given(c)' = Given(c) \cup {m.id}
    BY <1>1, <2>3, AnsweredAt
  <2> QED  BY <2>1, <2>2, <2>3
<1>5. Answered[c] = Given(c)
  BY DEF Answered
<1>6. A!Discard(c, m.id, D)
  <2>1. m.id \notin dropped[c]
    BY <1>b
  <2> QED
    BY <1>a, <1>b, <1>3, <1>4, <1>5, <2>1 DEF A!Discard, A!Due, Answered
<1>7. m.id \in 1..sent[c] /\ D \in SUBSET (m.id + 1..sent[c])
  BY <1>b, <1>d
<1> QED  BY <1>1, <1>2, <1>6, <1>7 DEF A!Next

LEMMA DialogueStep ==
  ASSUME SessionInv, \A d \in Clients : Discarded(d), [Next]_vars
  PROVE  (\A d \in Clients : Discarded(d)') /\ [A!Next]_(A!vars)
<1> DEFINE Goal == (\A d \in Clients : Discarded(d)') /\ [A!Next]_(A!vars)
<1>1. ASSUME UNCHANGED <<sent, dropped, up, shown, down, request>> PROVE Goal
  <2>1. \A d \in Clients : Untouched(d)
    BY <1>1 DEF Untouched
  <2> QED  BY <1>1, <2>1, QuietStep
<1>2. ASSUME \/ PollReturns \/ EndBatch \/ ReloadConfig \/ KillFails \/ EndReload
             \/ Exit \/ SigHup \/ Over \/ UNCHANGED vars
      PROVE  Goal
  BY <1>1, <1>2 DEF PollReturns, EndBatch, ReloadConfig, KillFails, EndReload, Exit, SigHup,
                    Over, vars, client_vars, stream_vars, main_vars, session_vars
<1>3. ASSUME NEW c \in Clients, Disconnect(c) PROVE Goal
  <2>1. \A d \in Clients : Untouched(d)
    <3>1. \A d \in Clients : request'[d] \in {request[d], 0}
      BY <1>3 DEF Disconnect, SessionInv, TypeOK
    <3> QED
      BY <1>3, <3>1 DEF Disconnect, Untouched, client_vars, stream_vars
  <2> QED  BY <1>3, <2>1, QuietStep DEF Disconnect, client_vars
<1>4. ASSUME NEW c \in Clients, HandleCommand(c) PROVE Goal
  BY <1>4, HandleStep
<1>5. ASSUME NEW c \in Clients, Output(c) \/ AnswerReload(c) PROVE Goal
  BY <1>5, WriteStep
<1>6. ASSUME NEW c \in Clients, Receive(c) PROVE Goal
  BY <1>6, ReceiveStep
<1>7. ASSUME NEW c \in Clients,
             SetSigintHandler(c) \/ EndOfFile(c) \/ CtrlC(c) \/ Leave(c)
      PROVE  Goal
  BY <1>1, <1>7 DEF SetSigintHandler, EndOfFile, CtrlC, Leave, stream_vars, session_vars
<1>8. ASSUME NEW c \in Clients, NEW name \in Names, NEW h \in BOOLEAN,
             NEW next \in {"attach", "wait"}, SendCommand(c, name, h, next),
             UNCHANGED <<shown, down, request, dropped>>
      PROVE  Goal
  BY <1>8, SentStep DEF A!Next
<1>9. ASSUME NEW c \in Clients, NEW sig, Return(c, sig) PROVE Goal
  <2>1. UNCHANGED <<shown, down, request, dropped>>
    BY <1>9 DEF Return, session_vars
  <2>2. CASE BackToPrompt(c) \/ StayAttached(c, sig)
    BY <1>1, <2>1, <2>2 DEF BackToPrompt, StayAttached
  <2>3. CASE SendDetach(c, sig)
    <3>1. SendCommand(c, "detach", hollow[c], "wait") /\ hollow[c] \in BOOLEAN
      BY <2>3 DEF SendDetach, SessionInv, TypeOK
    <3>2. "detach" \in Names /\ "wait" \in {"attach", "wait"}
      BY DEF Names, WithProgram
    <3> QED  BY <1>8, <2>1, <3>1, <3>2
  <2> QED  BY <1>9, <2>2, <2>3 DEF Return
<1>10. ASSUME NEW c \in Clients,
              Timeout(c) \/ NothingMore(c) \/ ReadFails(c) \/ Interrupt(c)
       PROVE  Goal
  BY <1>9, <1>10 DEF Timeout, NothingMore, ReadFails, Interrupt
<1>11. ASSUME NEW c \in Clients, NEW name \in Typed, NEW h \in BOOLEAN, Type(c, name, h)
       PROVE  Goal
  <2> DEFINE next == IF name = "attach" THEN "attach" ELSE "wait"
  <2>1. name \in Names /\ next \in {"attach", "wait"}
    BY CtlSessionAssumption DEF ClientCallbacks
  <2>2. SendCommand(c, name, h, next) /\ UNCHANGED <<shown, down, request, dropped>>
    BY <1>11 DEF Type, session_vars
  <2> HIDE DEF next
  <2> QED  BY <1>8, <2>1, <2>2
<1> HIDE DEF Goal
<1>12. ASSUME Daemon PROVE Goal
  BY <1>2, <1>3, <1>4, <1>5, <1>12 DEF Daemon
<1>13. ASSUME NEW c \in Clients, ClientStep(c) PROVE Goal
  BY <1>6, <1>7, <1>10, <1>13 DEF ClientStep
<1>14. ASSUME NEW c \in Clients, User(c) PROVE Goal
  BY <1>7, <1>10, <1>11, <1>14 DEF User
<1>15. Goal
  BY <1>2, <1>12, <1>13, <1>14 DEF Next
<1> QED  BY <1>15 DEF Goal

\* Whatever is late, interrupted or closed, every command of every client is answered
\* at most once and in its turn, or thrown away behind one that was kept, never both.
THEOREM CommandsAreServedInOrder == Spec => ServesInOrder
<1> DEFINE AllDiscarded == \A c \in Clients : Discarded(c)
<1>1. Init => A!Init /\ AllDiscarded
  <2> SUFFICES ASSUME Init PROVE A!Init /\ AllDiscarded
    OBVIOUS
  <2>1. \A c \in Clients : Given(c) = {}
    BY DEF Init, Given, Answers, Range
  <2> QED  BY <2>1 DEF Init, A!Init, Discarded
<1>2. SessionInv /\ AllDiscarded /\ [Next]_vars => AllDiscarded' /\ [A!Next]_(A!vars)
  BY DialogueStep
<1> HIDE DEF AllDiscarded
<1> QED
  BY <1>1, <1>2, SessionInvariance, PTL DEF Spec, ServesInOrder, A!Spec
=============================================================================
