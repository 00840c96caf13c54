----------------------------- MODULE CtlSession -----------------------------
(***************************************************************************)
(* The dialogue of taskmasterctl (src/client/TaskmasterCtl.cpp) with the   *)
(* main thread of the daemon (ClientSession.cpp, the callbacks of          *)
(* Taskmaster.cpp), both of which look commands up in the table of         *)
(* CommandManager.cpp.                                                     *)
(*                                                                         *)
(* A connection is two byte streams.  up[c] holds the command lines the    *)
(* daemon has not read, down[c] what the client has not read: for an       *)
(* answer the number of its command, for output of the program 0.  The     *)
(* commands of a client are numbered as they are sent.  One program is     *)
(* enough here: a reload may take it out of the file and put it back, and  *)
(* its processes are the modules TaskManager and ProcessOutput.  Each      *)
(* client is one run of taskmasterctl, already accepted.                   *)
(***************************************************************************)
EXTENDS Integers, SequencesExt

CONSTANTS
  Clients,  \* the runs of taskmasterctl
  Typed,    \* the names of the commands users type
  MaxSent,  \* bound: commands a user types in a run
  MaxDown   \* bound: messages that output adds to in a stream

VARIABLES
  at,        \* what the client is at
  doing,     \* the call receive_response was made for
  hollow,    \* the argument of the command is an empty string
  sent,      \* commands sent: the number of the last one
  sigint,    \* sigint_received_g
  got,       \* the answer to the last command was read
  up, down,  \* the streams
  reset,     \* the daemon closed the connection with commands unread
  early,     \* history: a receive_response returned without its answer
  hasty,     \* history: commands sent after that, or to end an attach
  shown,     \* history: the answers that were read
  dropped,   \* history: the commands a read of the daemon has thrown away
  main,      \* what the main thread of the daemon is at
  ready,     \* the clients of the batch that were not handled yet
  running,   \* _running
  sighup,    \* sighup_received_g
  request,   \* _reload_request, with the number of the command, or 0
  open,      \* the client session exists
  listed,    \* the program is in the pool
  attached   \* the client is among its _attached_client

client_vars == <<at, doing, hollow, sent, sigint, got, early, hasty, shown>>
stream_vars == <<up, down, reset>>
main_vars == <<main, ready, running, sighup>>
session_vars == <<request, open, listed, attached, dropped>>
vars == <<client_vars, stream_vars, main_vars, session_vars>>

-----------------------------------------------------------------------------
(* CommandManager: the table of commands.  The client has no callback for   *)
(* detach, the daemon none for help; both refuse a command they have no     *)
(* callback for, and one with another number of words than its entry.       *)

WithProgram == {"start", "stop", "restart", "attach", "detach"}
Names == WithProgram \cup {"status", "reload", "quit", "exit", "help"}
ClientCallbacks == Names \ {"detach"}
DaemonCallbacks == Names \ {"help"}

Needed(name) == IF name \in WithProgram THEN 2 ELSE 1

\* A command the client accepts has Needed(name) words.  The line it sends ends
\* with an empty word if the argument is empty, and the daemon does not count it.
WordsReceived(m) == Needed(m.name) - (IF m.hollow THEN 1 ELSE 0)

Runs(m) == m.name \in DaemonCallbacks /\ WordsReceived(m) = Needed(m.name)

ASSUME CtlSessionAssumption ==
  /\ Typed \subseteq ClientCallbacks \ {"help"}   \* help is answered by the client
  /\ MaxSent \in [Clients -> Nat]
  /\ MaxDown \in Nat

CommandType == [id : Nat \ {0}, name : Names, hollow : BOOLEAN]

TypeOK ==
  /\ at \in [Clients -> {"prompt", "attach", "wait", "drain", "left"}]
  /\ doing \in [Clients -> {"ask", "quit", "attach", "detach"}]
  /\ hollow \in [Clients -> BOOLEAN]
  /\ sent \in [Clients -> Nat]
  /\ sigint \in [Clients -> BOOLEAN]
  /\ got \in [Clients -> BOOLEAN]
  /\ up \in [Clients -> Seq(CommandType)]
  /\ down \in [Clients -> Seq(Nat)]
  /\ reset \in [Clients -> BOOLEAN]
  /\ early \in [Clients -> BOOLEAN]
  /\ hasty \in [Clients -> SUBSET Nat]
  /\ shown \in [Clients -> SUBSET Nat]
  /\ dropped \in [Clients -> SUBSET Nat]
  /\ main \in {"poll", "handle", "reload", "reloaded", "left", "gone", "killed"}
  /\ ready \subseteq Clients
  /\ running \in BOOLEAN
  /\ sighup \in BOOLEAN
  /\ request \in [Clients -> Nat]
  /\ open \in [Clients -> BOOLEAN]
  /\ listed \in BOOLEAN
  /\ attached \in [Clients -> BOOLEAN]

Init ==
  /\ at = [c \in Clients |-> "prompt"]
  /\ doing = [c \in Clients |-> "ask"]
  /\ hollow = [c \in Clients |-> FALSE]
  /\ sent = [c \in Clients |-> 0]
  /\ sigint = [c \in Clients |-> FALSE]
  /\ got = [c \in Clients |-> FALSE]
  /\ up = [c \in Clients |-> <<>>]
  /\ down = [c \in Clients |-> <<>>]
  /\ reset = [c \in Clients |-> FALSE]
  /\ early = [c \in Clients |-> FALSE]
  /\ hasty = [c \in Clients |-> {}]
  /\ shown = [c \in Clients |-> {}]
  /\ dropped = [c \in Clients |-> {}]
  /\ main = "poll"
  /\ ready = {}
  /\ running = TRUE
  /\ sighup = FALSE
  /\ request = [c \in Clients |-> 0]
  /\ open = [c \in Clients |-> TRUE]
  /\ listed \in BOOLEAN
  /\ attached = [c \in Clients |-> FALSE]

-----------------------------------------------------------------------------
(* The client.                                                              *)

\* write(2) to a connection that the daemon has closed raises SIGPIPE.
SendCommand(c, name, h, next) ==
  LET id == sent[c] + 1 IN
  /\ sent' = [sent EXCEPT ![c] = id]
  /\ hasty' = [hasty EXCEPT ![c] = IF early[c] \/ name = "detach" THEN @ \cup {id} ELSE @]
  /\ got' = [got EXCEPT ![c] = FALSE]
  /\ IF open[c]
       THEN /\ up' = [up EXCEPT ![c] = Append(@, [id |-> id, name |-> name, hollow |-> h])]
            /\ at' = [at EXCEPT ![c] = next]
       ELSE /\ at' = [at EXCEPT ![c] = "left"]
            /\ UNCHANGED up

Call(name) ==
  CASE name \in {"quit", "exit"} -> "quit"
    [] name = "attach" -> "attach"
    [] OTHER -> "ask"

\* A line with a command the client knows and the right number of words; any
\* other is refused here and changes nothing.
Type(c, name, h) ==
  /\ at[c] = "prompt" /\ sent[c] < MaxSent[c]
  /\ h => name \in WithProgram
  /\ SendCommand(c, name, h, IF name = "attach" THEN "attach" ELSE "wait")
  /\ doing' = [doing EXCEPT ![c] = Call(name)]
  /\ hollow' = [hollow EXCEPT ![c] = h]
  /\ UNCHANGED <<sigint, early, shown, down, reset, main_vars, session_vars>>

\* attach() catches SIGINT once the command is sent, and starts to receive.
SetSigintHandler(c) ==
  /\ at[c] = "attach"
  /\ at' = [at EXCEPT ![c] = "wait"]
  /\ UNCHANGED <<doing, hollow, sent, sigint, got, early, hasty, shown,
                 stream_vars, main_vars, session_vars>>

\* receive_response returns, sig being the flag by then.  The loop of attach
\* calls it again until the flag is set, then sends detach.
BackToPrompt(c) ==
  /\ doing[c] # "attach"
  /\ at' = [at EXCEPT ![c] = IF doing[c] = "quit" THEN "left" ELSE "prompt"]
  /\ early' = [early EXCEPT ![c] = @ \/ ~got[c]]
  /\ sigint' = [sigint EXCEPT ![c] = FALSE]
  /\ UNCHANGED <<doing, sent, got, hasty, up>>

StayAttached(c, sig) ==
  /\ doing[c] = "attach" /\ ~sig
  /\ at' = [at EXCEPT ![c] = "wait"]
  /\ UNCHANGED <<doing, sent, sigint, got, early, hasty, up>>

SendDetach(c, sig) ==
  /\ doing[c] = "attach" /\ sig
  /\ SendCommand(c, "detach", hollow[c], "wait")
  /\ doing' = [doing EXCEPT ![c] = "detach"]
  /\ sigint' = [sigint EXCEPT ![c] = TRUE]
  /\ UNCHANGED early

Return(c, sig) ==
  /\ BackToPrompt(c) \/ StayAttached(c, sig) \/ SendDetach(c, sig)
  /\ UNCHANGED <<hollow, shown, down, main_vars, session_vars>>

Receiving(c) == at[c] \in {"wait", "drain"}

Answers(d) == Range(d) \ {0}

\* A read takes everything that is there.
Receive(c) ==
  /\ Receiving(c) /\ down[c] # <<>>
  /\ got' = [got EXCEPT ![c] = @ \/ sent[c] \in Range(down[c])]
  /\ shown' = [shown EXCEPT ![c] = @ \cup Answers(down[c])]
  /\ down' = [down EXCEPT ![c] = <<>>]
  /\ at' = [at EXCEPT ![c] = "drain"]
  /\ UNCHANGED <<doing, hollow, sent, sigint, early, hasty, up, reset,
                 main_vars, session_vars>>

\* Mutation of Timeout: the first poll waits for ever.
TimeoutNever(c) == FALSE

\* The first poll waits three seconds, which may pass at any moment.
Timeout(c) ==
  /\ at[c] = "wait" /\ down[c] = <<>> /\ open[c]
  /\ Return(c, sigint[c])
  /\ UNCHANGED reset

\* The following ones do not wait.
NothingMore(c) ==
  /\ at[c] = "drain" /\ down[c] = <<>> /\ open[c]
  /\ Return(c, sigint[c])
  /\ UNCHANGED reset

\* The daemon has closed the connection without reading all of it: ECONNRESET.
ReadFails(c) ==
  /\ Receiving(c) /\ down[c] = <<>> /\ reset[c]
  /\ Return(c, sigint[c])
  /\ reset' = [reset EXCEPT ![c] = FALSE]

\* read returns 0, and poll returns at once again: the loop has no other exit.
EndOfFile(c) ==
  /\ Receiving(c) /\ down[c] = <<>> /\ ~open[c] /\ ~reset[c]
  /\ at' = [at EXCEPT ![c] = "drain"]
  /\ UNCHANGED <<doing, hollow, sent, sigint, got, early, hasty, shown,
                 stream_vars, main_vars, session_vars>>

CatchesSigint(c) == Receiving(c) /\ doing[c] \in {"attach", "detach"}

\* Ctrl-C in attach: a poll that waits is interrupted, other code is not.
Interrupt(c) ==
  /\ CatchesSigint(c) /\ at[c] = "wait" /\ down[c] = <<>> /\ open[c]
  /\ Return(c, TRUE)
  /\ UNCHANGED reset

CtrlC(c) ==
  /\ CatchesSigint(c) /\ ~sigint[c]
  /\ sigint' = [sigint EXCEPT ![c] = TRUE]
  /\ UNCHANGED <<at, doing, hollow, sent, got, early, hasty, shown,
                 stream_vars, main_vars, session_vars>>

\* Ctrl-D at the prompt, Ctrl-C anywhere but in attach.
Leave(c) ==
  /\ at[c] # "left" /\ ~CatchesSigint(c)
  /\ at' = [at EXCEPT ![c] = "left"]
  /\ UNCHANGED <<doing, hollow, sent, sigint, got, early, hasty, shown,
                 stream_vars, main_vars, session_vars>>

ClientStep(c) ==
  \/ SetSigintHandler(c) \/ Receive(c) \/ Timeout(c) \/ NothingMore(c)
  \/ ReadFails(c) \/ EndOfFile(c)

User(c) ==
  \/ \E name \in Typed, h \in BOOLEAN : Type(c, name, h)
  \/ Interrupt(c) \/ CtrlC(c) \/ Leave(c)

-----------------------------------------------------------------------------
(* The main thread of the daemon.                                           *)

\* The process has ended: the kernel closes its connections.
CloseConnections ==
  /\ open' = [c \in Clients |-> FALSE]
  /\ reset' = [c \in Clients |-> open[c] /\ up'[c] # <<>>]

\* A write to a client that has left raises SIGPIPE, which ends the daemon.
Send(c, id) ==
  IF at[c] = "left"
    THEN main' = "killed" /\ CloseConnections /\ UNCHANGED down
    ELSE /\ down' = [down EXCEPT ![c] = Append(@, id)]
         /\ UNCHANGED <<main, reset, open>>

Silent == UNCHANGED <<down, main, reset, open>>

\* poll returns for clients among others, and finds the worker alive or not.
PollReturns ==
  /\ main = "poll"
  /\ \/ /\ main' = "handle"
        /\ ready' = {c \in Clients : open[c] /\ (up[c] # <<>> \/ at[c] = "left")}
     \/ main' = "left" /\ UNCHANGED ready
  /\ UNCHANGED <<client_vars, stream_vars, running, sighup, session_vars>>

\* Mutation of Kept: the last line of the buffer is kept.
KeptLast(u) == [line |-> Last(u), rest |-> Front(u)]

\* recv_command reads all that has come and keeps the first line.
Kept(u) == [line |-> Head(u), rest |-> Tail(u)]

Ids(u) == {u[i].id : i \in DOMAIN u}

\* status, start, stop and restart: answered, whether the program exists or not.
Ask(c, m) ==
  /\ m.name \in {"status", "start", "stop", "restart"}
  /\ Send(c, m.id)
  /\ UNCHANGED <<running, sighup, request, attached>>

\* Mutation of Reload: it is answered at once as well.
ReloadAnsweringTwice(c, m) ==
  /\ m.name = "reload"
  /\ sighup' = TRUE
  /\ request' = [request EXCEPT ![c] = m.id]
  /\ Send(c, m.id)
  /\ UNCHANGED <<running, attached>>

\* The answer comes after the batch.
Reload(c, m) ==
  /\ m.name = "reload"
  /\ sighup' = TRUE
  /\ request' = [request EXCEPT ![c] = m.id]
  /\ Silent
  /\ UNCHANGED <<running, attached>>

Quit(c, m) ==
  /\ m.name \in {"quit", "exit"}
  /\ running' = FALSE
  /\ Send(c, m.id)
  /\ UNCHANGED <<sighup, request, attached>>

\* Only a failure is answered.
Attach(c, m) ==
  /\ m.name = "attach"
  /\ IF listed
       THEN Silent /\ attached' = [attached EXCEPT ![c] = TRUE]
       ELSE Send(c, m.id) /\ UNCHANGED attached
  /\ UNCHANGED <<running, sighup, request>>

Detach(c, m) ==
  /\ m.name = "detach"
  /\ attached' = [attached EXCEPT ![c] = @ /\ ~listed]
  /\ Send(c, m.id)
  /\ UNCHANGED <<running, sighup, request>>

Refuse(m) ==
  /\ ~Runs(m)
  /\ Silent
  /\ UNCHANGED <<running, sighup, request, attached>>

\* handle_client_command when there is something to read.
HandleCommand(c) ==
  LET m == Kept(up[c]).line IN
  /\ main = "handle" /\ c \in ready /\ up[c] # <<>>
  /\ ready' = ready \ {c}
  /\ up' = [up EXCEPT ![c] = <<>>]
  /\ dropped' = [dropped EXCEPT ![c] = @ \cup Ids(Kept(up[c]).rest)]
  /\ \/ Runs(m) /\ (Ask(c, m) \/ Reload(c, m) \/ Quit(c, m) \/ Attach(c, m) \/ Detach(c, m))
     \/ Refuse(m)
  /\ UNCHANGED <<client_vars, listed>>

\* The client has left: read returns 0, or poll reported no data.
Disconnect(c) ==
  /\ main = "handle" /\ c \in ready /\ up[c] = <<>>
  /\ ready' = ready \ {c}
  /\ open' = [open EXCEPT ![c] = FALSE]
  /\ request' = [request EXCEPT ![c] = 0]
  /\ UNCHANGED <<client_vars, stream_vars, main, running, sighup, listed, attached, dropped>>

\* The program writes and the main thread forwards it, or a reload says that it
\* has stopped.
Output(c) ==
  /\ main \in {"handle", "reload"}
  /\ attached[c] /\ open[c] /\ Len(down[c]) < MaxDown
  /\ UNCHANGED up
  /\ Send(c, 0)
  /\ UNCHANGED <<client_vars, ready, running, sighup, request, listed, attached, dropped>>

NextIteration == IF running THEN "poll" ELSE "left"

\* Mutation of AfterBatch: the reload waits until no command is left.
AfterBatchIdle ==
  IF sighup /\ \A c \in Clients : up[c] = <<>> THEN "reload" ELSE NextIteration

AfterBatch == IF sighup THEN "reload" ELSE NextIteration

EndBatch ==
  /\ main = "handle" /\ ready = {}
  /\ main' = AfterBatch
  /\ UNCHANGED <<client_vars, stream_vars, ready, running, sighup, session_vars>>

SigHup ==
  /\ main \notin {"gone", "killed"}
  /\ sighup' = TRUE
  /\ UNCHANGED <<client_vars, stream_vars, main, ready, running, session_vars>>

\* reload_config fails and changes nothing, or puts a pool in place in which the
\* program is the same, a new one without attached clients, or missing.
ReloadConfig ==
  /\ main = "reload"
  /\ main' = "reloaded"
  /\ \/ UNCHANGED <<listed, attached>>
     \/ listed' \in BOOLEAN /\ attached' = [c \in Clients |-> FALSE]
  /\ UNCHANGED <<client_vars, stream_vars, ready, running, sighup, request, open, dropped>>

\* kill(2) fails in reload_config: the exception leaves the loop with the requests
\* unanswered, and what was to be kept is lost with the new pool.
KillFails ==
  /\ main = "reload"
  /\ main' = "left"
  /\ \/ UNCHANGED <<listed, attached>>
     \/ listed' = FALSE /\ attached' = [c \in Clients |-> FALSE]
  /\ UNCHANGED <<client_vars, stream_vars, ready, running, sighup, request, open, dropped>>

\* Mutation of AnswerReload: the request is not forgotten.
AnswerReloadForEver(c) ==
  /\ main = "reloaded" /\ request[c] # 0
  /\ UNCHANGED up
  /\ Send(c, request[c])
  /\ UNCHANGED <<client_vars, ready, running, sighup, request, listed, attached, dropped>>

AnswerReload(c) ==
  /\ main = "reloaded" /\ request[c] # 0
  /\ request' = [request EXCEPT ![c] = 0]
  /\ UNCHANGED up
  /\ Send(c, request[c])
  /\ UNCHANGED <<client_vars, ready, running, sighup, listed, attached, dropped>>

EndReload ==
  /\ main = "reloaded" /\ \A c \in Clients : request[c] = 0
  /\ sighup' = FALSE
  /\ main' = NextIteration
  /\ UNCHANGED <<client_vars, stream_vars, ready, running, session_vars>>

\* The worker is joined and the process ends.
Exit ==
  /\ main = "left"
  /\ main' = "gone"
  /\ UNCHANGED up
  /\ CloseConnections
  /\ UNCHANGED <<client_vars, down, ready, running, sighup, request, listed, attached, dropped>>

Daemon ==
  \/ PollReturns \/ EndBatch \/ ReloadConfig \/ KillFails \/ EndReload \/ Exit \/ SigHup
  \/ \E c \in Clients : HandleCommand(c) \/ Disconnect(c) \/ Output(c) \/ AnswerReload(c)

Over ==
  /\ main \in {"gone", "killed"} /\ \A c \in Clients : at[c] = "left"
  /\ UNCHANGED vars

Next == Daemon \/ Over \/ \E c \in Clients : ClientStep(c) \/ User(c)

Spec == Init /\ [][Next]_vars

\* The client goes on with what it is at.  Output may fill the stream again between
\* every read and the poll that follows it.
Fairness == \A c \in Clients : WF_vars(ClientStep(c))

FairSpec == Spec /\ Fairness

-----------------------------------------------------------------------------
(* Properties.                                                              *)

\* The answers a client reads come in the order of its commands and none comes
\* twice, however late: reload is answered after the batch, the others at once.
AnswersInOrder ==
  \A c \in Clients :
    \A j \in DOMAIN down[c] : down[c][j] # 0 =>
      /\ \A i \in shown[c] : i < down[c][j]
      /\ \A i \in 1..j-1 : down[c][i] < down[c][j]

\* As long as every call of receive_response returned with its answer, a client
\* that is back at the prompt has nothing under way and is not attached: what it
\* reads next is the answer to what it types next.
Synchronised ==
  \A c \in Clients : at[c] = "prompt" /\ ~early[c] =>
    up[c] = <<>> /\ down[c] = <<>> /\ request[c] = 0 /\ ~attached[c]

\* A command that the daemon reads behind another one is lost.  This happens only
\* to a command sent after a call that returned without its answer, or to the
\* detach at the end of an attach.
DropsNeedHaste == \A c \in Clients : dropped[c] \subseteq hasty[c]

\* The prompt comes back after every command, from attach after Ctrl-C, however late
\* the daemon is and whatever it answers.  Two cases are excluded, in which the loop of
\* receive_response has no exit: the daemon closes the connection under the client, and
\* the program the client is attached to never stops writing, against the promise of
\* CommandManager.cpp:64, "press Ctrl-C to detach".
PromptReturns ==
  \A c \in Clients :
    <>[](0 \notin Range(down[c])) =>
      (Receiving(c) /\ (doing[c] = "attach" => sigint[c]) ~> ~Receiving(c) \/ ~open[c])

\* "Press Ctrl-D or Ctrl-C to quit the shell without stopping programs"
\* (TaskmasterCtl.cpp:122): a client that leaves does not end the daemon.
DaemonOutlivesClients == main # "killed"

-----------------------------------------------------------------------------
(* The inductive invariant, for a client c.                                 *)

\* What is under way carries the numbers of the commands of c: those the daemon has
\* not read are later than those it has answered, and the ones on their way later
\* than the ones that were read.
Numbered(c) ==
  /\ \A i \in DOMAIN up[c] : up[c][i].id <= sent[c]
  /\ \A i, j \in DOMAIN up[c] : i < j => up[c][i].id < up[c][j].id
  /\ \A i \in DOMAIN down[c] :
       down[c][i] <= sent[c] /\ \A j \in DOMAIN up[c] : down[c][i] < up[c][j].id
  /\ \A i, j \in DOMAIN down[c] : i < j /\ down[c][j] # 0 => down[c][i] < down[c][j]
  /\ \A k \in shown[c] :
       /\ k \in 1..sent[c]
       /\ \A i \in DOMAIN up[c] : k < up[c][i].id
       /\ \A i \in DOMAIN down[c] : down[c][i] # 0 => k < down[c][i]

\* A reload is answered before the daemon reads another command of its client, which
\* it never does when it ends instead.
Pending(c) == request[c] # 0 =>
  /\ request[c] <= sent[c]
  /\ \A i \in DOMAIN up[c] : request[c] < up[c][i].id
  /\ \A i \in DOMAIN down[c] : down[c][i] < request[c]
  /\ \A k \in shown[c] : k < request[c]
  /\ \/ main \in {"reload", "reloaded", "left", "gone", "killed"}
     \/ main = "handle" /\ sighup /\ c \notin ready

\* What the answer to the last command says about the attachment.
Awaited(c) ==
  /\ at[c] \in {"attach", "wait", "drain"} => sent[c] > 0
  /\ at[c] = "attach" => doing[c] = "attach"
  /\ got[c] => sent[c] \in shown[c]
  /\ attached[c] => listed
  /\ Receiving(c) /\ ~early[c] =>
       /\ doing[c] = "ask" =>
            ~attached[c] /\ \A i \in DOMAIN up[c] : up[c][i].name # "attach"
       /\ doing[c] = "detach" /\ sent[c] \in shown[c] \cup Range(down[c]) => ~attached[c]
  /\ Receiving(c) /\ doing[c] = "detach" =>
       /\ request[c] # sent[c]
       /\ \A i \in DOMAIN up[c] : up[c][i].id = sent[c] => up[c][i].name = "detach"

\* All that waits behind another command was sent in haste.
Queued(c) == \A i \in DOMAIN up[c] : i > 1 => up[c][i].id \in hasty[c]

SessionInv ==
  /\ TypeOK /\ Synchronised /\ DropsNeedHaste
  /\ \A c \in Clients : Numbered(c) /\ Pending(c) /\ Awaited(c) /\ Queued(c)

-----------------------------------------------------------------------------
(* Refinement: whatever is late, interrupted or closed, the dialogue of a   *)
(* client is one of module Dialogue.                                        *)

Given(c) == shown[c] \cup Answers(down[c])

A == INSTANCE Dialogue WITH answered <- [c \in Clients |-> Given(c)]

\* A command is answered at most once, in its turn and never after it was thrown
\* away; it is thrown away only behind an earlier one that can still be answered.
ServesInOrder == A!Spec
=============================================================================
