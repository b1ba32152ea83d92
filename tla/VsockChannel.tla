---------------------------- MODULE VsockChannel ----------------------------
(***************************************************************************)
(* The command channel between the harness (sev_verify/guest_vsock.py) and *)
(* the agent in the guest (vsock_exec.py).  The harness makes one          *)
(* connection per request, one at a time: pings until the guest answers,   *)
(* then the commands of the steps.  The agent serves one connection at a   *)
(* time, in the order in which the kernel queued them, and does not notice *)
(* a client that gave up until it answers it; what goes wrong in it before *)
(* or behind a command it answers with exit code 1.  The agent may be      *)
(* killed, and restarted, and QEMU may die under the guest at any time.    *)
(* All guests have the same CID: a QEMU that an exception left running     *)
(* keeps it, the QEMU of the next launch exits, and what answers is the    *)
(* old guest.                                                              *)
(* Connections are numbered in the order they are made.                    *)
(***************************************************************************)
EXTENDS Naturals, Sequences

CONSTANTS
    Backlog,    \* the queue of server.listen
    MaxConn,    \* bound: connections made
    MaxBoots    \* bound: guests started one after the other

ASSUME ChannelAssumption == {Backlog, MaxConn, MaxBoots} \subseteq Nat \ {0}

Conn == 1..MaxConn

VARIABLES
    phase,    \* the launch: "boot" (wait_for_guest), "steps", "stopped", "crashed"
    client,   \* "idle", "connected", "waiting"
    cur,      \* the connections made; the last one is the client's
    kind,     \* what each connection asks: "none", "ping" or "cmd"
    boots,    \* the launches made; the last one is the harness's
    guest,    \* the launch whose guest holds the CID
    leaked,   \* that guest was left running by a harness that died
    forOf,    \* the launch each connection was made for
    bootOf,   \* the guest each connection was made to
    sent,     \* the connections whose request was sent
    queue,    \* connected and not accepted by the agent yet
    agent,    \* "down", "accept", "recv", "run", "send", or "off" with its guest
    serving,  \* the connection the agent serves, 0 for none
    answered, \* the connections that were sent a response
    erred,    \* those whose response, built or sent, has an exit code other than 0
    gone,     \* the connections the agent closed, or lost, without a response
    cutOff,   \* those lost because the agent or QEMU was killed
    ran,      \* the commands the guest started, in that order
    result    \* what the harness made of each connection

harnessVars == <<phase, client, cur, kind, forOf, bootOf, sent, result>>
cidVars     == <<boots, guest, leaked>>
madeVars    == <<cur, kind, forOf, bootOf>>
agentVars   == <<agent, serving, answered, erred, gone, cutOff, ran>>
vars == <<phase, client, cur, kind, boots, guest, leaked, forOf, bootOf, sent, queue,
          agent, serving, answered, erred, gone, cutOff, ran, result>>

\* The client closes its end when it stops waiting, however that happened.
Open(c) == c = cur /\ client # "idle"

Queued(c) == \E k \in DOMAIN queue : queue[k] = c

\* In the guest, or on its way into it.
Pending(c) == Queued(c) \/ (serving # 0 /\ serving = c)

Init ==
    /\ phase = "boot" /\ client = "idle" /\ cur = 0
    /\ kind = [c \in Conn |-> "none"]
    /\ boots = 1 /\ guest = 1 /\ leaked = FALSE
    /\ forOf = [c \in Conn |-> 0] /\ bootOf = [c \in Conn |-> 0]
    /\ sent = {} /\ queue = <<>>
    /\ agent = "down" /\ serving = 0
    /\ answered = {} /\ erred = {} /\ gone = {} /\ cutOff = {} /\ ran = <<>>
    /\ result = [c \in Conn |-> "none"]

-----------------------------------------------------------------------------
(* The harness.                                                            *)

\* Mutant of Dies: no finally clause, any exception leaves the guest running.
DiesAnywhere ==
    /\ phase' = "crashed"
    /\ leaked' = TRUE

\* An OSError nothing wraps ends the harness.  Out of a step, finally stops the
\* guest; out of a ping of vm_launch it goes on running.
Dies ==
    /\ phase' = "crashed"
    /\ leaked' = (leaked \/ phase = "boot")

\* Leave the with block of the socket with this outcome.
Settle(how) ==
    /\ client' = "idle"
    /\ result' = [result EXCEPT ![cur] = how]

\* Mutant of Connect: the queue of the listening socket has no limit.
ConnectUnbounded ==
    /\ client = "idle" /\ phase \in {"boot", "steps"} /\ cur < MaxConn
    /\ cur' = cur + 1
    /\ kind' = [kind EXCEPT ![cur + 1] = IF phase = "boot" THEN "ping" ELSE "cmd"]
    /\ forOf' = [forOf EXCEPT ![cur + 1] = boots]
    /\ bootOf' = [bootOf EXCEPT ![cur + 1] = guest]
    /\ \/ /\ agent \notin {"down", "off"}
          /\ queue' = Append(queue, cur + 1)
          /\ client' = "connected" /\ UNCHANGED result
       \/ /\ result' = [result EXCEPT ![cur + 1] = "refused"]
          /\ UNCHANGED <<queue, client>>
    /\ UNCHANGED <<phase, cidVars, sent, agentVars>>

\* _connect: the kernel queues the connection, or connect() fails.
Connect ==
    /\ client = "idle" /\ phase \in {"boot", "steps"} /\ cur < MaxConn
    /\ cur' = cur + 1
    /\ kind' = [kind EXCEPT ![cur + 1] = IF phase = "boot" THEN "ping" ELSE "cmd"]
    /\ forOf' = [forOf EXCEPT ![cur + 1] = boots]
    /\ bootOf' = [bootOf EXCEPT ![cur + 1] = guest]
    /\ \/ /\ agent \notin {"down", "off"} /\ Len(queue) < Backlog
          /\ queue' = Append(queue, cur + 1)
          /\ client' = "connected" /\ UNCHANGED result
       \/ /\ result' = [result EXCEPT ![cur + 1] = "refused"]
          /\ UNCHANGED <<queue, client>>
    /\ UNCHANGED <<phase, cidVars, sent, agentVars>>

\* _send_request; on a connection that was reset sendall raises OSError, which
\* nothing wraps.
Send ==
    /\ client = "connected"
    /\ \/ /\ cur \notin gone
          /\ sent' = sent \cup {cur} /\ client' = "waiting"
          /\ UNCHANGED <<phase, leaked, result>>
       \/ /\ cur \in gone
          /\ Settle("raised") /\ Dies
          /\ UNCHANGED sent
    /\ UNCHANGED <<madeVars, boots, guest, queue, agentVars>>

\* Mutant of Receive: every response is taken for a success.
ReceiveUnchecked ==
    /\ client = "waiting" /\ cur \in answered
    /\ Settle("ok")
    /\ phase' = "steps"
    /\ UNCHANGED <<madeVars, sent, cidVars, queue, agentVars>>

\* _read_response to the end of a response, and _parse_command_response: only the
\* exit code tells success.  A ping that is answered, with whatever exit code,
\* ends the wait.
Receive ==
    /\ client = "waiting" /\ cur \in answered
    /\ Settle(IF cur \in erred THEN "failed" ELSE "ok")
    /\ phase' = "steps"
    /\ UNCHANGED <<madeVars, sent, cidVars, queue, agentVars>>

\* The connection ends without a whole response: end of file, or a response cut
\* short, is a GuestVsockError, a reset connection an OSError that leaves the harness.
Closed ==
    /\ client = "waiting" /\ cur \in gone
    /\ \/ Settle("closed") /\ UNCHANGED <<phase, leaked>>
       \/ Settle("raised") /\ Dies
    /\ UNCHANGED <<madeVars, sent, boots, guest, queue, agentVars>>

\* Mutant of TimesOut: no settimeout on the socket of a command.
TimesOutPingOnly ==
    /\ client = "waiting" /\ cur \notin answered \cup gone /\ kind[cur] = "ping"
    /\ Settle("gaveup")
    /\ UNCHANGED <<phase, madeVars, sent, cidVars, queue, agentVars>>

TimesOut ==
    /\ client = "waiting" /\ cur \notin answered \cup gone
    /\ Settle("gaveup")
    /\ UNCHANGED <<phase, madeVars, sent, cidVars, queue, agentVars>>

\* A response longer than vsock_max_response_bytes is given up while it comes.
Overruns ==
    /\ client = "waiting" /\ agent = "send" /\ serving = cur /\ kind[cur] = "cmd"
    /\ Settle("gaveup")
    /\ UNCHANGED <<phase, madeVars, sent, cidVars, queue, agentVars>>

\* vm_launch finds QEMU dead at its poll() or behind a failed ping, or the
\* deadline of wait_for_guest passes: no step uses the guest.
BootDeadline ==
    /\ phase = "boot" /\ client = "idle"
    /\ phase' = "stopped"
    /\ UNCHANGED <<client, madeVars, sent, result, cidVars, queue, agentVars>>

\* Another vm_launch, after a vm_stop or in the next process.  The guest has the
\* CID to itself, with nothing left of the old guest in it, unless a leaked
\* one still runs: then the new QEMU cannot have the CID and exits.
\* A leaked QEMU that died has freed the CID.
NextGuest ==
    /\ phase \in {"steps", "stopped", "crashed"} /\ client = "idle"
    /\ boots < MaxBoots
    /\ phase' = "boot" /\ boots' = boots + 1
    /\ \/ /\ leaked /\ agent # "off"
          /\ UNCHANGED <<guest, leaked, queue, agent, serving>>
       \/ /\ ~leaked \/ agent = "off"
          /\ guest' = boots + 1 /\ leaked' = FALSE
          /\ queue' = <<>> /\ agent' = "down" /\ serving' = 0
    /\ UNCHANGED <<client, madeVars, sent, result, answered, erred, gone, cutOff, ran>>

-----------------------------------------------------------------------------
(* The agent.                                                              *)

\* systemd starts the agent, or restarts it after a failure.
AgentStarts ==
    /\ agent = "down"
    /\ agent' = "accept"
    /\ UNCHANGED <<harnessVars, cidVars, queue, serving, answered, erred, gone, cutOff, ran>>

\* Mutant of Accept: the newest connection first.
AcceptNewest ==
    /\ agent = "accept" /\ queue # <<>>
    /\ serving' = queue[Len(queue)]
    /\ queue' = SubSeq(queue, 1, Len(queue) - 1)
    /\ agent' = "recv"
    /\ UNCHANGED <<harnessVars, cidVars, answered, erred, gone, cutOff, ran>>

Accept ==
    /\ agent = "accept" /\ queue # <<>>
    /\ serving' = Head(queue) /\ queue' = Tail(queue)
    /\ agent' = "recv"
    /\ UNCHANGED <<harnessVars, cidVars, answered, erred, gone, cutOff, ran>>

\* Mutant of Recv: a request the agent cannot carry out is dropped, not answered.
RecvDropsErrors ==
    /\ agent = "recv"
    /\ \/ /\ serving \in sent /\ kind[serving] = "ping"
          /\ agent' = "send" /\ UNCHANGED <<serving, gone, ran>>
       \/ /\ serving \in sent /\ kind[serving] = "cmd"
          /\ agent' = "run" /\ ran' = Append(ran, serving)
          /\ UNCHANGED <<serving, gone>>
       \/ /\ serving \in sent \/ ~Open(serving)
          /\ agent' = "accept" /\ serving' = 0 /\ gone' = gone \cup {serving}
          /\ UNCHANGED ran
    /\ UNCHANGED <<harnessVars, cidVars, queue, answered, erred, cutOff>>

\* conn.recv and _handle_request up to subprocess.run.  A client that has closed
\* may have left nothing: then there is no response.  A request that comes cut or
\* empty, and a recv, or a subprocess.run on its way to the shell, that raises is
\* answered with exit code 1.
Recv ==
    /\ agent = "recv"
    /\ \/ /\ serving \in sent /\ kind[serving] = "ping"
          /\ agent' = "send" /\ UNCHANGED <<serving, erred, gone, ran>>
       \/ /\ serving \in sent /\ kind[serving] = "cmd"
          /\ agent' = "run" /\ ran' = Append(ran, serving)
          /\ UNCHANGED <<serving, erred, gone>>
       \/ /\ ~Open(serving)
          /\ agent' = "accept" /\ serving' = 0 /\ gone' = gone \cup {serving}
          /\ UNCHANGED <<erred, ran>>
       \/ /\ serving \in sent \/ ~Open(serving)
          /\ agent' = "send" /\ erred' = erred \cup {serving}
          /\ UNCHANGED <<serving, gone, ran>>
    /\ UNCHANGED <<harnessVars, cidVars, queue, answered, cutOff>>

\* subprocess.run has no timeout.  The command has an exit code of its own, or
\* its output cannot be decoded, which the agent answers like a failure.
CommandEnds ==
    /\ agent = "run" /\ agent' = "send"
    /\ \/ UNCHANGED erred
       \/ erred' = erred \cup {serving}
    /\ UNCHANGED <<harnessVars, cidVars, queue, serving, answered, gone, cutOff, ran>>

\* The agent is no longer there, and the connections it served or had queued with it.
AgentLost(now) ==
    /\ agent' = now /\ serving' = 0 /\ queue' = <<>>
    /\ gone' = gone \cup {c \in Conn : Pending(c)}
    /\ UNCHANGED <<harnessVars, cidVars, answered, erred, ran>>

\* conn.sendall and close.  To a client that closed, the response goes nowhere if
\* the guest has not heard of it yet; else sendall raises outside the try, and the
\* agent dies.
Respond ==
    /\ agent = "send"
    /\ \/ /\ Open(serving)
          /\ answered' = answered \cup {serving}
          /\ agent' = "accept" /\ serving' = 0
          /\ UNCHANGED <<harnessVars, cidVars, queue, erred, gone, ran>>
       \/ /\ ~Open(serving)
          /\ gone' = gone \cup {serving}
          /\ agent' = "accept" /\ serving' = 0
          /\ UNCHANGED <<harnessVars, cidVars, queue, answered, erred, ran>>
       \/ /\ ~Open(serving)
          /\ AgentLost("down")
    /\ UNCHANGED cutOff

\* The agent is killed in the guest, and its command with it: systemd stops every
\* process of the service before it restarts it.
AgentKilled ==
    /\ agent \notin {"down", "off"}
    /\ AgentLost("down")
    /\ cutOff' = cutOff \cup {c \in Conn : Pending(c)}

\* QEMU exits: what was connected is reset, and nothing listens before the next launch.
GuestDies ==
    /\ agent # "off"
    /\ AgentLost("off")
    /\ cutOff' = cutOff \cup {c \in Conn : Pending(c)}

-----------------------------------------------------------------------------
Harness == Connect \/ Send \/ Receive \/ Closed \/ TimesOut \/ Overruns
           \/ BootDeadline \/ NextGuest
Agent   == AgentStarts \/ Accept \/ Recv \/ CommandEnds \/ Respond
           \/ AgentKilled \/ GuestDies
Next    == Harness \/ Agent

Spec == Init /\ [][Next]_vars

\* The harness's waits are timed; of the guest nothing is assumed, a command
\* may run for ever.
FairSpec == Spec /\ WF_vars(Send) /\ WF_vars(Receive \/ Closed \/ TimesOut)

-----------------------------------------------------------------------------
(* Properties.                                                             *)

\* Types; a response is only ever in the hands of the client that waits for it
\* or was read by it, and the agent serves a connection exactly when it is busy.
TypeOK ==
    /\ phase \in {"boot", "steps", "stopped", "crashed"}
    /\ client \in {"idle", "connected", "waiting"} /\ cur \in 0..MaxConn
    /\ kind \in [Conn -> {"none", "ping", "cmd"}]
    /\ boots \in 1..MaxBoots /\ guest \in 1..boots /\ leaked \in BOOLEAN
    /\ forOf \in [Conn -> 0..MaxBoots] /\ bootOf \in [Conn -> 0..MaxBoots]
    /\ sent \subseteq 1..cur /\ answered \subseteq sent /\ erred \subseteq 1..cur
    /\ gone \subseteq 1..cur /\ cutOff \subseteq gone
    /\ queue \in Seq(Conn) /\ Len(queue) <= Backlog
    /\ agent \in {"down", "accept", "recv", "run", "send", "off"}
    /\ serving \in 0..cur /\ (serving # 0 <=> agent \in {"recv", "run", "send"})
    /\ ran \in Seq(Conn)
    /\ result \in [Conn -> {"none", "ok", "failed", "refused", "closed", "gaveup", "raised"}]

\* The guest runs each command at most once and in the order of the steps,
\* whichever of them were given up, answered with an error or cut off; and a
\* command that the harness takes for a success (exit code 0, from this connection
\* and no other) did run.  A failure does not tell whether it ran.
RunOnceInOrder ==
    /\ \A j, k \in DOMAIN ran : j < k => ran[j] < ran[k]
    /\ \A c \in Conn : result[c] = "ok" /\ kind[c] = "cmd" =>
           \E k \in DOMAIN ran : ran[k] = c

\* A step that has an answer: the command's own or the agent's error.
HasAnswer(c) == result[c] \in {"ok", "failed"}

\* When a step has its answer nothing of an earlier step is left in the guest: a
\* command that was given up is over or will never start, so it cannot write its
\* file under a later guest_pull.
NoStragglers ==
    \A c, d \in Conn : HasAnswer(c) /\ d < c => ~Queued(d) /\ serving # d

\* The harness meets a broken connection, and dies of it, for one of two reasons:
\* the agent or QEMU was killed while this very request was in the guest, or an
\* earlier request to the same guest was given up.  Without them the agent answers
\* every request that connects, and a guest that was killed before, or an agent
\* that is down, refuses instead.
BrokenHasItsCause ==
    \A c \in Conn : result[c] \in {"raised", "closed"} =>
        \/ c \in cutOff
        \/ \E d \in 1..c-1 : bootOf[d] = bootOf[c] /\ result[d] = "gaveup"

\* What is answered is answered by the guest that was launched for it, unless
\* a ping of an earlier launch raised an exception and left its guest running;
\* an exception out of a step, a vm_stop, a boot that was too slow or a guest that
\* died never hands the steps of a later test to an old guest.
AnsweredByOwnGuest ==
    \A c \in Conn : HasAnswer(c) /\ bootOf[c] # forOf[c] =>
        \E d \in 1..c-1 : forOf[d] < forOf[c] /\ kind[d] = "ping" /\ result[d] = "raised"

\* A command that hangs in the guest does not hang the harness: every
\* connection is settled.
Settles == \A c \in Conn : cur = c /\ client # "idle" ~> result[c] # "none"

\* vsock_exec.py:70, "agent must always respond": a client that waits is not
\* left without a response, unless something killed the agent or QEMU.
AlwaysResponds == client = "waiting" => cur \notin gone \ cutOff

-----------------------------------------------------------------------------
(* The inductive invariant behind the safety properties.                   *)

\* What each connection is, by its number: those not made yet are blank, all but an open
\* one have a result, and the open one belongs to the launch and its phase.
Numbering ==
    /\ \A c \in Conn : (kind[c] = "none") <=> c > cur
    /\ \A c \in Conn : (result[c] = "none") <=> c > cur \/ Open(c)
    /\ client # "idle" => /\ cur # 0 /\ forOf[cur] = boots
                          /\ phase = (IF kind[cur] = "ping" THEN "boot" ELSE "steps")
    /\ client = "connected" => cur \notin sent
    /\ client = "waiting" => cur \in sent

\* The kernel's queue and the agent go through the connections in their order, so what
\* is pending is newer than everything answered; an open connection is pending or settled by
\* the agent, and a pending one that is not open was given up.
Order ==
    /\ \A k \in DOMAIN queue : queue[k] <= cur /\ serving < queue[k]
    /\ \A j, k \in DOMAIN queue : j < k => queue[j] < queue[k]
    /\ agent \in {"down", "off"} => queue = <<>>
    /\ answered \cap gone = {}
    /\ \A c \in Conn : Pending(c) =>
          /\ bootOf[c] = guest /\ c \notin answered \cup gone
          /\ result[c] \in {"none", "gaveup"}
          /\ \A d \in answered : d < c
    /\ client # "idle" => Pending(cur) \/ cur \in answered \cup gone
    /\ \A c \in Conn : HasAnswer(c) => c \in answered

\* The commands that ran, in the order of their connections.
History ==
    /\ \A k \in DOMAIN ran : /\ ran[k] <= cur
                             /\ \A c \in Conn : Queued(c) => ran[k] < c
                             /\ agent = "recv" => ran[k] < serving
                             /\ agent \in {"run", "send"} => ran[k] <= serving
    /\ agent = "run" => serving \in sent
    /\ agent = "send" /\ Open(serving) => serving \in sent
    /\ agent \in {"run", "send"} /\ kind[serving] = "cmd" =>
           serving \in erred \/ \E k \in DOMAIN ran : ran[k] = serving
    /\ \A c \in answered \ erred : kind[c] = "cmd" => \E k \in DOMAIN ran : ran[k] = c
    /\ \A c \in Conn : result[c] = "ok" => c \notin erred

\* A ping of a launch before the given one raised.
LeftRunning(c, launch) ==
    \E d \in 1..c : forOf[d] < launch /\ kind[d] = "ping" /\ result[d] = "raised"

\* Why a connection of the harness breaks, and why a guest is not its own.
Blame ==
    /\ \A c \in Conn : c \in gone \ cutOff /\ Open(c) =>
           \E d \in 1..c-1 : bootOf[d] = bootOf[c] /\ result[d] = "gaveup"
    /\ guest # boots => leaked
    /\ leaked => LeftRunning(cur, IF phase = "crashed" THEN boots + 1 ELSE boots)
    /\ \A c \in 1..cur : bootOf[c] # forOf[c] => LeftRunning(c - 1, forOf[c])

\* The invariant the proofs carry through every step.
IInv ==
    /\ TypeOK /\ Numbering /\ Order /\ History /\ Blame
    /\ RunOnceInOrder /\ BrokenHasItsCause
=============================================================================
