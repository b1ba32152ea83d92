------------------------- MODULE VsockChannelProofs -------------------------
(***************************************************************************)
(* Proofs about VsockChannel for every backlog and any number of           *)
(* connections and guests.                                                 *)
(***************************************************************************)
EXTENDS VsockChannel, TLAPS

\* The bounds, one by one.
LEMMA Bounds == Backlog \in Nat \ {0} /\ MaxConn \in Nat \ {0} /\ MaxBoots \in Nat \ {0}
  BY ChannelAssumption

\* What the operators on the queue do to its elements.
LEMMA AppendFacts ==
  ASSUME NEW S, NEW s \in Seq(S), NEW e \in S
  PROVE  /\ Append(s, e) \in Seq(S) /\ Len(Append(s, e)) = Len(s) + 1
         /\ DOMAIN s = 1..Len(s) /\ Len(s) \in Nat
         /\ DOMAIN Append(s, e) = 1..Len(s) + 1
         /\ \A k \in 1..Len(s) : Append(s, e)[k] = s[k]
         /\ Append(s, e)[Len(s) + 1] = e
  OBVIOUS

\* What the agent takes from the queue, and what it leaves.
LEMMA TailFacts ==
  ASSUME NEW S, NEW s \in Seq(S), s # <<>>
  PROVE  /\ Head(s) = s[1] /\ Head(s) \in S /\ Tail(s) \in Seq(S)
         /\ DOMAIN s = 1..Len(s) /\ Len(s) \in Nat \ {0}
         /\ Len(Tail(s)) = Len(s) - 1 /\ DOMAIN Tail(s) = 1..Len(s) - 1
         /\ \A k \in 1..Len(s) - 1 : Tail(s)[k] = s[k + 1]
  OBVIOUS

\* Before the first launch no connection was made.
LEMMA InitInvariant == Init => IInv
<1> SUFFICES ASSUME Init PROVE IInv
  OBVIOUS
<1>1. TypeOK
  <2>1. kind \in [Conn -> {"none", "ping", "cmd"}] /\ forOf \in [Conn -> 0..MaxBoots]
        /\ bootOf \in [Conn -> 0..MaxBoots] 
        /\ result \in [Conn -> {"none", "ok", "failed", "refused", "closed", "gaveup", "raised"}]
    BY Bounds DEF Init
  <2>2. queue \in Seq(Conn) /\ Len(queue) <= Backlog /\ ran \in Seq(Conn)
    BY Bounds DEF Init
  <2>3. /\ phase = "boot" /\ client = "idle" /\ cur = 0 /\ boots = 1 /\ guest = 1
        /\ leaked = FALSE /\ sent = {} /\ agent = "down" /\ serving = 0
        /\ answered = {} /\ erred = {} /\ gone = {} /\ cutOff = {}
    BY DEF Init
  <2>4. /\ cur \in 0..MaxConn /\ boots \in 1..MaxBoots /\ guest \in 1..boots
        /\ sent \subseteq 1..cur /\ answered \subseteq sent /\ erred \subseteq 1..cur
        /\ gone \subseteq 1..cur /\ cutOff \subseteq gone /\ serving \in 0..cur
    BY <2>3, Bounds
  <2>5. serving # 0 <=> agent \in {"recv", "run", "send"}
    BY <2>3
  <2>6. leaked \in BOOLEAN
    BY <2>3
  <2> QED
    BY <2>1, <2>2, <2>3, <2>4, <2>5, <2>6 DEF TypeOK
<1>2. Numbering
  BY Bounds DEF Init, Numbering, Conn, Open
<1>3. Order
  BY Bounds DEF Init, Order, Conn, Pending, Queued, HasAnswer
<1>4. History /\ Blame
  BY Bounds DEF Init, History, Blame, Conn, LeftRunning, Queued, Open
<1>5. RunOnceInOrder /\ BrokenHasItsCause
  BY Bounds DEF Init, RunOnceInOrder, BrokenHasItsCause, Conn
<1> QED
  BY <1>1, <1>2, <1>3, <1>4, <1>5 DEF IInv

\* The client leaves the with block: the open connection gets its result, and an
\* exception may end the harness with it.
LEMMA SettleStep ==
  ASSUME IInv, client # "idle",
         NEW how \in {"ok", "failed", "closed", "gaveup", "raised"}, Settle(how),
         how \in {"ok", "failed"} => cur \in answered, how = "ok" => cur \notin erred,
         how \in {"closed", "raised"} => cur \in gone,
         \/ UNCHANGED <<phase, leaked>>
         \/ how \in {"ok", "failed"} /\ phase' = "steps" /\ leaked' = leaked
         \/ how = "raised" /\ Dies,
         UNCHANGED <<madeVars, sent, boots, guest, queue, agentVars>>
  PROVE  IInv'
<1> USE Bounds DEF Conn
<1>1. /\ cur \in 1..MaxConn /\ result[cur] = "none" /\ client' = "idle"
      /\ result' \in [Conn -> {"none", "ok", "failed", "refused", "closed", "gaveup", "raised"}]
      /\ result'[cur] = how /\ \A c \in Conn : c # cur => result'[c] = result[c]
      /\ UNCHANGED <<cur, kind, forOf, bootOf, sent, boots, guest, queue, agent, serving,
                     answered, erred, gone, cutOff, ran>>
  BY DEF IInv, TypeOK, Numbering, Settle, Open, madeVars, agentVars
<1>2. TypeOK'
  BY <1>1 DEF IInv, TypeOK, Dies
<1>3. Numbering'
  BY <1>1 DEF IInv, TypeOK, Numbering, Open
<1>4. Order'
  BY <1>1 DEF IInv, TypeOK, Order, Pending, Queued, HasAnswer
<1>5. History'
  BY <1>1 DEF IInv, TypeOK, History, Queued, Open
<1>6. Blame'
  <2>1. \A c \in Conn : ~(c \in gone /\ Open(c))'
    BY <1>1 DEF Open
  <2>3. ASSUME NEW c \in 1..cur, bootOf[c] # forOf[c]
        PROVE  \E d \in 1..c-1 : forOf[d] < forOf[c] /\ kind[d] = "ping" /\ result'[d] = "raised"
    BY <1>1, <2>3 DEF IInv, TypeOK, Blame, LeftRunning
  <2>4. LeftRunning(cur, boots) => LeftRunning(cur, boots)' /\ LeftRunning(cur, boots + 1)'
    BY <1>1 DEF LeftRunning, IInv, TypeOK
  <2>5. guest # boots => leaked'
    BY <1>1 DEF IInv, TypeOK, Blame, Dies
  <2>6. leaked' => LeftRunning(cur, IF phase = "crashed" THEN boots + 1 ELSE boots)'
    <3>1. phase # "crashed" /\ (leaked => LeftRunning(cur, boots))
      BY <1>1 DEF IInv, Numbering, Blame
    <3>2. CASE phase' # "crashed"
      BY <1>1, <2>4, <3>1, <3>2 DEF Dies, IInv, TypeOK
    <3>3. CASE phase' = "crashed"
      <4>1. how = "raised" /\ Dies
        BY <3>1, <3>3
      <4>2. CASE phase = "boot"
        <5>1. kind[cur] = "ping" /\ forOf[cur] = boots
          BY <4>2 DEF IInv, Numbering
        <5> QED
          BY <1>1, <4>1, <5>1, <3>3 DEF LeftRunning, IInv, TypeOK
      <4> QED
        BY <4>1, <4>2, <3>1, <2>4, <3>3 DEF Dies
    <3> QED
      BY <3>2, <3>3
  <2> QED
    BY <1>1, <2>1, <2>3, <2>5, <2>6 DEF Blame, LeftRunning
<1>7. RunOnceInOrder'
  BY <1>1 DEF IInv, TypeOK, RunOnceInOrder, History
<1>8. BrokenHasItsCause'
  <2> SUFFICES ASSUME NEW c \in Conn, result'[c] \in {"raised", "closed"}
               PROVE  \/ c \in cutOff
                      \/ \E d \in 1..c-1 : bootOf[d] = bootOf[c] /\ result'[d] = "gaveup"
    BY <1>1 DEF BrokenHasItsCause
  <2>1. \/ c \in cutOff
        \/ \E d \in 1..c-1 : bootOf[d] = bootOf[c] /\ result[d] = "gaveup"
    BY <1>1 DEF IInv, BrokenHasItsCause, Blame, Open
  <2> QED
    BY <1>1, <2>1
<1> QED
  BY <1>2, <1>3, <1>4, <1>5, <1>6, <1>7, <1>8 DEF IInv

\* A connection is made: it is the newest, and it is queued or refused.
LEMMA ConnectStep ==
  ASSUME IInv, Connect
  PROVE  IInv'
<1> DEFINE new == cur + 1
<1> HIDE DEF new
<1> USE Bounds DEF Conn
<1>0. /\ cur \in 0..MaxConn /\ boots \in 1..MaxBoots /\ guest \in 1..boots
      /\ queue \in Seq(Conn) /\ Len(queue) <= Backlog /\ ran \in Seq(Conn)
      /\ sent \subseteq 1..cur /\ answered \subseteq sent /\ gone \subseteq 1..cur
      /\ erred \subseteq 1..cur /\ serving \in 0..cur /\ guest \in 0..MaxBoots /\ boots \in 0..MaxBoots
  BY DEF IInv, TypeOK
<1>1. /\ client = "idle" /\ phase \in {"boot", "steps"} /\ new \in Conn /\ cur' = new
      /\ UNCHANGED <<phase, boots, guest, leaked, sent, agent, serving,
                     answered, erred, gone, cutOff, ran>>
      /\ new = cur + 1 /\ new > cur /\ \A c \in Conn : ~Open(c)
      /\ kind' = [kind EXCEPT ![new] = IF phase = "boot" THEN "ping" ELSE "cmd"]
      /\ forOf' = [forOf EXCEPT ![new] = boots]
      /\ bootOf' = [bootOf EXCEPT ![new] = guest]
      /\ \/ /\ agent \notin {"down", "off"} /\ queue' = Append(queue, new) /\ Len(queue) < Backlog
            /\ client' = "connected" /\ result' = result
         \/ /\ queue' = queue /\ client' = "idle"
            /\ result' = [result EXCEPT ![new] = "refused"]
  BY <1>0 DEF Connect, cidVars, agentVars, Open, new
<1>2. /\ kind' \in [Conn -> {"none", "ping", "cmd"}]
      /\ kind'[new] = (IF phase = "boot" THEN "ping" ELSE "cmd")
      /\ \A c \in Conn : c # new => kind'[c] = kind[c]
  BY <1>1 DEF IInv, TypeOK
<1>3. /\ forOf' \in [Conn -> 0..MaxBoots] /\ bootOf' \in [Conn -> 0..MaxBoots]
      /\ forOf'[new] = boots /\ bootOf'[new] = guest
      /\ \A c \in Conn : c # new => forOf'[c] = forOf[c] /\ bootOf'[c] = bootOf[c]
  BY <1>0, <1>1 DEF IInv, TypeOK
<1>4. result[new] = "none"
  BY <1>0, <1>1 DEF IInv, Numbering
<1>5. /\ queue' \in Seq(Conn) /\ Len(queue') <= Backlog
      /\ DOMAIN queue = 1..Len(queue) /\ Len(queue) \in Nat
      /\ \/ queue' = queue /\ client' = "idle"
         \/ /\ client' = "connected" /\ DOMAIN queue' = 1..Len(queue) + 1
            /\ \A k \in 1..Len(queue) : queue'[k] = queue[k]
            /\ queue'[Len(queue) + 1] = new /\ agent \notin {"down", "off"}
  <2>1. /\ Append(queue, new) \in Seq(Conn) /\ Len(Append(queue, new)) = Len(queue) + 1
        /\ DOMAIN queue = 1..Len(queue) /\ Len(queue) \in Nat
        /\ DOMAIN Append(queue, new) = 1..Len(queue) + 1
        /\ \A k \in 1..Len(queue) : Append(queue, new)[k] = queue[k]
        /\ Append(queue, new)[Len(queue) + 1] = new
    BY <1>0, <1>1, AppendFacts
  <2>2. CASE queue' = queue /\ client' = "idle"
    BY <1>0, <2>1, <2>2
  <2>3. CASE /\ queue' = Append(queue, new) /\ Len(queue) < Backlog
             /\ client' = "connected" /\ agent \notin {"down", "off"}
    <3>1. Len(queue') <= Backlog
      BY <2>1, <2>3
    <3> QED
      BY <2>1, <2>3, <3>1
  <2> QED
    BY <1>1, <2>2, <2>3
<1>6. /\ result' \in [Conn -> {"none", "ok", "failed", "refused", "closed", "gaveup", "raised"}]
      /\ \A c \in Conn : c # new => result'[c] = result[c]
      /\ client' \in {"idle", "connected"}
      /\ result'[new] = (IF client' = "idle" THEN "refused" ELSE "none")
  BY <1>1, <1>4 DEF IInv, TypeOK
<1>7. ASSUME NEW c \in Conn, Queued(c)'
      PROVE  Queued(c) \/ (c = new /\ client' = "connected")
  <2>1. PICK k \in DOMAIN queue' : queue'[k] = c
    BY <1>7 DEF Queued
  <2>2. CASE queue' = queue
    BY <2>1, <2>2 DEF Queued
  <2>3. CASE /\ client' = "connected" /\ DOMAIN queue' = 1..Len(queue) + 1
             /\ \A j \in 1..Len(queue) : queue'[j] = queue[j]
             /\ queue'[Len(queue) + 1] = new
    <3>1. CASE k \in 1..Len(queue)
      BY <1>5, <2>1, <2>3, <3>1 DEF Queued
    <3>2. CASE k = Len(queue) + 1
      BY <2>1, <2>3, <3>2
    <3> QED
      BY <1>5, <2>1, <2>3, <3>1, <3>2
  <2> QED
    BY <1>5, <2>2, <2>3
<1>71. \A c \in Conn : Queued(c) => c <= cur /\ c < new
  BY <1>0, <1>1 DEF Queued, IInv, Order, HasAnswer
<1>8. client' = "connected" => \E k \in DOMAIN queue' : queue'[k] = new
  BY <1>5, <1>1, Len(queue) + 1 \in 1..Len(queue) + 1
<1>9. TypeOK'
  <2>1. /\ cur' \in 0..MaxConn /\ sent' \subseteq 1..cur' /\ gone' \subseteq 1..cur'
        /\ erred' \subseteq 1..cur' /\ serving' \in 0..cur'
    BY <1>0, <1>1
  <2> QED
    BY <1>1, <1>2, <1>3, <1>5, <1>6, <2>1 DEF IInv, TypeOK
<1>10. Numbering'
  <2>1. \A c \in Conn : (kind'[c] = "none" <=> c > new)
    BY <1>0, <1>1, <1>2 DEF IInv, Numbering
  <2>2. \A c \in Conn : (result'[c] = "none" <=> c > new \/ (c = new /\ client' # "idle"))
    BY <1>0, <1>1, <1>6 DEF IInv, Numbering
  <2>3. new \notin sent
    BY <1>0, <1>1
  <2> QED
    BY <1>0, <1>1, <1>2, <1>3, <1>6, <2>1, <2>2, <2>3 DEF Numbering, Open
<1>11. Order'
  <2>1. /\ \A k \in DOMAIN queue' : queue'[k] <= new /\ serving < queue'[k]
        /\ \A j, k \in DOMAIN queue' : j < k => queue'[j] < queue'[k]
        /\ agent \in {"down", "off"} => queue' = <<>>
    <3>1. /\ \A k \in DOMAIN queue : queue[k] <= cur /\ serving < queue[k] /\ queue[k] \in Conn
          /\ \A j, k \in DOMAIN queue : j < k => queue[j] < queue[k]
          /\ agent \in {"down", "off"} => queue = <<>>
      BY <1>0 DEF IInv, Order, HasAnswer
    <3>2. CASE queue' = queue
      BY <1>0, <1>1, <3>1, <3>2
    <3>3. CASE /\ DOMAIN queue' = 1..Len(queue) + 1 /\ agent \notin {"down", "off"}
               /\ \A j \in 1..Len(queue) : queue'[j] = queue[j]
               /\ queue'[Len(queue) + 1] = new
      <4>1. \A k \in 1..Len(queue) : queue[k] <= cur /\ serving < queue[k] /\ queue[k] \in Conn
        BY <1>5, <3>1
      <4>2. \A k \in 1..Len(queue) + 1 : k \in 1..Len(queue) \/ k = Len(queue) + 1
        BY <1>5
      <4>3. serving < new
        BY <1>0, <1>1
      <4>4. ASSUME NEW k \in DOMAIN queue'
            PROVE  queue'[k] <= new /\ serving < queue'[k]
        <5>1. CASE k \in 1..Len(queue)
          <6>1. queue'[k] = queue[k] /\ queue[k] <= cur /\ queue[k] \in Nat
            BY <3>3, <4>1, <5>1
          <6> QED
            BY <1>0, <1>1, <4>1, <5>1, <6>1
        <5>2. CASE k = Len(queue) + 1
          BY <1>0, <1>1, <3>3, <4>3, <5>2
        <5> QED
          BY <3>3, <4>2, <5>1, <5>2
      <4>5. ASSUME NEW j \in DOMAIN queue', NEW k \in DOMAIN queue', j < k
            PROVE  queue'[j] < queue'[k]
        <5>1. j \in 1..Len(queue)
          BY <1>5, <3>3, <4>5
        <5>2. CASE k \in 1..Len(queue)
          BY <1>5, <3>1, <3>3, <4>5, <5>1, <5>2
        <5>3. CASE k = Len(queue) + 1
          <6>1. queue'[j] = queue[j] /\ queue[j] <= cur /\ queue[j] \in Nat
            BY <3>3, <4>1, <5>1
          <6>2. queue'[k] = new
            BY <3>3, <5>3
          <6> QED
            BY <1>0, <1>1, <6>1, <6>2
        <5> QED
          BY <3>3, <4>2, <5>2, <5>3
      <4> QED
        BY <3>3, <4>4, <4>5
    <3> QED
      BY <1>5, <3>2, <3>3
  <2>2. ASSUME NEW c \in Conn, Pending(c)'
        PROVE  /\ bootOf'[c] = guest /\ c \notin answered \cup gone
               /\ result'[c] \in {"none", "gaveup"}
               /\ \A d \in answered : d < c
    <3>1. CASE c = new
      <4>1. c \notin answered \cup gone /\ \A d \in answered : d < c
        BY <1>0, <1>1, <3>1
      <4>2. client' = "connected"
        BY <1>0, <1>1, <1>7, <1>71, <2>2, <3>1 DEF Pending
      <4> QED
        BY <1>3, <1>6, <3>1, <4>1, <4>2
    <3>2. CASE c # new
      <4>1. Pending(c)
        BY <1>1, <1>7, <2>2, <3>2 DEF Pending
      <4>2. /\ bootOf[c] = guest /\ c \notin answered \cup gone
            /\ result[c] \in {"none", "gaveup"} /\ \A d \in answered : d < c
        BY <4>1 DEF IInv, Order, HasAnswer
      <4> QED
        BY <1>3, <1>6, <3>2, <4>2
    <3> QED
      BY <3>1, <3>2
  <2>3. client' # "idle" => \E k \in DOMAIN queue' : queue'[k] = new
    BY <1>6, <1>8
  <2>4. \A c \in Conn : HasAnswer(c)' => c \in answered
    BY <1>6 DEF IInv, Order, HasAnswer
  <2>5. answered \cap gone = {}
    BY DEF IInv, Order, HasAnswer
  <2>6. UNCHANGED <<serving, agent, answered, erred, gone, cutOff, guest>> /\ cur' = new
    BY <1>1
  <2> QED
    BY <2>1, <2>2, <2>3, <2>4, <2>5, <2>6 DEF Order, Pending, Queued, HasAnswer
<1>12. History'
  <2>1. \A k \in DOMAIN ran : ran[k] < new
    BY <1>0, <1>1 DEF IInv, History
  <2>2. \A k \in DOMAIN ran : \A c \in Conn : Queued(c)' => ran[k] < c
    BY <1>7, <2>1 DEF IInv, History
  <2>3. serving # new /\ ~Open(serving)' /\ \A c \in answered : c # new /\ c \in Conn
    BY <1>0, <1>1 DEF Open
  <2>4. \A c \in Conn : result'[c] = "ok" => c \notin erred
    BY <1>6 DEF IInv, History
  <2>5. agent \in {"run", "send"} /\ kind'[serving] = "cmd" =>
           serving \in erred \/ \E k \in DOMAIN ran : ran[k] = serving
    BY <1>0, <1>2, <2>3 DEF IInv, TypeOK, History
  <2>6. \A c \in answered \ erred : kind'[c] = "cmd" => \E k \in DOMAIN ran : ran[k] = c
    BY <1>2, <2>3 DEF IInv, History
  <2> QED
    <3>1. /\ agent = "recv" => \A k \in DOMAIN ran : ran[k] < serving
          /\ agent \in {"run", "send"} => \A k \in DOMAIN ran : ran[k] <= serving
          /\ agent = "run" => serving \in sent
      BY DEF IInv, History
    <3>2. \A k \in DOMAIN ran : ran[k] <= new
      BY <1>0, <1>1, <2>1
    <3> QED
      BY <1>1, <2>2, <2>3, <2>4, <2>5, <2>6, <3>1, <3>2 DEF History
<1>13. Blame'
  <2>1. new \notin gone
    BY <1>0, <1>1
  <2>2. leaked => LeftRunning(cur, boots)
    BY <1>1 DEF IInv, Blame
  <2>3. ASSUME leaked
        PROVE  \E d \in 1..new : forOf'[d] < boots /\ kind'[d] = "ping" /\ result'[d] = "raised"
    <3>1. PICK d \in 1..cur : forOf[d] < boots /\ kind[d] = "ping" /\ result[d] = "raised"
      BY <2>2, <2>3 DEF LeftRunning
    <3>2. d \in Conn /\ d # new /\ d \in 1..new
      BY <1>0, <1>1
    <3> QED
      BY <1>2, <1>3, <1>6, <3>1, <3>2
  <2>4. ASSUME NEW c \in 1..new, bootOf'[c] # forOf'[c]
        PROVE  \E d \in 1..c-1 : forOf'[d] < forOf'[c] /\ kind'[d] = "ping" /\ result'[d] = "raised"
    <3>1. CASE c = new
      <4>1. leaked /\ new - 1 = cur
        BY <1>0, <1>1, <1>3, <2>4, <3>1 DEF IInv, Blame
      <4>2. PICK d \in 1..cur : forOf[d] < boots /\ kind[d] = "ping" /\ result[d] = "raised"
        BY <2>2, <4>1 DEF LeftRunning
      <4>3. d \in Conn /\ d # new /\ d \in 1..c-1
        BY <1>0, <1>1, <3>1, <4>1
      <4> QED
        BY <1>2, <1>3, <1>6, <3>1, <4>2, <4>3
    <3>2. CASE c # new
      <4>1. c \in 1..cur /\ c \in Conn
        BY <1>0, <1>1, <3>2
      <4>2. LeftRunning(c - 1, forOf[c])
        BY <1>3, <2>4, <3>2, <4>1 DEF IInv, Blame
      <4>3. PICK d \in 1..(c-1) : forOf[d] < forOf[c] /\ kind[d] = "ping" /\ result[d] = "raised"
        BY <4>2 DEF LeftRunning
      <4>4. d \in Conn /\ d # new
        BY <1>0, <1>1, <4>1
      <4> QED
        BY <1>2, <1>3, <1>6, <3>2, <4>1, <4>3, <4>4
    <3> QED
      BY <3>1, <3>2
  <2>5. \A c \in Conn : ~(c \in gone /\ c = new)
    BY <2>1
  <2>6. guest # boots => leaked
    BY DEF IInv, Blame
  <2>7. /\ UNCHANGED <<phase, boots, guest, leaked, gone>> /\ cur' = new
        /\ phase # "crashed"
    BY <1>1
  <2> QED
    BY <2>3, <2>4, <2>5, <2>6, <2>7 DEF Blame, LeftRunning, Open
<1>14. RunOnceInOrder'
  BY <1>1, <1>2, <1>6 DEF IInv, RunOnceInOrder
<1>15. BrokenHasItsCause'
  <2> SUFFICES ASSUME NEW c \in Conn, result'[c] \in {"raised", "closed"}
               PROVE  \/ c \in cutOff
                      \/ \E d \in 1..c-1 : bootOf'[d] = bootOf'[c] /\ result'[d] = "gaveup"
    BY <1>1 DEF BrokenHasItsCause
  <2>1. c # new /\ c <= cur
    <3>1. c # new
      BY <1>6
    <3>2. result[c] # "none"
      BY <1>6, <3>1
    <3>3. ~(c > cur)
      BY <3>2 DEF IInv, Numbering
    <3> QED
      BY <1>0, <3>1, <3>3
  <2>2. \/ c \in cutOff
        \/ \E d \in 1..c-1 : bootOf[d] = bootOf[c] /\ result[d] = "gaveup"
    BY <1>6, <2>1 DEF IInv, BrokenHasItsCause
  <2> QED
    BY <1>0, <1>1, <1>3, <1>6, <2>1, <2>2
<1> QED
  BY <1>9, <1>10, <1>11, <1>12, <1>13, <1>14, <1>15 DEF IInv

\* A boot that is too slow is given up; the guest is stopped.
LEMMA BootDeadlineStep ==
  ASSUME IInv, BootDeadline
  PROVE  IInv'
<1> USE Bounds DEF Conn
<1>2. TypeOK'
  BY DEF BootDeadline, madeVars, cidVars, agentVars, IInv, TypeOK
<1>3. Numbering'
  BY DEF BootDeadline, madeVars, cidVars, agentVars, IInv, TypeOK, Numbering, Open
<1>4. Order'
  BY DEF BootDeadline, madeVars, cidVars, agentVars, IInv, TypeOK, Order, Pending, Queued, Open, HasAnswer
<1>5. History'
  BY DEF BootDeadline, madeVars, cidVars, agentVars, IInv, TypeOK, Numbering, Order, History, Queued, Open, HasAnswer
<1>6. Blame'
  BY DEF BootDeadline, madeVars, cidVars, agentVars, IInv, TypeOK, Numbering, Order, Pending, Queued, Blame, LeftRunning, Open, HasAnswer
<1>7. RunOnceInOrder'
  BY DEF BootDeadline, madeVars, cidVars, agentVars, IInv, TypeOK, RunOnceInOrder, History
<1>8. BrokenHasItsCause'
  BY DEF BootDeadline, madeVars, cidVars, agentVars, IInv, TypeOK, BrokenHasItsCause
<1> QED
  BY <1>2, <1>3, <1>4, <1>5, <1>6, <1>7, <1>8 DEF IInv

\* Another guest: the old one stays whole, or nothing of it is pending any more.
LEMMA NextGuestStep ==
  ASSUME IInv, NextGuest
  PROVE  IInv'
<1> USE Bounds DEF Conn
<1>0. /\ cur \in 0..MaxConn /\ boots \in 1..MaxBoots /\ guest \in 1..boots
      /\ queue \in Seq(Conn) /\ Len(queue) <= Backlog /\ serving \in 0..cur
  BY DEF IInv, TypeOK
<1>1. /\ client = "idle" /\ phase' = "boot" /\ boots' = boots + 1 /\ boots < MaxBoots
      /\ UNCHANGED <<client, cur, kind, forOf, bootOf, sent, result, answered, erred,
                     gone, cutOff, ran>>
  BY DEF NextGuest, madeVars
<1>2. \/ /\ leaked /\ UNCHANGED <<guest, leaked, queue, agent, serving>>
      \/ /\ guest' = boots + 1 /\ leaked' = FALSE /\ queue' = <<>>
         /\ agent' = "down" /\ serving' = 0
  BY DEF NextGuest
<1>3. TypeOK'
  <2>1. boots' \in 1..MaxBoots /\ guest' \in 1..boots' /\ serving' \in 0..cur'
    BY <1>0, <1>1, <1>2
  <2>2. queue' \in Seq(Conn) /\ Len(queue') <= Backlog
    <3>1. <<>> \in Seq(Conn) /\ Len(<<>>) = 0
      OBVIOUS
    <3>2. CASE queue' = queue
      BY <1>0, <3>2
    <3>3. CASE queue' = <<>>
      BY <1>0, <3>1, <3>3
    <3> QED
      BY <1>2, <3>2, <3>3
  <2>3. agent' \in {"down", "accept", "recv", "run", "send", "off"}
        /\ (serving' # 0 <=> agent' \in {"recv", "run", "send"})
    BY <1>2 DEF IInv, TypeOK
  <2>4. leaked' \in BOOLEAN
    BY <1>2 DEF IInv, TypeOK
  <2> QED
    BY <1>1, <2>1, <2>2, <2>3, <2>4 DEF IInv, TypeOK
<1>4. Numbering'
  BY <1>1 DEF IInv, TypeOK, Numbering, Open
<1>5. Order' /\ History'
  <2>1. CASE UNCHANGED <<guest, queue, agent, serving>>
    <3>1. Order'
      BY <1>1, <2>1 DEF IInv, Order, Pending, Queued, HasAnswer
    <3>2. History'
      BY <1>1, <2>1 DEF IInv, History, Queued, Open
    <3> QED
      BY <3>1, <3>2
  <2>2. CASE queue' = <<>> /\ agent' = "down" /\ serving' = 0
    <3>1. \A c \in Conn : ~Pending(c)' /\ ~Queued(c)'
      BY <2>2 DEF Pending, Queued
    <3>2. answered \cap gone = {} /\ \A c \in Conn : HasAnswer(c) => c \in answered
      BY DEF IInv, Order, HasAnswer
    <3>3. Order'
      BY <1>1, <2>2, <3>1, <3>2 DEF Order, HasAnswer
    <3>4. \A k \in DOMAIN ran : ran[k] <= cur
      BY DEF IInv, History
    <3>5. \A c \in answered \ erred : kind[c] = "cmd" => \E k \in DOMAIN ran : ran[k] = c
      BY DEF IInv, History
    <3>6. \A c \in Conn : result[c] = "ok" => c \notin erred
      BY DEF IInv, History
    <3>7. History'
      BY <1>1, <2>2, <3>1, <3>4, <3>5, <3>6 DEF History
    <3> QED
      BY <3>3, <3>7
  <2> QED
    BY <1>2, <2>1, <2>2
<1>6. Blame'
  <2>1. ASSUME NEW c, NEW launch
        PROVE  LeftRunning(c, launch)' <=> LeftRunning(c, launch)
    BY <1>1 DEF LeftRunning
  <2>2. leaked => LeftRunning(cur, boots')
    BY <1>0, <1>1 DEF IInv, TypeOK, Blame, LeftRunning
  <2>3. guest' # boots' => leaked'
    BY <1>0, <1>1, <1>2
  <2>4. leaked' => leaked
    BY <1>2
  <2> QED
    BY <1>1, <2>1, <2>2, <2>3, <2>4 DEF IInv, Blame, Open
<1>7. RunOnceInOrder' /\ BrokenHasItsCause'
  BY <1>1 DEF IInv, RunOnceInOrder, BrokenHasItsCause
<1> QED
  BY <1>3, <1>4, <1>5, <1>6, <1>7 DEF IInv

\* A restarted agent serves nothing and has nothing queued.
LEMMA AgentStartsStep ==
  ASSUME IInv, AgentStarts
  PROVE  IInv'
<1> USE Bounds DEF Conn
<1>2. TypeOK'
  BY DEF AgentStarts, harnessVars, cidVars, IInv, TypeOK
<1>3. Numbering'
  BY DEF AgentStarts, harnessVars, cidVars, IInv, TypeOK, Numbering, Open
<1>4. Order'
  BY DEF AgentStarts, harnessVars, cidVars, IInv, TypeOK, Order, Pending, Queued, Open, HasAnswer
<1>5. History'
  BY DEF AgentStarts, harnessVars, cidVars, IInv, TypeOK, Numbering, Order, History, Queued, Open, HasAnswer
<1>6. Blame'
  BY DEF AgentStarts, harnessVars, cidVars, IInv, TypeOK, Numbering, Order, Pending, Queued, Blame, LeftRunning, Open, HasAnswer
<1>7. RunOnceInOrder'
  BY DEF AgentStarts, harnessVars, cidVars, IInv, TypeOK, RunOnceInOrder, History
<1>8. BrokenHasItsCause'
  BY DEF AgentStarts, harnessVars, cidVars, IInv, TypeOK, BrokenHasItsCause
<1> QED
  BY <1>2, <1>3, <1>4, <1>5, <1>6, <1>7, <1>8 DEF IInv

\* The agent takes the oldest connection: those behind it are newer.
LEMMA AcceptStep ==
  ASSUME IInv, Accept
  PROVE  IInv'
<1> USE Bounds DEF Conn
<1>0. /\ cur \in 0..MaxConn /\ queue \in Seq(Conn) /\ Len(queue) <= Backlog
  BY DEF IInv, TypeOK
<1>1. /\ agent = "accept" /\ queue # <<>> /\ serving' = Head(queue) /\ queue' = Tail(queue)
      /\ agent' = "recv" /\ serving = 0
      /\ UNCHANGED <<phase, client, cur, kind, forOf, bootOf, sent, result, boots, guest, leaked,
                     answered, erred, gone, cutOff, ran>>
  BY DEF Accept, harnessVars, cidVars, IInv, TypeOK
<1>2. /\ serving' = queue[1] /\ serving' \in Conn /\ queue' \in Seq(Conn)
      /\ DOMAIN queue = 1..Len(queue) /\ Len(queue) \in Nat \ {0}
      /\ Len(queue') = Len(queue) - 1 /\ DOMAIN queue' = 1..Len(queue) - 1
      /\ \A k \in 1..Len(queue) - 1 : queue'[k] = queue[k + 1]
  BY <1>0, <1>1, TailFacts
<1>3. /\ \A k \in 1..Len(queue) : queue[k] <= cur /\ queue[k] \in Conn
      /\ \A j, k \in 1..Len(queue) : j < k => queue[j] < queue[k]
  <2>1. \A k \in DOMAIN queue : queue[k] \in Conn
    BY <1>0
  <2>2. /\ \A k \in DOMAIN queue : queue[k] <= cur
        /\ \A j, k \in DOMAIN queue : j < k => queue[j] < queue[k]
    BY DEF IInv, Order, HasAnswer
  <2> QED
    BY <1>2, <2>1, <2>2
<1>4. \A k \in 1..Len(queue) - 1 : k + 1 \in 1..Len(queue)
  BY <1>2
<1>5. Queued(serving')
  BY <1>2 DEF Queued
<1>6. ASSUME NEW c \in Conn, Queued(c)'
      PROVE  Queued(c) /\ serving' < c
  <2>1. PICK k \in 1..Len(queue) - 1 : queue'[k] = c
    BY <1>2, <1>6 DEF Queued
  <2>2. k + 1 \in 1..Len(queue) /\ queue[k + 1] = c
    BY <1>2, <1>4, <2>1
  <2>3. queue[1] < queue[k + 1]
    BY <1>2, <1>3, <2>1, <2>2
  <2> QED
    BY <1>2, <2>2, <2>3 DEF Queued
<1>7. TypeOK'
  <2>1. serving' \in 0..cur' /\ serving' # 0 /\ Len(queue') <= Backlog
    BY <1>0, <1>1, <1>2, <1>3
  <2> QED
    BY <1>1, <1>2, <2>1 DEF IInv, TypeOK
<1>8. Numbering'
  BY <1>1 DEF IInv, Numbering, Open
<1>9. Order'
  <2>1. \A k \in DOMAIN queue' : queue'[k] <= cur' /\ serving' < queue'[k]
    <3> SUFFICES ASSUME NEW k \in DOMAIN queue' PROVE queue'[k] <= cur' /\ serving' < queue'[k]
      OBVIOUS
    <3>1. k \in 1..Len(queue) - 1 /\ k + 1 \in 1..Len(queue) /\ queue'[k] = queue[k + 1] /\ 1 < k + 1
      BY <1>2, <1>4
    <3> QED
      BY <1>1, <1>2, <1>3, <3>1
  <2>2. ASSUME NEW j \in DOMAIN queue', NEW k \in DOMAIN queue', j < k
        PROVE  queue'[j] < queue'[k]
    <3>1. j \in 1..Len(queue) - 1 /\ k \in 1..Len(queue) - 1
      BY <1>2
    <3>2. j + 1 \in 1..Len(queue) /\ k + 1 \in 1..Len(queue)
      BY <1>4, <3>1
    <3>3. j + 1 < k + 1
      BY <2>2, <3>1
    <3>4. queue[j + 1] < queue[k + 1]
      BY <1>3, <3>2, <3>3
    <3> QED
      BY <1>2, <3>1, <3>4
  <2>3. ASSUME NEW c \in Conn, Pending(c)'
        PROVE  Pending(c)
    BY <1>5, <1>6, <2>3 DEF Pending
  <2>4. \A c \in Conn : Pending(c) =>
          /\ bootOf[c] = guest /\ c \notin answered \cup gone
          /\ result[c] \in {"none", "gaveup"} /\ \A d \in answered : d < c
    BY DEF IInv, Order, HasAnswer
  <2>5. client # "idle" => Pending(cur)' \/ cur \in answered \cup gone
    <3> SUFFICES ASSUME client # "idle", cur \notin answered \cup gone PROVE Pending(cur)'
      OBVIOUS
    <3>1. Queued(cur)
      BY <1>1 DEF IInv, Order, Pending, HasAnswer
    <3>2. PICK k \in 1..Len(queue) : queue[k] = cur
      BY <1>2, <3>1 DEF Queued
    <3>3. CASE k = 1
      BY <1>1, <1>2, <3>2, <3>3 DEF Pending
    <3>4. CASE k # 1
      <4>1. k - 1 \in 1..Len(queue) - 1 /\ (k - 1) + 1 = k
        BY <1>2, <3>2, <3>4
      <4>2. k - 1 \in DOMAIN queue' /\ queue'[k - 1] = cur'
        BY <1>1, <1>2, <3>2, <4>1
      <4> QED
        BY <4>2 DEF Pending, Queued
    <3> QED
      BY <3>3, <3>4
  <2>6. answered \cap gone = {} /\ \A c \in Conn : HasAnswer(c) => c \in answered
    BY DEF IInv, Order, HasAnswer
  <2>7. agent' \notin {"down", "off"}
    BY <1>1
  <2>8. \A c \in Conn : Pending(c)' =>
          /\ bootOf'[c] = guest' /\ c \notin (answered \cup gone)'
          /\ result'[c] \in {"none", "gaveup"} /\ \A d \in answered' : d < c
    BY <1>1, <2>3, <2>4
  <2>9. client' # "idle" => Pending(cur)' \/ cur' \in (answered \cup gone)'
    BY <1>1, <2>5
  <2> QED
    BY <1>1, <2>1, <2>2, <2>6, <2>7, <2>8, <2>9 DEF Order, HasAnswer
<1>10. History'
  <2>1. \A k \in DOMAIN ran : ran[k] <= cur /\ ran[k] < serving'
    BY <1>2, <1>5 DEF IInv, History
  <2>11. \A k \in DOMAIN ran : \A c \in Conn : Queued(c)' => ran[k] < c
    BY <1>6 DEF IInv, History
  <2>2. \A c \in answered \ erred : kind[c] = "cmd" => \E k \in DOMAIN ran : ran[k] = c
    BY DEF IInv, History
  <2>3. agent' = "recv" /\ UNCHANGED <<ran, cur, answered, erred, kind, result>>
    BY <1>1
  <2>4. \A k \in DOMAIN ran' : ran'[k] <= cur' /\ ran'[k] < serving'
    BY <2>1, <2>3
  <2>5. \A k \in DOMAIN ran' : \A c \in Conn : Queued(c)' => ran'[k] < c
    BY <2>11, <2>3
  <2>6. \A c \in answered' \ erred' : kind'[c] = "cmd" => \E k \in DOMAIN ran' : ran'[k] = c
    BY <2>2, <2>3
  <2>7. \A c \in Conn : result'[c] = "ok" => c \notin erred'
    BY <2>3 DEF IInv, History
  <2> QED
    BY <2>3, <2>4, <2>5, <2>6, <2>7 DEF History
<1>11. Blame'
  BY <1>1 DEF IInv, Blame, LeftRunning, Open
<1>12. RunOnceInOrder' /\ BrokenHasItsCause'
  BY <1>1 DEF IInv, RunOnceInOrder, BrokenHasItsCause
<1> QED
  BY <1>7, <1>8, <1>9, <1>10, <1>11, <1>12 DEF IInv

\* The agent closes a connection nobody waits on any more.
LEMMA DropStep ==
  ASSUME IInv, agent \in {"recv", "send"}, ~Open(serving),
         agent' = "accept", serving' = 0, gone' = gone \cup {serving},
         UNCHANGED <<harnessVars, cidVars, queue, answered, erred, cutOff, ran>>
  PROVE  IInv'
<1> USE Bounds DEF Conn
<1>0. /\ cur \in 0..MaxConn /\ queue \in Seq(Conn)
      /\ serving \in 1..cur /\ serving \in Conn /\ serving # 0
  BY DEF IInv, TypeOK
<1>1. UNCHANGED <<phase, client, cur, kind, forOf, bootOf, sent, result, boots, guest, leaked,
                  queue, answered, erred, cutOff, ran>>
  BY DEF harnessVars, cidVars
<1>2. serving \notin answered /\ serving \notin gone
  BY <1>0 DEF IInv, Order, Pending, HasAnswer
<1>3. \A c \in Conn : Pending(c)' => Pending(c) /\ c # serving
  <2> SUFFICES ASSUME NEW c \in Conn, Pending(c)' PROVE Pending(c) /\ c # serving
    OBVIOUS
  <2>1. Queued(c)
    BY <1>1 DEF Pending, Queued
  <2>2. serving < c
    BY <2>1 DEF Queued, IInv, Order, HasAnswer
  <2> QED
    BY <1>0, <2>1, <2>2 DEF Pending
<1>4. TypeOK'
  <2>1. gone' \subseteq 1..cur' /\ cutOff' \subseteq gone' /\ serving' \in 0..cur'
    BY <1>0, <1>1 DEF IInv, TypeOK
  <2> QED
    BY <1>1, <2>1 DEF IInv, TypeOK
<1>5. Numbering'
  BY <1>1 DEF IInv, Numbering, Open
<1>6. Order'
  <2>1. ASSUME NEW k \in DOMAIN queue' PROVE queue'[k] <= cur' /\ serving' < queue'[k]
    <3>1. queue[k] \in Conn /\ k \in DOMAIN queue
      BY <1>0, <1>1
    <3> QED
      BY <1>1, <3>1 DEF IInv, Order, HasAnswer
  <2>2. ASSUME NEW c \in Conn, Pending(c)'
        PROVE  /\ bootOf'[c] = guest' /\ c \notin (answered \cup gone)'
               /\ result'[c] \in {"none", "gaveup"} /\ \A d \in answered' : d < c
    BY <1>1, <1>3, <2>2 DEF IInv, Order, HasAnswer
  <2>3. client' # "idle" => Pending(cur)' \/ cur' \in (answered \cup gone)'
    BY <1>1 DEF IInv, Order, Pending, Queued, Open, HasAnswer
  <2>4. /\ answered' \cap gone' = {}
        /\ \A j, k \in DOMAIN queue' : j < k => queue'[j] < queue'[k]
        /\ \A c \in Conn : HasAnswer(c)' => c \in answered'
    BY <1>1, <1>2 DEF IInv, Order, HasAnswer
  <2> QED
    BY <2>1, <2>2, <2>3, <2>4 DEF Order, HasAnswer
<1>7. History'
  <2>1. \A c \in Conn : Queued(c)' <=> Queued(c)
    BY <1>1 DEF Queued
  <2> QED
    BY <1>1, <2>1 DEF IInv, History
<1>8. Blame'
  BY <1>1 DEF IInv, TypeOK, Blame, LeftRunning, Open
<1>9. RunOnceInOrder' /\ BrokenHasItsCause'
  BY <1>1 DEF IInv, RunOnceInOrder, BrokenHasItsCause
<1> QED
  BY <1>4, <1>5, <1>6, <1>7, <1>8, <1>9 DEF IInv

\* The agent is gone with all that was pending: killed, and then that is on record, or of
\* its answer to a client that gave up.
LEMMA AgentLostStep ==
  ASSUME IInv, NEW now \in {"down", "off"}, AgentLost(now),
         \/ cutOff' = cutOff \cup {c \in Conn : Pending(c)}
         \/ agent = "send" /\ ~Open(serving) /\ cutOff' = cutOff
  PROVE  IInv'
<1> USE Bounds DEF Conn
<1>1. /\ agent' = now /\ serving' = 0 /\ queue' = <<>>
      /\ gone' = gone \cup {c \in Conn : Pending(c)}
      /\ UNCHANGED <<phase, client, cur, kind, forOf, bootOf, sent, result, boots, guest, leaked,
                     answered, erred, ran>>
  BY DEF AgentLost, harnessVars, cidVars
<1>2. \A c \in Conn : Pending(c) =>
        /\ c \in 1..cur /\ c \notin answered /\ c \notin gone /\ bootOf[c] = guest
        /\ result[c] \in {"none", "gaveup"}
  <2> SUFFICES ASSUME NEW c \in Conn, Pending(c)
               PROVE  /\ c \in 1..cur /\ c \notin answered /\ c \notin gone
                      /\ bootOf[c] = guest /\ result[c] \in {"none", "gaveup"}
    OBVIOUS
  <2>1. c <= cur
    BY DEF IInv, TypeOK, Order, Pending, Queued, HasAnswer
  <2>2. c \in 1..cur
    BY <2>1 DEF IInv, TypeOK
  <2> QED
    BY <2>2 DEF IInv, Order, HasAnswer
<1>3. \A c \in Conn : ~Queued(c)' /\ ~Pending(c)'
  BY <1>1 DEF Queued, Pending
<1>4. TypeOK'
  <2>1. gone' \subseteq 1..cur' /\ serving' \in 0..cur'
    <3>1. gone \subseteq 1..cur /\ cur \in Nat
      BY DEF IInv, TypeOK
    <3>2. \A c \in {c \in Conn : Pending(c)} : c \in 1..cur
      BY <1>2
    <3>3. gone' \subseteq 1..cur
      BY <1>1, <3>1, <3>2
    <3> QED
      BY <1>1, <3>1, <3>3
  <2>2. cutOff' \subseteq gone'
    BY <1>1 DEF IInv, TypeOK
  <2>3. <<>> \in Seq(Conn) /\ Len(<<>>) = 0
    OBVIOUS
  <2>4. queue' \in Seq(Conn) /\ Len(queue') <= Backlog
    BY <1>1, <2>3
  <2>5. /\ agent' \in {"down", "accept", "recv", "run", "send", "off"}
        /\ (serving' # 0 <=> agent' \in {"recv", "run", "send"})
    BY <1>1
  <2> QED
    BY <1>1, <2>1, <2>2, <2>4, <2>5 DEF IInv, TypeOK
<1>5. Numbering'
  BY <1>1 DEF IInv, Numbering, Open
<1>6. Order'
  <2>1. answered' \cap gone' = {}
    BY <1>1, <1>2 DEF IInv, Order, HasAnswer
  <2>2. client' # "idle" => cur' \in (answered \cup gone)'
    BY <1>1 DEF IInv, TypeOK, Numbering, Order, HasAnswer
  <2>3. \A c \in Conn : HasAnswer(c)' => c \in answered'
    BY <1>1 DEF IInv, Order, HasAnswer
  <2> QED
    BY <1>1, <1>3, <2>1, <2>2, <2>3 DEF Order, HasAnswer
<1>7. History'
  <2>1. /\ \A k \in DOMAIN ran' : ran'[k] <= cur'
        /\ \A c \in answered' \ erred' : kind'[c] = "cmd" => \E k \in DOMAIN ran' : ran'[k] = c
        /\ \A c \in Conn : result'[c] = "ok" => c \notin erred'
    BY <1>1 DEF IInv, History
  <2> QED
    BY <1>1, <1>3, <2>1 DEF History
<1>8. Blame'
  <2>1. ASSUME NEW c \in Conn, c \in gone' \ cutOff', Open(c)
        PROVE  \E d \in 1..c-1 : bootOf[d] = bootOf[c] /\ result[d] = "gaveup"
    <3>1. CASE c \in gone
      <4>1. c \notin cutOff
        BY <2>1
      <4> QED
        BY <2>1, <3>1, <4>1 DEF IInv, Blame
    <3>2. CASE c \notin gone
      <4>1. Pending(c) /\ agent = "send" /\ ~Open(serving)
        BY <1>1, <2>1, <3>2
      <4>2. serving \in 1..cur /\ serving \in Conn /\ serving # 0
        BY <4>1 DEF IInv, TypeOK
      <4>3. serving < c /\ serving # c
        BY <2>1, <4>1, <4>2 DEF IInv, Order, Pending, Queued, HasAnswer
      <4>4. result[serving] = "gaveup" /\ bootOf[serving] = bootOf[c]
        <5>1. Pending(serving)
          BY <4>2 DEF Pending
        <5>2. result[serving] # "none"
          <6>1. ~(serving > cur)
            BY <4>2 DEF IInv, TypeOK
          <6> QED
            BY <4>1, <4>2, <6>1 DEF IInv, Numbering
        <5> QED
          BY <1>2, <4>1, <4>2, <5>1, <5>2
      <4>5. serving \in 1..c-1
        BY <4>2, <4>3
      <4> QED
        BY <4>4, <4>5
    <3> QED
      BY <3>1, <3>2
  <2>2. /\ guest # boots => leaked
        /\ leaked => LeftRunning(cur, IF phase = "crashed" THEN boots + 1 ELSE boots)
        /\ \A c \in 1..cur : bootOf[c] # forOf[c] => LeftRunning(c - 1, forOf[c])
    BY DEF IInv, Blame
  <2> QED
    BY <1>1, <2>1, <2>2 DEF Blame, LeftRunning, Open
<1>9. RunOnceInOrder'
  BY <1>1 DEF IInv, RunOnceInOrder
<1>10. BrokenHasItsCause'
  <2>1. cutOff \subseteq cutOff'
    OBVIOUS
  <2> QED
    BY <1>1, <2>1 DEF IInv, BrokenHasItsCause
<1> QED
  BY <1>4, <1>5, <1>6, <1>7, <1>8, <1>9, <1>10 DEF IInv

\* The agent has the request, answers it with an error, or finds the client gone.
LEMMA RecvStep ==
  ASSUME IInv, Recv
  PROVE  IInv'
<1> USE Bounds DEF Conn
<1>0. /\ cur \in 0..MaxConn /\ queue \in Seq(Conn) /\ Len(queue) <= Backlog
      /\ ran \in Seq(Conn) /\ serving \in 1..cur /\ serving \in Conn /\ serving # 0
      /\ DOMAIN ran = 1..Len(ran) /\ Len(ran) \in Nat /\ erred \subseteq 1..cur
  BY DEF Recv, IInv, TypeOK
<1>1. /\ agent = "recv"
      /\ UNCHANGED <<phase, client, cur, kind, forOf, bootOf, sent, result, boots, guest, leaked,
                     queue, answered, cutOff>>
  BY DEF Recv, harnessVars, cidVars
<1>2. CASE /\ ~Open(serving) /\ agent' = "accept" /\ serving' = 0
           /\ gone' = gone \cup {serving} /\ UNCHANGED <<erred, ran>>
  BY <1>2, DropStep DEF Recv
<1>3. CASE \/ /\ serving \in sent /\ kind[serving] = "ping" /\ agent' = "send"
              /\ UNCHANGED <<serving, erred, gone, ran>>
           \/ /\ serving \in sent /\ kind[serving] = "cmd" /\ agent' = "run"
              /\ ran' = Append(ran, serving) /\ UNCHANGED <<serving, erred, gone>>
           \/ /\ serving \in sent \/ ~Open(serving)
              /\ agent' = "send" /\ erred' = erred \cup {serving}
              /\ UNCHANGED <<serving, gone, ran>>
  <2>1. /\ agent' \in {"run", "send"} /\ UNCHANGED <<serving, gone>>
        /\ erred' = erred \/ erred' = erred \cup {serving}
    BY <1>3
  <2>2. /\ Append(ran, serving) \in Seq(Conn)
        /\ DOMAIN Append(ran, serving) = 1..Len(ran) + 1
        /\ \A k \in 1..Len(ran) : Append(ran, serving)[k] = ran[k]
        /\ Append(ran, serving)[Len(ran) + 1] = serving
    BY <1>0, AppendFacts
  <2>3. /\ Pending(serving) /\ serving \notin answered
        /\ result[serving] \in {"none", "gaveup"}
    BY <1>0 DEF IInv, Order, Pending, HasAnswer
  <2>4. \A c \in Conn : Queued(c)' <=> Queued(c)
    BY <1>1 DEF Queued
  <2>5. \A c \in Conn : Queued(c) => serving < c
    BY DEF Queued, IInv, Order, HasAnswer
  <2>6. \A k \in 1..Len(ran) : /\ ran[k] < serving /\ ran[k] <= cur /\ ran[k] \in Conn
                               /\ \A c \in Conn : Queued(c) => ran[k] < c
    <3>1. \A k \in DOMAIN ran : ran[k] \in Conn
      BY <1>0
    <3> QED
      BY <1>0, <1>1, <3>1 DEF IInv, History
  <2>7. /\ ran' \in Seq(Conn)
        /\ \/ ran' = ran
           \/ /\ DOMAIN ran' = 1..Len(ran) + 1 /\ ran'[Len(ran) + 1] = serving
              /\ \A k \in 1..Len(ran) : ran'[k] = ran[k]
    BY <1>0, <1>3, <2>2
  <2>8. \A k \in DOMAIN ran' : \/ k \in 1..Len(ran) /\ ran'[k] = ran[k]
                               \/ k = Len(ran) + 1 /\ ran'[k] = serving
    BY <1>0, <2>7
  <2>9. \A k \in 1..Len(ran) : k \in DOMAIN ran' /\ ran'[k] = ran[k]
    BY <1>0, <2>7
  <2>10. TypeOK'
    <3>1. erred' \subseteq 1..cur'
      BY <1>0, <1>1, <2>1
    <3>2. serving' # 0 <=> agent' \in {"recv", "run", "send"}
      BY <1>0, <2>1
    <3> QED
      BY <1>1, <2>1, <2>7, <3>1, <3>2 DEF IInv, TypeOK
  <2>11. Numbering'
    BY <1>1 DEF IInv, Numbering, Open
  <2>12. Order'
    BY <1>1, <2>1 DEF IInv, Order, Pending, Queued, HasAnswer
  <2>13. History'
    <3>1. ASSUME NEW k \in DOMAIN ran'
          PROVE  /\ ran'[k] <= cur' /\ ran'[k] <= serving'
                 /\ \A c \in Conn : Queued(c)' => ran'[k] < c
      <4>1. CASE k \in 1..Len(ran) /\ ran'[k] = ran[k]
        BY <1>0, <1>1, <2>1, <2>4, <2>6, <4>1
      <4>2. CASE k = Len(ran) + 1 /\ ran'[k] = serving
        BY <1>0, <1>1, <2>1, <2>4, <2>5, <4>2
      <4> QED
        BY <2>8, <4>1, <4>2
    <3>2. /\ agent' = "run" => serving' \in sent'
          /\ agent' = "send" /\ Open(serving)' => serving' \in sent'
      BY <1>1, <1>3 DEF Open
    <3>3. kind'[serving'] = "cmd" => \/ serving' \in erred'
                                     \/ \E k \in DOMAIN ran' : ran'[k] = serving'
      <4>1. CASE ran' = Append(ran, serving)
        <5>1. Len(ran) + 1 \in DOMAIN ran' /\ ran'[Len(ran) + 1] = serving'
          BY <1>0, <2>1, <2>2, <4>1
        <5> QED
          BY <5>1
      <4>2. CASE kind[serving] = "ping" \/ serving \in erred'
        BY <1>1, <2>1, <4>2
      <4> QED
        BY <1>3, <4>1, <4>2
    <3>4. ASSUME NEW c \in answered' \ erred', kind'[c] = "cmd"
          PROVE  \E k \in DOMAIN ran' : ran'[k] = c
      <4>1. c \in answered \ erred /\ kind[c] = "cmd"
        BY <1>1, <2>1, <3>4
      <4>2. PICK k \in 1..Len(ran) : ran[k] = c
        BY <1>0, <4>1 DEF IInv, History
      <4> QED
        BY <2>9, <4>2
    <3>5. \A c \in Conn : result'[c] = "ok" => c \notin erred'
      BY <1>1, <2>1, <2>3 DEF IInv, History
    <3> QED
      BY <2>1, <3>1, <3>2, <3>3, <3>4, <3>5 DEF History
  <2>14. Blame'
    BY <1>0, <1>1, <2>1 DEF IInv, TypeOK, Blame, LeftRunning, Open
  <2>15. RunOnceInOrder'
    <3>1. ASSUME NEW j \in DOMAIN ran', NEW k \in DOMAIN ran', j < k
          PROVE  ran'[j] < ran'[k]
      <4>1. j \in 1..Len(ran) + 1 /\ k \in 1..Len(ran) + 1
        BY <1>0, <2>8
      <4>2. j \in 1..Len(ran) /\ ran'[j] = ran[j]
        BY <1>0, <2>9, <3>1, <4>1
      <4>3. CASE k \in 1..Len(ran) /\ ran'[k] = ran[k]
        BY <1>0, <3>1, <4>2, <4>3 DEF IInv, RunOnceInOrder
      <4>4. CASE ran'[k] = serving
        BY <2>6, <4>2, <4>4
      <4> QED
        BY <2>8, <4>3, <4>4
    <3>2. ASSUME NEW c \in Conn, result'[c] = "ok", kind'[c] = "cmd"
          PROVE  \E k \in DOMAIN ran' : ran'[k] = c
      <4>1. PICK k \in 1..Len(ran) : ran[k] = c
        BY <1>0, <1>1, <3>2 DEF IInv, RunOnceInOrder
      <4> QED
        BY <2>9, <4>1
    <3> QED
      BY <3>1, <3>2 DEF RunOnceInOrder
  <2>16. BrokenHasItsCause'
    BY <1>1 DEF IInv, BrokenHasItsCause
  <2> QED
    BY <2>10, <2>11, <2>12, <2>13, <2>14, <2>15, <2>16 DEF IInv
<1> QED
  BY <1>2, <1>3 DEF Recv

\* A command that ended is still the one being served.
LEMMA CommandEndsStep ==
  ASSUME IInv, CommandEnds
  PROVE  IInv'
<1> USE Bounds DEF Conn
<1>1. /\ agent = "run" /\ agent' = "send" /\ serving \in 1..cur /\ serving \in Conn
      /\ erred' = erred \/ erred' = erred \cup {serving}
      /\ UNCHANGED <<phase, client, cur, kind, forOf, bootOf, sent, result, boots, guest, leaked,
                     queue, serving, answered, gone, cutOff, ran>>
  BY DEF CommandEnds, harnessVars, cidVars, IInv, TypeOK
<1>2. TypeOK'
  BY <1>1 DEF IInv, TypeOK
<1>3. Numbering'
  BY <1>1 DEF IInv, Numbering, Open
<1>4. Order'
  BY <1>1 DEF IInv, Order, Pending, Queued, HasAnswer
<1>5. History'
  <2>1. result[serving] # "ok"
    BY <1>1 DEF IInv, TypeOK, Order, Pending, HasAnswer
  <2>2. \A c \in Conn : Queued(c)' <=> Queued(c)
    BY <1>1 DEF Queued
  <2> QED
    BY <1>1, <2>1, <2>2 DEF IInv, History
<1>6. Blame'
  BY <1>1 DEF IInv, TypeOK, Blame, LeftRunning, Open
<1>7. RunOnceInOrder' /\ BrokenHasItsCause'
  BY <1>1 DEF IInv, RunOnceInOrder, BrokenHasItsCause
<1> QED
  BY <1>2, <1>3, <1>4, <1>5, <1>6, <1>7 DEF IInv

\* The answer reaches a client that waits, which is the client of the newest connection; it goes
\* nowhere; or the agent dies of it, and what is in its queue with it.
LEMMA RespondStep ==
  ASSUME IInv, Respond
  PROVE  IInv'
<1> USE Bounds DEF Conn
<1>1. CASE ~Open(serving) /\ AgentLost("down")
  BY <1>1, AgentLostStep DEF Respond
<1>2. CASE /\ ~Open(serving) /\ gone' = gone \cup {serving} /\ agent' = "accept" /\ serving' = 0
           /\ UNCHANGED <<harnessVars, cidVars, queue, answered, erred, ran>>
  BY <1>2, DropStep DEF Respond
<1>3. CASE /\ Open(serving) /\ answered' = answered \cup {serving}
           /\ agent' = "accept" /\ serving' = 0
           /\ UNCHANGED <<harnessVars, cidVars, queue, erred, gone, ran>>
  <2>0. /\ queue \in Seq(Conn) /\ serving \in 1..cur /\ serving \in Conn /\ serving # 0
        /\ agent = "send"
        /\ UNCHANGED <<phase, client, cur, kind, forOf, bootOf, sent, result, boots, guest, leaked,
                       queue, erred, gone, cutOff, ran>>
    BY <1>3 DEF Respond, harnessVars, cidVars, IInv, TypeOK
  <2>1. /\ serving \in sent /\ serving = cur /\ serving \notin gone
        /\ kind[serving] = "cmd" => serving \in erred \/ \E k \in DOMAIN ran : ran[k] = serving
    BY <1>3, <2>0 DEF IInv, History, Open, Order, Pending, HasAnswer
  <2>2. \A c \in Conn : ~Queued(c)
    BY <2>0, <2>1 DEF IInv, Order, Queued, HasAnswer
  <2>3. \A c \in Conn : ~Queued(c)' /\ ~Pending(c)'
    BY <1>3, <2>0, <2>2 DEF Queued, Pending
  <2>4. TypeOK'
    <3>1. answered' \subseteq sent' /\ serving' \in 0..cur'
      BY <1>3, <2>0, <2>1 DEF IInv, TypeOK
    <3> QED
      BY <1>3, <2>0, <3>1 DEF IInv, TypeOK
  <2>5. Numbering'
    BY <2>0 DEF IInv, Numbering, Open
  <2>6. Order'
    <3>1. DOMAIN queue = {}
      <4>1. \A k \in DOMAIN queue : queue[k] \in Conn
        BY <2>0
      <4> QED
        BY <2>2, <4>1 DEF Queued
    <3>2. /\ DOMAIN queue' = {} /\ agent' \notin {"down", "off"} /\ answered' \cap gone' = {}
          /\ client' # "idle" => cur' \in answered'
          /\ \A c \in Conn : HasAnswer(c)' => c \in answered'
      BY <1>3, <2>0, <2>1, <3>1 DEF IInv, Order, HasAnswer
    <3> QED
      BY <2>3, <3>2 DEF Order, HasAnswer
  <2>7. History'
    <3>1. /\ \A k \in DOMAIN ran' : ran'[k] <= cur'
          /\ \A c \in answered' \ erred' : kind'[c] = "cmd" => \E k \in DOMAIN ran' : ran'[k] = c
          /\ \A c \in Conn : result'[c] = "ok" => c \notin erred'
      BY <1>3, <2>0, <2>1 DEF IInv, History
    <3> QED
      BY <1>3, <2>3, <3>1 DEF History
  <2>8. Blame'
    BY <1>3, <2>0 DEF IInv, Blame, LeftRunning, Open
  <2>9. RunOnceInOrder' /\ BrokenHasItsCause'
    BY <2>0 DEF IInv, RunOnceInOrder, BrokenHasItsCause
  <2> QED
    BY <2>4, <2>5, <2>6, <2>7, <2>8, <2>9 DEF IInv
<1> QED
  BY <1>1, <1>2, <1>3 DEF Respond

\* The request goes out on an open connection.
LEMMA SendStep ==
  ASSUME IInv, client = "connected", client' = "waiting", sent' = sent \cup {cur},
         UNCHANGED <<phase, leaked, result, cur, kind, forOf, bootOf, boots, guest, queue,
                     agent, serving, answered, erred, gone, cutOff, ran>>
  PROVE  IInv'
<1> USE Bounds DEF Conn
<1>1. cur \in 1..MaxConn
  BY DEF IInv, TypeOK, Numbering
<1>2. TypeOK'
  <2>1. sent' \subseteq 1..cur' /\ answered' \subseteq sent'
    BY <1>1 DEF IInv, TypeOK
  <2> QED
    BY <2>1 DEF IInv, TypeOK
<1>3. Numbering'
  BY DEF IInv, Numbering, Open
<1>4. Order'
  BY DEF IInv, Order, Pending, Queued, HasAnswer
<1>5. History'
  BY DEF IInv, History, Queued, Open
<1>6. Blame'
  BY DEF IInv, Blame, LeftRunning, Open
<1>7. RunOnceInOrder' /\ BrokenHasItsCause'
  BY DEF IInv, RunOnceInOrder, BrokenHasItsCause
<1> QED
  BY <1>2, <1>3, <1>4, <1>5, <1>6, <1>7 DEF IInv

\* Every step of the harness, the kernel and the agent keeps the invariant.
LEMMA NextInvariant == IInv /\ [Next]_vars => IInv'
<1> SUFFICES ASSUME IInv, [Next]_vars PROVE IInv'
  OBVIOUS
<1>1. CASE Connect
  BY <1>1, ConnectStep
<1>2. CASE Send
  <2>1. CASE cur \notin gone
    BY <1>2, <2>1, SendStep DEF Send, madeVars, agentVars
  <2>2. CASE cur \in gone
    <3>1. /\ client # "idle" /\ Settle("raised") /\ Dies
          /\ UNCHANGED <<madeVars, sent, boots, guest, queue, agentVars>>
      BY <1>2, <2>2 DEF Send
    <3> QED
      BY <2>2, <3>1, SettleStep
  <2> QED
    BY <2>1, <2>2
<1>3. CASE Receive
  <2>1. /\ client # "idle" /\ cur \in answered /\ phase' = "steps"
        /\ Settle(IF cur \in erred THEN "failed" ELSE "ok")
        /\ leaked' = leaked
        /\ UNCHANGED <<madeVars, sent, boots, guest, queue, agentVars>>
    BY <1>3 DEF Receive, cidVars
  <2>2. CASE cur \in erred
    <3>1. Settle("failed")
      BY <2>1, <2>2
    <3> QED
      BY <2>1, <3>1, SettleStep
  <2>3. CASE cur \notin erred
    <3>1. Settle("ok")
      BY <2>1, <2>3
    <3> QED
      BY <2>1, <2>3, <3>1, SettleStep
  <2> QED
    BY <2>2, <2>3
<1>4. CASE Closed
  <2>1. /\ client # "idle" /\ cur \in gone
        /\ \/ Settle("closed") /\ UNCHANGED <<phase, leaked>>
           \/ Settle("raised") /\ Dies
        /\ UNCHANGED <<madeVars, sent, boots, guest, queue, agentVars>>
    BY <1>4 DEF Closed
  <2>2. CASE Settle("closed") /\ UNCHANGED <<phase, leaked>>
    BY <2>1, <2>2, SettleStep
  <2>3. CASE Settle("raised") /\ Dies
    BY <2>1, <2>3, SettleStep
  <2> QED
    BY <2>1, <2>2, <2>3
<1>5. CASE TimesOut \/ Overruns
  <2>1. /\ client # "idle" /\ Settle("gaveup") /\ UNCHANGED <<phase, leaked>>
        /\ UNCHANGED <<madeVars, sent, boots, guest, queue, agentVars>>
    BY <1>5 DEF TimesOut, Overruns, cidVars
  <2> QED
    BY <2>1, SettleStep
<1>6. CASE BootDeadline
  BY <1>6, BootDeadlineStep
<1>7. CASE NextGuest
  BY <1>7, NextGuestStep
<1>8. CASE AgentStarts
  BY <1>8, AgentStartsStep
<1>9. CASE Accept
  BY <1>9, AcceptStep
<1>10. CASE Recv
  BY <1>10, RecvStep
<1>11. CASE CommandEnds
  BY <1>11, CommandEndsStep
<1>12. CASE Respond
  BY <1>12, RespondStep
<1>14. CASE AgentKilled
  BY <1>14, AgentLostStep DEF AgentKilled
<1>15. CASE GuestDies
  BY <1>15, AgentLostStep DEF GuestDies
<1>13. CASE UNCHANGED vars
  <2>1. TypeOK' /\ Numbering'
    BY <1>13 DEF vars, IInv, TypeOK, Numbering, Open
  <2>2. Order' /\ History'
    BY <1>13 DEF vars, IInv, Order, History, Pending, Queued, Open, HasAnswer
  <2>3. Blame'
    BY <1>13 DEF vars, IInv, Blame, LeftRunning, Open
  <2>4. RunOnceInOrder' /\ BrokenHasItsCause'
    BY <1>13 DEF vars, IInv, RunOnceInOrder, BrokenHasItsCause
  <2> QED
    BY <2>1, <2>2, <2>3, <2>4 DEF IInv
<1> QED
  BY <1>1, <1>2, <1>3, <1>4, <1>5, <1>6, <1>7, <1>8, <1>9, <1>10, <1>11, <1>12, <1>13,
     <1>14, <1>15
     DEF Next, Harness, Agent

\* The invariant behind all of the below: the order of the connections, of what the guest ran
\* and of what it answered, and who is to blame for a broken one, whatever the agent answers
\* with an error and whenever it or QEMU is killed.
THEOREM Invariant == Spec => []IInv
  BY InitInvariant, NextInvariant, PTL DEF Spec

\* The variables keep their types.
THEOREM TypeCorrect == Spec => []TypeOK
<1>1. IInv => TypeOK
  BY DEF IInv
<1> QED
  BY <1>1, Invariant, PTL

\* A guest runs each command at most once and in the order of the steps, and a command whose
\* result has exit code 0 did run: the agent's own errors never read as one (vsock_exec.py 31-77,
\* guest_vsock.py 106-126).
THEOREM CommandsRunOnceInOrder == Spec => []RunOnceInOrder
<1>1. IInv => RunOnceInOrder
  BY DEF IInv
<1> QED
  BY <1>1, Invariant, PTL

\* When a step has its answer, nothing of an earlier step is in the guest any more.
THEOREM NothingLeftBehind == Spec => []NoStragglers
<1>1. IInv => NoStragglers
  <2> SUFFICES ASSUME IInv, NEW c \in Conn, NEW d \in Conn, HasAnswer(c), d < c
               PROVE  ~Pending(d)
    BY Bounds DEF NoStragglers, Pending, Conn
  <2>1. c \in answered /\ (Pending(d) => c < d)
    BY DEF IInv, Order, HasAnswer
  <2> QED
    BY <2>1, Bounds DEF Conn
<1> QED
  BY <1>1, Invariant, PTL

\* A connection breaks only when its agent or QEMU was killed while the request was in the guest,
\* or behind an earlier request to that guest that the harness gave up: the agent itself leaves
\* no client that waits without a response (vsock_exec.py 56-77).
THEOREM BrokenIsBlamed == Spec => []BrokenHasItsCause
<1>1. IInv => BrokenHasItsCause
  BY DEF IInv
<1> QED
  BY <1>1, Invariant, PTL

\* Another guest than the harness's own answers only after a ping of an earlier launch raised
\* and left that guest running.
THEOREM OwnGuestAnswers == Spec => []AnsweredByOwnGuest
<1>1. IInv => AnsweredByOwnGuest
  <2> SUFFICES ASSUME IInv, NEW c \in Conn, HasAnswer(c), bootOf[c] # forOf[c]
               PROVE  LeftRunning(c - 1, forOf[c])
    BY DEF AnsweredByOwnGuest, LeftRunning
  <2>1. c \in 1..cur
    BY Bounds DEF IInv, TypeOK, Numbering, Conn, HasAnswer
  <2> QED
    BY <2>1 DEF IInv, Blame
<1> QED
  BY <1>1, Invariant, PTL
=============================================================================
