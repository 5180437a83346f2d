--------------------------- MODULE IpcServerProofs ---------------------------
(***************************************************************************)
(* Proofs about IpcServer, for every number of servers and clients, every  *)
(* request and every backlog: the safety invariants of the runs, and that  *)
(* the servers and clients together implement RequestService.              *)
(***************************************************************************)
EXTENDS IpcServer, FiniteSetTheorems, TLAPS

(* A connection waits in at most one place of a queue.                     *)
In(c, q)    == \E i \in 1..Len(q) : q[i] = c
Distinct(q) == \A i, j \in 1..Len(q) : q[i] = q[j] => i = j

Performed(c) == \E i \in 1..Len(executed) : executed[i][2] = c

Unconnected == {"idle", "nofile", "refused", "full"}

(***************************************************************************)
(* The inductive invariant.  A request that waits, or that its server has  *)
(* not handled yet, has not been carried out; so none is carried out twice.*)
(***************************************************************************)
AtMostOnce ==
    \A i, j \in 1..Len(executed) : executed[i][2] = executed[j][2] => i = j

ByItsServer ==
    \A i \in 1..Len(executed) : target[executed[i][2]] = executed[i][1]

UnconnectedHasNoTarget ==
    \A c \in Clients : client[c] \in Unconnected => target[c] = NoOne

QueuedIsNew ==
    \A s \in Servers :
        /\ Distinct(queue[s])
        /\ \A c \in Clients : In(c, queue[s]) => target[c] = s /\ ~Performed(c)

AcceptedIsOwn ==
    \A s \in Servers : conn[s] # NoOne =>
        /\ target[conn[s]] = s
        /\ ~In(conn[s], queue[s])
        /\ pc[s] \in {"recv", "handle"} => ~Performed(conn[s])

(* What comes back is the outcome of the client's own request.             *)
WireIsOutcome ==
    \A c \in Clients : wire[c] \in {"value", "error"} =>
        /\ Performed(c)
        /\ wire[c] = "error" <=> Op[c] = "bad"

ClientReadWire ==
    \A c \in Clients : client[c] \in {"value", "error"} => wire[c] = client[c]

(* The invariants about requests, and those about servers.                 *)
Requests == /\ AtMostOnce
            /\ ByItsServer
            /\ UnconnectedHasNoTarget
            /\ QueuedIsNew
            /\ AcceptedIsOwn
            /\ WireIsOutcome
            /\ ClientReadWire

AloneIsAlone ==
    \A s \in alone : Alive(s) => \A t \in Servers : t # s => ~Alive(t)

IInv == TypeOK /\ Requests /\ AloneIsAlone /\ AloneOwnsPath

----------------------------------------------------------------------------
(* Queues.                                                                 *)
LEMMA InAppend ==
    ASSUME NEW q \in Seq(Clients), NEW d \in Clients
    PROVE  /\ Append(q, d) \in Seq(Clients)
           /\ \A c : In(c, Append(q, d)) <=> In(c, q) \/ c = d
           /\ Distinct(q) /\ ~In(d, q) => Distinct(Append(q, d))
<1>1. /\ Append(q, d) \in Seq(Clients)
      /\ Len(q) \in Nat /\ Len(Append(q, d)) = Len(q) + 1
      /\ \A i \in 1..Len(q) : Append(q, d)[i] = q[i]
      /\ Append(q, d)[Len(q) + 1] = d
  OBVIOUS
<1>2. 1..Len(q) + 1 = (1..Len(q)) \cup {Len(q) + 1}
  BY <1>1
<1> DEFINE r == Append(q, d)
           m == Len(q)
<1>3. \A i \in 1..Len(r) : i \in 1..m \/ i = m + 1
  BY <1>1, <1>2
<1>4. \A c : In(c, r) <=> In(c, q) \/ c = d
  BY <1>1, <1>2 DEF In
<1>5. ASSUME Distinct(q), ~In(d, q) PROVE Distinct(r)
  <2>1. SUFFICES ASSUME NEW i \in 1..Len(r), NEW j \in 1..Len(r), r[i] = r[j]
                 PROVE  i = j
    BY DEF Distinct
  <2>2. \A k \in 1..m : r[k] = q[k] /\ r[k] # d
    BY <1>1, <1>5 DEF In
  <2> QED BY <1>1, <1>3, <1>5, <2>1, <2>2 DEF Distinct
<1> QED BY <1>1, <1>4, <1>5

LEMMA InTail ==
    ASSUME NEW q \in Seq(Clients), q # <<>>
    PROVE  /\ Head(q) \in Clients /\ Tail(q) \in Seq(Clients)
           /\ In(Head(q), q)
           /\ \A c : In(c, Tail(q)) => In(c, q)
           /\ Distinct(q) => ~In(Head(q), Tail(q)) /\ Distinct(Tail(q))
<1>1. /\ Head(q) \in Clients /\ Tail(q) \in Seq(Clients)
      /\ Len(q) \in Nat /\ Len(q) > 0 /\ Len(Tail(q)) = Len(q) - 1
      /\ Head(q) = q[1]
      /\ \A i \in 1..Len(q) - 1 : Tail(q)[i] = q[i + 1]
  OBVIOUS
<1>2. \A i \in 1..Len(Tail(q)) : i + 1 \in 1..Len(q) /\ Tail(q)[i] = q[i + 1]
  BY <1>1
<1>3. ASSUME Distinct(q) PROVE ~In(Head(q), Tail(q))
  <2>1. SUFFICES ASSUME NEW i \in 1..Len(Tail(q)), Tail(q)[i] = Head(q)
                 PROVE  FALSE
    BY DEF In
  <2>2. q[i + 1] = q[1] /\ i + 1 \in 1..Len(q) /\ 1 \in 1..Len(q)
    BY <1>1, <1>2, <2>1
  <2> QED BY <1>3, <2>2 DEF Distinct
<1>4. ASSUME Distinct(q) PROVE Distinct(Tail(q))
  <2>1. SUFFICES ASSUME NEW i \in 1..Len(Tail(q)), NEW j \in 1..Len(Tail(q)),
                        Tail(q)[i] = Tail(q)[j]
                 PROVE  i = j
    BY DEF Distinct
  <2>2. q[i + 1] = q[j + 1]
    BY <1>2, <2>1
  <2>3. i + 1 = j + 1
    BY <1>2, <1>4, <2>2 DEF Distinct
  <2> QED BY <2>3
<1> QED BY <1>1, <1>2, <1>3, <1>4 DEF In

(* Hanging up changes only what nothing was written to.                    *)
LEMMA HangUpFacts ==
    ASSUME NEW S, wire \in [Clients -> {"none", "value", "error", "eof"}]
    PROVE  /\ HangUp(S) \in [Clients -> {"none", "value", "error", "eof"}]
           /\ \A c \in Clients : \/ HangUp(S)[c] = wire[c]
                                 \/ wire[c] = "none" /\ HangUp(S)[c] = "eof"
  BY DEF HangUp

(* What has been carried out once another request has been.                *)
LEMMA PerformedNext ==
    ASSUME executed \in Seq(Servers \X Clients),
           NEW s \in Servers, NEW d \in Clients,
           executed' = Append(executed, <<s, d>>)
    PROVE  /\ executed' \in Seq(Servers \X Clients)
           /\ Len(executed) \in Nat /\ Len(executed') = Len(executed) + 1
           /\ \A i \in 1..Len(executed) : executed'[i] = executed[i]
           /\ executed'[Len(executed')] = <<s, d>>
           /\ \A c \in Clients : Performed(c)' <=> Performed(c) \/ c = d
<1>1. /\ executed' \in Seq(Servers \X Clients)
      /\ Len(executed) \in Nat /\ Len(executed') = Len(executed) + 1
      /\ \A i \in 1..Len(executed) : executed'[i] = executed[i]
      /\ executed'[Len(executed) + 1] = <<s, d>>
  OBVIOUS
<1>2. 1..Len(executed) + 1 = (1..Len(executed)) \cup {Len(executed) + 1}
  BY <1>1
<1> QED BY <1>1, <1>2 DEF Performed

----------------------------------------------------------------------------
LEMMA InitIInv == Init => IInv
<1> SUFFICES ASSUME Init PROVE IInv OBVIOUS
<1>1. Len(executed) = 0 /\ \A s \in Servers : queue[s] = <<>> /\ Len(queue[s]) = 0
  BY DEF Init
<1>2. executed \in Seq(Servers \X Clients) /\ queue \in [Servers -> Seq(Clients)]
  BY DEF Init
<1>3. TypeOK
  BY <1>2 DEF Init, TypeOK
<1>4. Requests
  BY <1>1 DEF Init, Requests, AtMostOnce, ByItsServer, UnconnectedHasNoTarget,
              QueuedIsNew, AcceptedIsOwn, WireIsOutcome, ClientReadWire,
              In, Distinct, Performed
<1>5. AloneIsAlone /\ AloneOwnsPath
  BY DEF Init, AloneIsAlone, AloneOwnsPath, Alive, Listening
<1> QED BY <1>3, <1>4, <1>5 DEF IInv

(***************************************************************************)
(* Types.                                                                  *)
(***************************************************************************)
PCs == {"down", "check", "unlink", "bind", "listen", "accept",
        "recv", "handle", "reply", "cleanup", "dead"}

Busy == {"recv", "handle", "reply"}

LEMMA DieTypes ==
    ASSUME TypeOK, NEW s \in Servers, Die(s)
    PROVE  /\ pc' \in [Servers -> PCs] /\ pc' = [pc EXCEPT ![s] = "dead"]
           /\ conn' \in [Servers -> Clients \cup {NoOne}]
           /\ queue' \in [Servers -> Seq(Clients)]
           /\ wire' \in [Clients -> {"none", "value", "error", "eof"}]
           /\ \A t \in Servers : /\ conn'[t] # NoOne <=> pc'[t] \in Busy
                                 /\ queue'[t] # <<>> => Listening(t)'
<1>1. <<>> \in Seq(Clients)
  OBVIOUS
<1> QED BY <1>1, HangUpFacts DEF TypeOK, Die, PCs, Busy, Listening

LEMMA NextTypes == ASSUME TypeOK, Next PROVE TypeOK'
<1> DEFINE Local == \A t \in Servers : /\ conn'[t] # NoOne <=> pc'[t] \in Busy
                                       /\ queue'[t] # <<>> => Listening(t)'
<1> USE DEF PCs, Busy
<1>1. ASSUME NEW s \in Servers,
             Launch(s) \/ CheckPath(s) \/ Listen(s)
      PROVE  TypeOK'
  <2>1. Local
    BY <1>1 DEF TypeOK, Launch, CheckPath, Listen, Listening
  <2> QED BY <1>1, <2>1 DEF TypeOK, Launch, CheckPath, Listen
<1>2. ASSUME NEW s \in Servers, UnlinkStale(s) \/ Bind(s)
      PROVE  TypeOK'
  <2>1. CASE Die(s)
    BY <1>2, <2>1, DieTypes DEF TypeOK, UnlinkStale, Bind
  <2>2. CASE ~Die(s)
    <3>1. /\ pc[s] \in {"unlink", "bind"}
          /\ UNCHANGED <<conn, queue, wire>>
          /\ pc' = [pc EXCEPT ![s] = IF pc[s] = "unlink" THEN "bind" ELSE "listen"]
          /\ path' \in Servers \cup {NoOne}
      BY <1>2, <2>2 DEF UnlinkStale, Bind
    <3>2. Local
      BY <3>1 DEF TypeOK, Listening
    <3> QED BY <1>2, <3>1, <3>2 DEF TypeOK, UnlinkStale, Bind
  <2> QED BY <2>1, <2>2
<1>3. ASSUME NEW s \in Servers, Accept(s) PROVE TypeOK'
  <2>1. Head(queue[s]) \in Clients /\ Tail(queue[s]) \in Seq(Clients)
    BY <1>3, InTail DEF TypeOK, Accept
  <2>2. Head(queue[s]) # NoOne
    BY <2>1, IpcAssumption
  <2>3. Local
    BY <1>3, <2>1, <2>2 DEF TypeOK, Accept, Listening
  <2> QED BY <1>3, <2>1, <2>3 DEF TypeOK, Accept
<1>4. ASSUME NEW s \in Servers, Receive(s) PROVE TypeOK'
  <2>1. conn[s] \in Clients
    BY <1>4 DEF TypeOK, Receive
  <2>2. wire' \in [Clients -> {"none", "value", "error", "eof"}]
    BY <1>4, <2>1 DEF TypeOK, Receive
  <2>3. /\ pc[s] = "recv"
        /\ UNCHANGED <<path, queue, client, target, sent, executed, alone>>
        /\ \/ pc' = [pc EXCEPT ![s] = "accept"] /\ conn' = [conn EXCEPT ![s] = NoOne]
           \/ pc' = [pc EXCEPT ![s] = "reply"] /\ conn' = conn
           \/ pc' = [pc EXCEPT ![s] = "handle"] /\ conn' = conn
    BY <1>4 DEF Receive
  <2>4. Local
    BY <2>3 DEF TypeOK, Listening
  <2>5. pc' \in [Servers -> PCs] /\ conn' \in [Servers -> Clients \cup {NoOne}]
    BY <2>3 DEF TypeOK
  <2> QED BY <2>2, <2>3, <2>4, <2>5 DEF TypeOK
<1>5. ASSUME NEW s \in Servers, Handle(s) PROVE TypeOK'
  <2>1. conn[s] \in Clients
    BY <1>5 DEF TypeOK, Handle
  <2>2. executed' \in Seq(Servers \X Clients)
    BY <1>5, <2>1, PerformedNext DEF TypeOK, Handle
  <2>3. CASE Die(s)
    BY <1>5, <2>2, <2>3, DieTypes DEF TypeOK, Handle
  <2>4. CASE ~Die(s)
    <3>1. /\ pc' = [pc EXCEPT ![s] = "reply"] /\ pc[s] = "handle"
          /\ UNCHANGED <<conn, queue, path, client, target, sent, alone>>
      BY <1>5, <2>4 DEF Handle
    <3>2. wire' \in [Clients -> {"none", "value", "error", "eof"}]
      BY <1>5, <2>4 DEF TypeOK, Handle, Answer
    <3>3. Local
      BY <3>1 DEF TypeOK, Listening
    <3> QED BY <2>2, <3>1, <3>2, <3>3 DEF TypeOK
  <2> QED BY <2>3, <2>4
<1>6. ASSUME NEW s \in Servers, Finish(s) PROVE TypeOK'
  <2>1. queue' \in [Servers -> Seq(Clients)]
    <3>1. <<>> \in Seq(Clients)
      OBVIOUS
    <3> QED BY <1>6, <3>1 DEF TypeOK, Finish
  <2>2. wire' \in [Clients -> {"none", "value", "error", "eof"}]
    BY <1>6, HangUpFacts DEF TypeOK, Finish
  <2>3. Local
    BY <1>6 DEF TypeOK, Finish, Listening
  <2> QED BY <1>6, <2>1, <2>2, <2>3 DEF TypeOK, Finish
<1>7. ASSUME NEW s \in Servers, Cleanup(s) \/ Kill(s) PROVE TypeOK'
  <2>1. Die(s) /\ path' \in {path, NoOne}
    BY <1>7 DEF Cleanup, Kill, PathAfterQuit
  <2> QED BY <1>7, <2>1, DieTypes DEF TypeOK, Cleanup, Kill
<1>8. ASSUME NEW c \in Clients, Connect(c) PROVE TypeOK'
  <2>1. path # NoOne => queue[path] \in Seq(Clients) /\ Append(queue[path], c) \in Seq(Clients)
    BY InAppend DEF TypeOK
  <2>2. queue' \in [Servers -> Seq(Clients)]
    BY <1>8, <2>1 DEF TypeOK, Connect
  <2>3. Local
    BY <1>8 DEF TypeOK, Connect, Listening
  <2> QED BY <1>8, <2>2, <2>3 DEF TypeOK, Connect
<1>9. ASSUME NEW c \in Clients, ClientStep(c) \/ Abandon(c) PROVE TypeOK'
  <2>1. /\ UNCHANGED <<path, pc, conn, queue, target, wire, executed, alone>>
        /\ Local
    BY <1>9 DEF TypeOK, ClientStep, Send, ReadReply, Abandon, server, Listening
  <2>2. /\ client' \in [Clients -> {"idle", "connected", "waiting", "value", "error",
                                   "nofile", "refused", "full", "raised", "gone"}]
        /\ sent' \in [Clients -> {"nothing", "part", "json", "line"}]
    <3>1. CASE Send(c)
      BY <3>1 DEF TypeOK, Send
    <3>2. CASE ReadReply(c)
      BY <3>2 DEF TypeOK, ReadReply
    <3>3. CASE Abandon(c)
      BY <3>3 DEF TypeOK, Abandon
    <3> QED BY <1>9, <3>1, <3>2, <3>3 DEF ClientStep
  <2> QED BY <2>1, <2>2 DEF TypeOK
<1> QED BY <1>1, <1>2, <1>3, <1>4, <1>5, <1>6, <1>7, <1>8, <1>9
        DEF Next, ServerStep

(* Type correctness.                                                       *)
THEOREM TypeCorrect == Spec => []TypeOK
<1>1. TypeOK /\ UNCHANGED vars => TypeOK'
  BY DEF vars, TypeOK, Listening
<1>2. Init => TypeOK
  BY InitIInv DEF IInv
<1> QED BY <1>1, <1>2, NextTypes, PTL DEF Spec

(***************************************************************************)
(* Requests.                                                               *)
(***************************************************************************)

(* A step of servers that carries nothing out, accepts nothing and writes  *)
(* no answer may empty queues, drop connections and hang up.               *)
LEMMA ServerFrame ==
    ASSUME TypeOK, Requests,
           UNCHANGED <<client, target, executed>>,
           \A s \in Servers :
               /\ queue'[s] = queue[s] \/ queue'[s] = <<>>
               /\ conn'[s] = conn[s] \/ conn'[s] = NoOne
               /\ conn'[s] # NoOne /\ pc'[s] \in {"recv", "handle"}
                     => pc[s] \in {"recv", "handle"},
           \A c \in Clients : \/ wire'[c] = wire[c]
                              \/ wire[c] = "none" /\ wire'[c] = "eof"
    PROVE  Requests'
<1> USE DEF Requests
<1>1. \A c : Performed(c)' <=> Performed(c)
  BY DEF Performed
<1>2. \A q : q = <<>> => Distinct(q) /\ \A c : ~In(c, q)
  BY DEF Distinct, In
<1>3. AtMostOnce' /\ ByItsServer' /\ UnconnectedHasNoTarget'
  BY DEF AtMostOnce, ByItsServer, UnconnectedHasNoTarget
<1>4. QueuedIsNew'
  <2>1. \A c, s : In(c, queue[s])' <=> In(c, queue'[s])
    BY DEF In
  <2>2. \A s : Distinct(queue[s])' <=> Distinct(queue'[s])
    BY DEF Distinct
  <2> QED BY <1>1, <1>2, <2>1, <2>2 DEF QueuedIsNew
<1>5. AcceptedIsOwn'
  <2>1. \A c, s : In(c, queue[s])' <=> In(c, queue'[s])
    BY DEF In
  <2>2. \A c, s : In(conn[s], queue[s])' <=> In(conn'[s], queue'[s])
    BY DEF In
  <2> QED BY <1>1, <1>2, <2>1, <2>2 DEF AcceptedIsOwn
<1>6. WireIsOutcome'
  BY <1>1 DEF WireIsOutcome
<1>7. ClientReadWire'
  BY DEF ClientReadWire
<1> QED BY <1>3, <1>4, <1>5, <1>6, <1>7

LEMMA DieFrame ==
    ASSUME TypeOK, NEW s \in Servers, Die(s)
    PROVE  /\ \A t \in Servers :
               /\ queue'[t] = queue[t] \/ queue'[t] = <<>>
               /\ conn'[t] = conn[t] \/ conn'[t] = NoOne
               /\ conn'[t] # NoOne /\ pc'[t] \in {"recv", "handle"}
                     => pc[t] \in {"recv", "handle"}
           /\ \A c \in Clients : \/ wire'[c] = wire[c]
                                 \/ wire[c] = "none" /\ wire'[c] = "eof"
  BY HangUpFacts DEF TypeOK, Die

LEMMA ServerOnlyStep ==
    ASSUME TypeOK, Requests, NEW s \in Servers,
           \/ Launch(s) \/ CheckPath(s) \/ UnlinkStale(s) \/ Bind(s) \/ Listen(s)
           \/ Receive(s) \/ Finish(s) \/ Cleanup(s) \/ Kill(s)
    PROVE  Requests'
<1> DEFINE Kept == UNCHANGED <<client, target, executed>>
           ServersKept ==
             \A t \in Servers :
               /\ queue'[t] = queue[t] \/ queue'[t] = <<>>
               /\ conn'[t] = conn[t] \/ conn'[t] = NoOne
               /\ conn'[t] # NoOne /\ pc'[t] \in {"recv", "handle"}
                     => pc[t] \in {"recv", "handle"}
           WireKept == \A c \in Clients : \/ wire'[c] = wire[c]
                                          \/ wire[c] = "none" /\ wire'[c] = "eof"
<1>1. Kept
  BY DEF Launch, CheckPath, UnlinkStale, Bind, Listen, Receive, Finish, Cleanup, Kill
<1>2. CASE Die(s)
  BY <1>1, <1>2, DieFrame, ServerFrame
<1>3. CASE Launch(s) \/ CheckPath(s) \/ Listen(s)
  <2>1. ServersKept /\ WireKept
    BY <1>3 DEF TypeOK, Launch, CheckPath, Listen
  <2> QED BY <1>1, <2>1, ServerFrame
<1>4. CASE ~Die(s) /\ (UnlinkStale(s) \/ Bind(s))
  <2>1. ServersKept /\ WireKept
    BY <1>4 DEF TypeOK, UnlinkStale, Bind
  <2> QED BY <1>1, <2>1, ServerFrame
<1>5. CASE Receive(s)
  <2>1. ServersKept
    BY <1>5 DEF TypeOK, Receive
  <2>2. WireKept
    <3>1. wire' = wire \/ ~Connected(conn[s])
      BY <1>5 DEF Receive, LineOrEof
    <3>2. CASE ~Connected(conn[s])
      BY <1>5, <3>2 DEF TypeOK, Receive
    <3> QED BY <3>1, <3>2
  <2> QED BY <1>1, <2>1, <2>2, ServerFrame
<1>6. CASE Finish(s)
  <2>1. ServersKept
    BY <1>6 DEF TypeOK, Finish
  <2>2. WireKept
    BY <1>6, HangUpFacts DEF TypeOK, Finish
  <2> QED BY <1>1, <2>1, <2>2, ServerFrame
<1> QED BY <1>2, <1>3, <1>4, <1>5, <1>6 DEF Cleanup, Kill

(* The server takes the head of its queue, which is nowhere else.          *)
LEMMA AcceptStep ==
    ASSUME TypeOK, Requests, NEW s \in Servers, Accept(s) PROVE Requests'
<1> DEFINE c == Head(queue[s])
           q == Tail(queue[s])
<1>1. /\ c \in Clients /\ In(c, queue[s])
      /\ \A d : In(d, q) => In(d, queue[s])
      /\ ~In(c, q) /\ Distinct(q)
  BY InTail DEF TypeOK, Accept, Requests, QueuedIsNew
<1>2. /\ conn' = [conn EXCEPT ![s] = c] /\ queue' = [queue EXCEPT ![s] = q]
      /\ pc' = [pc EXCEPT ![s] = "recv"]
      /\ UNCHANGED <<client, target, wire, executed>>
  BY DEF Accept
<1>3. \A d : Performed(d)' <=> Performed(d)
  BY <1>2 DEF Performed
<1>4. /\ \A d, t : In(d, queue[t])' <=> In(d, queue'[t])
      /\ \A t : In(conn[t], queue[t])' <=> In(conn'[t], queue'[t])
      /\ \A t : Distinct(queue[t])' <=> Distinct(queue'[t])
  BY DEF In, Distinct
<1> HIDE DEF c, q
<1>5. QueuedIsNew'
  <2>1. SUFFICES ASSUME NEW t \in Servers
                 PROVE  /\ Distinct(queue'[t])
                        /\ \A d \in Clients : In(d, queue'[t])
                              => target[d] = t /\ ~Performed(d)
    BY <1>2, <1>3, <1>4 DEF QueuedIsNew
  <2>2. CASE t = s
    <3>1. queue'[t] = q
      BY <1>2, <2>2 DEF TypeOK
    <3> QED BY <1>1, <2>2, <3>1 DEF Requests, QueuedIsNew
  <2>3. CASE t # s
    <3>1. queue'[t] = queue[t]
      BY <1>2, <2>3 DEF TypeOK
    <3> QED BY <3>1 DEF Requests, QueuedIsNew
  <2> QED BY <2>2, <2>3
<1>6. AcceptedIsOwn'
  <2>1. SUFFICES ASSUME NEW t \in Servers, conn'[t] # NoOne
                 PROVE  /\ target[conn'[t]] = t
                        /\ ~In(conn'[t], queue'[t])
                        /\ pc'[t] \in {"recv", "handle"} => ~Performed(conn'[t])
    BY <1>2, <1>3, <1>4 DEF AcceptedIsOwn, Performed
  <2>2. CASE t = s
    <3>1. conn'[t] = c /\ queue'[t] = q
      BY <1>2, <2>2 DEF TypeOK
    <3> QED BY <1>1, <2>2, <3>1 DEF Requests, QueuedIsNew
  <2>3. CASE t # s
    <3>1. conn'[t] = conn[t] /\ queue'[t] = queue[t] /\ pc'[t] = pc[t]
      BY <1>2, <2>3 DEF TypeOK
    <3> QED BY <2>1, <3>1 DEF Requests, AcceptedIsOwn
  <2> QED BY <2>2, <2>3
<1>7. AtMostOnce' /\ ByItsServer' /\ UnconnectedHasNoTarget' /\ ClientReadWire'
  BY <1>2 DEF Requests, AtMostOnce, ByItsServer, UnconnectedHasNoTarget, ClientReadWire
<1>8. WireIsOutcome'
  BY <1>2, <1>3 DEF Requests, WireIsOutcome
<1> QED BY <1>5, <1>6, <1>7, <1>8 DEF Requests

(* The request is carried out by the server that accepted it, once.        *)
LEMMA HandleStep ==
    ASSUME TypeOK, Requests, NEW s \in Servers, Handle(s) PROVE Requests'
<1> DEFINE c == conn[s]
<1>1. /\ c \in Clients /\ target[c] = s /\ ~In(c, queue[s])
      /\ ~Performed(c)
      /\ pc[s] = "handle"
      /\ executed' = Append(executed, <<s, c>>)
      /\ UNCHANGED <<client, target>>
  BY DEF TypeOK, Handle, Requests, AcceptedIsOwn
<1> HIDE DEF c
<1>2. /\ Len(executed) \in Nat /\ Len(executed') = Len(executed) + 1
      /\ \A i \in 1..Len(executed) : executed'[i] = executed[i]
      /\ executed'[Len(executed')] = <<s, c>>
      /\ \A d \in Clients : Performed(d)' <=> Performed(d) \/ d = c
  BY <1>1, PerformedNext DEF TypeOK
<1>3. \A i \in 1..Len(executed') : i \in 1..Len(executed) \/ i = Len(executed')
  BY <1>2
<1>4. \A i \in 1..Len(executed) : executed[i][2] # c
  BY <1>1 DEF Performed
<1>5. AtMostOnce'
  <2>1. SUFFICES ASSUME NEW i \in 1..Len(executed'), NEW j \in 1..Len(executed'),
                        executed'[i][2] = executed'[j][2]
                 PROVE  i = j
    BY DEF AtMostOnce
  <2>2. CASE i \in 1..Len(executed) /\ j \in 1..Len(executed)
    BY <1>2, <2>1, <2>2 DEF Requests, AtMostOnce
  <2>3. CASE i = Len(executed') /\ j = Len(executed')
    BY <2>3
  <2>4. CASE i = Len(executed') /\ j \in 1..Len(executed)
    BY <1>2, <1>4, <2>1, <2>4
  <2>5. CASE j = Len(executed') /\ i \in 1..Len(executed)
    BY <1>2, <1>4, <2>1, <2>5
  <2> QED BY <1>3, <2>2, <2>3, <2>4, <2>5
<1>6. ByItsServer'
  <2>1. SUFFICES ASSUME NEW i \in 1..Len(executed')
                 PROVE  target[executed'[i][2]] = executed'[i][1]
    BY <1>1 DEF ByItsServer
  <2>2. CASE i \in 1..Len(executed)
    BY <1>2, <2>2 DEF Requests, ByItsServer
  <2>3. CASE i = Len(executed')
    BY <1>1, <1>2, <2>3
  <2> QED BY <1>3, <2>2, <2>3
<1>7. UnconnectedHasNoTarget'
  BY <1>1 DEF Requests, UnconnectedHasNoTarget
<1>8. /\ \A t \in Servers : queue'[t] = queue[t] \/ queue'[t] = <<>>
      /\ \A t \in Servers : conn'[t] = conn[t] \/ conn'[t] = NoOne
      /\ \A t \in Servers : t # s => pc'[t] = pc[t]
      /\ pc'[s] \in {"reply", "dead"}
      /\ \A d \in Clients : d # c /\ wire'[d] \in {"value", "error"} => wire'[d] = wire[d]
      /\ \A d \in Clients : d # c /\ wire[d] \in {"value", "error"} => wire'[d] = wire[d]
      /\ wire'[c] \in {wire[c], "eof", Answer(c)}
  <2>1. CASE Die(s)
    <3>1. \A d \in Clients : wire'[d] = wire[d] \/ (wire[d] = "none" /\ wire'[d] = "eof")
      BY <2>1, HangUpFacts DEF Die, TypeOK
    <3>2. pc' = [pc EXCEPT ![s] = "dead"]
      BY <2>1 DEF Die
    <3> QED BY <1>1, <2>1, <3>1, <3>2, DieFrame DEF TypeOK
  <2>2. CASE ~Die(s)
    <3>1. /\ wire' = [wire EXCEPT ![c] = IF Connected(c) THEN Answer(c) ELSE @]
          /\ pc' = [pc EXCEPT ![s] = "reply"] /\ UNCHANGED <<conn, queue>>
      BY <2>2 DEF Handle, c
    <3> QED BY <1>1, <3>1 DEF TypeOK
  <2> QED BY <2>1, <2>2
<1>9. QueuedIsNew'
  <2>1. /\ \A d, t : In(d, queue[t])' <=> In(d, queue'[t])
        /\ \A t : Distinct(queue[t])' <=> Distinct(queue'[t])
        /\ \A q : q = <<>> => Distinct(q) /\ \A d : ~In(d, q)
    BY DEF In, Distinct
  <2>2. SUFFICES ASSUME NEW t \in Servers
                 PROVE  /\ Distinct(queue'[t])
                        /\ \A d \in Clients : In(d, queue'[t])
                              => target[d] = t /\ ~Performed(d) /\ d # c
    BY <1>1, <1>2, <2>1 DEF QueuedIsNew
  <2> QED BY <1>1, <1>8, <2>1 DEF Requests, QueuedIsNew
<1>10. AcceptedIsOwn'
  <2> DEFINE Now(d) == \E i \in 1..Len(executed') : executed'[i][2] = d
  <2>1. /\ \A d, t : In(d, queue[t])' <=> In(d, queue'[t])
        /\ \A t : In(conn[t], queue[t])' <=> In(conn'[t], queue'[t])
        /\ \A t : Performed(conn[t])' <=> Now(conn'[t])
        /\ \A d : Performed(d)' <=> Now(d)
        /\ \A q : q = <<>> => \A d : ~In(d, q)
    BY DEF In, Performed
  <2> HIDE DEF Now
  <2>2. SUFFICES ASSUME NEW t \in Servers, conn'[t] # NoOne
                 PROVE  /\ target[conn'[t]] = t
                        /\ ~In(conn'[t], queue'[t])
                        /\ pc'[t] \in {"recv", "handle"} => ~Now(conn'[t])
    BY <1>1, <2>1 DEF AcceptedIsOwn
  <2>3. /\ conn'[t] = conn[t] /\ conn[t] \in Clients
        /\ target[conn[t]] = t /\ ~In(conn[t], queue[t])
    BY <1>8, <2>2 DEF Requests, AcceptedIsOwn, TypeOK
  <2>4. pc'[t] \in {"recv", "handle"} => ~Performed(conn[t]) /\ conn[t] # c
    BY <1>1, <1>8, <2>2, <2>3 DEF Requests, AcceptedIsOwn
  <2> QED BY <1>2, <1>8, <2>1, <2>3, <2>4
<1>11. WireIsOutcome'
  <2>1. wire[c] \notin {"value", "error"}
    BY <1>1 DEF Requests, WireIsOutcome
  <2>2. wire'[c] \in {"value", "error"} => wire'[c] = Answer(c)
    BY <1>8, <2>1
  <2> QED BY <1>2, <1>8, <2>2 DEF Requests, WireIsOutcome, Answer
<1>12. ClientReadWire'
  BY <1>1, <1>8 DEF Requests, ClientReadWire, WireIsOutcome
<1> QED BY <1>5, <1>6, <1>7, <1>9, <1>10, <1>11, <1>12 DEF Requests

LEMMA ConnectStep ==
    ASSUME TypeOK, Requests, NEW c \in Clients, Connect(c) PROVE Requests'
<1>1. /\ UNCHANGED <<path, pc, conn, sent, wire, executed>>
      /\ client[c] = "idle"
      /\ \A d : Performed(d)' <=> Performed(d)
  BY DEF Connect, Performed
<1>2. target[c] = NoOne /\ ~Performed(c) /\ \A s \in Servers : ~In(c, queue[s])
  <2>1. target[c] = NoOne
    BY <1>1 DEF Requests, UnconnectedHasNoTarget, Unconnected
  <2>2. \A i \in 1..Len(executed) : executed[i][1] \in Servers
    BY DEF TypeOK
  <2>3. ~Performed(c)
    BY <2>1, <2>2, IpcAssumption DEF Requests, ByItsServer, Performed
  <2> QED BY <2>1, <2>3, IpcAssumption DEF Requests, QueuedIsNew
<1>3. \A s \in Servers : conn[s] # c
  BY <1>2, IpcAssumption DEF Requests, AcceptedIsOwn
<1>4. CASE UNCHANGED <<queue, target>>
  <2>1. /\ \A d \in Clients : d # c => client'[d] = client[d]
        /\ client'[c] \in Unconnected
    BY <1>4 DEF Connect, TypeOK, Unconnected
  <2>2. QueuedIsNew' /\ AcceptedIsOwn'
    BY <1>1, <1>4 DEF Requests, QueuedIsNew, AcceptedIsOwn, In, Distinct, Performed
  <2>3. UnconnectedHasNoTarget' /\ ClientReadWire'
    BY <1>1, <1>2, <1>4, <2>1
    DEF Requests, UnconnectedHasNoTarget, ClientReadWire, Unconnected
  <2>4. AtMostOnce' /\ ByItsServer' /\ WireIsOutcome'
    BY <1>1, <1>4 DEF Requests, AtMostOnce, ByItsServer, WireIsOutcome
  <2> QED BY <2>2, <2>3, <2>4 DEF Requests
<1>5. CASE ~UNCHANGED <<queue, target>>
  <2>1. /\ path \in Servers
        /\ client' = [client EXCEPT ![c] = "connected"]
        /\ queue' = [queue EXCEPT ![path] = Append(@, c)]
        /\ target' = [target EXCEPT ![c] = path]
    BY <1>5 DEF Connect, TypeOK
  <2>2. /\ \A d \in Clients : d # c => target'[d] = target[d] /\ client'[d] = client[d]
        /\ target'[c] = path /\ client'[c] = "connected"
        /\ \A s \in Servers : s # path => queue'[s] = queue[s]
        /\ queue'[path] = Append(queue[path], c)
    BY <2>1 DEF TypeOK
  <2>3. /\ \A d : In(d, queue'[path]) <=> In(d, queue[path]) \/ d = c
        /\ Distinct(queue'[path])
    BY <1>2, <2>1, <2>2, InAppend DEF TypeOK, Requests, QueuedIsNew
  <2>4. /\ \A d, s : In(d, queue[s])' <=> In(d, queue'[s])
        /\ \A s : In(conn[s], queue[s])' <=> In(conn'[s], queue'[s])
        /\ \A s : Distinct(queue[s])' <=> Distinct(queue'[s])
    BY DEF In, Distinct
  <2>5. QueuedIsNew'
    <3>1. SUFFICES ASSUME NEW s \in Servers
                   PROVE  /\ Distinct(queue'[s])
                          /\ \A d \in Clients : In(d, queue'[s])
                                => target'[d] = s /\ ~Performed(d)
      BY <1>1, <2>4 DEF QueuedIsNew
    <3> QED BY <1>2, <2>2, <2>3 DEF Requests, QueuedIsNew
  <2>6. AcceptedIsOwn'
    <3>1. SUFFICES ASSUME NEW s \in Servers, conn[s] # NoOne
                   PROVE  /\ target'[conn[s]] = s
                          /\ ~In(conn[s], queue'[s])
                          /\ pc[s] \in {"recv", "handle"} => ~Performed(conn[s])
      BY <1>1, <2>4 DEF AcceptedIsOwn, Performed
    <3>2. conn[s] \in Clients /\ conn[s] # c
      BY <1>3, <3>1 DEF TypeOK
    <3> QED BY <2>2, <2>3, <3>1, <3>2 DEF Requests, AcceptedIsOwn
  <2>7. UnconnectedHasNoTarget' /\ ClientReadWire'
    BY <1>1, <2>2 DEF Requests, UnconnectedHasNoTarget, ClientReadWire, Unconnected
  <2>8. AtMostOnce' /\ WireIsOutcome'
    BY <1>1 DEF Requests, AtMostOnce, WireIsOutcome
  <2>9. ByItsServer'
    <3>1. \A i \in 1..Len(executed) : executed[i][2] \in Clients /\ executed[i][2] # c
      BY <1>2 DEF TypeOK, Performed
    <3> QED BY <1>1, <2>2, <3>1 DEF Requests, ByItsServer
  <2> QED BY <2>5, <2>6, <2>7, <2>8, <2>9 DEF Requests
<1> QED BY <1>4, <1>5

LEMMA ClientStepKeeps ==
    ASSUME TypeOK, Requests, NEW c \in Clients, ClientStep(c) \/ Abandon(c)
    PROVE  Requests'
<1>1. /\ UNCHANGED <<pc, conn, queue, target, wire, executed>>
      /\ \A d \in Clients : d # c => client'[d] = client[d]
      /\ client[c] \notin Unconnected /\ client'[c] \notin Unconnected
      /\ client'[c] \in {"value", "error"} => wire[c] = client'[c]
  <2>1. CASE Send(c)
    BY <2>1 DEF Send, server, TypeOK, Unconnected
  <2>2. CASE ReadReply(c)
    BY <2>2 DEF ReadReply, server, TypeOK, Unconnected
  <2>3. CASE Abandon(c)
    BY <2>3 DEF Abandon, Connected, server, TypeOK, Unconnected
  <2> QED BY <2>1, <2>2, <2>3 DEF ClientStep
<1>2. QueuedIsNew' /\ AcceptedIsOwn'
  BY <1>1 DEF Requests, QueuedIsNew, AcceptedIsOwn, In, Distinct, Performed
<1>3. UnconnectedHasNoTarget' /\ ClientReadWire'
  BY <1>1 DEF Requests, UnconnectedHasNoTarget, ClientReadWire
<1>4. AtMostOnce' /\ ByItsServer' /\ WireIsOutcome'
  BY <1>1 DEF Requests, AtMostOnce, ByItsServer, WireIsOutcome, Performed
<1> QED BY <1>2, <1>3, <1>4 DEF Requests

LEMMA NextRequests == ASSUME TypeOK, Requests, Next PROVE Requests'
  BY ServerOnlyStep, AcceptStep, HandleStep, ConnectStep, ClientStepKeeps
  DEF Next, ServerStep

(***************************************************************************)
(* The path.  Among the servers that have shared their life with no other  *)
(* one, at most one is alive, and only its steps and those of the dead     *)
(* touch the path.                                                         *)
(***************************************************************************)
Owns(s) == /\ pc[s] = "unlink" => path # NoOne
           /\ pc[s] = "bind" => path = NoOne
           /\ pc[s] = "listen" \/ Listening(s) => path = s

(* A step of server s that launches nothing.                               *)
LEMMA ServerKeepsAlone ==
    ASSUME TypeOK, AloneIsAlone, AloneOwnsPath, NEW s \in Servers,
           alone' = alone, Alive(s),
           \A t \in Servers : t # s => pc'[t] = pc[t],
           s \in alone => Owns(s)'
    PROVE  AloneIsAlone' /\ AloneOwnsPath'
<1>1. \A t \in Servers : Alive(t)' => Alive(t)
  BY DEF Alive
<1>2. AloneIsAlone'
  BY <1>1 DEF AloneIsAlone, TypeOK
<1>3. ASSUME NEW t \in alone, t # s PROVE Owns(t)'
  <2>1. ~Alive(t) /\ t \in Servers
    BY <1>3 DEF AloneIsAlone, TypeOK
  <2> QED BY <1>3, <2>1 DEF Owns, Listening, Alive
<1>4. AloneOwnsPath'
  BY <1>3 DEF AloneOwnsPath, Owns
<1> QED BY <1>2, <1>4

LEMMA LaunchStep ==
    ASSUME TypeOK, AloneIsAlone, AloneOwnsPath, NEW s \in Servers, Launch(s)
    PROVE  AloneIsAlone' /\ AloneOwnsPath'
<1>1. /\ \A t \in Servers : t # s => pc'[t] = pc[t]
      /\ pc'[s] = "check" /\ path' = path /\ pc[s] = "down"
      /\ alone' \subseteq alone
      /\ \A t \in alone' : t \in Servers /\ (t # s => ~Alive(t))
      /\ s \in alone' => \A t \in Servers : ~Alive(t)
  BY DEF Launch, TypeOK, Alive
<1>2. AloneIsAlone'
  BY <1>1 DEF AloneIsAlone, Alive
<1>3. AloneOwnsPath'
  <2>1. ASSUME NEW t \in alone' PROVE Owns(t)'
    BY <1>1, <2>1 DEF Owns, Listening, Alive
  <2> QED BY <2>1 DEF AloneOwnsPath, Owns
<1> QED BY <1>2, <1>3

LEMMA NextAlone ==
    ASSUME TypeOK, AloneIsAlone, AloneOwnsPath, Next
    PROVE  AloneIsAlone' /\ AloneOwnsPath'
<1>1. ASSUME NEW s \in Servers, ServerStep(s) \/ Kill(s)
      PROVE  AloneIsAlone' /\ AloneOwnsPath'
  <2>1. s \in alone => Owns(s)
    BY DEF AloneOwnsPath, Owns
  <2>2. /\ Alive(s) /\ alone' = alone
        /\ \A t \in Servers : t # s => pc'[t] = pc[t]
        /\ s \in alone => Owns(s)'
    <3>1. CASE Die(s)
      <4>1. pc' = [pc EXCEPT ![s] = "dead"] /\ alone' = alone /\ Alive(s)
        BY <1>1, <3>1 DEF ServerStep, CheckPath, UnlinkStale, Bind, Listen,
           Accept, Receive, Handle, Finish, Cleanup, Kill, Die, Alive
      <4> QED BY <4>1 DEF TypeOK, Owns, Listening
    <3>2. CASE ~Die(s) /\ (CheckPath(s) \/ UnlinkStale(s) \/ Bind(s) \/ Listen(s))
      BY <2>1, <3>2 DEF CheckPath, PathExists, UnlinkStale, Bind, Listen,
                        TypeOK, Owns, Alive, Listening
    <3>3. CASE ~Die(s) /\ (Accept(s) \/ Receive(s) \/ Handle(s) \/ Finish(s))
      <4>1. /\ \E l \in {"accept", "recv", "handle", "reply", "cleanup"} :
                  pc' = [pc EXCEPT ![s] = l]
            /\ path' = path /\ alone' = alone
            /\ pc[s] \in {"accept", "recv", "handle", "reply"}
        BY <3>3 DEF Accept, Receive, Handle, Finish
      <4> QED BY <2>1, <4>1 DEF TypeOK, Owns, Alive, Listening
    <3> QED BY <1>1, <3>1, <3>2, <3>3 DEF ServerStep, Cleanup, Kill
  <2> QED BY <2>2, ServerKeepsAlone
<1>2. ASSUME NEW c \in Clients, Connect(c) \/ ClientStep(c) \/ Abandon(c)
      PROVE  AloneIsAlone' /\ AloneOwnsPath'
  <2>1. UNCHANGED <<path, pc, alone>>
    BY <1>2 DEF Connect, ClientStep, Send, ReadReply, Abandon, server
  <2> QED BY <2>1 DEF AloneIsAlone, AloneOwnsPath, Alive, Listening
<1> QED BY <1>1, <1>2, LaunchStep DEF Next

----------------------------------------------------------------------------
LEMMA NextIInv == ASSUME IInv, [Next]_vars PROVE IInv'
<1>1. CASE Next
  BY <1>1, NextTypes, NextRequests, NextAlone DEF IInv
<1>2. CASE UNCHANGED vars
  <2>1. TypeOK'
    BY <1>2 DEF vars, IInv, TypeOK, Listening
  <2>2. Requests'
    <3>1. /\ UNCHANGED <<client, target, executed>>
          /\ \A s \in Servers : /\ queue'[s] = queue[s] /\ conn'[s] = conn[s]
                                /\ pc'[s] = pc[s]
          /\ \A c \in Clients : wire'[c] = wire[c]
      BY <1>2 DEF vars
    <3> QED BY <3>1, ServerFrame DEF IInv
  <2>3. AloneIsAlone' /\ AloneOwnsPath'
    BY <1>2 DEF vars, IInv, AloneIsAlone, AloneOwnsPath, Alive, Listening
  <2> QED BY <2>1, <2>2, <2>3 DEF IInv
<1> QED BY <1>1, <1>2

(* The inductive invariant.                                                *)
THEOREM Invariance == Spec => []IInv
  BY InitIInv, NextIInv, PTL DEF Spec

(* A client that prints a value or an error prints the outcome of its own  *)
(* request, carried out by the server it is connected to.                  *)
THEOREM AnswersAreOwn == Spec => []AnswerIsOwn
<1>1. ASSUME IInv PROVE AnswerIsOwn
  <2>1. SUFFICES ASSUME NEW c \in Clients, client[c] \in {"value", "error"}
                 PROVE  /\ \E i \in DOMAIN executed : executed[i] = <<target[c], c>>
                        /\ client[c] = "error" <=> Op[c] = "bad"
    BY DEF AnswerIsOwn
  <2>2. wire[c] = client[c]
    BY <1>1, <2>1 DEF IInv, Requests, ClientReadWire
  <2>3. Performed(c) /\ (client[c] = "error" <=> Op[c] = "bad")
    BY <1>1, <2>1, <2>2 DEF IInv, Requests, WireIsOutcome
  <2>4. PICK i \in 1..Len(executed) : executed[i][2] = c
    BY <2>3 DEF Performed
  <2>5. executed[i][1] = target[c]
    BY <1>1, <2>4 DEF IInv, Requests, ByItsServer
  <2>6. executed[i] \in Servers \X Clients /\ i \in DOMAIN executed
    BY <1>1 DEF IInv, TypeOK
  <2>7. executed[i] = <<target[c], c>>
    BY <2>4, <2>5, <2>6
  <2> QED BY <2>3, <2>6, <2>7
<1> QED BY <1>1, Invariance, PTL

(* A server that runs while no other one does owns the path, whatever its  *)
(* predecessors left there.                                                *)
THEOREM AloneServerOwnsPath == Spec => []AloneOwnsPath
<1>1. IInv => AloneOwnsPath
  BY DEF IInv
<1> QED BY <1>1, Invariance, PTL

(***************************************************************************)
(* The refinement of RequestService.                                       *)
(***************************************************************************)
status == [c \in Clients |->
             CASE client[c] = "idle" -> "idle"
               [] client[c] \in {"nofile", "refused", "full"} -> "rejected"
               [] client[c] \in {"connected", "waiting"} -> "submitted"
               [] client[c] \in {"value", "error"} -> "answered"
               [] client[c] \in {"raised", "gone"} -> "lost"]
done == [c \in Clients |-> Cardinality({i \in DOMAIN executed : executed[i][2] = c})]

(* A request is counted once if it was carried out, and never otherwise.   *)
LEMMA CountedOnce ==
    ASSUME NEW e \in Seq(Servers \X Clients), NEW c,
           \A i, j \in 1..Len(e) : e[i][2] = e[j][2] => i = j
    PROVE  Cardinality({i \in DOMAIN e : e[i][2] = c}) =
              IF \E i \in 1..Len(e) : e[i][2] = c THEN 1 ELSE 0
<1> DEFINE S == {i \in DOMAIN e : e[i][2] = c}
<1>1. DOMAIN e = 1..Len(e)
  OBVIOUS
<1>2. CASE ~ \E i \in 1..Len(e) : e[i][2] = c
  <2>1. S = {}
    BY <1>1, <1>2
  <2> QED BY <1>2, <2>1, FS_EmptySet
<1>3. ASSUME NEW i \in 1..Len(e), e[i][2] = c PROVE Cardinality(S) = 1
  <2>1. S = {i}
    BY <1>1, <1>3
  <2> QED BY <2>1, FS_Singleton
<1> QED BY <1>2, <1>3

Status(x) == IF x = "idle" THEN "idle"
             ELSE IF x \in {"nofile", "refused", "full"} THEN "rejected"
             ELSE IF x \in {"connected", "waiting"} THEN "submitted"
             ELSE IF x \in {"value", "error"} THEN "answered" ELSE "lost"

LEMMA StatusOfClient ==
    TypeOK => status = [c \in Clients |-> Status(client[c])]
  BY DEF TypeOK, status, Status

LEMMA DoneFacts ==
    ASSUME IInv
    PROVE  \A c \in Clients : done[c] = IF Performed(c) THEN 1 ELSE 0
<1>1. /\ executed \in Seq(Servers \X Clients)
      /\ \A i, j \in 1..Len(executed) : executed[i][2] = executed[j][2] => i = j
  BY DEF IInv, TypeOK, Requests, AtMostOnce
<1> QED BY <1>1, CountedOnce DEF Performed, done

LEMMA DoneFactsNext ==
    ASSUME IInv'
    PROVE  \A c \in Clients : done'[c] = IF Performed(c)' THEN 1 ELSE 0
<1>1. /\ executed' \in Seq(Servers \X Clients)
      /\ \A i, j \in 1..Len(executed') : executed'[i][2] = executed'[j][2] => i = j
  BY DEF IInv, TypeOK, Requests, AtMostOnce
<1> QED BY <1>1, CountedOnce DEF Performed, done

LEMMA StatusNext ==
    TypeOK' => status' = [c \in Clients |-> Status(client'[c])]
  BY DEF TypeOK, status, Status

(* Carrying a request out is Perform.                                      *)
LEMMA HandleMapped ==
    ASSUME IInv, NEW s \in Servers, Handle(s)
    PROVE  \E c \in Clients : Service!Perform(c)
<1> DEFINE c == conn[s]
<1>1. /\ c \in Clients /\ c # NoOne /\ target[c] = s /\ ~Performed(c)
      /\ executed' = Append(executed, <<s, c>>) /\ client' = client
  BY IpcAssumption DEF IInv, TypeOK, Handle, Requests, AcceptedIsOwn
<1> HIDE DEF c
<1>2. IInv'
  BY NextIInv DEF Next, ServerStep
<1>3. \A d \in Clients : Performed(d)' <=> Performed(d) \/ d = c
  BY <1>1, PerformedNext DEF IInv, TypeOK
<1>4. done[c] = 0 /\ done' = [done EXCEPT ![c] = 1]
  <2>1. /\ \A d \in Clients : done[d] = IF Performed(d) THEN 1 ELSE 0
        /\ \A d \in Clients : done'[d] = IF Performed(d)' THEN 1 ELSE 0
    BY <1>2, DoneFacts, DoneFactsNext
  <2>2. /\ done = [d \in Clients |-> done[d]]
        /\ done' = [d \in Clients |-> done'[d]]
    BY DEF done
  <2>3. /\ \A d \in Clients : d # c => done'[d] = done[d]
        /\ done'[c] = 1 /\ done[c] = 0
    BY <1>1, <1>3, <2>1
  <2> HIDE DEF done
  <2> QED BY <2>2, <2>3
<1>5. status' = status
  BY <1>1 DEF status
<1>6. status[c] \in {"submitted", "lost"}
  <2>1. client[c] \notin Unconnected
    BY <1>1, IpcAssumption DEF IInv, Requests, UnconnectedHasNoTarget
  <2>2. client[c] \notin {"value", "error"}
    BY <1>1 DEF IInv, Requests, WireIsOutcome, ClientReadWire
  <2> QED BY <1>1, <2>1, <2>2, StatusOfClient DEF IInv, TypeOK, Status, Unconnected
<1> QED BY <1>1, <1>4, <1>5, <1>6 DEF Service!Perform, status, done

(* The steps of client c.                                                  *)
LEMMA ClientMapped ==
    ASSUME IInv, NEW c \in Clients, Connect(c) \/ ClientStep(c) \/ Abandon(c)
    PROVE  [Service!Next]_(Service!vars)
<1>1. IInv' /\ TypeOK /\ TypeOK'
  BY NextIInv DEF Next, IInv
<1>2. executed' = executed /\ done' = done
  BY DEF Connect, ClientStep, Send, ReadReply, Abandon, done
<1>3. /\ status = [d \in Clients |-> Status(client[d])]
      /\ status' = [d \in Clients |-> Status(client'[d])]
  BY <1>1, StatusOfClient, StatusNext
<1>4. \/ client' = client
      \/ /\ client[c] = "connected"
         /\ client' = [client EXCEPT ![c] = "waiting"]
      \/ /\ client[c] = "idle"
         /\ \E x \in {"nofile", "refused", "full", "connected"} :
               client' = [client EXCEPT ![c] = x]
      \/ /\ client[c] \in {"connected", "waiting"}
         /\ \E x \in {"raised", "gone"} : client' = [client EXCEPT ![c] = x]
      \/ /\ client[c] \in {"connected", "waiting"} /\ Performed(c)
         /\ \E x \in {"value", "error"} : client' = [client EXCEPT ![c] = x]
  <2>1. CASE Connect(c)
    BY <2>1 DEF Connect
  <2>2. CASE Send(c)
    BY <2>2 DEF Send
  <2>3. CASE ReadReply(c)
    <3>1. wire[c] \in {"value", "error"} => Performed(c)
      BY DEF IInv, Requests, WireIsOutcome
    <3> QED BY <1>1, <2>3, <3>1 DEF ReadReply, TypeOK
  <2>4. CASE Abandon(c)
    BY <2>4 DEF Abandon, Connected
  <2> QED BY <2>1, <2>2, <2>3, <2>4 DEF ClientStep
<1>5. done[c] = IF Performed(c) THEN 1 ELSE 0
  BY DoneFacts
<1> DEFINE To(v) == status' = [status EXCEPT ![c] = v]
<1>6. \/ status' = status
      \/ status[c] = "idle" /\ To("submitted")
      \/ status[c] = "idle" /\ To("rejected")
      \/ status[c] = "submitted" /\ To("lost")
      \/ status[c] = "submitted" /\ done[c] = 1 /\ To("answered")
  <2>1. CASE client' = client
    BY <2>1 DEF status
  <2>2. ASSUME NEW x, client' = [client EXCEPT ![c] = x]
        PROVE  To(Status(x)) /\ status[c] = Status(client[c])
    BY <1>1, <1>3, <2>2 DEF TypeOK
  <2> HIDE DEF status, To
  <2>3. CASE client[c] = "connected" /\ client' = [client EXCEPT ![c] = "waiting"]
    <3>1. To("submitted") /\ status[c] = "submitted"
      BY <2>2, <2>3 DEF Status
    <3> QED BY <1>3, <3>1 DEF To
  <2> QED BY <1>4, <1>5, <2>1, <2>2, <2>3 DEF Status
<1> QED BY <1>2, <1>6
    DEF status, done, Service!Next, Service!vars, Service!Submit, Service!Reject,
        Service!Answer, Service!Lose

LEMMA InitMapped == Init => Service!Init
<1> SUFFICES ASSUME Init PROVE Service!Init OBVIOUS
<1>1. {i \in DOMAIN executed : FALSE} = {} /\ DOMAIN executed = {}
  BY DEF Init
<1>2. \A c : {i \in DOMAIN executed : executed[i][2] = c} = {}
  BY <1>1
<1> QED BY <1>2, FS_EmptySet DEF Init, Service!Init

LEMMA NextMapped ==
    ASSUME IInv, [Next]_vars PROVE [Service!Next]_(Service!vars)
<1>1. ASSUME NEW s \in Servers, Handle(s) PROVE [Service!Next]_(Service!vars)
  BY <1>1, HandleMapped DEF Service!Next
<1>2. CASE UNCHANGED <<client, executed>>
  BY <1>2 DEF Service!vars
<1>3. ASSUME NEW s \in Servers, Launch(s) \/ Kill(s) \/ (ServerStep(s) /\ ~Handle(s))
      PROVE  UNCHANGED <<client, executed>>
  BY <1>3 DEF Launch, Kill, ServerStep, CheckPath, UnlinkStale, Bind, Listen,
              Accept, Receive, Finish, Cleanup
<1> QED BY <1>1, <1>2, <1>3, ClientMapped DEF Next, vars

(* The servers and clients together are a request service: a request is    *)
(* carried out at most once, and answered only after it was.               *)
THEOREM ImplementsService == Spec => ServiceSpec
  BY InitMapped, NextMapped, Invariance, PTL
  DEF Spec, ServiceSpec, Service!Spec
=============================================================================
