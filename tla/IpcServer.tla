----------------------------- MODULE IpcServer -----------------------------
(***************************************************************************)
(* The headless idat servers of scripts/idat_ipc_server.py, the clients of *)
(* idat_ipc_client.py, and the socket path they share.  A server is one    *)
(* process: it takes the path over when it starts, then answers one        *)
(* connection at a time until "quit".  A client process sends one request. *)
(* A process may be killed at any time.                                    *)
(***************************************************************************)
EXTENDS Integers, Sequences, FiniteSets

CONSTANTS Servers, Clients,
          NoOne,      \* no server, no client
          Op,         \* the request of each client
          Backlog     \* connections the kernel queues for listen(1)

Ops == {"ping",    \* a request that is answered with a value
        "bad",     \* a request whose handler raises: answered with an error
        "exit",    \* an eval that raises SystemExit
        "quit"}

ASSUME IpcAssumption == /\ Op \in [Clients -> Ops]
                        /\ NoOne \notin Servers \cup Clients
                        /\ Backlog \in Nat \ {0}

VARIABLES
    path,      \* the server whose socket the path names
    pc,        \* where each server is
    conn,      \* the connection each server has accepted
    queue,     \* connections waiting to be accepted
    client,    \* where each client is, or how it ended
    target,    \* the server each client is connected to
    sent,      \* what each client has written of its request
    wire,      \* what the server has written back, "eof" once it closed
    executed,  \* requests carried out, in order, with their server
    alone      \* servers that have not shared their life with another one

server == <<path, pc, conn, queue>>
vars == <<path, pc, conn, queue, client, target, sent, wire, executed, alone>>

Alive(s)   == pc[s] \notin {"down", "dead"}
Listening(s) == pc[s] \in {"accept", "recv", "handle", "reply"}
Connected(c) == client[c] \in {"connected", "waiting"}

(* The connections a server closes when it stops: queued and accepted.     *)
Dropped(s) == {c \in Clients : Connected(c) /\ target[c] = s}
HangUp(S) == [c \in Clients |-> IF c \in S /\ wire[c] = "none" THEN "eof" ELSE wire[c]]

(* A server process ends.  The path stays.                                 *)
(* Mutant: what was queued at its socket stays as well.                    *)
DieKeepsQueue(s) == /\ pc' = [pc EXCEPT ![s] = "dead"]
                    /\ conn' = [conn EXCEPT ![s] = NoOne]
                    /\ queue' = queue
                    /\ wire' = HangUp(Dropped(s))

Die(s) == /\ pc' = [pc EXCEPT ![s] = "dead"]
          /\ conn' = [conn EXCEPT ![s] = NoOne]
          /\ queue' = [queue EXCEPT ![s] = <<>>]
          /\ wire' = HangUp(Dropped(s))

----------------------------------------------------------------------------
Init == /\ path = NoOne
        /\ pc = [s \in Servers |-> "down"]
        /\ conn = [s \in Servers |-> NoOne]
        /\ queue = [s \in Servers |-> <<>>]
        /\ client = [c \in Clients |-> "idle"]
        /\ target = [c \in Clients |-> NoOne]
        /\ sent = [c \in Clients |-> "nothing"]
        /\ wire = [c \in Clients |-> "none"]
        /\ executed = <<>>
        /\ alone = Servers

(* idat starts; its plugin set-up is behind it when it enters _serve.      *)
Launch(s) ==
    /\ pc[s] = "down"
    /\ pc' = [pc EXCEPT ![s] = "check"]
    /\ alone' = IF \E t \in Servers : Alive(t)
                THEN alone \ ({s} \cup {t \in Servers : Alive(t)}) ELSE alone
    /\ UNCHANGED <<path, conn, queue, client, target, sent, wire, executed>>

(* os.path.exists(sock_path); the mutant never looks.                      *)
NeverStale == FALSE
PathExists == path # NoOne

CheckPath(s) ==
    /\ pc[s] = "check"
    /\ pc' = [pc EXCEPT ![s] = IF PathExists THEN "unlink" ELSE "bind"]
    /\ UNCHANGED <<path, conn, queue, client, target, sent, wire, executed, alone>>

(* os.unlink raises, and main ends the process, if the path has gone.      *)
UnlinkStale(s) ==
    /\ pc[s] = "unlink"
    /\ \/ /\ path # NoOne
          /\ path' = NoOne
          /\ pc' = [pc EXCEPT ![s] = "bind"]
          /\ UNCHANGED <<conn, queue, wire>>
       \/ path = NoOne /\ Die(s) /\ UNCHANGED path
    /\ UNCHANGED <<client, target, sent, executed, alone>>

(* bind raises if the path exists again.                                   *)
Bind(s) ==
    /\ pc[s] = "bind"
    /\ \/ /\ path = NoOne
          /\ path' = s
          /\ pc' = [pc EXCEPT ![s] = "listen"]
          /\ UNCHANGED <<conn, queue, wire>>
       \/ path # NoOne /\ Die(s) /\ UNCHANGED path
    /\ UNCHANGED <<client, target, sent, executed, alone>>

Listen(s) ==
    /\ pc[s] = "listen"
    /\ pc' = [pc EXCEPT ![s] = "accept"]
    /\ UNCHANGED <<path, conn, queue, client, target, sent, wire, executed, alone>>

Accept(s) ==
    /\ pc[s] = "accept" /\ queue[s] # <<>>
    /\ conn' = [conn EXCEPT ![s] = Head(queue[s])]
    /\ queue' = [queue EXCEPT ![s] = Tail(@)]
    /\ pc' = [pc EXCEPT ![s] = "recv"]
    /\ UNCHANGED <<path, client, target, sent, wire, executed, alone>>

(* The loop around recv ends with a newline or at the end of the stream.   *)
(* The mutants take what the first recv returns, or wait for the newline   *)
(* of a client that has gone.                                              *)
OnlyLine(c) == sent[c] = "line"
FirstChunk(c) == sent[c] # "nothing" \/ ~Connected(c)
LineOrEof(c) == sent[c] = "line" \/ ~Connected(c)

(* An empty request is dropped; one that is cut off does not parse, unless *)
(* only the newline is missing.                                            *)
Receive(s) ==
    /\ pc[s] = "recv" /\ LineOrEof(conn[s])
    /\ LET c == conn[s] IN
       \/ /\ sent[c] = "nothing"
          /\ pc' = [pc EXCEPT ![s] = "accept"]
          /\ conn' = [conn EXCEPT ![s] = NoOne]
          /\ wire' = wire
       \/ /\ sent[c] = "part"
          /\ pc' = [pc EXCEPT ![s] = "reply"]
          /\ wire' = [wire EXCEPT ![c] = IF Connected(c) THEN "error" ELSE @]
          /\ conn' = conn
       \/ /\ sent[c] \in {"json", "line"}
          /\ pc' = [pc EXCEPT ![s] = "handle"]
          /\ UNCHANGED <<conn, wire>>
    /\ UNCHANGED <<path, queue, client, target, sent, executed, alone>>

(* _handle_command and sendall; a client that has gone is ignored.         *)
Answer(c) == IF Op[c] = "bad" THEN "error" ELSE "value"

Handle(s) ==
    /\ pc[s] = "handle"
    /\ LET c == conn[s] IN
       /\ executed' = Append(executed, <<s, c>>)
       /\ \/ /\ Op[c] # "exit"
             /\ wire' = [wire EXCEPT ![c] = IF Connected(c) THEN Answer(c) ELSE @]
             /\ pc' = [pc EXCEPT ![s] = "reply"]
             /\ UNCHANGED <<conn, queue>>
          \/ Op[c] = "exit" /\ Die(s)
    /\ UNCHANGED <<path, client, target, sent, alone>>

(* The connection is closed; "quit" closes the socket as well.             *)
ShouldQuit(c) == Op[c] = "quit" /\ sent[c] \in {"json", "line"}

Finish(s) ==
    /\ pc[s] = "reply"
    /\ \/ /\ ~ShouldQuit(conn[s])
          /\ pc' = [pc EXCEPT ![s] = "accept"]
          /\ UNCHANGED <<queue, wire>>
       \/ /\ ShouldQuit(conn[s])
          /\ pc' = [pc EXCEPT ![s] = "cleanup"]
          /\ queue' = [queue EXCEPT ![s] = <<>>]
          /\ wire' = HangUp(Dropped(s))
    /\ conn' = [conn EXCEPT ![s] = NoOne]
    /\ UNCHANGED <<path, client, target, sent, executed, alone>>

(* os.unlink(sock_path) after "quit", whoever the path belongs to by now.  *)
PathAfterQuit == NoOne

Cleanup(s) ==
    /\ pc[s] = "cleanup"
    /\ path' = PathAfterQuit
    /\ Die(s)
    /\ UNCHANGED <<client, target, sent, executed, alone>>

Kill(s) ==
    /\ Alive(s)
    /\ Die(s)
    /\ UNCHANGED <<path, client, target, sent, executed, alone>>

----------------------------------------------------------------------------
(* The client: connect, send a line, wait for one.                         *)
Connect(c) ==
    /\ client[c] = "idle"
    /\ \/ /\ path = NoOne
          /\ client' = [client EXCEPT ![c] = "nofile"]
          /\ UNCHANGED <<queue, target>>
       \/ /\ path # NoOne /\ ~Listening(path)
          /\ client' = [client EXCEPT ![c] = "refused"]
          /\ UNCHANGED <<queue, target>>
       \/ /\ path # NoOne /\ Listening(path)
          /\ IF Len(queue[path]) < Backlog
             THEN /\ client' = [client EXCEPT ![c] = "connected"]
                  /\ queue' = [queue EXCEPT ![path] = Append(@, c)]
                  /\ target' = [target EXCEPT ![c] = path]
             ELSE /\ client' = [client EXCEPT ![c] = "full"]
                  /\ UNCHANGED <<queue, target>>
    /\ UNCHANGED <<path, pc, conn, sent, wire, executed, alone>>

(* sendall: the line may go out in parts ("json" lacks only the newline);  *)
(* it raises on a closed socket.                                           *)
Send(c) ==
    /\ client[c] = "connected"
    /\ \/ /\ wire[c] = "eof"
          /\ client' = [client EXCEPT ![c] = "raised"]
          /\ sent' = sent
       \/ /\ wire[c] # "eof"
          /\ \/ /\ \/ sent[c] = "nothing" /\ sent' = [sent EXCEPT ![c] = "part"]
                   \/ sent[c] # "json" /\ sent' = [sent EXCEPT ![c] = "json"]
                /\ client' = client
             \/ /\ sent' = [sent EXCEPT ![c] = "line"]
                /\ client' = [client EXCEPT ![c] = "waiting"]
    /\ UNCHANGED <<server, target, wire, executed, alone>>

(* The reply, or an empty line that does not parse.                        *)
ReadReply(c) ==
    /\ client[c] = "waiting" /\ wire[c] # "none"
    /\ client' = [client EXCEPT ![c] = IF wire[c] = "eof" THEN "raised" ELSE wire[c]]
    /\ UNCHANGED <<server, target, sent, wire, executed, alone>>

(* Ten minutes have passed, or the user interrupts the client.             *)
Abandon(c) ==
    /\ Connected(c)
    /\ client' = [client EXCEPT ![c] = "gone"]
    /\ UNCHANGED <<server, target, sent, wire, executed, alone>>

ServerStep(s) == \/ CheckPath(s) \/ UnlinkStale(s) \/ Bind(s) \/ Listen(s)
                 \/ Accept(s) \/ Receive(s) \/ Handle(s) \/ Finish(s) \/ Cleanup(s)
ClientStep(c) == Send(c) \/ ReadReply(c)

Next == \/ \E s \in Servers : Launch(s) \/ ServerStep(s) \/ Kill(s)
        \/ \E c \in Clients : Connect(c) \/ ClientStep(c) \/ Abandon(c)

(* A process that can take a step takes it; requests are handled in finite *)
(* time.  Nothing forces a timeout, a kill or a new process.               *)
Fairness == /\ \A s \in Servers : WF_vars(ServerStep(s))
            /\ \A c \in Clients : WF_vars(ClientStep(c))

Spec == Init /\ [][Next]_vars /\ Fairness

----------------------------------------------------------------------------
(* Types; a server holds a connection exactly while it deals with it, and  *)
(* connections wait only at a socket that listens.                         *)
TypeOK ==
    /\ path \in Servers \cup {NoOne}
    /\ pc \in [Servers -> {"down", "check", "unlink", "bind", "listen", "accept",
                           "recv", "handle", "reply", "cleanup", "dead"}]
    /\ conn \in [Servers -> Clients \cup {NoOne}]
    /\ queue \in [Servers -> Seq(Clients)]
    /\ client \in [Clients -> {"idle", "connected", "waiting", "value", "error",
                               "nofile", "refused", "full", "raised", "gone"}]
    /\ target \in [Clients -> Servers \cup {NoOne}]
    /\ sent \in [Clients -> {"nothing", "part", "json", "line"}]
    /\ wire \in [Clients -> {"none", "value", "error", "eof"}]
    /\ executed \in Seq(Servers \X Clients)
    /\ alone \subseteq Servers
    /\ \A s \in Servers :
          /\ conn[s] # NoOne <=> pc[s] \in {"recv", "handle", "reply"}
          /\ queue[s] # <<>> => Listening(s)

(* A client that prints a value or an error prints the outcome of its own  *)
(* request, carried out by the server it is connected to: a line that      *)
(* arrives in pieces is not taken for a malformed one.                     *)
AnswerIsOwn ==
    \A c \in Clients : client[c] \in {"value", "error"} =>
        /\ \E i \in DOMAIN executed : executed[i] = <<target[c], c>>
        /\ client[c] = "error" <=> Op[c] = "bad"

(* A server that runs while no other one does owns the path: it starts     *)
(* whatever its predecessor left, and clients find it.                     *)
AloneOwnsPath ==
    \A s \in alone : /\ pc[s] = "unlink" => path # NoOne
                     /\ pc[s] = "bind" => path = NoOne
                     /\ pc[s] = "listen" \/ Listening(s) => path = s

(* No client needs its timeout: without one, every client still comes to   *)
(* an end, although it may share a single-threaded server with clients     *)
(* that are killed, that quit the server, or whose request ends it.        *)
EveryRequestEnds ==
    \A c \in Clients : Connected(c) ~> ~Connected(c)

Service == INSTANCE RequestService WITH
    status <- [c \in Clients |->
                 CASE client[c] = "idle" -> "idle"
                   [] client[c] \in {"nofile", "refused", "full"} -> "rejected"
                   [] client[c] \in {"connected", "waiting"} -> "submitted"
                   [] client[c] \in {"value", "error"} -> "answered"
                   [] client[c] \in {"raised", "gone"} -> "lost"],
    done <- [c \in Clients |-> Cardinality({i \in DOMAIN executed : executed[i][2] = c})]

(* The servers and clients together are such a service, whatever is killed *)
(* and however many servers take the path from each other.                 *)
ServiceSpec == Service!Spec
=============================================================================
