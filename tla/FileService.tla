----------------------------- MODULE FileService -----------------------------
(***************************************************************************)
(* T2: clients (client.c), the network between them and the server, and    *)
(* the server (FileServer).  A client sends one line of its input as a     *)
(* datagram and waits in recvfrom(), without a timeout, for a datagram.    *)
(* The network may lose one datagram or deliver one request twice.         *)
(***************************************************************************)
EXTENDS FileServer

CONSTANTS
  Faults,     (* The misfortunes to reckon with, each of them once ...     *)
  MaxFaults,  (* ... and so many of them in one behaviour.                 *)
  Input       (* What the lines of each client's input may ask.            *)

ASSUME FileServiceAssumption ==
  /\ Faults \subseteq {"lose", "double", "kill", "unnamed"} /\ MaxFaults \in Nat
  /\ Input \in [Clients -> SUBSET Commands]

VARIABLES
  status,   (* What each client does: reads its next line, waits for a     *)
            (* reply, or has ended.                                        *)
  asked,    (* The requests a client waits for the answer of: 0 or 1.      *)
  late      (* The second copy of a request that was delivered twice.      *)

clientVars == <<status, asked>>
vars == <<serverVars, clientVars, late>>

TypeOK ==
  /\ ServerTypeOK
  /\ status \in [Clients -> {"typing", "waiting", "gone"}]
  /\ asked \in [Clients -> SUBSET Request]
  /\ \A c \in Clients : Cardinality(asked[c]) = (IF status[c] = "waiting" THEN 1 ELSE 0)
  /\ late \subseteq Request /\ Cardinality(late) <= 1

Init ==
  /\ ServerInit
  /\ status = [c \in Clients |-> "typing"]
  /\ asked = [c \in Clients |-> {}]
  /\ late = {}

May(fault) == fault \in Faults \ hit /\ Cardinality(hit \cap Faults) < MaxFaults

-----------------------------------------------------------------------------

\* fgets() and sendto(); a last line need not end with a newline, which
\* makes a difference to DR-REQ only.
Send(c) ==
  /\ status[c] = "typing"
  /\ \E cmd \in Input[c], newline \in BOOLEAN :
       LET m == Ask(c, cmd, newline) IN
       /\ newline \/ cmd.op = "DR"
       /\ inbox' = Append(inbox, m)
       /\ asked' = [asked EXCEPT ![c] = {m}]
  /\ status' = [status EXCEPT ![c] = "waiting"]
  /\ UNCHANGED <<diskVars, outbox, at, job, fd, cursor, free, hit, late>>

\* Mutant of Receive: recvfrom() has a timeout.
Receive_TimesOut(c) ==
  /\ status[c] = "waiting"
  /\ \/ \E reply \in outbox : reply.re.from = c /\ outbox' = outbox \ {reply}
     \/ UNCHANGED outbox
  /\ status' = [status EXCEPT ![c] =
                  IF \E m \in asked[c] : m.newline THEN "typing" ELSE "gone"]
  /\ asked' = [asked EXCEPT ![c] = {}]
  /\ UNCHANGED <<diskVars, inbox, at, job, fd, cursor, free, hit, late>>

\* recvfrom(): any reply; after a line without a newline there is no other.
Receive(c) ==
  /\ status[c] = "waiting"
  /\ \E reply \in outbox : reply.re.from = c /\ outbox' = outbox \ {reply}
  /\ status' = [status EXCEPT ![c] =
                  IF \E m \in asked[c] : m.newline THEN "typing" ELSE "gone"]
  /\ asked' = [asked EXCEPT ![c] = {}]
  /\ UNCHANGED <<diskVars, inbox, at, job, fd, cursor, free, hit, late>>

\* fgets() finds the end of the input.
Leave(c) ==
  /\ status[c] = "typing"
  /\ status' = [status EXCEPT ![c] = "gone"]
  /\ UNCHANGED <<serverVars, asked, late>>

\* The network's part.
LoseRequest ==
  /\ May("lose")
  /\ \E i \in DOMAIN inbox : inbox' = RemoveAt(inbox, i)
  /\ hit' = hit \cup {"lose"}
  /\ UNCHANGED <<diskVars, outbox, at, job, fd, cursor, free, clientVars, late>>

LoseReply ==
  /\ May("lose")
  /\ \E reply \in outbox : outbox' = outbox \ {reply}
  /\ hit' = hit \cup {"lose"}
  /\ UNCHANGED <<diskVars, inbox, at, job, fd, cursor, free, clientVars, late>>

Double ==
  /\ May("double")
  /\ \E m \in Range(inbox) : late' = {m}
  /\ hit' = hit \cup {"double"}
  /\ UNCHANGED <<diskVars, inbox, outbox, at, job, fd, cursor, free, clientVars>>

DeliverLate ==
  /\ \E m \in late : inbox' = Append(inbox, m)
  /\ late' = {}
  /\ UNCHANGED <<diskVars, outbox, at, job, fd, cursor, free, hit, clientVars>>

Stop == May("kill") /\ Kill

\* A client's address has no name, or the name service does not answer; with
\* no descriptor left it depends on the resolver whether it needs one.
NoName == (May("unnamed") \/ free = 0) /\ LookupFails

Next ==
  \/ (Serve \/ NoName \/ Stop \/ Start) /\ UNCHANGED <<clientVars, late>>
  \/ \E c \in Clients : Send(c) \/ Receive(c) \/ Leave(c)
  \/ LoseRequest \/ LoseReply \/ Double \/ DeliverLate

Spec == Init /\ [][Next]_vars

-----------------------------------------------------------------------------

\* While no request was delivered twice, a reply on its way is the answer to
\* what its client waits for.  Neither side numbers its datagrams: it is so
\* only because a client never sends again before it has an answer.
AnswersMatch ==
  "double" \notin hit =>
    \A reply \in outbox : reply.re \in asked[reply.re.from]

\* What a client waits for is in the server's socket, being served or
\* answered.
Remembered ==
  \A c \in Clients : \A m \in asked[c] :
    m \in Range(inbox) \cup job \cup {reply.re : reply \in outbox}

\* Nobody's request is forgotten, for the client has no timeout: once the name
\* of its client was found, every path of a request through runCommand() and
\* what that calls comes back to the one sendto(), whatever is refused, fails
\* or finds no descriptor.  A client waits in vain only after a datagram was
\* lost, the server was killed, it used memory that nobody had set, or it
\* exited because gethostbyaddr() found no name (server.c:323).
NothingForgotten ==
  hit \cap {"lose", "kill", "undefined", "unnamed"} = {} => Remembered
==============================================================================
