------------------------- MODULE FileServiceProofs --------------------------
(***************************************************************************)
(* The file server and its clients, for any clients, commands, number of   *)
(* descriptors, faults and inputs.  First part: no request is forgotten    *)
(* and no answer goes to the wrong request.  Second part: the disk, whose  *)
(* every object keeps its owner and its protection.                        *)
(***************************************************************************)
EXTENDS FileService, SequenceTheorems, WellFoundedInduction, FiniteSetTheorems, TLAPS

\* Where a request may be between the client's sendto() and its recvfrom().
Pending == Range(inbox) \cup job \cup {reply.re : reply \in outbox}

(***************************************************************************)
(* What NothingForgotten needs to be inductive: the server serves at most  *)
(* one request, and none while it waits in recvfrom(), so that no step     *)
(* drops one; and a client waits for requests of its own only, so that the *)
(* reply it takes away is nobody else's.                                   *)
(***************************************************************************)
OneJob ==
  /\ inbox \in Seq(Request)
  /\ \A m, n \in job : m = n
  /\ at \in {"idle", "dead"} => job = {}

\* Each client has at most one datagram on its way, whichever way it goes.
Apart ==
  /\ \A i, j \in DOMAIN inbox : i # j => inbox[i].from # inbox[j].from
  /\ \A i \in DOMAIN inbox : \A n \in job : inbox[i].from # n.from
  /\ \A i \in DOMAIN inbox : \A reply \in outbox : inbox[i].from # reply.re.from
  /\ \A m \in job : \A reply \in outbox : m.from # reply.re.from
  /\ \A r1, r2 \in outbox : r1 # r2 => r1.re.from # r2.re.from

OwnRequests ==
  /\ status \in [Clients -> {"typing", "waiting", "gone"}]
  /\ asked \in [Clients -> SUBSET Request]
  /\ \A c \in Clients : \A m \in asked[c] : m.from = c
  /\ late \subseteq Request

(***************************************************************************)
(* What AnswersMatch needs besides: as long as nothing was doubled, what   *)
(* is on its way is what its client waits for, and there is one of it, so  *)
(* that nothing is left behind by an answer.                               *)
(***************************************************************************)
Matched ==
  /\ \A c \in Clients : status[c] = "typing" => asked[c] = {}
  /\ "double" \notin hit =>
       /\ late = {}
       /\ Apart
       /\ \A m \in Pending : m.from \in Clients /\ m \in asked[m.from]

IInv == OneJob /\ OwnRequests /\ NothingForgotten /\ Matched

\* What a step of the server keeps.
Kept ==
  /\ OneJob'
  /\ hit \subseteq hit'
  /\ hit' \cap {"kill", "undefined", "unnamed"} = {} => Pending \subseteq Pending'
  /\ Pending' \subseteq Pending
  /\ Apart => Apart'

\* The server's next request is m, whatever becomes of it.
Taken(m) ==
  /\ at = "idle" /\ inbox # <<>> /\ m = Head(inbox)
  /\ inbox' = Tail(inbox)
  /\ hit \subseteq hit'

-----------------------------------------------------------------------------

LEMMA RangeTail ==
  ASSUME NEW S, NEW s \in Seq(S), s # <<>>
  PROVE  /\ Tail(s) \in Seq(S)
         /\ Range(s) = {Head(s)} \cup Range(Tail(s))
<1>1. /\ Head(s) = s[1] /\ Len(s) \in Nat \ {0} /\ DOMAIN s = 1 .. Len(s)
      /\ Tail(s) \in Seq(S) /\ DOMAIN Tail(s) = 1 .. Len(s) - 1
      /\ \A i \in 1 .. Len(s) - 1 : Tail(s)[i] = s[i + 1]
  BY HeadTailProperties, LenProperties
<1>2. \A i \in 1 .. Len(s) : i = 1 \/ (i - 1 \in 1 .. Len(s) - 1 /\ i = (i - 1) + 1)
  BY <1>1
<1>3. \A i \in 1 .. Len(s) : s[i] = Head(s) \/ \E j \in DOMAIN Tail(s) : Tail(s)[j] = s[i]
  BY <1>1, <1>2
<1>4. Range(s) \subseteq {Head(s)} \cup Range(Tail(s))
  BY <1>1, <1>3 DEF Range
<1>5. {Head(s)} \cup Range(Tail(s)) \subseteq Range(s)
  BY <1>1 DEF Range
<1> QED  BY <1>1, <1>4, <1>5

LEMMA RangeAppend ==
  ASSUME NEW S, NEW s \in Seq(S), NEW e \in S
  PROVE  /\ Append(s, e) \in Seq(S)
         /\ Range(Append(s, e)) = Range(s) \cup {e}
<1>1. /\ Append(s, e) \in Seq(S) /\ DOMAIN s = 1 .. Len(s) /\ Len(s) \in Nat
      /\ Len(Append(s, e)) = Len(s) + 1
      /\ \A i \in 1 .. Len(s) : Append(s, e)[i] = s[i]
      /\ Append(s, e)[Len(s) + 1] = e
  BY AppendProperties, LenProperties
<1>2. DOMAIN Append(s, e) = 1 .. Len(s) + 1
  BY <1>1, LenProperties
<1>3. 1 .. Len(s) + 1 = (1 .. Len(s)) \cup {Len(s) + 1}
  BY <1>1
<1> QED  BY <1>1, <1>2, <1>3 DEF Range

LEMMA RemoveAtProperties ==
  ASSUME NEW S, NEW s \in Seq(S), NEW i \in DOMAIN s
  PROVE  /\ RemoveAt(s, i) \in Seq(S)
         /\ DOMAIN RemoveAt(s, i) = 1 .. Len(s) - 1
         /\ \A j \in 1 .. Len(s) - 1 : RemoveAt(s, i)[j] = s[IF j < i THEN j ELSE j + 1]
<1> DEFINE front == SubSeq(s, 1, i - 1)
           back == SubSeq(s, i + 1, Len(s))
<1>1. i \in 1 .. Len(s) /\ Len(s) \in Nat
  BY LenProperties
<1>2. /\ front \in Seq(S) /\ Len(front) = i - 1
      /\ \A j \in 1 .. i - 1 : front[j] = s[j]
  BY <1>1, SubSeqProperties
<1>3. /\ back \in Seq(S) /\ Len(back) = Len(s) - i
      /\ \A j \in 1 .. Len(s) - i : back[j] = s[i + j]
  BY <1>1, SubSeqProperties
<1> HIDE DEF front, back
<1>4. /\ front \o back \in Seq(S) /\ Len(front \o back) = Len(s) - 1
      /\ \A j \in 1 .. Len(s) - 1 :
           (front \o back)[j] = IF j <= i - 1 THEN front[j] ELSE back[j - (i - 1)]
  <2>1. Len(front) + Len(back) = Len(s) - 1
    BY <1>1, <1>2, <1>3
  <2>2. /\ front \o back \in Seq(S) /\ Len(front \o back) = Len(front) + Len(back)
        /\ \A j \in 1 .. Len(front) + Len(back) :
             (front \o back)[j] = IF j <= Len(front) THEN front[j] ELSE back[j - Len(front)]
    BY <1>2, <1>3, ConcatProperties
  <2> QED  BY <1>2, <2>1, <2>2
<1>5. ASSUME NEW j \in 1 .. Len(s) - 1
      PROVE  (front \o back)[j] = s[IF j < i THEN j ELSE j + 1]
  <2>1. CASE j < i
    BY <1>1, <1>2, <1>4, <2>1
  <2>2. CASE ~(j < i)
    <3> DEFINE k == j - (i - 1)
    <3>1. k \in 1 .. Len(s) - i /\ i + k = j + 1 /\ ~(j <= i - 1)
      BY <1>1, <2>2
    <3>2. (front \o back)[j] = back[k]
      BY <1>4, <3>1
    <3> HIDE DEF k
    <3>3. back[k] = s[i + k]
      BY <1>3, <3>1
    <3> QED  BY <2>2, <3>1, <3>2, <3>3
  <2> QED  BY <2>1, <2>2
<1>6. RemoveAt(s, i) = front \o back
  BY DEF RemoveAt, front, back
<1> QED  BY <1>4, <1>5, <1>6, LenProperties

\* Once it is answered a request is in its reply.
LEMMA Answered ==
  ASSUME NEW m, NEW s, NEW echo, Answer(m, s, echo)
  PROVE  \E r : r.re = m /\ outbox' = outbox \cup {r}
<1> DEFINE r == [re |-> m, status |-> s, echo |-> echo]
<1>1. outbox' = outbox \cup {r} /\ r.re = m
  BY DEF Answer
<1> HIDE DEF r
<1> QED  BY <1>1

-----------------------------------------------------------------------------
(* The four shapes of a step of the server.                                *)

LEMMA TakenTail ==
  ASSUME OneJob, NEW m, Taken(m)
  PROVE  /\ inbox' \in Seq(Request) /\ Range(inbox) = {m} \cup Range(inbox')
         /\ 1 \in DOMAIN inbox /\ inbox[1] = m
         /\ \A i \in DOMAIN inbox' : /\ i + 1 \in DOMAIN inbox /\ i + 1 # 1
                                     /\ inbox'[i] = inbox[i + 1]
         /\ DOMAIN inbox' \subseteq Nat
         /\ job = {}
<1>1. inbox \in Seq(Request) /\ inbox # <<>> /\ inbox' = Tail(inbox) /\ m = Head(inbox) /\ job = {}
  BY DEF OneJob, Taken
<1>2. inbox' \in Seq(Request) /\ Range(inbox) = {m} \cup Range(inbox')
  BY <1>1, RangeTail
<1>3. /\ Len(inbox) \in Nat \ {0} /\ DOMAIN inbox = 1 .. Len(inbox)
      /\ m = inbox[1] /\ DOMAIN inbox' = 1 .. Len(inbox) - 1
      /\ \A i \in 1 .. Len(inbox) - 1 : inbox'[i] = inbox[i + 1]
  BY <1>1, HeadTailProperties, LenProperties
<1> QED  BY <1>1, <1>2, <1>3

LEMMA TakeAnswer ==
  ASSUME OneJob, NEW m, Taken(m), NEW s, NEW echo, Answer(m, s, echo)
  PROVE  Kept
<1>1. PICK r : r.re = m /\ outbox' = outbox \cup {r}
  BY Answered
<1>2. job' = {} /\ hit \subseteq hit'
  BY DEF Taken, Answer
<1>3. OneJob' /\ Pending' = Pending
  BY <1>1, <1>2, TakenTail DEF OneJob, Pending
<1>4. ASSUME Apart PROVE Apart'
  BY <1>1, <1>2, <1>4, TakenTail DEF Apart
<1> QED  BY <1>2, <1>3, <1>4 DEF Kept

LEMMA TakeContinue ==
  ASSUME OneJob, NEW m, Taken(m),
         NEW label, Continue(m, label), label \notin {"idle", "dead"}, outbox' = outbox
  PROVE  Kept
<1>1. job' = {m} /\ at' = label /\ hit \subseteq hit'
  BY DEF Taken, Continue
<1>2. OneJob' /\ Pending' = Pending
  BY <1>1, TakenTail DEF OneJob, Pending
<1>3. ASSUME Apart PROVE Apart'
  BY <1>1, <1>3, TakenTail DEF Apart
<1> QED  BY <1>1, <1>2, <1>3 DEF Kept

LEMMA JobAnswer ==
  ASSUME OneJob, NEW m \in job, NEW s, NEW echo, Answer(m, s, echo),
         inbox' = inbox, hit' = hit
  PROVE  Kept
<1>1. PICK r : r.re = m /\ outbox' = outbox \cup {r}
  BY Answered
<1>2. job = {m} /\ job' = {}
  BY DEF OneJob, Answer
<1>3. OneJob' /\ Pending' = Pending
  BY <1>1, <1>2 DEF OneJob, Pending
<1>4. ASSUME Apart PROVE Apart'
  BY <1>1, <1>2, <1>4 DEF Apart
<1> QED  BY <1>3, <1>4 DEF Kept

LEMMA JobContinue ==
  ASSUME OneJob, NEW m \in job, job' = {m}, at' \notin {"idle", "dead"},
         inbox' = inbox, outbox' = outbox, hit' = hit
  PROVE  Kept
<1>1. job' = job
  BY DEF OneJob
<1> QED  BY <1>1 DEF Kept, OneJob, Pending, Apart

-----------------------------------------------------------------------------
(* The steps of the server, one by one.                                    *)

\* A step that takes a request from the socket.
LEMMA TakenKept ==
  ASSUME OneJob, NEW m,
         \/ Unknown(m) \/ FileRead(m) \/ FileInfo(m) \/ DirList(m)
         \/ WriteRefused(m) \/ WriteCreates(m) \/ WriteOpens(m) \/ WriteOpensUnsigned(m)
         \/ DirCreate(m) \/ DirRemove(m)
  PROVE  Kept
<1>0. ASSUME NEW op, Take(m, op)
      PROVE  Taken(m)
  BY <1>0 DEF Take, Taken
<1>1. ASSUME NEW op, NEW s, NEW echo, JustAnswer(m, op, s, echo)
      PROVE  Kept
  BY <1>0, <1>1, TakeAnswer DEF JustAnswer
<1>2. CASE Unknown(m)
  BY <1>1, <1>2 DEF Unknown
<1>3. CASE FileRead(m)
  BY <1>1, <1>3 DEF FileRead
<1>4. CASE FileInfo(m)
  BY <1>1, <1>4 DEF FileInfo
<1>5. CASE DirList(m)
  BY <1>1, <1>5 DEF DirList
<1>6. CASE WriteRefused(m)
  BY <1>0, <1>6, TakeAnswer DEF WriteRefused
<1>7. CASE WriteCreates(m)
  <2> DEFINE label == IF fd' /\ free > 1 THEN "dot" ELSE "apply"
  <2>1. Take(m, "WR") /\ Continue(m, label) /\ outbox' = outbox
    BY <1>7 DEF WriteCreates
  <2>2. label \notin {"idle", "dead"}
    OBVIOUS
  <2> HIDE DEF label
  <2> QED  BY <1>0, <2>1, <2>2, TakeContinue
<1>8. CASE WriteOpens(m)
  <2>1. CASE FileRefuses(m)
    BY <1>0, <1>8, <2>1, TakeAnswer DEF WriteOpens
  <2>2. CASE ~FileRefuses(m)
    BY <1>0, <1>8, <2>2, TakeContinue DEF WriteOpens
  <2> QED  BY <2>1, <2>2
<1>9. CASE WriteOpensUnsigned(m)
  <2>1. at = "idle" /\ inbox # <<>> /\ m = Head(inbox) /\ hit \subseteq hit' /\ "undefined" \in hit'
    BY <1>9 DEF WriteOpensUnsigned
  <2>2. CASE inbox' = Tail(inbox) /\ Answer(m, "refused", 0)
    BY <2>1, <2>2, TakeAnswer DEF Taken
  <2>3. CASE inbox' = Tail(inbox) /\ Continue(m, "apply") /\ outbox' = outbox
    BY <2>1, <2>3, TakeContinue DEF Taken
  <2>4. CASE inbox' = <<>> /\ at' = "dead" /\ UNCHANGED <<outbox, job>>
    BY <2>1, <2>4 DEF Kept, OneJob, Pending, Apart, Range
  <2> QED  BY <1>9, <2>2, <2>3, <2>4 DEF WriteOpensUnsigned
<1>10. CASE DirCreate(m)
  <2>1. CASE Exists(m.cmd.path) \/ Front(m.cmd.path) \notin dirs
    BY <1>0, <1>10, <2>1, TakeAnswer DEF DirCreate
  <2>2. CASE ~(Exists(m.cmd.path) \/ Front(m.cmd.path) \notin dirs)
    BY <1>0, <1>10, <2>2, TakeContinue DEF DirCreate
  <2> QED  BY <2>1, <2>2
<1>11. CASE DirRemove(m)
  <2>1. CASE Owns(m)
    BY <1>0, <1>11, <2>1, TakeContinue DEF DirRemove
  <2>2. CASE ~Owns(m)
    BY <1>0, <1>11, <2>2, TakeAnswer DEF DirRemove
  <2> QED  BY <2>1, <2>2
<1> QED  BY <1>2, <1>3, <1>4, <1>5, <1>6, <1>7, <1>8, <1>9, <1>10, <1>11

\* A step in the middle of a request.
LEMMA JobKept ==
  ASSUME OneJob, NEW m \in job,
         \/ WriteDot(m) \/ WriteSign(m) \/ WriteRemove(m) \/ WriteUndot(m) \/ WriteBytes(m)
         \/ DirMark(m) \/ DirMarkSign(m)
         \/ DeleteEnter(m) \/ DeleteEntry(m) \/ DeleteDirectory(m)
  PROVE  Kept
<1>1. job = {m}
  BY DEF OneJob
<1>2. CASE WriteDot(m)
  BY <1>2, JobContinue DEF WriteDot, Continue
<1>3. CASE WriteSign(m)
  BY <1>3, JobContinue DEF WriteSign, Continue
<1>4. CASE WriteRemove(m)
  BY <1>4, JobContinue DEF WriteRemove, Continue
<1>5. CASE WriteUndot(m)
  BY <1>5, JobAnswer DEF WriteUndot
<1>6. CASE WriteBytes(m)
  <2>1. inbox' = inbox /\ hit' = hit
    BY <1>6 DEF WriteBytes
  <2>2. Answer(m, "ok", m.cmd.size) \/ Answer(m, "error", 0)
    BY <1>6 DEF WriteBytes
  <2> QED  BY <2>1, <2>2, JobAnswer
<1>7. CASE DirMark(m)
  <2>1. CASE free > 0
    BY <1>7, <2>1, JobContinue DEF DirMark, Continue
  <2>2. CASE ~(free > 0)
    BY <1>7, <2>2, JobAnswer DEF DirMark
  <2> QED  BY <2>1, <2>2
<1>8. CASE DirMarkSign(m)
  BY <1>8, JobAnswer DEF DirMarkSign
<1>9. CASE DeleteEnter(m)
  BY <1>1, <1>9, JobContinue DEF DeleteEnter
<1>10. CASE DeleteEntry(m)
  BY <1>1, <1>10, JobContinue DEF DeleteEntry
<1>11. CASE DeleteDirectory(m)
  <2>1. CASE cursor = m.cmd.path
    BY <1>11, <2>1, JobAnswer DEF DeleteDirectory
  <2>2. CASE cursor # m.cmd.path
    BY <1>1, <1>11, <2>2, JobContinue DEF DeleteDirectory
  <2> QED  BY <2>1, <2>2
<1> QED  BY <1>2, <1>3, <1>4, <1>5, <1>6, <1>7, <1>8, <1>9, <1>10, <1>11

LEMMA ServerKept ==
  ASSUME OneJob, Serve \/ NoName \/ Stop \/ Start
  PROVE  Kept
<1>1. CASE Serve
  BY <1>1, TakenKept, JobKept DEF Serve
<1>2. CASE Stop
  BY <1>2 DEF Stop, Kill, Kept, OneJob, Pending, Apart, Range
<1>3. CASE Start
  BY <1>3 DEF Start, Kept, OneJob, Pending, Apart
<1>4. CASE NoName
  BY <1>4 DEF NoName, LookupFails, Kept, OneJob, Pending, Apart, Range
<1> QED  BY <1>1, <1>2, <1>3, <1>4

-----------------------------------------------------------------------------

LEMMA InitInv == Init => IInv
BY DEF Init, ServerInit, IInv, OneJob, OwnRequests, NothingForgotten, Remembered, Matched, Apart, Pending, Range

\* A step that puts nothing new on its way, nor asks for anything.
LEMMA NothingNew ==
  ASSUME Matched, UNCHANGED <<clientVars, late>>,
         hit \subseteq hit', Pending' \subseteq Pending, Apart => Apart'
  PROVE  Matched'
BY DEF Matched, clientVars

LEMMA ServerInv ==
  ASSUME IInv, Serve \/ NoName \/ Stop \/ Start, UNCHANGED <<clientVars, late>>
  PROVE  IInv'
<1> USE DEF IInv
<1>1. Kept
  BY ServerKept
<1>2. OwnRequests'
  BY DEF OwnRequests, clientVars
<1>3. NothingForgotten'
  BY <1>1 DEF Kept, clientVars, NothingForgotten, Remembered, Pending
<1>4. Matched'
  BY <1>1, NothingNew DEF Kept
<1> QED  BY <1>1, <1>2, <1>3, <1>4 DEF Kept

LEMMA SendInv ==
  ASSUME IInv, NEW c \in Clients, Send(c)
  PROVE  IInv'
<1> USE DEF IInv
<1>1. PICK m \in Request : /\ inbox' = Append(inbox, m)
                           /\ asked' = [asked EXCEPT ![c] = {m}]
                           /\ m.from = c
  <2>1. PICK cmd \in Input[c], newline \in BOOLEAN :
          /\ inbox' = Append(inbox, Ask(c, cmd, newline))
          /\ asked' = [asked EXCEPT ![c] = {Ask(c, cmd, newline)}]
    BY DEF Send
  <2>2. Ask(c, cmd, newline) \in Request
    BY FileServiceAssumption DEF Request
  <2>3. Ask(c, cmd, newline).from = c
    BY DEF Ask
  <2> QED  BY <2>1, <2>2, <2>3
<1>2. /\ status[c] = "typing" /\ status' = [status EXCEPT ![c] = "waiting"]
      /\ UNCHANGED <<outbox, at, job, hit, late>>
  BY DEF Send
<1>3. inbox' \in Seq(Request) /\ Pending' = Pending \cup {m}
  BY <1>1, <1>2, RangeAppend DEF OneJob, Pending
<1>4. OneJob' /\ OwnRequests'
  BY <1>1, <1>2, <1>3 DEF OneJob, OwnRequests
<1>5. NothingForgotten'
  BY <1>1, <1>2, <1>3 DEF OwnRequests, NothingForgotten, Remembered, Pending
<1>6. ASSUME "double" \notin hit
      PROVE  Apart' /\ \A n \in Pending' : n.from \in Clients /\ n \in asked'[n.from]
  <2>1. \A n \in Pending : n.from \in Clients /\ n \in asked[n.from] /\ n.from # c
    BY <1>2, <1>6 DEF Matched
  <2>2. /\ DOMAIN inbox' = DOMAIN inbox \cup {Len(inbox) + 1}
        /\ \A i \in DOMAIN inbox : inbox'[i] = inbox[i] /\ inbox[i] \in Pending
        /\ inbox'[Len(inbox) + 1] = m
    BY <1>1, AppendProperties DEF OneJob, Pending, Range
  <2>3. \A reply \in outbox : reply.re \in Pending
    BY DEF Pending
  <2>4. \A n \in job : n \in Pending
    BY DEF Pending
  <2>5. Apart'
    BY <1>1, <1>2, <1>6, <2>1, <2>2, <2>3, <2>4 DEF Matched, Apart
  <2>6. \A n \in Pending' : n.from \in Clients /\ n \in asked'[n.from]
    BY <1>1, <1>3, <2>1 DEF OwnRequests
  <2> QED  BY <2>5, <2>6
<1>7. Matched'
  BY <1>1, <1>2, <1>6 DEF OwnRequests, Matched
<1> QED  BY <1>4, <1>5, <1>7

LEMMA ReceiveInv ==
  ASSUME IInv, NEW c \in Clients, Receive(c)
  PROVE  IInv'
<1> USE DEF IInv
<1>1. PICK reply \in outbox : reply.re.from = c /\ outbox' = outbox \ {reply}
  BY DEF Receive
<1>2. /\ status' \in [Clients -> {"typing", "waiting", "gone"}]
      /\ \A d \in Clients : d # c => status'[d] = status[d]
      /\ asked' = [asked EXCEPT ![c] = {}]
      /\ UNCHANGED <<inbox, at, job, hit, late>>
  BY DEF Receive, OwnRequests
<1>3. OneJob' /\ OwnRequests'
  BY <1>2 DEF OneJob, OwnRequests
<1>4. ASSUME NEW d \in Clients, NEW m \in asked'[d]
      PROVE  m \in asked[d] /\ (m \in Pending => m \in Pending')
  <2>1. d # c /\ m \in asked[d] /\ m.from = d
    BY <1>2, <1>4 DEF OwnRequests
  <2>2. m # reply.re
    BY <1>1, <2>1
  <2> QED  BY <1>1, <1>2, <2>1, <2>2 DEF Pending
<1>5. NothingForgotten'
  BY <1>2, <1>4 DEF NothingForgotten, Remembered, Pending
<1>6. ASSUME "double" \notin hit
      PROVE  Apart' /\ \A n \in Pending' : n.from \in Clients /\ n \in asked'[n.from]
  <2>1. Apart
    BY <1>6 DEF Matched
  <2>2. Apart'
    BY <1>1, <1>2, <2>1 DEF Apart
  <2>3. \A n \in Pending' : n \in Pending /\ n.from # c
    BY <1>1, <1>2, <2>1 DEF Apart, Pending, Range
  <2> QED  BY <1>2, <1>6, <2>2, <2>3 DEF Matched, OwnRequests
<1>7. Matched'
  BY <1>2, <1>6 DEF Matched, OwnRequests
<1> QED  BY <1>3, <1>5, <1>7

LEMMA LoseRequestInv ==
  ASSUME IInv, LoseRequest
  PROVE  IInv'
<1> USE DEF IInv
<1>1. PICK i \in DOMAIN inbox : inbox' = RemoveAt(inbox, i)
  BY DEF LoseRequest
<1>2. UNCHANGED <<job, at, outbox, clientVars, late>> /\ hit' = hit \cup {"lose"}
  BY DEF LoseRequest
<1> DEFINE old(j) == IF j < i THEN j ELSE j + 1
<1>3. /\ inbox' \in Seq(Request)
      /\ \A j \in DOMAIN inbox' : inbox'[j] = inbox[old(j)]
      /\ DOMAIN inbox' = 1 .. Len(inbox) - 1
      /\ DOMAIN inbox = 1 .. Len(inbox) /\ Len(inbox) \in Nat
  BY <1>1, RemoveAtProperties, LenProperties DEF OneJob
<1>4. \A j \in DOMAIN inbox' : old(j) \in DOMAIN inbox
  BY <1>1, <1>3
<1>5. \A j, k \in DOMAIN inbox' : j # k => old(j) # old(k)
  BY <1>1, <1>3
<1> HIDE DEF old
<1>6. Pending' \subseteq Pending
  BY <1>2, <1>3, <1>4 DEF Pending, Range
<1>7. ASSUME Apart PROVE Apart'
  <2>1. UNCHANGED <<job, outbox>>
    BY <1>2
  <2>2. \A j \in DOMAIN inbox' : old(j) \in DOMAIN inbox /\ inbox'[j] = inbox[old(j)]
    BY <1>3, <1>4
  <2> QED  BY <1>5, <1>7, <2>1, <2>2 DEF Apart
<1>8. Matched'
  BY <1>2, <1>6, <1>7, NothingNew
<1> QED  BY <1>2, <1>3, <1>8 DEF OneJob, OwnRequests, NothingForgotten, Remembered, clientVars

LEMMA DeliverLateInv ==
  ASSUME IInv, DeliverLate
  PROVE  IInv'
<1> USE DEF IInv
<1>1. PICK m \in Request : m \in late /\ inbox' = Append(inbox, m)
  BY DEF DeliverLate, OwnRequests
<1>2. late' = {} /\ UNCHANGED <<outbox, at, job, hit, status, asked>>
  BY DEF DeliverLate, clientVars
<1>3. OneJob' /\ Range(inbox) \subseteq Range(inbox')
  BY <1>1, <1>2, RangeAppend DEF OneJob
<1>4. OwnRequests' /\ NothingForgotten'
  BY <1>2, <1>3 DEF OwnRequests, NothingForgotten, Remembered
<1>5. Matched'
  BY <1>1, <1>2 DEF Matched
<1> QED  BY <1>3, <1>4, <1>5

LEMMA NextInv == IInv /\ [Next]_vars => IInv'
<1> SUFFICES ASSUME IInv, [Next]_vars PROVE IInv'
  OBVIOUS
<1> USE DEF IInv
<1>1. CASE (Serve \/ NoName \/ Stop \/ Start) /\ UNCHANGED <<clientVars, late>>
  BY <1>1, ServerInv
<1>2. CASE \E c \in Clients : Send(c) \/ Receive(c)
  BY <1>2, SendInv, ReceiveInv
<1>3. CASE \E c \in Clients : Leave(c)
  BY <1>3 DEF Leave, serverVars, OneJob, OwnRequests, NothingForgotten, Remembered, Matched, Apart, Pending
<1>4. CASE LoseRequest
  BY <1>4, LoseRequestInv
<1>5. CASE LoseReply
  <2>1. /\ outbox' \subseteq outbox /\ hit' = hit \cup {"lose"}
        /\ UNCHANGED <<inbox, job, at, clientVars, late>>
    BY <1>5 DEF LoseReply
  <2>2. Matched'
    <3>1. Pending' \subseteq Pending /\ (Apart => Apart')
      BY <2>1 DEF Pending, Apart
    <3> QED  BY <2>1, <3>1, NothingNew
  <2> QED  BY <2>1, <2>2 DEF OneJob, OwnRequests, NothingForgotten, Remembered, clientVars
<1>6. CASE Double
  <2>1. /\ UNCHANGED <<inbox, outbox, job, at, status, asked>>
        /\ hit' = hit \cup {"double"} /\ late' \subseteq Range(inbox)
    BY <1>6 DEF Double, clientVars
  <2>2. Range(inbox) \subseteq Request
    BY DEF OneJob, Range
  <2> QED  BY <2>1, <2>2 DEF OneJob, OwnRequests, NothingForgotten, Remembered, Matched
<1>7. CASE DeliverLate
  BY <1>7, DeliverLateInv
<1>8. CASE UNCHANGED vars
  BY <1>8 DEF vars, serverVars, clientVars, OneJob, OwnRequests, NothingForgotten, Remembered, Matched, Apart, Pending
<1> QED  BY <1>1, <1>2, <1>3, <1>4, <1>5, <1>6, <1>7, <1>8 DEF Next

\* NothingForgotten, and with it the server's side: a request whose client has
\* a name is kept until the answer is sent, on every path through runCommand()
\* and what it calls.  What the server takes and drops, or never sees, it does
\* because of one of the four misfortunes that NothingForgotten names.
THEOREM NoRequestForgotten == Spec => []NothingForgotten
<1>1. IInv => NothingForgotten
  BY DEF IInv
<1> QED  BY InitInv, NextInv, <1>1, PTL DEF Spec

\* AnswersMatch: no message carries a number, but a reply is the answer to
\* the request its client sent last.
THEOREM AnswersAreMatched == Spec => []AnswersMatch
<1>1. IInv => AnswersMatch
  BY DEF IInv, Matched, AnswersMatch, Pending
<1> QED  BY InitInv, NextInv, <1>1, PTL DEF Spec

-----------------------------------------------------------------------------
(***************************************************************************)
(* The disk.  Every object has its directory, and what the server is in    *)
(* the middle of says what is missing on the disk.                         *)
(***************************************************************************)
DiskType ==
  /\ Root \in dirs /\ dirs \subseteq Paths \cup {Root}
  /\ DOMAIN data \subseteq Paths /\ \A p \in DOMAIN data : data[p] \in Seq(Clients)
  /\ DOMAIN dot \subseteq Paths /\ \A p \in DOMAIN dot : dot[p] \in Signature
  /\ DOMAIN mark \subseteq Paths /\ \A p \in DOMAIN mark : mark[p] \in Signature
  /\ DOMAIN data \cap dirs = {} /\ DOMAIN mark \subseteq dirs

Tree == \A p \in dirs \cup DOMAIN data \cup DOMAIN dot : p = Root \/ Front(p) \in dirs

Control ==
  /\ at \in Label /\ outbox \subseteq Reply
  /\ job \subseteq Request /\ (at \notin {"idle", "dead"} => job # {})
  /\ fd \in BOOLEAN /\ cursor \in dirs /\ (at # "delete" => cursor = Root)
  /\ free \in 0 .. Descriptors /\ (fd => free > 0)
  /\ at \notin {"idle", "dead"} /\ free < 2 => "starve" \in hit
  /\ hit \subseteq Misfortune

\* p is q or a directory above it.
Above(p, q) == Len(p) <= Len(q) /\ \A i \in 1 .. Len(p) : q[i] = p[i]

\* The directory lets m's client write in it.
LetsWrite(m) ==
  LET d == Front(m.cmd.path) IN
  d \in DOMAIN mark /\ mark[d] # <<>> /\ mark[d][2] = "R" => mark[d][1] = m.from

\* The file lets m's client write it.
LetsOverwrite(m) ==
  LET p == m.cmd.path IN
  p \in DOMAIN dot /\ dot[p] # <<>> /\ dot[p][2] = "R" => dot[p][1] = m.from

\* What is so about the request that is being served.
Serving ==
  \A m \in job : LET p == m.cmd.path IN
    /\ at \in {"dot", "sign"} => p \in DOMAIN data /\ data[p] = <<>> /\ LetsWrite(m)
    /\ at = "apply" /\ fd => p \in DOMAIN data /\ ("starve" \notin hit => LetsOverwrite(m))
    /\ at \in {"mark", "marksign"} => p \in dirs /\ Children(DOMAIN data \cup DOMAIN dot, p) = {}
    /\ at = "marksign" => p \in DOMAIN mark
    /\ at = "delete" => Above(p, cursor)

\* ProtectedDirectories, with the ".name" files whose file is gone.
DirectoriesHold ==
  \A d \in DOMAIN mark : \A p \in Children(DOMAIN dot, d) :
    mark[d] # <<>> /\ mark[d][2] = "R" /\ dot[p] # <<>> => dot[p][1] = mark[d][1]

(***************************************************************************)
(* What is missing on the disk in the middle of a request; between two of  *)
(* them this is Signed.                                                    *)
(***************************************************************************)
FilesSigned ==
  /\ at \notin {"dot", "undot", "delete"} => DOMAIN dot = DOMAIN data
  /\ at # "sign" => \A q \in DOMAIN dot : dot[q] # <<>>
  /\ \A m \in job : LET p == m.cmd.path IN
       /\ at = "dot" => DOMAIN dot = DOMAIN data \ {p}
       /\ at = "sign" => \A q \in DOMAIN dot : q = p \/ dot[q] # <<>>
       /\ at = "apply" => p \notin dirs
       /\ at = "undot" => DOMAIN data = DOMAIN dot \ {p}
       /\ at = "delete" => \A q \in Paths :
            (Above(p, q) /\ q # p) \/ (q \in DOMAIN dot <=> q \in DOMAIN data)

DirsSigned ==
  /\ at \notin {"mark", "delete"} => DOMAIN mark = dirs \ {Root}
  /\ at # "marksign" => \A q \in DOMAIN mark : mark[q] # <<>>
  /\ \A m \in job : LET p == m.cmd.path IN
       /\ at = "mark" => DOMAIN mark = dirs \ {Root, p}
       /\ at = "marksign" => \A q \in DOMAIN mark : q = p \/ mark[q] # <<>>
       /\ at = "delete" => \A q \in Paths :
            Above(p, q) \/ (q \in DOMAIN mark <=> q \in dirs)

InStep == Unharmed => FilesSigned /\ DirsSigned

DiskInv ==
  /\ DiskType /\ Tree /\ Control /\ Serving /\ DirectoriesHold /\ ProtectedBytes /\ InStep

-----------------------------------------------------------------------------
(* The request being served.                                               *)

LEMMA RequestFacts ==
  ASSUME NEW m \in Request
  PROVE  /\ m.from \in Clients /\ m.cmd.path \in Paths
         /\ m.cmd.size \in Nat /\ m.cmd.offset \in Nat
         /\ <<m.from, m.cmd.others>> \in Signature /\ <<m.from, m.cmd.others>> # <<>>
<1>1. PICK c \in Clients, cmd \in Commands, newline \in BOOLEAN : m = Ask(c, cmd, newline)
  BY DEF Request
<1>2. m.from = c /\ m.cmd = cmd
  BY <1>1 DEF Ask
<1> QED  BY <1>2, FileServerAssumption DEF Paths, Signature

-----------------------------------------------------------------------------
(* Paths.                                                                  *)

LEMMA PathFacts ==
  ASSUME NEW p \in Paths
  PROVE  /\ p \in Seq(STRING) /\ p # Root /\ Len(p) \in Nat /\ Len(p) >= 1
         /\ Front(p) \in Seq(STRING) /\ Len(Front(p)) = Len(p) - 1 /\ Front(p) # p
         /\ \A i \in 1 .. Len(p) - 1 : Front(p)[i] = p[i]
<1>1. p \in Seq(STRING) /\ p # Root
  BY FileServerAssumption DEF Paths
<1>2. Len(p) \in Nat /\ Len(p) >= 1 /\ \A i \in 1 .. Len(p) : p[i] \in STRING
  BY <1>1, EmptySeq, LenProperties DEF Root
<1>3. \A i \in 1 .. Len(p) - 1 : p[i] \in STRING
  BY <1>2
<1>4. /\ Front(p) \in Seq(STRING) /\ Len(Front(p)) = Len(p) - 1
      /\ \A i \in 1 .. Len(p) - 1 : Front(p)[i] = p[i]
  <2> DEFINE n == Len(p) - 1
  <2>1. n \in Int /\ n >= 0
    BY <1>2
  <2>2. /\ SubSeq(p, 1, n) \in Seq(STRING)
        /\ Len(SubSeq(p, 1, n)) = IF 1 <= n THEN n - 1 + 1 ELSE 0
        /\ \A i \in 1 .. n - 1 + 1 : SubSeq(p, 1, n)[i] = p[1 + i - 1]
    <3> HIDE DEF n
    <3> QED  BY <1>3, <2>1, SubSeqProperties DEF n
  <2>3. Front(p) = SubSeq(p, 1, n)
    BY DEF Front
  <2> HIDE DEF n
  <2>4. n - 1 + 1 = n /\ \A i \in 1 .. n : 1 + i - 1 = i
    BY <2>1
  <2> QED  BY <2>1, <2>2, <2>3, <2>4 DEF n
<1> QED  BY <1>1, <1>2, <1>4

LEMMA RootFacts == Root \in Seq(STRING) /\ Len(Root) = 0 /\ Root \notin Paths
BY EmptySeq, PathFacts DEF Root

LEMMA AboveSelf == ASSUME NEW p \in Paths PROVE Above(p, p)
BY PathFacts DEF Above

LEMMA AboveRoot == ASSUME NEW p \in Paths PROVE ~Above(p, Root)
BY PathFacts, RootFacts DEF Above

LEMMA AboveChild ==
  ASSUME NEW p \in Paths, NEW r \in Paths, Above(p, Front(r))
  PROVE  Above(p, r) /\ r # p
BY PathFacts DEF Above

LEMMA AboveFront ==
  ASSUME NEW p \in Paths, NEW q \in Paths, Above(p, q), q # p
  PROVE  Above(p, Front(q))
<1>1. /\ p \in Seq(STRING) /\ q \in Seq(STRING) /\ Len(p) \in Nat /\ Len(q) \in Nat
      /\ Len(Front(q)) = Len(q) - 1
      /\ \A i \in 1 .. Len(q) - 1 : Front(q)[i] = q[i]
  BY PathFacts
<1>2. Len(p) <= Len(q) /\ \A i \in 1 .. Len(p) : p[i] = q[i]
  BY DEF Above
<1>3. Len(p) # Len(q)
  BY <1>1, <1>2, SeqEqual
<1> QED  BY <1>1, <1>2, <1>3 DEF Above

LEMMA LeastNumber ==
  ASSUME NEW L, L \subseteq Nat, L # {}
  PROVE  \E n \in L : \A k \in L : n <= k
<1> DEFINE R == OpToRel(<, Nat)
<1>1. IsWellFoundedOn(R, Nat)
  BY NatLessThanWellFounded
<1>2. \A n, k \in Nat : n < k => <<n, k>> \in R
  BY DEF OpToRel
<1> HIDE DEF R
<1>3. PICK n \in L : \A k \in L : <<k, n>> \notin R
  BY <1>1, WFMin
<1>4. \A k \in L : ~(k < n)
  BY <1>2, <1>3
<1> QED  BY <1>3, <1>4

\* Whatever is below a directory without entries is that directory.
LEMMA NothingBelow ==
  ASSUME NEW S, S \subseteq Paths \cup {Root}, NEW p \in Paths,
         \A q \in S : q = Root \/ Front(q) \in S \/ Front(q) = p,
         \A q \in S : q # Root => Front(q) # p
  PROVE  \A q \in S : Above(p, q) => q = p
<1> DEFINE B == {q \in S : Above(p, q) /\ q # p}
           L == {Len(q) : q \in B}
<1> SUFFICES ASSUME B # {} PROVE FALSE
  OBVIOUS
<1>1. \A q \in B : q \in Paths /\ Len(q) \in Nat /\ Len(Front(q)) = Len(q) - 1
  BY AboveRoot, PathFacts
<1>2. L \subseteq Nat /\ L # {}
  BY <1>1
<1>3. PICK n \in L : \A k \in L : n <= k
  BY <1>2, LeastNumber
<1>4. PICK q \in B : Len(q) = n
  OBVIOUS
<1>5. Front(q) # p /\ Front(q) \in S /\ Above(p, Front(q))
  BY <1>1, <1>4, AboveFront, RootFacts
<1>6. Len(Front(q)) \in L
  BY <1>5
<1> QED  BY <1>1, <1>3, <1>4, <1>6

-----------------------------------------------------------------------------
(* Steps that leave the disk alone.                                        *)

LEMMA QuietDisk ==
  ASSUME DiskType, Tree, DirectoriesHold, ProtectedBytes, UNCHANGED diskVars, hit \subseteq hit'
  PROVE  DiskType' /\ Tree' /\ DirectoriesHold' /\ ProtectedBytes'
<1>1. UNCHANGED <<dirs, data, dot, mark>>
  BY DEF diskVars
<1>2. "starve" \notin hit' => "starve" \notin hit
  OBVIOUS
<1>3. DiskType' /\ Tree' /\ DirectoriesHold'
  BY <1>1 DEF DiskType, Tree, DirectoriesHold, Children
<1>4. ProtectedBytes'
  BY <1>1, <1>2 DEF ProtectedBytes
<1> QED  BY <1>3, <1>4

LEMMA HarmStays ==
  ASSUME hit \subseteq hit', Unharmed'
  PROVE  Unharmed
BY DEF Unharmed

\* Between two requests nothing is missing, nor after an exit between two.
AllSigned ==
  /\ DOMAIN dot = DOMAIN data /\ DOMAIN mark = dirs \ {Root}
  /\ \A q \in DOMAIN dot : dot[q] # <<>>
  /\ \A q \in DOMAIN mark : mark[q] # <<>>

LEMMA IdleSigned ==
  ASSUME InStep, Unharmed, at \in {"idle", "dead"}
  PROVE  AllSigned
BY DEF InStep, FilesSigned, DirsSigned, AllSigned

\* A request that is answered has left the disk in order.
LEMMA AnswerInv ==
  ASSUME NEW m \in Request, NEW s \in {"ok", "refused", "error"}, NEW echo \in Nat,
         Answer(m, s, echo), outbox \subseteq Reply,
         hit' \subseteq Misfortune, free' \in 0 .. Descriptors,
         DiskType', Tree', DirectoriesHold', ProtectedBytes', Unharmed' => AllSigned'
  PROVE  DiskInv'
<1>1. /\ at' = "idle" /\ job' = {} /\ fd' = FALSE /\ cursor' = Root
      /\ outbox' = outbox \cup {[re |-> m, status |-> s, echo |-> echo]}
  BY DEF Answer
<1>2. [re |-> m, status |-> s, echo |-> echo] \in Reply
  BY DEF Reply
<1>3. Control'
  <2>1. outbox' \subseteq Reply
    BY <1>1, <1>2
  <2>2. Root \in dirs'
    BY DEF DiskType
  <2> QED  BY <1>1, <2>1, <2>2 DEF Control, Label
<1>4. Serving'
  BY <1>1 DEF Serving
<1>5. InStep'
  BY <1>1 DEF InStep, FilesSigned, DirsSigned, AllSigned
<1> QED  BY <1>3, <1>4, <1>5 DEF DiskInv

LEMMA TakenFacts ==
  ASSUME OneJob, NEW m, Taken(m)
  PROVE  m \in Request /\ job = {} /\ at = "idle" /\ hit \subseteq hit'
<1>1. Range(inbox) \subseteq Request
  BY DEF OneJob, Range
<1>2. m \in Range(inbox)
  BY TakenTail
<1> QED  BY <1>1, <1>2, TakenTail DEF Taken

LEMMA TakeAnswerDisk ==
  ASSUME DiskInv, OneJob, NEW m, Taken(m), hit' \subseteq Misfortune,
         NEW s \in {"ok", "refused", "error"}, NEW echo \in Nat, Answer(m, s, echo),
         UNCHANGED diskVars, free' \in 0 .. Descriptors
  PROVE  DiskInv'
<1>1. m \in Request /\ at = "idle" /\ hit \subseteq hit'
  BY TakenFacts
<1>2. DiskType' /\ Tree' /\ DirectoriesHold' /\ ProtectedBytes'
  BY <1>1, QuietDisk DEF DiskInv
<1>3. Unharmed' => AllSigned'
  <2> SUFFICES ASSUME Unharmed' PROVE AllSigned'
    OBVIOUS
  <2>1. AllSigned
    BY <1>1, HarmStays, IdleSigned DEF DiskInv
  <2> QED  BY <2>1 DEF AllSigned, diskVars
<1>4. outbox \subseteq Reply
  BY DEF DiskInv, Control
<1> QED  BY <1>1, <1>2, <1>3, <1>4, AnswerInv

\* open() of what is there: the check of its owner has been made.
LEMMA OpensInv ==
  ASSUME DiskInv, OneJob, NEW m, Taken(m), hit' \subseteq Misfortune,
         Continue(m, "apply"), fd' = Opens(m), UNCHANGED <<diskVars, outbox, cursor, free>>,
         free < 2 => "starve" \in hit', "starve" \notin hit' => LetsOverwrite(m),
         Unharmed' => m.cmd.path \notin dirs
  PROVE  DiskInv'
<1>1. m \in Request /\ at = "idle" /\ hit \subseteq hit'
  BY TakenFacts
<1>2. DiskType' /\ Tree' /\ DirectoriesHold' /\ ProtectedBytes'
  BY <1>1, QuietDisk DEF DiskInv
<1>3. at' = "apply" /\ job' = {m} /\ UNCHANGED <<dirs, data, dot, mark>>
  BY DEF Continue, diskVars
<1>4. Control'
  BY <1>1, <1>3 DEF DiskInv, Control, Label, Opens
<1>5. Serving'
  <2>1. fd' => m.cmd.path \in DOMAIN data
    BY DEF Opens
  <2> QED  BY <1>3, <2>1 DEF Serving, LetsOverwrite
<1>6. InStep'
  <2> SUFFICES ASSUME Unharmed' PROVE FilesSigned' /\ DirsSigned'
    BY <1>3 DEF InStep
  <2>1. AllSigned
    BY <1>1, HarmStays, IdleSigned DEF DiskInv
  <2> QED  BY <1>3, <2>1 DEF AllSigned, FilesSigned, DirsSigned
<1> QED  BY <1>2, <1>4, <1>5, <1>6 DEF DiskInv

LEMMA TakeFacts ==
  ASSUME DiskInv, NEW m, NEW op, Take(m, op)
  PROVE  /\ Taken(m) /\ hit' \subseteq Misfortune
         /\ free < 2 => "starve" \in hit'
<1>1. hit \subseteq Misfortune
  BY DEF DiskInv, Control
<1> QED  BY <1>1 DEF Take, Taken, Misfortune

LEMMA FreeType == ASSUME DiskInv PROVE free \in 0 .. Descriptors /\ free \in Int
BY DEF DiskInv, Control

LEMMA FreeDown ==
  ASSUME DiskInv, free > 0
  PROVE  free - 1 \in 0 .. Descriptors
<1>1. free \in 0 .. Descriptors /\ Descriptors \in Nat
  BY FreeType, FileServerAssumption
<1> QED  BY <1>1

LEMMA JustAnswerDisk ==
  ASSUME DiskInv, OneJob, NEW m, NEW op, NEW s \in {"ok", "refused", "error"},
         NEW echo \in Nat, JustAnswer(m, op, s, echo)
  PROVE  DiskInv'
<1>1. Taken(m) /\ hit' \subseteq Misfortune /\ Answer(m, s, echo) /\ UNCHANGED <<diskVars, free>>
  BY TakeFacts DEF JustAnswer
<1>2. free' \in 0 .. Descriptors
  BY <1>1, FreeType
<1> QED  BY <1>1, <1>2, TakeAnswerDisk

LEMMA ReadsDisk ==
  ASSUME DiskInv, OneJob, NEW m, Unknown(m) \/ FileRead(m) \/ FileInfo(m) \/ DirList(m)
  PROVE  DiskInv'
<1>0. 0 \in Nat
  OBVIOUS
<1>1. CASE Unknown(m)
  BY <1>0, <1>1, JustAnswerDisk DEF Unknown
<1>2. CASE FileRead(m)
  <2>1. JustAnswer(m, "RD", "ok", m.cmd.offset) \/ JustAnswer(m, "RD", "error", 0)
    BY <1>2 DEF FileRead
  <2>2. m \in Request
    BY <2>1, TakeFacts, TakenFacts DEF JustAnswer
  <2>3. m.cmd.offset \in Nat
    BY <2>2, RequestFacts
  <2> QED  BY <1>0, <2>1, <2>3, JustAnswerDisk
<1>3. CASE FileInfo(m)
  BY <1>0, <1>3, JustAnswerDisk DEF FileInfo
<1>4. CASE DirList(m)
  BY <1>0, <1>4, JustAnswerDisk DEF DirList
<1> QED  BY <1>1, <1>2, <1>3, <1>4

LEMMA WriteRefusedDisk ==
  ASSUME DiskInv, OneJob, NEW m, WriteRefused(m)
  PROVE  DiskInv'
<1>1. Take(m, "WR") /\ free > 0 /\ Answer(m, "refused", 0) /\ free' = free - 1 /\ UNCHANGED diskVars
  BY DEF WriteRefused, DirRefuses
<1>2. free' \in 0 .. Descriptors
  BY <1>1, FreeDown
<1>3. Taken(m) /\ hit' \subseteq Misfortune
  BY <1>1, TakeFacts
<1> QED  BY <1>1, <1>2, <1>3, TakeAnswerDisk

LEMMA WriteOpensDisk ==
  ASSUME DiskInv, OneJob, NEW m, WriteOpens(m)
  PROVE  DiskInv'
<1>1. /\ Taken(m) /\ hit' \subseteq Misfortune /\ Signs(m) /\ at = "idle" /\ hit \subseteq hit'
      /\ free < 2 => "starve" \in hit'
  BY TakeFacts, TakenFacts DEF WriteOpens
<1>2. CASE FileRefuses(m)
  <2>1. Answer(m, "refused", 0) /\ UNCHANGED <<diskVars, free>>
    BY <1>2 DEF WriteOpens
  <2>2. free' \in 0 .. Descriptors
    BY <2>1, FreeType
  <2> QED  BY <1>1, <2>1, <2>2, TakeAnswerDisk
<1>3. CASE ~FileRefuses(m)
  <2>1. Continue(m, "apply") /\ fd' = Opens(m) /\ UNCHANGED <<diskVars, outbox, cursor, free>>
    BY <1>3 DEF WriteOpens
  <2>2. LetsOverwrite(m)
    BY <1>1, <1>3 DEF FileRefuses, LetsOverwrite
  <2>3. Unharmed' => m.cmd.path \notin dirs
    <3> SUFFICES ASSUME Unharmed' PROVE m.cmd.path \notin dirs
      OBVIOUS
    <3>1. AllSigned
      BY <1>1, HarmStays, IdleSigned DEF DiskInv
    <3>2. DOMAIN data \cap dirs = {}
      BY DEF DiskInv, DiskType
    <3> QED  BY <1>1, <3>1, <3>2 DEF AllSigned, Signs
  <2> QED  BY <1>1, <2>1, <2>2, <2>3, OpensInv
<1> QED  BY <1>2, <1>3

\* The server stops, or has stopped.
LEMMA DeadInv ==
  ASSUME DiskInv, OneJob, UNCHANGED <<diskVars, outbox>>, at' = "dead", job' = {},
         Unharmed' => at = "idle", hit \subseteq hit', hit' \subseteq Misfortune, free' = free,
         fd' = FALSE \/ (at = "idle" /\ UNCHANGED fd),
         cursor' = Root \/ (at = "idle" /\ UNCHANGED cursor)
  PROVE  DiskInv'
<1>1. DiskType' /\ Tree' /\ DirectoriesHold' /\ ProtectedBytes'
  BY QuietDisk DEF DiskInv
<1>2. UNCHANGED dirs
  BY DEF diskVars
<1>3. Control'
  <2>1. Root \in dirs /\ cursor \in dirs /\ fd \in BOOLEAN /\ (at # "delete" => cursor = Root)
    BY DEF DiskInv, DiskType, Control
  <2>2. cursor' = Root
    BY <2>1
  <2>3. free \in 0 .. Descriptors /\ outbox' \subseteq Reply /\ (fd => free > 0)
    BY DEF DiskInv, Control
  <2>4. fd' \in BOOLEAN /\ (fd' => fd)
    <3>1. CASE fd' = FALSE
      BY <3>1
    <3>2. CASE fd' = fd
      BY <2>1, <3>2, Zenon
    <3> QED  BY <3>1, <3>2
  <2> QED  BY <1>2, <2>1, <2>2, <2>3, <2>4 DEF Control, Label
<1>4. Serving'
  BY DEF Serving
<1>5. InStep'
  <2> SUFFICES ASSUME Unharmed' PROVE FilesSigned' /\ DirsSigned'
    BY DEF InStep
  <2>1. AllSigned
    BY HarmStays, IdleSigned DEF DiskInv
  <2> QED  BY <2>1 DEF AllSigned, FilesSigned, DirsSigned, diskVars
<1> QED  BY <1>1, <1>3, <1>4, <1>5 DEF DiskInv

LEMMA WriteOpensUnsignedDisk ==
  ASSUME DiskInv, OneJob, NEW m, WriteOpensUnsigned(m)
  PROVE  DiskInv'
<1>1. /\ at = "idle" /\ inbox # <<>> /\ m = Head(inbox) /\ hit \subseteq hit'
      /\ "undefined" \in hit' /\ hit' \subseteq Misfortune
      /\ free < 2 => "starve" \in hit'
      /\ ~Signs(m) /\ UNCHANGED <<diskVars, free>>
  <2>1. hit \subseteq Misfortune
    BY DEF DiskInv, Control
  <2> QED  BY <2>1 DEF WriteOpensUnsigned, Misfortune
<1>2. ~Unharmed'
  BY <1>1 DEF Unharmed
<1>3. free' \in 0 .. Descriptors
  BY <1>1, FreeType
<1>4. CASE inbox' = Tail(inbox) /\ Answer(m, "refused", 0)
  BY <1>1, <1>3, <1>4, TakeAnswerDisk DEF Taken
<1>5. CASE inbox' = Tail(inbox) /\ fd' = Opens(m) /\ Continue(m, "apply") /\ UNCHANGED <<outbox, cursor>>
  <2>1. "starve" \notin hit' => LetsOverwrite(m)
    BY <1>1, FreeType DEF Signs, LetsOverwrite
  <2> QED  BY <1>1, <1>2, <1>5, <2>1, OpensInv DEF Taken
<1>6. CASE inbox' = <<>> /\ at' = "dead" /\ UNCHANGED <<outbox, job, fd, cursor>>
  <2>1. job' = {}
    BY <1>1, <1>6 DEF OneJob
  <2> QED  BY <1>1, <1>2, <1>6, <2>1, DeadInv
<1> QED  BY <1>4, <1>5, <1>6 DEF WriteOpensUnsigned

LEMMA DirRemoveDisk ==
  ASSUME DiskInv, OneJob, NEW m, DirRemove(m)
  PROVE  DiskInv'
<1>1. /\ Taken(m) /\ hit' \subseteq Misfortune /\ UNCHANGED <<diskVars, free>>
      /\ at = "idle" /\ hit \subseteq hit' /\ m \in Request
      /\ free < 2 => "starve" \in hit'
  BY TakeFacts, TakenFacts DEF DirRemove
<1>2. CASE ~Owns(m)
  <2>1. Answer(m, "error", 0) /\ free' \in 0 .. Descriptors
    BY <1>1, <1>2, FreeType DEF DirRemove
  <2> QED  BY <1>1, <2>1, TakeAnswerDisk
<1>3. CASE Owns(m)
  <2>1. cursor' = m.cmd.path /\ at' = "delete" /\ job' = {m} /\ UNCHANGED <<outbox, fd>>
    BY <1>3 DEF DirRemove, Continue
  <2>2. m.cmd.path \in dirs /\ m.cmd.path \in Paths
    BY <1>1, <1>3, RequestFacts DEF Owns, DiskInv, DiskType
  <2>3. DiskType' /\ Tree' /\ DirectoriesHold' /\ ProtectedBytes'
    BY <1>1, QuietDisk DEF DiskInv
  <2>4. UNCHANGED <<dirs, data, dot, mark>>
    BY <1>1 DEF diskVars
  <2>5. Control'
    BY <1>1, <2>1, <2>2, <2>4 DEF DiskInv, Control, Label
  <2>6. Serving'
    BY <2>1, <2>2, AboveSelf DEF Serving
  <2>7. InStep'
    <3> SUFFICES ASSUME Unharmed' PROVE FilesSigned' /\ DirsSigned'
      BY <2>1 DEF InStep
    <3>1. AllSigned
      BY <1>1, HarmStays, IdleSigned DEF DiskInv
    <3>2. \A q \in Paths : q # Root
      BY PathFacts
    <3> QED  BY <2>1, <2>4, <3>1, <3>2 DEF AllSigned, FilesSigned, DirsSigned
  <2> QED  BY <2>3, <2>5, <2>6, <2>7 DEF DiskInv
<1> QED  BY <1>2, <1>3

LEMMA KillDisk ==
  ASSUME DiskInv, OneJob, Kill
  PROVE  DiskInv'
<1>1. "kill" \in hit' /\ hit \subseteq hit' /\ hit' \subseteq Misfortune
  BY DEF Kill, DiskInv, Control, Misfortune
<1>2. ~Unharmed'
  BY <1>1 DEF Unharmed
<1> QED  BY <1>1, <1>2, DeadInv DEF Kill

LEMMA NoNameDisk ==
  ASSUME DiskInv, OneJob, NoName
  PROVE  DiskInv'
<1>1. at = "idle" /\ hit \subseteq hit' /\ hit' \subseteq Misfortune
  BY DEF NoName, LookupFails, DiskInv, Control, Misfortune
<1>2. job' = {}
  BY <1>1 DEF NoName, LookupFails, OneJob
<1> QED  BY <1>1, <1>2, DeadInv DEF NoName, LookupFails

LEMMA StartDisk ==
  ASSUME DiskInv, OneJob, Start
  PROVE  DiskInv'
<1>1. /\ at = "dead" /\ at' = "idle" /\ free' = Descriptors /\ job = {}
      /\ UNCHANGED <<diskVars, outbox, job, fd, cursor, hit>>
  BY DEF Start, OneJob
<1>2. DiskType' /\ Tree' /\ DirectoriesHold' /\ ProtectedBytes'
  BY <1>1, QuietDisk DEF DiskInv
<1>3. InStep'
  <2> SUFFICES ASSUME Unharmed' PROVE FilesSigned' /\ DirsSigned'
    BY DEF InStep
  <2>1. AllSigned
    BY <1>1, HarmStays, IdleSigned DEF DiskInv
  <2> QED  BY <1>1, <2>1 DEF AllSigned, FilesSigned, DirsSigned, diskVars
<1>4. Control'
  <2>1. UNCHANGED dirs /\ Descriptors \in Nat /\ (fd => Descriptors > 0)
    BY <1>1, FileServerAssumption DEF diskVars, DiskInv, Control
  <2> QED  BY <1>1, <2>1 DEF DiskInv, Control, Label
<1>5. Serving'
  BY <1>1 DEF Serving
<1> QED  BY <1>2, <1>3, <1>4, <1>5 DEF DiskInv

-----------------------------------------------------------------------------
(* Steps that change the disk.                                             *)

\* The request that is being served, and what is known of it.
LEMMA JobFacts ==
  ASSUME DiskInv, OneJob, NEW m \in job
  PROVE  /\ m \in Request /\ job = {m} /\ m.cmd.path \in Paths /\ m.cmd.path # Root
         /\ at \notin {"idle", "dead"} /\ (free < 2 => "starve" \in hit)
<1>1. m \in Request /\ job = {m} /\ at \notin {"idle", "dead"}
  BY DEF DiskInv, Control, OneJob
<1>2. free < 2 => "starve" \in hit
  BY <1>1 DEF DiskInv, Control
<1> QED  BY <1>1, <1>2, RequestFacts, PathFacts

\* The request goes on, and nothing was removed that the server is in.
LEMMA GoesOn ==
  ASSUME DiskInv, NEW m \in Request, NEW label \in Label \ {"idle", "dead", "delete"},
         Continue(m, label), at # "delete", UNCHANGED <<outbox, cursor, free>>,
         fd' \in BOOLEAN, fd' => free > 0, free < 2 => "starve" \in hit',
         hit' \subseteq Misfortune, Root \in dirs'
  PROVE  Control'
<1>1. at' = label /\ job' = {m}
  BY DEF Continue
<1>2. cursor' = Root /\ outbox' \subseteq Reply /\ free' \in 0 .. Descriptors
  BY DEF DiskInv, Control
<1> QED  BY <1>1, <1>2 DEF Control

\* A file without bytes, or an empty ".name", protects nothing yet.
LEMMA WriteCreatesDisk ==
  ASSUME DiskInv, OneJob, NEW m, WriteCreates(m)
  PROVE  DiskInv'
<1> DEFINE p == m.cmd.path
           label == IF fd' /\ free > 1 THEN "dot" ELSE "apply"
<1>1. /\ Taken(m) /\ hit' \subseteq Misfortune /\ m \in Request /\ p \in Paths
      /\ at = "idle" /\ hit \subseteq hit'
      /\ free < 2 => "starve" \in hit'
  BY TakeFacts, TakenFacts, RequestFacts DEF WriteCreates
<1>2. /\ ~DirRefuses(m) /\ p \notin dirs /\ p \notin DOMAIN data
      /\ data' = IF fd' THEN Put(data, p, <<>>) ELSE data
      /\ Continue(m, label)
      /\ UNCHANGED <<dirs, dot, mark, outbox, cursor, free>>
  BY DEF WriteCreates, Exists
<1>3. fd' \in BOOLEAN /\ (fd' => free > 0) /\ (fd' => Front(p) \in dirs)
  BY DEF WriteCreates
<1>4. at' = label /\ job' = {m}
  BY <1>2 DEF Continue
<1>5. label \in {"dot", "apply"} /\ (label = "dot" => fd' /\ free > 1)
      /\ (label = "apply" => (fd' => free < 2))
  BY FreeType
<1>6. Control'
  BY <1>1, <1>2, <1>3, <1>5, GoesOn DEF DiskInv, DiskType, Label
<1> HIDE DEF label
<1>7. /\ DOMAIN data' = DOMAIN data \cup (IF fd' THEN {p} ELSE {})
      /\ fd' => data'[p] = <<>>
      /\ \A q \in DOMAIN data : data'[q] = data[q]
  <2>1. /\ DOMAIN Put(data, p, <<>>) = DOMAIN data \cup {p} /\ Put(data, p, <<>>)[p] = <<>>
        /\ \A q \in DOMAIN data : q # p => Put(data, p, <<>>)[q] = data[q]
    BY DEF Put
  <2> QED  BY <1>2, <2>1
<1>8. DiskType'
  <2>1. <<>> \in Seq(Clients)
    BY EmptySeq
  <2> HIDE DEF p
  <2> QED  BY <1>1, <1>2, <1>7, <2>1 DEF DiskInv, DiskType
<1>9. Tree'
  BY <1>2, <1>3, <1>7 DEF DiskInv, Tree
<1>10. DirectoriesHold'
  BY <1>2 DEF DiskInv, DirectoriesHold, Children
<1>11. ProtectedBytes'
  <2>1. Range(<<>>) = {}
    BY EmptySeq DEF Range
  <2> SUFFICES ASSUME "starve" \notin hit', NEW q \in DOMAIN data' \cap DOMAIN dot,
                      dot[q] # <<>>, dot[q][2] = "R"
               PROVE  Range(data'[q]) \subseteq {dot[q][1]}
    BY <1>2 DEF ProtectedBytes
  <2>2. CASE q \in DOMAIN data
    BY <1>1, <1>7, <2>2 DEF DiskInv, ProtectedBytes
  <2>3. CASE q \notin DOMAIN data
    BY <1>7, <2>1, <2>3
  <2> QED  BY <2>2, <2>3
<1>12. Serving'
  <2>1. label = "dot" => p \in DOMAIN data' /\ data'[p] = <<>> /\ LetsWrite(m)
    <3>1. free > 1 => free > 0
      BY FreeType
    <3>2. free > 0 => LetsWrite(m)
      BY <1>2 DEF DirRefuses, LetsWrite
    <3> QED  BY <1>5, <1>7, <3>1, <3>2
  <2>2. LetsWrite(m) => LetsWrite(m)'
    BY <1>2 DEF LetsWrite
  <2>3. label = "apply" /\ fd' => p \in DOMAIN data' /\ "starve" \in hit'
    BY <1>1, <1>5, <1>7
  <2> QED  BY <1>4, <1>5, <2>1, <2>2, <2>3 DEF Serving
<1>13. InStep'
  <2> SUFFICES ASSUME Unharmed' PROVE FilesSigned' /\ DirsSigned'
    BY <1>4, <1>5 DEF InStep
  <2>1. AllSigned /\ "starve" \notin hit'
    BY <1>1, HarmStays, IdleSigned DEF DiskInv, Unharmed
  <2>2. label = "apply" => ~fd'
    BY <1>1, <1>5, <2>1
  <2>3. DirsSigned'
    BY <1>2, <1>4, <1>5, <2>1 DEF AllSigned, DirsSigned
  <2>4. CASE label = "dot"
    <3>1. DOMAIN dot = DOMAIN data' \ {p}
      BY <1>2, <1>5, <1>7, <2>1, <2>4 DEF AllSigned
    <3> QED  BY <1>2, <1>4, <2>1, <2>3, <2>4, <3>1 DEF AllSigned, FilesSigned
  <2>5. CASE label = "apply"
    <3>1. data' = data
      BY <1>2, <2>2, <2>5
    <3> QED  BY <1>2, <1>4, <2>1, <2>3, <2>5, <3>1 DEF AllSigned, FilesSigned
  <2> QED  BY <1>5, <2>4, <2>5
<1> QED  BY <1>6, <1>8, <1>9, <1>10, <1>11, <1>12, <1>13 DEF DiskInv

LEMMA WriteDotDisk ==
  ASSUME DiskInv, OneJob, NEW m \in job, WriteDot(m)
  PROVE  DiskInv'
<1> DEFINE p == m.cmd.path
<1>1. /\ m \in Request /\ job = {m} /\ p \in Paths /\ p # Root
      /\ free < 2 => "starve" \in hit
  BY JobFacts
<1>2. /\ at = "dot" /\ at' = "sign" /\ job' = {m}
      /\ dot' = IF p \in DOMAIN dot THEN dot ELSE Put(dot, p, <<>>)
      /\ Continue(m, "sign")
      /\ UNCHANGED <<dirs, data, mark, outbox, fd, cursor, free, hit>>
  BY DEF WriteDot, Continue
<1>3. p \in DOMAIN data /\ data[p] = <<>> /\ LetsWrite(m)
  BY <1>2 DEF DiskInv, Serving
<1>4. Control'
  BY <1>1, <1>2, GoesOn DEF DiskInv, DiskType, Control, Label
<1>5. /\ DOMAIN dot' = DOMAIN dot \cup {p}
      /\ p \notin DOMAIN dot => dot'[p] = <<>>
      /\ \A q \in DOMAIN dot : dot'[q] = dot[q]
  <2>1. /\ DOMAIN Put(dot, p, <<>>) = DOMAIN dot \cup {p} /\ Put(dot, p, <<>>)[p] = <<>>
        /\ \A q \in DOMAIN dot : q # p => Put(dot, p, <<>>)[q] = dot[q]
    BY DEF Put
  <2> QED  BY <1>2, <2>1
<1>6. DiskType'
  BY <1>1, <1>2, <1>5 DEF DiskInv, DiskType, Signature
<1>7. Tree'
  BY <1>2, <1>3, <1>5 DEF DiskInv, Tree
<1>8. DirectoriesHold'
  BY <1>2, <1>5 DEF DiskInv, DirectoriesHold, Children
<1>9. ProtectedBytes'
  <2> SUFFICES ASSUME "starve" \notin hit, NEW q \in DOMAIN data \cap DOMAIN dot',
                      dot'[q] # <<>>, dot'[q][2] = "R"
               PROVE  Range(data[q]) \subseteq {dot'[q][1]}
    BY <1>2 DEF ProtectedBytes
  <2>1. q \in DOMAIN dot /\ dot'[q] = dot[q]
    BY <1>5
  <2> QED  BY <2>1 DEF DiskInv, ProtectedBytes
<1>10. Serving'
  <2>1. LetsWrite(m)'
    BY <1>2, <1>3 DEF LetsWrite
  <2> QED  BY <1>2, <1>3, <2>1 DEF Serving
<1>11. InStep'
  <2> SUFFICES ASSUME Unharmed' PROVE FilesSigned' /\ DirsSigned'
    BY <1>2 DEF InStep
  <2>1. Unharmed
    BY <1>2 DEF Unharmed
  <2>2. DOMAIN dot = DOMAIN data \ {p} /\ \A q \in DOMAIN dot : dot[q] # <<>>
    BY <1>2, <2>1 DEF DiskInv, InStep, FilesSigned
  <2>3. DirsSigned'
    BY <1>2, <2>1 DEF DiskInv, InStep, DirsSigned
  <2>4. DOMAIN dot' = DOMAIN data
    BY <1>3, <1>5, <2>2
  <2> QED  BY <1>2, <1>5, <2>2, <2>3, <2>4 DEF FilesSigned
<1> QED  BY <1>4, <1>6, <1>7, <1>8, <1>9, <1>10, <1>11 DEF DiskInv

LEMMA WriteSignDisk ==
  ASSUME DiskInv, OneJob, NEW m \in job, WriteSign(m)
  PROVE  DiskInv'
<1> DEFINE p == m.cmd.path
           s == <<m.from, m.cmd.others>>
<1>1. /\ m \in Request /\ job = {m} /\ p \in Paths /\ p # Root
      /\ free < 2 => "starve" \in hit
      /\ s \in Signature /\ s # <<>> /\ s[1] = m.from
  BY JobFacts, RequestFacts
<1>2. /\ at = "sign" /\ at' = "apply" /\ job' = {m} /\ dot' = Put(dot, p, s)
      /\ Continue(m, "apply")
      /\ UNCHANGED <<dirs, data, mark, outbox, fd, cursor, free, hit>>
  BY DEF WriteSign, Continue
<1> HIDE DEF s
<1>3. p \in DOMAIN data /\ data[p] = <<>> /\ LetsWrite(m)
  BY <1>2 DEF DiskInv, Serving
<1>4. Control'
  BY <1>1, <1>2, GoesOn DEF DiskInv, DiskType, Control, Label
<1>5. /\ DOMAIN dot' = DOMAIN dot \cup {p} /\ dot'[p] = s
      /\ \A q \in DOMAIN dot : q # p => dot'[q] = dot[q]
  <2>1. /\ DOMAIN Put(dot, p, s) = DOMAIN dot \cup {p} /\ Put(dot, p, s)[p] = s
        /\ \A q \in DOMAIN dot : q # p => Put(dot, p, s)[q] = dot[q]
    BY DEF Put
  <2> QED  BY <1>2, <2>1
<1>6. DiskType'
  BY <1>1, <1>2, <1>5 DEF DiskInv, DiskType
<1>7. Tree'
  BY <1>2, <1>3, <1>5 DEF DiskInv, Tree
<1>8. DirectoriesHold'
  BY <1>1, <1>2, <1>3, <1>5 DEF DiskInv, DirectoriesHold, Children, LetsWrite
<1>9. ProtectedBytes'
  <2>1. Range(<<>>) = {}
    BY EmptySeq DEF Range
  <2> SUFFICES ASSUME "starve" \notin hit, NEW q \in DOMAIN data \cap DOMAIN dot',
                      dot'[q] # <<>>, dot'[q][2] = "R"
               PROVE  Range(data[q]) \subseteq {dot'[q][1]}
    BY <1>2 DEF ProtectedBytes
  <2>2. CASE q = p
    BY <1>3, <2>1, <2>2
  <2>3. CASE q # p
    BY <1>5, <2>3 DEF DiskInv, ProtectedBytes
  <2> QED  BY <2>2, <2>3
<1>10. Serving'
  <2>1. LetsOverwrite(m)'
    BY <1>1, <1>5 DEF LetsOverwrite
  <2> QED  BY <1>2, <1>3, <2>1 DEF Serving
<1>11. InStep'
  <2> SUFFICES ASSUME Unharmed' PROVE FilesSigned' /\ DirsSigned'
    BY <1>2 DEF InStep
  <2>1. Unharmed
    BY <1>2 DEF Unharmed
  <2>2. p \notin dirs
    BY <1>3 DEF DiskInv, DiskType
  <2>3. DOMAIN dot = DOMAIN data /\ \A q \in DOMAIN dot : q = p \/ dot[q] # <<>>
    BY <1>2, <2>1 DEF DiskInv, InStep, FilesSigned
  <2>4. DirsSigned'
    BY <1>2, <2>1 DEF DiskInv, InStep, DirsSigned
  <2> QED  BY <1>1, <1>2, <1>3, <1>5, <2>2, <2>3, <2>4 DEF FilesSigned
<1> QED  BY <1>4, <1>6, <1>7, <1>8, <1>9, <1>10, <1>11 DEF DiskInv

\* remove() of a file, or of a directory without entries.
LEMMA WriteRemoveDisk ==
  ASSUME DiskInv, OneJob, NEW m \in job, WriteRemove(m)
  PROVE  DiskInv'
<1> DEFINE p == m.cmd.path
<1>1. /\ m \in Request /\ job = {m} /\ p \in Paths /\ p # Root
      /\ free < 2 => "starve" \in hit
  BY JobFacts
<1>2. /\ at = "apply" /\ at' = "undot" /\ job' = {m}
      /\ data' = Drop(data, p) /\ dirs' = IF Empty(p) THEN dirs \ {p} ELSE dirs
      /\ Continue(m, "undot")
      /\ UNCHANGED <<dot, mark, outbox, fd, cursor, free, hit>>
  BY DEF WriteRemove, Continue
<1>3. Root \in dirs'
  BY <1>1, <1>2 DEF DiskInv, DiskType
<1>4. Control'
  BY <1>1, <1>2, <1>3, GoesOn DEF DiskInv, Control, Label
<1>5. /\ DOMAIN data' = DOMAIN data \ {p}
      /\ \A q \in DOMAIN data' : data'[q] = data[q]
  BY <1>2 DEF Drop, Restrict
<1>6. DiskType'
  BY <1>2, <1>3, <1>5 DEF DiskInv, DiskType, Empty
<1>7. Tree'
  BY <1>1, <1>2, <1>5 DEF DiskInv, Tree, Empty, Children
<1>8. DirectoriesHold'
  BY <1>2 DEF DiskInv, DirectoriesHold, Children
<1>9. ProtectedBytes'
  BY <1>2, <1>5 DEF DiskInv, ProtectedBytes
<1>10. Serving'
  BY <1>2 DEF Serving
<1>11. InStep'
  <2> SUFFICES ASSUME Unharmed' PROVE FilesSigned' /\ DirsSigned'
    BY <1>2 DEF InStep
  <2>1. Unharmed
    BY <1>2 DEF Unharmed
  <2>2. DOMAIN dot = DOMAIN data /\ (\A q \in DOMAIN dot : dot[q] # <<>>) /\ p \notin dirs
    BY <1>2, <2>1 DEF DiskInv, InStep, FilesSigned
  <2>3. dirs' = dirs
    BY <1>2, <2>2
  <2>4. DirsSigned'
    BY <1>2, <2>1, <2>3 DEF DiskInv, InStep, DirsSigned
  <2> QED  BY <1>2, <1>5, <2>2, <2>4 DEF FilesSigned
<1> QED  BY <1>4, <1>6, <1>7, <1>8, <1>9, <1>10, <1>11 DEF DiskInv

LEMMA WriteUndotDisk ==
  ASSUME DiskInv, OneJob, NEW m \in job, WriteUndot(m)
  PROVE  DiskInv'
<1> DEFINE p == m.cmd.path
<1>1. /\ m \in Request /\ job = {m} /\ p \in Paths /\ p # Root
  BY JobFacts
<1>2. /\ at = "undot" /\ dot' = Drop(dot, p) /\ Answer(m, "ok", 0)
      /\ free' = IF fd THEN free - 1 ELSE free
      /\ UNCHANGED <<dirs, data, mark, hit>>
  BY DEF WriteUndot
<1>3. /\ DOMAIN dot' = DOMAIN dot \ {p}
      /\ \A q \in DOMAIN dot' : dot'[q] = dot[q]
  BY <1>2 DEF Drop, Restrict
<1>4. free' \in 0 .. Descriptors
  <2>1. CASE fd
    BY <1>2, <2>1, FreeDown DEF DiskInv, Control
  <2>2. CASE ~fd
    BY <1>2, <2>2, FreeType
  <2> QED  BY <2>1, <2>2
<1>5. DiskType' /\ Tree'
  BY <1>2, <1>3 DEF DiskInv, DiskType, Tree
<1>6. DirectoriesHold'
  BY <1>2, <1>3 DEF DiskInv, DirectoriesHold, Children
<1>7. ProtectedBytes'
  BY <1>2, <1>3 DEF DiskInv, ProtectedBytes
<1>8. Unharmed' => AllSigned'
  <2> SUFFICES ASSUME Unharmed' PROVE AllSigned'
    OBVIOUS
  <2>1. FilesSigned /\ DirsSigned
    BY <1>2 DEF DiskInv, InStep, Unharmed
  <2>2. DOMAIN data = DOMAIN dot \ {p} /\ \A q \in DOMAIN dot : dot[q] # <<>>
    BY <1>2, <2>1 DEF FilesSigned
  <2>3. DOMAIN mark = dirs \ {Root} /\ \A q \in DOMAIN mark : mark[q] # <<>>
    BY <1>2, <2>1 DEF DirsSigned
  <2> QED  BY <1>2, <1>3, <2>2, <2>3 DEF AllSigned
<1>9. outbox \subseteq Reply /\ hit' \subseteq Misfortune
  BY <1>2 DEF DiskInv, Control
<1> QED  BY <1>1, <1>2, <1>4, <1>5, <1>6, <1>7, <1>8, <1>9, AnswerInv

LEMMA TwoNumbers ==
  ASSUME NEW a \in Nat, NEW b \in Nat
  PROVE  /\ Min({a, b}) \in {a, b} /\ Min({a, b}) <= a
         /\ Max({a, b}) \in {a, b} /\ Max({a, b}) >= a /\ Max({a, b}) >= b
<1>1. \E x \in {a, b} : \A y \in {a, b} : x <= y
  OBVIOUS
<1>2. \E x \in {a, b} : \A y \in {a, b} : x >= y
  OBVIOUS
<1>3. Min({a, b}) \in {a, b} /\ \A y \in {a, b} : Min({a, b}) <= y
  BY <1>1 DEF Min
<1>4. Max({a, b}) \in {a, b} /\ \A y \in {a, b} : Max({a, b}) >= y
  BY <1>2 DEF Max
<1> QED  BY <1>3, <1>4

\* A pwrite() that starts in a file, or right at its end, leaves no hole.
LEMMA SpliceType ==
  ASSUME NEW S, NEW bytes \in Seq(S), NEW c \in S, NEW size \in Nat,
         NEW start \in Nat, start <= Len(bytes)
  PROVE  Splice(bytes, start, size, c) \in Seq(S)
<1> DEFINE n == Max({Len(bytes), start + size})
<1>1. Len(bytes) \in Nat /\ \A i \in 1 .. Len(bytes) : bytes[i] \in S
  BY LenProperties
<1>2. n \in {Len(bytes), start + size} /\ start + size \in Nat
  BY <1>1, TwoNumbers
<1>3. n \in Nat
  BY <1>1, <1>2
<1>4. \A i \in 1 .. n : ~(i > start /\ i <= start + size) => i \in 1 .. Len(bytes)
  BY <1>1, <1>2
<1> HIDE DEF n
<1>5. Splice(bytes, start, size, c) =
        [i \in 1 .. n |-> IF i > start /\ i <= start + size THEN c
                          ELSE IF i <= Len(bytes) THEN bytes[i] ELSE "hole"]
  BY DEF Splice, n
<1>6. \A i \in 1 .. n : i <= Len(bytes) \/ (i > start /\ i <= start + size)
  BY <1>1, <1>3, <1>4
<1>7. Splice(bytes, start, size, c) \in [1 .. n -> S]
  BY <1>1, <1>3, <1>4, <1>5, <1>6
<1> QED  BY <1>3, <1>7, SeqDef

LEMMA WriteBytesDisk ==
  ASSUME DiskInv, OneJob, NEW m \in job, WriteBytes(m)
  PROVE  DiskInv'
<1> DEFINE p == m.cmd.path
           start == StartOf(m)
           bytes == Splice(data[p], start, m.cmd.size, m.from)
<1>1. /\ m \in Request /\ job = {m} /\ p \in Paths /\ p # Root
      /\ m.from \in Clients /\ m.cmd.size \in Nat /\ m.cmd.offset \in Nat
  BY JobFacts, RequestFacts
<1>2. /\ at = "apply" /\ UNCHANGED <<dirs, dot, mark, free, hit>>
      /\ IF fd THEN data' = Put(data, p, bytes) /\ Answer(m, "ok", m.cmd.size)
               ELSE data' = data /\ Answer(m, "error", 0)
  BY DEF WriteBytes
<1>3. free' \in 0 .. Descriptors /\ outbox \subseteq Reply /\ hit' \subseteq Misfortune
  BY <1>2 DEF DiskInv, Control
<1>4. ASSUME DOMAIN data' = DOMAIN data
      PROVE  /\ Tree' /\ DirectoriesHold'
             /\ Unharmed' => AllSigned'
  <2>1. Tree' /\ DirectoriesHold'
    BY <1>2, <1>4 DEF DiskInv, Tree, DirectoriesHold, Children
  <2>2. ASSUME Unharmed' PROVE AllSigned'
    <3>1. FilesSigned /\ DirsSigned
      BY <1>2, <2>2 DEF DiskInv, InStep, Unharmed
    <3> QED  BY <1>2, <1>4, <3>1 DEF FilesSigned, DirsSigned, AllSigned
  <2> QED  BY <2>1, <2>2
<1>5. CASE ~fd
  <2>1. data' = data /\ Answer(m, "error", 0)
    BY <1>2, <1>5
  <2>2. DiskType' /\ ProtectedBytes'
    BY <1>2, <2>1 DEF DiskInv, DiskType, ProtectedBytes
  <2> QED  BY <1>1, <1>3, <1>4, <2>1, <2>2, AnswerInv
<1>6. CASE fd
  <2>1. /\ p \in DOMAIN data /\ data[p] \in Seq(Clients) /\ Len(data[p]) \in Nat
        /\ "starve" \notin hit => LetsOverwrite(m)
    BY <1>2, <1>6, LenProperties DEF DiskInv, Serving, DiskType
  <2>2. start \in Nat /\ start <= Len(data[p])
    BY <1>1, <2>1, TwoNumbers DEF StartOf
  <2> HIDE DEF start
  <2>3. bytes \in Seq(Clients)
    BY <1>1, <2>1, <2>2, SpliceType
  <2>4. Range(data[p]) \subseteq {m.from} => Range(bytes) \subseteq {m.from}
    <3> SUFFICES ASSUME Range(data[p]) \subseteq {m.from} PROVE Range(bytes) \subseteq {m.from}
      OBVIOUS
    <3>1. data[p] \in Seq({m.from})
      <4>1. DOMAIN data[p] = 1 .. Len(data[p])
        BY <2>1, LenProperties
      <4>2. \A i \in 1 .. Len(data[p]) : data[p][i] \in {m.from}
        BY <4>1 DEF Range
      <4> QED  BY <2>1, <4>1, <4>2, LenProperties, SeqDef
    <3>2. bytes \in Seq({m.from})
      BY <1>1, <2>2, <3>1, SpliceType
    <3> HIDE DEF bytes
    <3> QED  BY <3>2, LenProperties DEF Range
  <2> HIDE DEF bytes
  <2>5. data' = Put(data, p, bytes) /\ Answer(m, "ok", m.cmd.size)
    BY <1>2, <1>6
  <2>6. /\ DOMAIN data' = DOMAIN data /\ data'[p] = bytes
        /\ \A q \in DOMAIN data : q # p => data'[q] = data[q]
    BY <2>1, <2>5 DEF Put
  <2>7. DiskType'
    BY <1>2, <2>3, <2>6 DEF DiskInv, DiskType
  <2>8. ProtectedBytes'
    <3> SUFFICES ASSUME "starve" \notin hit, NEW q \in DOMAIN data \cap DOMAIN dot,
                        dot[q] # <<>>, dot[q][2] = "R"
                 PROVE  Range(data'[q]) \subseteq {dot[q][1]}
      BY <1>2, <2>6 DEF ProtectedBytes
    <3>1. Range(data[q]) \subseteq {dot[q][1]}
      BY DEF DiskInv, ProtectedBytes
    <3>2. CASE q = p
      <4>1. dot[q][1] = m.from
        BY <2>1, <3>2 DEF LetsOverwrite
      <4> QED  BY <2>4, <2>6, <3>1, <3>2, <4>1
    <3> QED  BY <2>6, <3>1, <3>2
  <2> QED  BY <1>1, <1>3, <1>4, <2>5, <2>6, <2>7, <2>8, AnswerInv
<1> QED  BY <1>5, <1>6

\* A new directory has no entries: what is in a directory has that directory.
LEMMA DirCreateDisk ==
  ASSUME DiskInv, OneJob, NEW m, DirCreate(m)
  PROVE  DiskInv'
<1> DEFINE p == m.cmd.path
<1>1. /\ Taken(m) /\ hit' \subseteq Misfortune /\ m \in Request /\ p \in Paths /\ p # Root
      /\ at = "idle" /\ hit \subseteq hit'
      /\ free < 2 => "starve" \in hit'
  BY TakeFacts, TakenFacts, RequestFacts, PathFacts DEF DirCreate
<1>2. UNCHANGED <<data, dot, mark, free>>
  BY DEF DirCreate
<1>3. CASE Exists(p) \/ Front(p) \notin dirs
  <2>1. Answer(m, "error", 0) /\ UNCHANGED diskVars /\ free' \in 0 .. Descriptors
    BY <1>2, <1>3, FreeType DEF DirCreate, diskVars
  <2> QED  BY <1>1, <2>1, TakeAnswerDisk
<1>4. CASE ~(Exists(p) \/ Front(p) \notin dirs)
  <2>1. /\ p \notin dirs /\ p \notin DOMAIN data /\ Front(p) \in dirs
        /\ dirs' = dirs \cup {p} /\ Continue(m, "mark") /\ UNCHANGED <<outbox, fd, cursor>>
    BY <1>4 DEF DirCreate, Exists
  <2>2. at' = "mark" /\ job' = {m}
    BY <2>1 DEF Continue
  <2>3. DiskType' /\ Tree'
    BY <1>1, <1>2, <2>1 DEF DiskInv, DiskType, Tree
  <2>4. Control'
    BY <1>1, <1>2, <2>1, <2>3, GoesOn DEF DiskInv, Control, DiskType, Label
  <2>5. DirectoriesHold'
    BY <1>2 DEF DiskInv, DirectoriesHold, Children
  <2>6. ProtectedBytes'
    BY <1>1, <1>2 DEF DiskInv, ProtectedBytes
  <2>7. Serving'
    <3>1. Children(DOMAIN data \cup DOMAIN dot, p) = {}
      BY <2>1 DEF DiskInv, Tree, Children
    <3>2. p \in dirs'
      BY <2>1
    <3> QED  BY <1>2, <2>2, <3>1, <3>2 DEF Serving
  <2>8. InStep'
    <3> SUFFICES ASSUME Unharmed' PROVE FilesSigned' /\ DirsSigned'
      BY <2>2 DEF InStep
    <3>1. AllSigned
      BY <1>1, HarmStays, IdleSigned DEF DiskInv
    <3>2. DOMAIN mark = dirs' \ {Root, p}
      BY <2>1, <3>1 DEF AllSigned
    <3>3. FilesSigned'
      BY <1>2, <2>2, <3>1 DEF AllSigned, FilesSigned
    <3> QED  BY <1>2, <2>2, <3>1, <3>2, <3>3 DEF AllSigned, DirsSigned
  <2> QED  BY <2>3, <2>4, <2>5, <2>6, <2>7, <2>8 DEF DiskInv
<1> QED  BY <1>3, <1>4

LEMMA DirMarkDisk ==
  ASSUME DiskInv, OneJob, NEW m \in job, DirMark(m)
  PROVE  DiskInv'
<1> DEFINE p == m.cmd.path
<1>1. /\ m \in Request /\ job = {m} /\ p \in Paths /\ p # Root
      /\ free < 2 => "starve" \in hit
  BY JobFacts
<1>2. at = "mark" /\ UNCHANGED <<dirs, data, dot, free, hit>>
  BY DEF DirMark
<1>3. p \in dirs /\ Children(DOMAIN data \cup DOMAIN dot, p) = {}
  BY <1>2 DEF DiskInv, Serving
<1>4. CASE free > 0
  <2>1. mark' = Put(mark, p, <<>>) /\ Continue(m, "marksign") /\ UNCHANGED <<outbox, fd, cursor>>
    BY <1>4 DEF DirMark
  <2>2. at' = "marksign" /\ job' = {m}
    BY <2>1 DEF Continue
  <2>3. /\ DOMAIN mark' = DOMAIN mark \cup {p} /\ mark'[p] = <<>>
        /\ \A q \in DOMAIN mark : q # p => mark'[q] = mark[q]
    BY <2>1 DEF Put
  <2>4. DiskType' /\ Tree'
    BY <1>1, <1>2, <1>3, <2>3 DEF DiskInv, DiskType, Tree, Signature
  <2>5. Control'
    BY <1>1, <1>2, <1>4, <2>1, GoesOn DEF DiskInv, Control, DiskType, Label
  <2>6. DirectoriesHold'
    BY <1>2, <2>3 DEF DiskInv, DirectoriesHold
  <2>7. ProtectedBytes'
    BY <1>2 DEF DiskInv, ProtectedBytes
  <2>8. Serving'
    <3>1. p \in DOMAIN mark'
      BY <2>3
    <3> QED  BY <1>2, <1>3, <2>2, <3>1 DEF Serving
  <2>9. InStep'
    <3> SUFFICES ASSUME Unharmed' PROVE FilesSigned' /\ DirsSigned'
      BY <2>2 DEF InStep
    <3>1. FilesSigned /\ DirsSigned
      BY <1>2 DEF DiskInv, InStep, Unharmed
    <3>2. FilesSigned'
      BY <1>2, <2>2, <3>1 DEF FilesSigned
    <3>3. DOMAIN mark = dirs \ {Root, p} /\ \A q \in DOMAIN mark : mark[q] # <<>>
      BY <1>2, <3>1 DEF DirsSigned
    <3>4. DOMAIN mark' = dirs \ {Root}
      BY <1>1, <1>3, <2>3, <3>3
    <3> QED  BY <1>2, <2>2, <2>3, <3>2, <3>3, <3>4 DEF DirsSigned
  <2> QED  BY <2>4, <2>5, <2>6, <2>7, <2>8, <2>9 DEF DiskInv
<1>5. CASE ~(free > 0)
  <2>1. Answer(m, "ok", 0) /\ UNCHANGED mark
    BY <1>5 DEF DirMark
  <2>2. free < 2
    BY <1>5, FreeType
  <2>3. ~Unharmed'
    BY <1>1, <1>2, <2>2 DEF Unharmed
  <2>4. DiskType' /\ Tree' /\ DirectoriesHold' /\ ProtectedBytes'
    BY <1>2, <2>1, QuietDisk DEF DiskInv, diskVars
  <2>5. outbox \subseteq Reply /\ hit' \subseteq Misfortune /\ free' \in 0 .. Descriptors
    BY <1>2 DEF DiskInv, Control
  <2> QED  BY <1>1, <2>1, <2>3, <2>4, <2>5, AnswerInv
<1> QED  BY <1>4, <1>5

LEMMA DirMarkSignDisk ==
  ASSUME DiskInv, OneJob, NEW m \in job, DirMarkSign(m)
  PROVE  DiskInv'
<1> DEFINE p == m.cmd.path
           s == <<m.from, m.cmd.others>>
<1>1. /\ m \in Request /\ job = {m} /\ p \in Paths /\ s \in Signature /\ s # <<>>
  BY JobFacts, RequestFacts
<1>2. /\ at = "marksign" /\ mark' = Put(mark, p, s) /\ Answer(m, "ok", 0)
      /\ UNCHANGED <<dirs, data, dot, free, hit>>
  BY DEF DirMarkSign
<1> HIDE DEF s
<1>3. p \in dirs /\ Children(DOMAIN data \cup DOMAIN dot, p) = {} /\ p \in DOMAIN mark
  BY <1>2 DEF DiskInv, Serving
<1>4. /\ DOMAIN mark' = DOMAIN mark /\ mark'[p] = s
      /\ \A q \in DOMAIN mark : q # p => mark'[q] = mark[q]
  BY <1>2, <1>3 DEF Put
<1>5. DiskType' /\ Tree'
  BY <1>1, <1>2, <1>4 DEF DiskInv, DiskType, Tree
<1>6. DirectoriesHold'
  <2>1. Children(DOMAIN dot, p) = {}
    BY <1>3 DEF Children
  <2> QED  BY <1>2, <1>4, <2>1 DEF DiskInv, DirectoriesHold
<1>7. ProtectedBytes'
  BY <1>2 DEF DiskInv, ProtectedBytes
<1>8. Unharmed' => AllSigned'
  <2> SUFFICES ASSUME Unharmed' PROVE AllSigned'
    OBVIOUS
  <2>1. FilesSigned /\ DirsSigned
    BY <1>2 DEF DiskInv, InStep, Unharmed
  <2>2. DOMAIN dot = DOMAIN data /\ \A q \in DOMAIN dot : dot[q] # <<>>
    BY <1>2, <2>1 DEF FilesSigned
  <2>3. DOMAIN mark = dirs \ {Root} /\ \A q \in DOMAIN mark : q = p \/ mark[q] # <<>>
    BY <1>2, <2>1 DEF DirsSigned
  <2> QED  BY <1>1, <1>2, <1>4, <2>2, <2>3 DEF AllSigned
<1>9. outbox \subseteq Reply /\ hit' \subseteq Misfortune /\ free' \in 0 .. Descriptors
  BY <1>2 DEF DiskInv, Control
<1> QED  BY <1>1, <1>2, <1>5, <1>6, <1>7, <1>8, <1>9, AnswerInv

-----------------------------------------------------------------------------
(* recursive_delete() stays below the directory it was asked to delete.    *)

LEMMA CursorFacts ==
  ASSUME DiskInv, OneJob, NEW m \in job, at = "delete"
  PROVE  /\ m \in Request /\ job = {m} /\ m.cmd.path \in Paths /\ cursor \in Paths
         /\ cursor # Root /\ Above(m.cmd.path, cursor)
<1>1. m \in Request /\ job = {m} /\ m.cmd.path \in Paths /\ Above(m.cmd.path, cursor)
  BY JobFacts DEF DiskInv, Serving
<1>2. cursor # Root
  BY <1>1, AboveRoot
<1> QED  BY <1>1, <1>2 DEF DiskInv, Control, DiskType

LEMMA DeleteEnterDisk ==
  ASSUME DiskInv, OneJob, NEW m \in job, DeleteEnter(m)
  PROVE  DiskInv'
<1>1. /\ at = "delete" /\ cursor' \in Children(dirs, cursor)
      /\ UNCHANGED <<diskVars, outbox, at, job, fd, free, hit>>
  BY DEF DeleteEnter
<1>2. m \in Request /\ job = {m} /\ m.cmd.path \in Paths /\ Above(m.cmd.path, cursor)
  BY <1>1, CursorFacts
<1>3. cursor' \in dirs /\ cursor' \in Paths /\ Front(cursor') = cursor
  BY <1>1 DEF Children, DiskInv, DiskType
<1>4. Above(m.cmd.path, cursor')
  BY <1>2, <1>3, AboveChild
<1>5. DiskType' /\ Tree' /\ DirectoriesHold' /\ ProtectedBytes'
  BY <1>1, QuietDisk DEF DiskInv
<1>6. UNCHANGED <<dirs, data, dot, mark>>
  BY <1>1 DEF diskVars
<1>7. Control'
  BY <1>1, <1>3, <1>6 DEF DiskInv, Control
<1>8. Serving'
  BY <1>1, <1>2, <1>4 DEF Serving
<1>9. InStep'
  BY <1>1, <1>6 DEF DiskInv, InStep, Unharmed, FilesSigned, DirsSigned
<1> QED  BY <1>5, <1>7, <1>8, <1>9 DEF DiskInv

\* One of the three removals: less is on the disk, and what is missing is
\* below the directory that is being deleted.
LEMMA DeleteEntryDisk ==
  ASSUME DiskInv, OneJob, NEW m \in job, DeleteEntry(m)
  PROVE  DiskInv'
<1> DEFINE p == m.cmd.path
<1>1. at = "delete" /\ UNCHANGED <<dirs, outbox, at, job, fd, cursor, free, hit>>
  BY DEF DeleteEntry
<1>2. /\ m \in Request /\ job = {m} /\ p \in Paths /\ cursor \in Paths
      /\ cursor # Root /\ Above(p, cursor)
  BY <1>1, CursorFacts
<1>3. Control'
  BY <1>1 DEF DiskInv, Control
<1>4. Serving'
  BY <1>1, <1>2 DEF Serving
<1>5. \A q \in Paths : Front(q) = cursor => Above(p, q) /\ q # p
  BY <1>2, AboveChild
<1>6. ASSUME Unharmed'
      PROVE  /\ Unharmed
             /\ \A q \in DOMAIN dot : dot[q] # <<>>
             /\ \A q \in DOMAIN mark : mark[q] # <<>>
             /\ \A q \in Paths : (Above(p, q) /\ q # p) \/ (q \in DOMAIN dot <=> q \in DOMAIN data)
             /\ \A q \in Paths : Above(p, q) \/ (q \in DOMAIN mark <=> q \in dirs)
  BY <1>1, <1>2, <1>6 DEF DiskInv, InStep, Unharmed, FilesSigned, DirsSigned
<1>7. ASSUME Unharmed',
             \A q \in DOMAIN dot' : dot'[q] # <<>>,
             \A q \in DOMAIN mark' : mark'[q] # <<>>,
             \A q \in Paths : (Above(p, q) /\ q # p) \/ (q \in DOMAIN dot' <=> q \in DOMAIN data'),
             \A q \in Paths : Above(p, q) \/ (q \in DOMAIN mark' <=> q \in dirs')
      PROVE  FilesSigned' /\ DirsSigned'
  BY <1>1, <1>2, <1>7 DEF FilesSigned, DirsSigned
<1>8. CASE \E q \in Children(DOMAIN data, cursor) : data' = Drop(data, q) /\ UNCHANGED <<dot, mark>>
  <2>1. PICK x \in DOMAIN data : Front(x) = cursor /\ data' = Drop(data, x)
    BY <1>8 DEF Children
  <2>2. UNCHANGED <<dirs, dot, mark, hit>>
    BY <1>1, <1>8
  <2>3. /\ DOMAIN data' = DOMAIN data \ {x}
        /\ \A q \in DOMAIN data' : data'[q] = data[q]
    BY <2>1 DEF Drop, Restrict
  <2>4. x \in Paths
    BY DEF DiskInv, DiskType
  <2>5. DiskType' /\ Tree'
    BY <2>2, <2>3 DEF DiskInv, DiskType, Tree
  <2>6. DirectoriesHold' /\ ProtectedBytes'
    BY <2>2, <2>3 DEF DiskInv, DirectoriesHold, ProtectedBytes, Children
  <2>7. InStep'
    <3> SUFFICES ASSUME Unharmed' PROVE FilesSigned' /\ DirsSigned'
      BY <1>1 DEF InStep
    <3>1. \A q \in Paths : (Above(p, q) /\ q # p) \/ (q \in DOMAIN dot' <=> q \in DOMAIN data')
      BY <1>5, <1>6, <2>1, <2>2, <2>3, <2>4
    <3> QED  BY <1>6, <1>7, <2>2, <3>1
  <2> QED  BY <1>3, <1>4, <2>5, <2>6, <2>7 DEF DiskInv
<1>9. CASE \E q \in Children(DOMAIN dot, cursor) : dot' = Drop(dot, q) /\ UNCHANGED <<data, mark>>
  <2>1. PICK x \in DOMAIN dot : Front(x) = cursor /\ dot' = Drop(dot, x)
    BY <1>9 DEF Children
  <2>2. UNCHANGED <<dirs, data, mark, hit>>
    BY <1>1, <1>9
  <2>3. /\ DOMAIN dot' = DOMAIN dot \ {x}
        /\ \A q \in DOMAIN dot' : dot'[q] = dot[q]
    BY <2>1 DEF Drop, Restrict
  <2>4. x \in Paths
    BY DEF DiskInv, DiskType
  <2>5. DiskType' /\ Tree'
    BY <2>2, <2>3 DEF DiskInv, DiskType, Tree
  <2>6. DirectoriesHold' /\ ProtectedBytes'
    BY <2>2, <2>3 DEF DiskInv, DirectoriesHold, ProtectedBytes, Children
  <2>7. InStep'
    <3> SUFFICES ASSUME Unharmed' PROVE FilesSigned' /\ DirsSigned'
      BY <1>1 DEF InStep
    <3>1. \A q \in Paths : (Above(p, q) /\ q # p) \/ (q \in DOMAIN dot' <=> q \in DOMAIN data')
      BY <1>5, <1>6, <2>1, <2>2, <2>3, <2>4
    <3>2. \A q \in DOMAIN dot' : dot'[q] # <<>>
      BY <1>6, <2>3
    <3> QED  BY <1>6, <1>7, <2>2, <3>1, <3>2
  <2> QED  BY <1>3, <1>4, <2>5, <2>6, <2>7 DEF DiskInv
<1>10. CASE cursor \in DOMAIN mark /\ mark' = Drop(mark, cursor) /\ UNCHANGED <<data, dot>>
  <2>1. UNCHANGED <<dirs, data, dot, hit>>
    BY <1>1, <1>10
  <2>2. /\ DOMAIN mark' = DOMAIN mark \ {cursor}
        /\ \A q \in DOMAIN mark' : mark'[q] = mark[q]
    BY <1>10 DEF Drop, Restrict
  <2>3. DiskType' /\ Tree'
    BY <2>1, <2>2 DEF DiskInv, DiskType, Tree
  <2>4. DirectoriesHold' /\ ProtectedBytes'
    BY <2>1, <2>2 DEF DiskInv, DirectoriesHold, ProtectedBytes, Children
  <2>5. InStep'
    <3> SUFFICES ASSUME Unharmed' PROVE FilesSigned' /\ DirsSigned'
      BY <1>1 DEF InStep
    <3>1. \A q \in Paths : Above(p, q) \/ (q \in DOMAIN mark' <=> q \in dirs')
      BY <1>2, <1>6, <2>1, <2>2
    <3>2. \A q \in DOMAIN mark' : mark'[q] # <<>>
      BY <1>6, <2>2
    <3> QED  BY <1>6, <1>7, <2>1, <3>1, <3>2
  <2> QED  BY <1>3, <1>4, <2>3, <2>4, <2>5 DEF DiskInv
<1> QED  BY <1>8, <1>9, <1>10 DEF DeleteEntry

LEMMA DeleteDirectoryDisk ==
  ASSUME DiskInv, OneJob, NEW m \in job, DeleteDirectory(m)
  PROVE  DiskInv'
<1> DEFINE p == m.cmd.path
           S == dirs \cup DOMAIN data \cup DOMAIN dot
<1>1. /\ at = "delete" /\ dirs' = dirs \ {cursor}
      /\ Children(S, cursor) = {} /\ cursor \notin DOMAIN mark
      /\ UNCHANGED <<data, dot, mark, free, hit>>
  BY DEF DeleteDirectory, Empty
<1>2. /\ m \in Request /\ job = {m} /\ p \in Paths /\ cursor \in Paths
      /\ cursor # Root /\ Above(p, cursor)
  BY <1>1, CursorFacts
<1>3. \A q \in S : q # Root => Front(q) # cursor /\ Front(q) \in dirs
  BY <1>1 DEF Children, DiskInv, Tree
<1>4. DiskType' /\ Tree'
  BY <1>1, <1>2, <1>3 DEF DiskInv, DiskType, Tree
<1>5. DirectoriesHold' /\ ProtectedBytes'
  BY <1>1 DEF DiskInv, DirectoriesHold, ProtectedBytes, Children
<1>6. ASSUME Unharmed'
      PROVE  /\ \A q \in DOMAIN dot : dot[q] # <<>>
             /\ \A q \in DOMAIN mark : mark[q] # <<>>
             /\ \A q \in Paths : (Above(p, q) /\ q # p) \/ (q \in DOMAIN dot <=> q \in DOMAIN data)
             /\ \A q \in Paths : Above(p, q) \/ (q \in DOMAIN mark <=> q \in dirs)
  BY <1>1, <1>2, <1>6 DEF DiskInv, InStep, Unharmed, FilesSigned, DirsSigned
<1>7. CASE cursor = p
  <2>1. Answer(m, "ok", 0)
    BY <1>7 DEF DeleteDirectory
  <2>2. Unharmed' => AllSigned'
    <3> SUFFICES ASSUME Unharmed' PROVE AllSigned'
      OBVIOUS
    <3>1. S \subseteq Paths \cup {Root}
      BY DEF DiskInv, DiskType
    <3>2. \A q \in S : Above(p, q) => q = p
      <4>1. \A q \in S : q = Root \/ Front(q) \in S \/ Front(q) = p
        BY <1>3
      <4>2. \A q \in S : q # Root => Front(q) # p
        BY <1>3, <1>7
      <4> HIDE DEF S, p
      <4> QED  BY <1>2, <3>1, <4>1, <4>2, NothingBelow
    <3>3. DOMAIN dot \subseteq Paths /\ DOMAIN data \subseteq Paths /\ DOMAIN mark \subseteq dirs
          /\ DOMAIN mark \subseteq Paths
      BY DEF DiskInv, DiskType
    <3>4. DOMAIN dot = DOMAIN data
      BY <1>6, <3>2, <3>3
    <3>5. DOMAIN mark = dirs' \ {Root}
      <4>1. \A q \in DOMAIN mark : q # p /\ q # Root /\ q \in dirs
        BY <1>1, <1>7, <3>3, RootFacts
      <4>2. \A q \in dirs \ {Root, p} : q \in DOMAIN mark
        BY <1>6, <3>1, <3>2
      <4> QED  BY <1>1, <1>7, <4>1, <4>2
    <3> QED  BY <1>1, <1>6, <3>4, <3>5 DEF AllSigned
  <2>3. outbox \subseteq Reply /\ hit' \subseteq Misfortune /\ free' \in 0 .. Descriptors
    BY <1>1 DEF DiskInv, Control
  <2> QED  BY <1>2, <1>4, <1>5, <2>1, <2>2, <2>3, AnswerInv
<1>8. CASE cursor # p
  <2>1. cursor' = Front(cursor) /\ UNCHANGED <<outbox, at, job, fd>>
    BY <1>8 DEF DeleteDirectory
  <2>2. cursor \in dirs /\ Front(cursor) \in dirs /\ Front(cursor) # cursor
    BY <1>2, <1>3 DEF DiskInv, Control
  <2>3. Above(p, cursor')
    BY <1>2, <1>8, <2>1, AboveFront
  <2>4. Control'
    BY <1>1, <2>1, <2>2 DEF DiskInv, Control
  <2>5. Serving'
    BY <1>1, <1>2, <2>1, <2>3 DEF Serving
  <2>6. InStep'
    <3> SUFFICES ASSUME Unharmed' PROVE FilesSigned' /\ DirsSigned'
      BY <1>1, <2>1 DEF InStep
    <3>1. \A q \in Paths : Above(p, q) \/ (q \in DOMAIN mark' <=> q \in dirs')
      BY <1>1, <1>2, <1>6
    <3> QED  BY <1>1, <1>2, <1>6, <2>1, <3>1 DEF FilesSigned, DirsSigned
  <2> QED  BY <1>4, <1>5, <2>4, <2>5, <2>6 DEF DiskInv
<1> QED  BY <1>7, <1>8

-----------------------------------------------------------------------------
(* All steps.                                                              *)

LEMMA ServerDisk ==
  ASSUME DiskInv, OneJob, Serve \/ NoName \/ Stop \/ Start
  PROVE  DiskInv'
<1>1. ASSUME NEW m \in Range(inbox),
             \/ Unknown(m) \/ FileRead(m) \/ FileInfo(m) \/ DirList(m)
             \/ WriteRefused(m) \/ WriteCreates(m) \/ WriteOpens(m) \/ WriteOpensUnsigned(m)
             \/ DirCreate(m) \/ DirRemove(m)
      PROVE  DiskInv'
  BY <1>1, ReadsDisk, WriteRefusedDisk, WriteCreatesDisk, WriteOpensDisk, WriteOpensUnsignedDisk,
     DirCreateDisk, DirRemoveDisk
<1>2. ASSUME NEW m \in job,
             \/ WriteDot(m) \/ WriteSign(m) \/ WriteRemove(m) \/ WriteUndot(m) \/ WriteBytes(m)
             \/ DirMark(m) \/ DirMarkSign(m)
             \/ DeleteEnter(m) \/ DeleteEntry(m) \/ DeleteDirectory(m)
      PROVE  DiskInv'
  BY <1>2, WriteDotDisk, WriteSignDisk, WriteRemoveDisk, WriteUndotDisk, WriteBytesDisk,
     DirMarkDisk, DirMarkSignDisk, DeleteEnterDisk, DeleteEntryDisk, DeleteDirectoryDisk
<1>3. CASE Serve
  BY <1>1, <1>2, <1>3 DEF Serve
<1>4. CASE Stop
  BY <1>4, KillDisk DEF Stop
<1>5. CASE Start
  BY <1>5, StartDisk
<1>6. CASE NoName
  BY <1>6, NoNameDisk
<1> QED  BY <1>3, <1>4, <1>5, <1>6

\* Clients and the network do not touch the disk, nor what the server does.
LEMMA OutsideDisk ==
  ASSUME DiskInv, UNCHANGED <<diskVars, at, job, fd, cursor, free>>,
         outbox' \subseteq outbox, hit \subseteq hit', hit' \subseteq Misfortune
  PROVE  DiskInv'
<1>1. UNCHANGED <<dirs, data, dot, mark>> /\ (Unharmed' => Unharmed)
  BY HarmStays DEF diskVars
<1>2. DiskType' /\ Tree' /\ DirectoriesHold' /\ ProtectedBytes'
  BY QuietDisk DEF DiskInv
<1>3. Control'
  BY <1>1 DEF DiskInv, Control
<1>4. Serving'
  BY <1>1 DEF DiskInv, Serving, LetsWrite, LetsOverwrite, Children
<1>5. InStep'
  BY <1>1 DEF DiskInv, InStep, FilesSigned, DirsSigned
<1> QED  BY <1>2, <1>3, <1>4, <1>5 DEF DiskInv

LEMMA NextDisk == DiskInv /\ OneJob /\ [Next]_vars => DiskInv'
<1> SUFFICES ASSUME DiskInv, OneJob, [Next]_vars PROVE DiskInv'
  OBVIOUS
<1>0. hit \subseteq Misfortune /\ {"lose", "double"} \subseteq Misfortune
  BY DEF DiskInv, Control, Misfortune
<1>1. CASE Serve \/ NoName \/ Stop \/ Start
  BY <1>1, ServerDisk
<1>2. CASE \E c \in Clients : Send(c) \/ Receive(c)
  BY <1>0, <1>2, OutsideDisk DEF Send, Receive
<1>3. CASE \E c \in Clients : Leave(c)
  BY <1>0, <1>3, OutsideDisk DEF Leave, serverVars
<1>4. CASE LoseRequest
  BY <1>0, <1>4, OutsideDisk DEF LoseRequest
<1>5. CASE LoseReply
  BY <1>0, <1>5, OutsideDisk DEF LoseReply
<1>6. CASE Double
  BY <1>0, <1>6, OutsideDisk DEF Double
<1>7. CASE DeliverLate
  BY <1>0, <1>7, OutsideDisk DEF DeliverLate
<1>8. CASE UNCHANGED vars
  BY <1>0, <1>8, OutsideDisk DEF vars, serverVars
<1> QED  BY <1>1, <1>2, <1>3, <1>4, <1>5, <1>6, <1>7, <1>8 DEF Next

LEMMA InitDisk == Init => DiskInv
<1> SUFFICES ASSUME Init PROVE DiskInv
  OBVIOUS
<1>1. /\ dirs = {Root} /\ data = <<>> /\ dot = <<>> /\ mark = <<>> /\ outbox = {}
      /\ at = "idle" /\ job = {} /\ fd = FALSE /\ cursor = Root /\ free = Descriptors /\ hit = {}
  BY DEF Init, ServerInit
<1>2. DOMAIN <<>> = {}
  BY EmptySeq
<1>3. DiskType /\ Tree /\ DirectoriesHold /\ ProtectedBytes
  BY <1>1, <1>2 DEF DiskType, Tree, DirectoriesHold, ProtectedBytes, Children
<1>4. Control
  <2>1. fd \in BOOLEAN /\ ~fd
    BY <1>1, Zenon
  <2>2. free \in 0 .. Descriptors
    BY <1>1, FileServerAssumption
  <2>3. at \in Label /\ at = "idle" /\ outbox \subseteq Reply /\ job \subseteq Request
    BY <1>1 DEF Label
  <2>4. cursor \in dirs /\ cursor = Root /\ hit \subseteq Misfortune
    BY <1>1
  <2> QED  BY <2>1, <2>2, <2>3, <2>4, Zenon DEF Control
<1>5. Serving /\ InStep
  BY <1>1, <1>2 DEF Serving, InStep, FilesSigned, DirsSigned
<1> QED  BY <1>3, <1>4, <1>5 DEF DiskInv

(***************************************************************************)
(* What is left of TypeOK: a client waits for one request, and the network *)
(* holds back no more than one.                                            *)
(***************************************************************************)
OneAsked ==
  /\ \A c \in Clients : asked[c] = {} <=> status[c] # "waiting"
  /\ \A c \in Clients : \A m, n \in asked[c] : m = n
  /\ \A m, n \in late : m = n

LEMMA InitAsked == Init => OneAsked
BY DEF Init, OneAsked

LEMMA NextAsked == OneAsked /\ OwnRequests /\ [Next]_vars => OneAsked'
<1> SUFFICES ASSUME OneAsked, OwnRequests, [Next]_vars PROVE OneAsked'
  OBVIOUS
<1>0. status \in [Clients -> {"typing", "waiting", "gone"}] /\ asked \in [Clients -> SUBSET Request]
  BY DEF OwnRequests
<1>1. CASE UNCHANGED <<status, asked, late>>
  BY <1>1 DEF OneAsked
<1>2. ASSUME NEW c \in Clients, Send(c)
      PROVE  OneAsked'
  <2>1. PICK m : asked' = [asked EXCEPT ![c] = {m}]
    BY <1>2 DEF Send
  <2>2. status' = [status EXCEPT ![c] = "waiting"] /\ late' = late
    BY <1>2 DEF Send
  <2> QED  BY <1>0, <2>1, <2>2 DEF OneAsked
<1>3. ASSUME NEW c \in Clients, Receive(c)
      PROVE  OneAsked'
  <2>1. \E s \in {"typing", "gone"} : status' = [status EXCEPT ![c] = s]
    BY <1>3 DEF Receive
  <2>2. asked' = [asked EXCEPT ![c] = {}] /\ late' = late
    BY <1>3 DEF Receive
  <2> QED  BY <1>0, <2>1, <2>2 DEF OneAsked
<1>4. ASSUME NEW c \in Clients, Leave(c)
      PROVE  OneAsked'
  BY <1>0, <1>4 DEF Leave, OneAsked
<1>5. CASE Double \/ DeliverLate
  BY <1>5 DEF Double, DeliverLate, clientVars, OneAsked
<1> QED  BY <1>1, <1>2, <1>3, <1>4, <1>5 DEF Next, LoseRequest, LoseReply, clientVars, vars

DiskSafe == DiskInv /\ OneAsked /\ IInv

LEMMA DiskSafeHolds == Spec => []DiskSafe
<1>1. Init => DiskSafe
  BY InitDisk, InitAsked, InitInv DEF DiskSafe
<1>2. DiskSafe /\ [Next]_vars => DiskSafe'
  BY NextDisk, NextAsked, NextInv DEF DiskSafe, IInv
<1> QED  BY <1>1, <1>2, PTL DEF Spec

LEMMA CardinalityOfOne ==
  ASSUME NEW S, \A x, y \in S : x = y
  PROVE  Cardinality(S) = IF S = {} THEN 0 ELSE 1
<1>1. CASE S = {}
  BY <1>1, FS_EmptySet
<1>2. CASE S # {}
  <2>1. PICK x : S = {x}
    BY <1>2
  <2>2. Cardinality({x}) = 1
    BY FS_Singleton
  <2> QED  BY <1>2, <2>1, <2>2
<1> QED  BY <1>1, <1>2

\* TypeOK: the shape of the disk and of the server's state.  A file is never
\* also a directory, pwrite() leaves no hole in one, every ".directory" lies
\* in a directory, recursive_delete() stands in a directory that is there,
\* and `descriptor' is open only if one could be opened.
THEOREM TypeCorrect == Spec => []TypeOK
<1>1. DiskSafe => TypeOK
  <2> SUFFICES ASSUME DiskSafe PROVE TypeOK
    OBVIOUS
  <2>1. Cardinality(job) = (IF at \in {"idle", "dead"} THEN 0 ELSE 1)
    <3>1. (job = {}) <=> at \in {"idle", "dead"}
      BY DEF DiskSafe, DiskInv, Control, IInv, OneJob
    <3>2. Cardinality(job) = IF job = {} THEN 0 ELSE 1
      BY CardinalityOfOne DEF DiskSafe, IInv, OneJob
    <3> QED  BY <3>1, <3>2
  <2>2. ServerTypeOK
    BY <2>1 DEF DiskSafe, DiskInv, DiskType, Control, IInv, OneJob, ServerTypeOK
  <2>3. \A c \in Clients : Cardinality(asked[c]) = (IF status[c] = "waiting" THEN 1 ELSE 0)
    <3>1. \A c \in Clients : Cardinality(asked[c]) = IF asked[c] = {} THEN 0 ELSE 1
      BY CardinalityOfOne DEF DiskSafe, OneAsked
    <3> QED  BY <3>1 DEF DiskSafe, OneAsked
  <2>4. Cardinality(late) = 0 \/ Cardinality(late) = 1
    BY CardinalityOfOne DEF DiskSafe, OneAsked
  <2> QED  BY <2>2, <2>3, <2>4 DEF TypeOK, DiskSafe, IInv, OwnRequests
<1> QED  BY DiskSafeHolds, <1>1, PTL

\* Signed: a server that was not killed and did not run out of descriptors
\* has, whenever it waits for a request, an owner on the disk for every file
\* and every directory below Root, and no owner of what is gone.
THEOREM EverythingSigned == Spec => []Signed
<1>1. DiskSafe => Signed
  <2> SUFFICES ASSUME DiskInv, Unharmed, at = "idle"
               PROVE  /\ DOMAIN dot = DOMAIN data /\ DOMAIN mark = dirs \ {Root}
                      /\ <<>> \notin Range(dot) \cup Range(mark)
    BY DEF DiskSafe, Signed
  <2>1. AllSigned
    BY IdleSigned DEF DiskInv
  <2> QED  BY <2>1 DEF AllSigned, Range
<1> QED  BY DiskSafeHolds, <1>1, PTL

\* ProtectedBytes: unless the server runs out of descriptors, a file the
\* others may only read holds nothing but its owner's bytes.
THEOREM BytesProtected == Spec => []ProtectedBytes
<1>1. DiskSafe => ProtectedBytes
  BY DEF DiskSafe, DiskInv
<1> QED  BY DiskSafeHolds, <1>1, PTL

\* ProtectedDirectories: in a directory the others may only read every file
\* is its owner's, whatever was killed, deleted and created again before.
THEOREM DirectoriesProtected == Spec => []ProtectedDirectories
<1>1. DiskSafe => ProtectedDirectories
  BY DEF DiskSafe, DiskInv, DirectoriesHold, ProtectedDirectories, Children
<1> QED  BY DiskSafeHolds, <1>1, PTL
=============================================================================
