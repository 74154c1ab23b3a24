----------------------------- MODULE FileServer -----------------------------
(***************************************************************************)
(* T2/server.c: the Simple File Server.  It takes one request at a time    *)
(* from its socket and serves it with system calls on the directory it was *)
(* started in.  What it must remember is on that disk: next to each file   *)
(* "name" a file ".name", and in each directory a file ".directory", with  *)
(* the client that owns the object and what the owner and the others may   *)
(* do ("R" or "W").  Each system call that changes the disk is a step, so  *)
(* that the server can be stopped between any two of them.                 *)
(***************************************************************************)
EXTENDS Integers, SequencesExt

CONSTANTS
  Clients,      (* The client numbers the requests carry.                  *)
  Commands,     (* What clients may ask, but for who asks: records with    *)
                (* op, path, others, size (nrbytes) and offset.            *)
  Descriptors   (* File descriptors the process may open.                  *)

Root == <<>>

ASSUME FileServerAssumption ==
  /\ Descriptors \in Nat
  /\ \A cmd \in Commands :
       /\ cmd.op \in {"RD", "WR", "FI", "DC", "DR", "DL", "??"}
       /\ cmd.path \in Seq(STRING) \ {Root}
       /\ cmd.others \in {"R", "W"}
       /\ cmd.size \in Nat /\ cmd.offset \in Nat

Paths == {cmd.path : cmd \in Commands}

\* A datagram: a command, who sends it, and whether the client's line ended
\* with a newline, which becomes part of the last parameter.
Ask(c, cmd, newline) == [from |-> c, cmd |-> cmd, newline |-> newline]
Request == {Ask(c, cmd, newline) : c \in Clients, cmd \in Commands, newline \in BOOLEAN}

VARIABLES
  dirs,     (* The directories, Root among them.                           *)
  data,     (* The files: for each one its bytes; a byte is known by the   *)
            (* client that wrote it.                                       *)
  dot,      (* The files ".name": <<owner, others>>, or <<>> while empty.  *)
  mark,     (* The files ".directory", likewise.                           *)
  inbox,    (* The datagrams in the server's socket.                       *)
  outbox,   (* The replies on their way.                                   *)
  at,       (* What the server does next.                                  *)
  job,      (* The requests it is serving: none or one.                    *)
  fd,       (* Whether fileWrite()'s `descriptor' is open.                 *)
  cursor,   (* The directory recursive_delete() is in.                     *)
  free,     (* Descriptors the process may still open.                     *)
  hit       (* The misfortunes so far: "lose" and "double" (a datagram),   *)
            (* "kill" (the server), "starve" (no two descriptors left for  *)
            (* a request), "undefined" (memory used that nobody set),      *)
            (* "unnamed" (no name was found for a client's address).       *)

diskVars == <<dirs, data, dot, mark>>
serverVars == <<diskVars, inbox, outbox, at, job, fd, cursor, free, hit>>

Signature == (Clients \X {"R", "W"}) \cup {<<>>}
Misfortune == {"lose", "double", "kill", "starve", "undefined", "unnamed"}
Label == {"idle", "dot", "sign", "apply", "undot", "mark", "marksign", "delete", "dead"}

Reply == [re : Request, status : {"ok", "refused", "error"}, echo : Nat]

ServerTypeOK ==
  /\ Root \in dirs /\ dirs \subseteq Paths \cup {Root}
  /\ DOMAIN data \subseteq Paths /\ \A p \in DOMAIN data : data[p] \in Seq(Clients)
  /\ DOMAIN dot \subseteq Paths /\ \A p \in DOMAIN dot : dot[p] \in Signature
  /\ DOMAIN mark \subseteq Paths /\ \A p \in DOMAIN mark : mark[p] \in Signature
  /\ DOMAIN data \cap dirs = {} /\ DOMAIN mark \subseteq dirs
  /\ inbox \in Seq(Request) /\ outbox \subseteq Reply
  /\ at \in Label /\ job \subseteq Request
  /\ Cardinality(job) = (IF at \in {"idle", "dead"} THEN 0 ELSE 1)
  /\ fd \in BOOLEAN /\ cursor \in dirs
  /\ free \in 0 .. Descriptors /\ (fd => free > 0)
  /\ hit \subseteq Misfortune

ServerInit ==
  /\ dirs = {Root} /\ data = <<>> /\ dot = <<>> /\ mark = <<>>
  /\ inbox = <<>> /\ outbox = {}
  /\ at = "idle" /\ job = {} /\ fd = FALSE /\ cursor = Root
  /\ free = Descriptors
  /\ hit = {}

-----------------------------------------------------------------------------
(* The file system.                                                        *)

Exists(p) == p \in dirs \/ p \in DOMAIN data

\* f with x mapped to v, and f without x.
Put(f, x, v) == [y \in DOMAIN f \cup {x} |-> IF y = x THEN v ELSE f[y]]
Drop(f, x) == Restrict(f, DOMAIN f \ {x})

Children(S, d) == {p \in S : p # Root /\ Front(p) = d}
Empty(d) ==
  /\ Children(dirs \cup DOMAIN data \cup DOMAIN dot, d) = {}
  /\ d \notin DOMAIN mark

\* pwrite() of size bytes of client c; beyond the end it leaves a hole.
Splice(bytes, offset, size, c) ==
  [i \in 1 .. Max({Len(bytes), offset + size}) |->
     IF i > offset /\ i <= offset + size THEN c
     ELSE IF i <= Len(bytes) THEN bytes[i] ELSE "hole"]

-----------------------------------------------------------------------------
(* runServer().                                                            *)

\* recvfrom(), and gethostbyaddr() finds the name of who sent the datagram,
\* which must be an op request.
Take(m, op) ==
  /\ at = "idle"
  /\ inbox # <<>> /\ m = Head(inbox) /\ m.cmd.op = op
  /\ inbox' = Tail(inbox)
  /\ hit' = IF free < 2 THEN hit \cup {"starve"} ELSE hit

\* recvfrom(), and gethostbyaddr() finds no name, or no descriptor to look for
\* one with: error() ends the process before anything is sent.
LookupFails ==
  /\ at = "idle" /\ inbox # <<>>
  /\ at' = "dead" /\ inbox' = <<>>
  /\ hit' = hit \cup {"unnamed"}
  /\ UNCHANGED <<diskVars, outbox, job, fd, cursor, free>>

\* sendto(), and back to recvfrom().
Answer(m, status, echo) ==
  /\ outbox' = outbox \cup {[re |-> m, status |-> status, echo |-> echo]}
  /\ at' = "idle" /\ job' = {} /\ fd' = FALSE /\ cursor' = Root

\* The request m goes on with the step label.
Continue(m, label) == at' = label /\ job' = {m}

\* An operation that leaves the disk alone.
JustAnswer(m, op, status, echo) ==
  /\ Take(m, op)
  /\ Answer(m, status, echo)
  /\ UNCHANGED <<diskVars, free>>

\* Mutant of Unknown: nothing is sent when runCommand() returns NULL.
Unknown_Silent(m) ==
  /\ Take(m, "??")
  /\ UNCHANGED <<diskVars, outbox, at, job, fd, cursor, free>>

\* A command runCommand() does not know, or with a wrong number of parameters.
Unknown(m) == JustAnswer(m, "??", "error", 0)

\* fileRead(); the reply ends with the request's offset.
FileRead(m) ==
  IF free > 0 /\ m.cmd.path \in DOMAIN data
    THEN JustAnswer(m, "RD", "ok", m.cmd.offset)
    ELSE JustAnswer(m, "RD", "error", 0)

FileInfo(m) ==
  JustAnswer(m, "FI", IF free > 0 /\ m.cmd.path \in DOMAIN dot THEN "ok" ELSE "error", 0)

DirList(m) == JustAnswer(m, "DL", "ok", 0)
-----------------------------------------------------------------------------
(* fileWrite().                                                            *)

\* Mutant of DirRefuses: the permissions of the directory are not looked at.
DirRefuses_Never(m) == FALSE

\* The directory's ".directory", if there is one and it can be read, keeps
\* the others from writing in it.
DirRefuses(m) ==
  LET d == Front(m.cmd.path) IN
  /\ free > 0
  /\ d \in DOMAIN mark /\ mark[d] # <<>>
  /\ mark[d][2] = "R" /\ mark[d][1] # m.from

\* return -3 before close(dirDescriptor).
WriteRefused(m) ==
  /\ Take(m, "WR")
  /\ DirRefuses(m)
  /\ Answer(m, "refused", 0)
  /\ free' = free - 1
  /\ UNCHANGED diskVars

\* open(path, O_WRONLY | O_CREAT) of a new file.  Without a directory or a
\* descriptor the server goes on with `descriptor' = -1.
WriteCreates(m) ==
  /\ Take(m, "WR")
  /\ ~DirRefuses(m) /\ ~Exists(m.cmd.path)
  /\ fd' = (free > 0 /\ Front(m.cmd.path) \in dirs)
  /\ data' = IF fd' THEN Put(data, m.cmd.path, <<>>) ELSE data
  /\ Continue(m, IF fd' /\ free > 1 THEN "dot" ELSE "apply")
  /\ UNCHANGED <<dirs, dot, mark, outbox, cursor, free>>

\* open(pathWithDot, O_RDWR | O_CREAT) and the pwrite() of who owns the file.
WriteDot(m) ==
  /\ at = "dot" /\ m \in job
  /\ dot' = IF m.cmd.path \in DOMAIN dot THEN dot ELSE Put(dot, m.cmd.path, <<>>)
  /\ Continue(m, "sign")
  /\ UNCHANGED <<dirs, data, mark, inbox, outbox, fd, cursor, free, hit>>

WriteSign(m) ==
  /\ at = "sign" /\ m \in job
  /\ dot' = Put(dot, m.cmd.path, <<m.from, m.cmd.others>>)
  /\ Continue(m, "apply")
  /\ UNCHANGED <<dirs, data, mark, inbox, outbox, fd, cursor, free, hit>>

\* What is there is opened for writing, a directory or the last descriptor
\* in vain, and its ".name" is read if that can be opened.
Opens(m) == m.cmd.path \in DOMAIN data /\ free > 0
Signs(m) ==
  LET p == m.cmd.path IN
  /\ free > (IF Opens(m) THEN 1 ELSE 0)
  /\ p \in DOMAIN dot /\ dot[p] # <<>>

\* Mutant of FileRefuses: the wrong permission is looked at.
FileRefuses_Swapped(m) ==
  Signs(m) /\ dot[m.cmd.path][2] = "W" /\ dot[m.cmd.path][1] # m.from

FileRefuses(m) ==
  Signs(m) /\ dot[m.cmd.path][2] = "R" /\ dot[m.cmd.path][1] # m.from

WriteOpens(m) ==
  /\ Take(m, "WR")
  /\ ~DirRefuses(m) /\ Exists(m.cmd.path) /\ Signs(m)
  /\ IF FileRefuses(m)
       THEN Answer(m, "refused", 0) /\ UNCHANGED <<diskVars, free>>
       ELSE /\ fd' = Opens(m)
            /\ Continue(m, "apply")
            /\ UNCHANGED <<diskVars, outbox, cursor, free>>

\* Nothing was read: params[2] is whatever the stack holds.  The request is
\* refused, or goes on, or the server dies.
WriteOpensUnsigned(m) ==
  /\ at = "idle" /\ inbox # <<>> /\ m = Head(inbox) /\ m.cmd.op = "WR"
  /\ ~DirRefuses(m) /\ Exists(m.cmd.path) /\ ~Signs(m)
  /\ hit' = hit \cup {"undefined"} \cup (IF free < 2 THEN {"starve"} ELSE {})
  /\ \/ /\ inbox' = Tail(inbox)
        /\ Answer(m, "refused", 0)
     \/ /\ inbox' = Tail(inbox)
        /\ fd' = Opens(m)
        /\ Continue(m, "apply")
        /\ UNCHANGED <<outbox, cursor>>
     \/ /\ inbox' = <<>> /\ at' = "dead"
        /\ UNCHANGED <<outbox, job, fd, cursor>>
  /\ UNCHANGED <<diskVars, free>>

\* nrbytes = 0: remove(path) takes a file or an empty directory away ...
WriteRemove(m) ==
  /\ at = "apply" /\ m \in job /\ m.cmd.size = 0
  /\ LET p == m.cmd.path IN
     /\ data' = Drop(data, p)
     /\ dirs' = IF Empty(p) THEN dirs \ {p} ELSE dirs
  /\ Continue(m, "undot")
  /\ UNCHANGED <<dot, mark, inbox, outbox, fd, cursor, free, hit>>

\* Mutant of WriteUndot: the ".name" is left behind.
WriteUndot_Forgotten(m) ==
  /\ at = "undot" /\ m \in job
  /\ Answer(m, "ok", 0)
  /\ free' = IF fd THEN free - 1 ELSE free
  /\ UNCHANGED <<diskVars, inbox, hit>>

\* ... and remove(pathWithDot) its ".name"; `descriptor' is never closed.
WriteUndot(m) ==
  /\ at = "undot" /\ m \in job
  /\ dot' = Drop(dot, m.cmd.path)
  /\ Answer(m, "ok", 0)
  /\ free' = IF fd THEN free - 1 ELSE free
  /\ UNCHANGED <<dirs, data, mark, inbox, hit>>

\* Mutant of StartOf: an offset beyond the end is taken as it is.
StartOf_Unclamped(m) == m.cmd.offset

\* offset = size < offset ? size : offset.
StartOf(m) == Min({Len(data[m.cmd.path]), m.cmd.offset})

\* pwrite(); the reply ends with params[4], which is nrbytes.
WriteBytes(m) ==
  /\ at = "apply" /\ m \in job /\ m.cmd.size > 0
  /\ IF fd
       THEN /\ data' = Put(data, m.cmd.path,
                           Splice(data[m.cmd.path], StartOf(m), m.cmd.size, m.from))
            /\ Answer(m, "ok", m.cmd.size)
       ELSE data' = data /\ Answer(m, "error", 0)
  /\ UNCHANGED <<dirs, dot, mark, inbox, free, hit>>

-----------------------------------------------------------------------------
(* dirCreate().                                                            *)

DirCreate(m) ==
  /\ Take(m, "DC")
  /\ LET p == m.cmd.path IN
     IF Exists(p) \/ Front(p) \notin dirs
       THEN Answer(m, "error", 0) /\ UNCHANGED dirs
       ELSE /\ dirs' = dirs \cup {p}
            /\ Continue(m, "mark")
            /\ UNCHANGED <<outbox, fd, cursor>>
  /\ UNCHANGED <<data, dot, mark, free>>

\* open(authPath, O_WRONLY | O_CREAT); without a descriptor nothing is
\* written and the answer is the same.
DirMark(m) ==
  /\ at = "mark" /\ m \in job
  /\ IF free > 0
       THEN /\ mark' = Put(mark, m.cmd.path, <<>>)
            /\ Continue(m, "marksign")
            /\ UNCHANGED <<outbox, fd, cursor>>
       ELSE Answer(m, "ok", 0) /\ UNCHANGED mark
  /\ UNCHANGED <<dirs, data, dot, inbox, free, hit>>

DirMarkSign(m) ==
  /\ at = "marksign" /\ m \in job
  /\ mark' = Put(mark, m.cmd.path, <<m.from, m.cmd.others>>)
  /\ Answer(m, "ok", 0)
  /\ UNCHANGED <<dirs, data, dot, inbox, free, hit>>

-----------------------------------------------------------------------------
(* dirRemove() and recursive_delete().                                     *)

\* strcmp(params[0], client): the client number is the request's last
\* parameter, and keeps the newline of the client's line.  When nothing
\* could be read params[0] is no client's number.
Owns(m) ==
  LET p == m.cmd.path IN
  /\ free > 0
  /\ p \in DOMAIN mark /\ mark[p] # <<>>
  /\ mark[p][1] = m.from /\ ~m.newline

DirRemove(m) ==
  /\ Take(m, "DR")
  /\ IF Owns(m)
       THEN /\ cursor' = m.cmd.path
            /\ Continue(m, "delete")
            /\ UNCHANGED <<outbox, fd>>
       ELSE Answer(m, "error", 0)
  /\ UNCHANGED <<diskVars, free>>

\* fts_read() visits what is in a directory, in any order, before the
\* directory itself (FTS_D, FTS_F, FTS_DP).
DeleteEnter(m) ==
  /\ at = "delete" /\ m \in job
  /\ cursor' \in Children(dirs, cursor)
  /\ UNCHANGED <<diskVars, inbox, outbox, at, job, fd, free, hit>>

DeleteEntry(m) ==
  /\ at = "delete" /\ m \in job
  /\ \/ \E p \in Children(DOMAIN data, cursor) : data' = Drop(data, p) /\ UNCHANGED <<dot, mark>>
     \/ \E p \in Children(DOMAIN dot, cursor) : dot' = Drop(dot, p) /\ UNCHANGED <<data, mark>>
     \/ cursor \in DOMAIN mark /\ mark' = Drop(mark, cursor) /\ UNCHANGED <<data, dot>>
  /\ UNCHANGED <<dirs, inbox, outbox, at, job, fd, cursor, free, hit>>

DeleteDirectory(m) ==
  /\ at = "delete" /\ m \in job
  /\ Empty(cursor)
  /\ dirs' = dirs \ {cursor}
  /\ IF cursor = m.cmd.path
       THEN Answer(m, "ok", 0)
       ELSE cursor' = Front(cursor) /\ UNCHANGED <<outbox, at, job, fd>>
  /\ UNCHANGED <<data, dot, mark, inbox, free, hit>>

-----------------------------------------------------------------------------
(* The process.                                                            *)

\* Somebody stops the server; what its socket held is gone.
Kill ==
  /\ at # "dead"
  /\ at' = "dead" /\ job' = {} /\ inbox' = <<>>
  /\ fd' = FALSE /\ cursor' = Root
  /\ hit' = hit \cup {"kill"}
  /\ UNCHANGED <<diskVars, outbox, free>>

\* main(), once more in the same directory.
Start ==
  /\ at = "dead"
  /\ at' = "idle" /\ free' = Descriptors
  /\ UNCHANGED <<diskVars, inbox, outbox, job, fd, cursor, hit>>

Serve ==
  \/ \E m \in Range(inbox) :
       \/ Unknown(m) \/ FileRead(m) \/ FileInfo(m) \/ DirList(m)
       \/ WriteRefused(m) \/ WriteCreates(m) \/ WriteOpens(m) \/ WriteOpensUnsigned(m)
       \/ DirCreate(m) \/ DirRemove(m)
  \/ \E m \in job :
       \/ WriteDot(m) \/ WriteSign(m) \/ WriteRemove(m) \/ WriteUndot(m) \/ WriteBytes(m)
       \/ DirMark(m) \/ DirMarkSign(m)
       \/ DeleteEnter(m) \/ DeleteEntry(m) \/ DeleteDirectory(m)

-----------------------------------------------------------------------------
(* What the server promises whatever its clients do.                       *)

Unharmed == hit \cap {"kill", "starve", "undefined"} = {}

\* Between two requests every file and every directory below Root has its
\* owner on the disk, and nothing is left of an object that is gone, also after
\* the server has exited for want of a client's name and was started again.
\* fileWrite(), dirCreate() and recursive_delete() each need several system
\* calls to keep it so; a server that was not killed and did not run out of
\* descriptors does.
Signed ==
  Unharmed /\ at = "idle" =>
    /\ DOMAIN dot = DOMAIN data /\ DOMAIN mark = dirs \ {Root}
    /\ <<>> \notin Range(dot) \cup Range(mark)

\* A file the others may only read holds nothing but its owner's bytes:
\* fileWrite() compares before it writes, whatever was removed, created
\* again, written twice or interrupted by the server's death before.
ProtectedBytes ==
  "starve" \notin hit =>
    \A p \in DOMAIN data \cap DOMAIN dot :
      dot[p] # <<>> /\ dot[p][2] = "R" => Range(data[p]) \subseteq {dot[p][1]}

\* In a directory the others may only read every file is its owner's: the
\* check of ".directory" stands in the way of a file's creation, and the
\* directory's permissions do not outlive it.
ProtectedDirectories ==
  \A d \in DOMAIN mark : \A p \in Children(DOMAIN data \cap DOMAIN dot, d) :
    mark[d] # <<>> /\ mark[d][2] = "R" /\ dot[p] # <<>> => dot[p][1] = mark[d][1]

=============================================================================
