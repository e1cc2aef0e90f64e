----------------------------- MODULE HttpServer -----------------------------
(***************************************************************************)
(* The HTTP server of seiya-me-on-kerla (http-server/main.c): a parent     *)
(* that accepts and forks, and one child per connection that reads a       *)
(* request, opens a file and sends it in chunks.  A path stands for what   *)
(* stat and open make of it; a file is a sequence of blocks.  The client   *)
(* sends its request in one piece or in two; the network may break.        *)
(***************************************************************************)
EXTENDS Integers, Sequences, SequencesExt

CONSTANTS
  Clients,
  BUF_LEN,      \* blocks the buffer holds
  File,         \* the blocks of every file that exists
  Paths,        \* subset of {"index", "file", "dir", "bare", "missing", "long"}
  BreakMax,     \* connections that break while they are written to
  FaultMax      \* accepts, forks and reads of a file that fail

VARIABLES
  req,      \* per client: path, etag matches, and in how many pieces it is sent
  up,       \* the parent accepts
  conn,     \* per client: "none", "backlog", "parent" (accepted), "child", "shut"
  pieces,   \* per client: pieces of the request waiting to be read
  sent,     \* per client: pieces sent so far
  child,    \* per client: the child's pc, file offset, chunk and off in it
  out,      \* per client: what reached the client
  broken,   \* connections on which write fails
  unread,   \* clients whose file could not be read to its end
  fails     \* calls that failed

vars == <<req, up, conn, pieces, sent, child, out, broken, unread, fails>>

Reqs == [path : Paths, etag : BOOLEAN, num : 1..2]
Idle == [pc |-> "none", at |-> 0, len |-> 0, off |-> 0]
Status(n) == [kind |-> "status", code |-> n]
ChunkLen(n) == [kind |-> "chunk", len |-> n]
Block(b) == [kind |-> "data", value |-> b]
Crlf == [kind |-> "crlf"]
LastChunk == [kind |-> "last"]

Init ==
  /\ req \in [Clients -> Reqs]
  /\ conn = [c \in Clients |-> "none"] /\ pieces = [c \in Clients |-> <<>>]
  /\ sent = [c \in Clients |-> 0] /\ child = [c \in Clients |-> Idle]
  /\ out = [c \in Clients |-> <<>>] /\ broken = {} /\ unread = {} /\ fails = 0
  /\ up = TRUE

-----------------------------------------------------------------------------
(* The client; it is refused when the server has ended. *)
Connect(c) ==
  /\ conn[c] = "none" /\ conn' = [conn EXCEPT ![c] = IF up THEN "backlog" ELSE "shut"]
  /\ UNCHANGED <<req, up, pieces, sent, child, out, broken, unread, fails>>
SendPiece(c) ==
  /\ conn[c] \in {"backlog", "parent", "child"} /\ sent[c] < req[c].num
  /\ sent' = [sent EXCEPT ![c] = @ + 1]
  /\ pieces' = [pieces EXCEPT ![c] = Append(@, sent[c] + 1)]
  /\ UNCHANGED <<req, up, conn, child, out, broken, unread, fails>>
Break(c) ==
  /\ broken = {} /\ BreakMax > 0 /\ conn[c] = "child" /\ broken' = {c}
  /\ UNCHANGED <<req, up, conn, pieces, sent, child, out, unread, fails>>

-----------------------------------------------------------------------------
(* main: accept, then fork; whether it worked or not the parent closes its *)
(* socket, so a failed fork ends the connection without a reply.           *)
Accepting == up /\ \A d \in Clients : conn[d] # "parent"
Fault == fails < FaultMax /\ fails' = fails + 1
Accept(c) ==
  /\ Accepting
  /\ conn[c] = "backlog" /\ conn' = [conn EXCEPT ![c] = "parent"]
  /\ UNCHANGED <<req, up, pieces, sent, child, out, broken, unread, fails>>
(* ECONNABORTED takes a client from the queue and the loop goes on; other  *)
(* errors end the server, and with it the connections in the queue.        *)
AcceptFails ==
  /\ Accepting /\ Fault
  /\ \/ /\ \E c \in Clients : conn[c] = "backlog" /\ conn' = [conn EXCEPT ![c] = "shut"]
        /\ UNCHANGED up
     \/ /\ up' = FALSE
        /\ conn' = [c \in Clients |-> IF conn[c] = "backlog" THEN "shut" ELSE conn[c]]
  /\ UNCHANGED <<req, pieces, sent, child, out, broken, unread>>
Fork(c) ==
  /\ conn[c] = "parent"
  /\ \/ /\ conn' = [conn EXCEPT ![c] = "child"]
        /\ child' = [child EXCEPT ![c].pc = "read"] /\ UNCHANGED fails
     \/ Fault /\ conn' = [conn EXCEPT ![c] = "shut"] /\ UNCHANGED child
  /\ UNCHANGED <<req, up, pieces, sent, out, broken, unread>>

-----------------------------------------------------------------------------
(* The child's writes: nothing reaches a broken connection. *)
Write(c, what) == out' = [out EXCEPT ![c] = IF c \in broken THEN @ ELSE @ \o what]
Goto(c, pc) == child' = [child EXCEPT ![c].pc = pc]
(* The child ends, by exit or return: the connection is closed. *)
Exit(c) == child' = [child EXCEPT ![c].pc = "done"] /\ conn' = [conn EXCEPT ![c] = "shut"]

(* serve, the read loop: every round reads to the start of the buffer, so  *)
(* a piece that does not parse is forgotten, and the rest alone is a bad   *)
(* request or an incomplete one.                                           *)
ReadRequest(c) ==
  /\ child[c].pc = "read" /\ pieces[c] # <<>>
  /\ LET whole == Len(pieces[c]) = req[c].num
     IN \/ whole /\ Goto(c, "open") /\ UNCHANGED <<out, conn>>
        \/ ~whole /\ Head(pieces[c]) = 1 /\ Goto(c, "read") /\ UNCHANGED <<out, conn>>
        \/ ~whole /\ Head(pieces[c]) # 1 /\ Write(c, <<Status(400)>>) /\ Exit(c)
        \/ ~whole /\ Head(pieces[c]) # 1 /\ Goto(c, "read") /\ UNCHANGED <<out, conn>>
  /\ pieces' = [pieces EXCEPT ![c] = <<>>]
  /\ UNCHANGED <<req, up, sent, broken, unread, fails>>
(* read returns 0 when the client gives up and closes. *)
ReadEnds(c) ==
  /\ child[c].pc = "read" /\ pieces[c] = <<>> /\ sent[c] = req[c].num
  /\ Write(c, <<Status(500)>>) /\ Exit(c)
  /\ UNCHANGED <<req, up, pieces, sent, broken, unread, fails>>

(* open_file: a directory leads to its index, a name without a file to the *)
(* name with .html if there is room for it; then the ETag.                 *)
Opens(path) == CASE path \in {"index", "file", "dir", "bare"} -> 200
                 [] path = "long" -> 414 [] OTHER -> 404
OpenFile(c) ==
  /\ child[c].pc = "open"
  /\ LET code == Opens(req[c].path)
     IN CASE code # 200 -> Write(c, <<Status(code)>>) /\ Exit(c)
          [] code = 200 /\ req[c].etag -> Write(c, <<Status(304)>>) /\ Exit(c)
          [] OTHER -> Write(c, <<Status(200)>>) /\ Goto(c, "file") /\ UNCHANGED conn
  /\ UNCHANGED <<req, up, pieces, sent, broken, unread, fails>>

(* The chunk loop: read a buffer of the file and announce its length. *)
ReadFile(c) ==
  /\ child[c].pc = "file"
  /\ \E n \in 0..BUF_LEN :
       LET left == Len(File) - child[c].at
       IN /\ IF left = 0 THEN n = 0 ELSE n \in 1..left
          /\ IF n = 0 THEN Write(c, <<LastChunk>>) /\ Exit(c)
             ELSE /\ Write(c, <<ChunkLen(n)>>) /\ UNCHANGED conn
                  /\ child' = [child EXCEPT ![c].pc = "write", ![c].len = n, ![c].off = 0]
  /\ UNCHANGED <<req, up, pieces, sent, broken, unread, fails>>
(* A read that fails leaves the loop, and the reply is ended all the same. *)
ReadFileFails(c) ==
  /\ child[c].pc = "file" /\ Fault
  /\ Write(c, <<LastChunk>>) /\ Exit(c)
  /\ unread' = unread \cup {c}
  /\ UNCHANGED <<req, up, pieces, sent, broken>>
(* write may take a part; when it fails the rest of the buffer is dropped. *)
\* Mutant: what follows a partial write starts at the buffer's start.
WrittenFromStart(ch, n) == [i \in 1..n |-> Block(File[ch.at + i])]
Written(ch, n) == [i \in 1..n |-> Block(File[ch.at + ch.off + i])]
WriteChunk(c) ==
  LET ch == child[c]
  IN /\ ch.pc = "write" /\ UNCHANGED conn
     /\ IF ch.off = ch.len \/ c \in broken
        THEN /\ Write(c, <<Crlf>>)
             /\ child' = [child EXCEPT ![c].pc = "file", ![c].at = @ + ch.len]
        ELSE \E n \in 1..ch.len - ch.off :
               Write(c, Written(ch, n)) /\ child' = [child EXCEPT ![c].off = @ + n]
     /\ UNCHANGED <<req, up, pieces, sent, broken, unread, fails>>

\* Mutant: a path that is too long leaves the child in its loop.
ChildLong(c) == ReadRequest(c) \/ (Opens(req[c].path) # 414 /\ OpenFile(c)) \/ ReadFile(c) \/ WriteChunk(c)
Child(c) == ReadRequest(c) \/ OpenFile(c) \/ ReadFile(c) \/ WriteChunk(c)
Next ==
  \/ \E c \in Clients : Connect(c) \/ SendPiece(c) \/ Break(c) \/ Accept(c) \/ Fork(c)
                        \/ Child(c) \/ ReadEnds(c) \/ ReadFileFails(c)
  \/ AcceptFails

(* Clients send what they began, and every process the system schedules    *)
(* goes on.                                                                *)
Fairness ==
  /\ WF_vars(\E c \in Clients : Accept(c) \/ Fork(c))
  /\ \A c \in Clients : WF_vars(Connect(c) \/ SendPiece(c)) /\ WF_vars(Child(c))
Spec == Init /\ [][Next]_vars /\ Fairness

-----------------------------------------------------------------------------
(* The blocks a reply carries, and the chunks it announces. *)
Body(r) == LET data == SelectSeq(r, LAMBDA x : x.kind = "data")
           IN [i \in DOMAIN data |-> data[i].value]
Between(r, i, j) == Len(SelectSeq(SubSeq(r, i, j), LAMBDA x : x.kind = "data"))
(* RepliesWhole: what a client receives is, at every moment and however    *)
(* the children's steps mix, the beginning of its own file, every finished *)
(* chunk has the length announced for it, and a reply that was ended is    *)
(* the whole file unless a read of the file failed, which the code ends as *)
(* if it were whole; one request gets one status.                          *)
RepliesWhole ==
  \A c \in Clients :
    LET r == out[c]
    IN /\ IsPrefix(Body(r), File)
       /\ Len(SelectSeq(r, LAMBDA x : x.kind = "status")) <= 1
       /\ LastChunk \in ToSet(r) /\ c \notin unread => Body(r) = File
       /\ \A i, j \in DOMAIN r :
            (r[i].kind = "chunk" /\ r[j].kind = "crlf" /\ i < j
               /\ \A k \in i..j : r[k].kind = "chunk" => k = i) => Between(r, i, j) = r[i].len
(* AllServed: a client whose request arrives in one piece is answered, or  *)
(* its connection closed, in the end, however slow or broken the others    *)
(* are, also when the server ends.                                         *)
ServedOrShut(c) == req[c].num = 1 => conn[c] = "shut"
AllServed == \A c \in Clients : <>ServedOrShut(c)
=============================================================================
