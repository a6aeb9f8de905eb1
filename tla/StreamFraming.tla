----------------------------- MODULE StreamFraming -----------------------------
(***************************************************************************)
(* put_file and get_file on one connection: where the raw body of one      *)
(* request ends and the next header line begins (heliosHandleStreaming,    *)
(* verbPutFileStream, verbGetFileStream, streamDrain).                     *)
(*                                                                         *)
(* What the client sends is a stream of units: a header line is one, a     *)
(* body as many as the header announces.  start[r] is where in the stream  *)
(* the header of request r lies; all other units are raw.  The client may  *)
(* send its next request before the last is answered, and may leave in the *)
(* middle of a body.  What the daemon sends is a sequence of reply lines,  *)
(* each with the number of raw units that follow it.  The answer to a      *)
(* shutdown is the last; so is that to any line that is not a streaming    *)
(* verb, in a process that has the intent of a shutdown from another       *)
(* connection (HeliosAgent.cpp:351-356, 727).                              *)
(***************************************************************************)
EXTENDS Naturals, Sequences

CONSTANTS
    MaxRequests,  \* bound: requests of the client
    MaxBody,      \* bound: units of a body
    Chunk         \* units in the verbs' buffer (65536 bytes)

ASSUME BoundAssumption == MaxRequests \in Nat /\ MaxBody \in Nat
ASSUME ChunkAssumption == Chunk \in Nat \ {0}

\* A put_file and its body, a get_file, a request of one line, of which shutdown
\* is one, or a streaming request that cannot be framed (no path, no usable byte
\* count, not authorized) with whatever the client sends after it.
Verb == {"put", "get", "line", "shutdown", "unframed"}
Ask  == [verb : Verb, body : 0..MaxBody]

\* body: the units announced; raw: those sent; end: "short" when a read() of
\* the file came up short (history).
Reply == [req : 0..MaxRequests, ok : BOOLEAN, body : 0..MaxBody, raw : Nat,
          end : {"whole", "short"}]

VARIABLES
    asked,   \* the requests whose header the client has sent
    start,   \* where their headers are
    sent,    \* units the client has sent
    owed,    \* body units of the last request it has not sent yet
    gone,    \* it has closed its end
    at,      \* what the daemon is doing
    took,    \* the request whose header it read last (0: none, or no header)
    taken,   \* units it has received
    left,    \* `remaining`: body units still to receive or to send
    down,    \* the replies it has sent
    intent   \* s_shutdownRequested of the serving process

client == <<asked, start, sent, owed, gone>>
daemon == <<at, took, taken, left, down, intent>>
vars   == <<client, daemon>>

Init ==
    /\ asked = <<>> /\ start = <<>> /\ sent = 0 /\ owed = 0 /\ gone = FALSE
    /\ at = "recv" /\ took = 0 /\ taken = 0 /\ left = 0 /\ down = <<>>
    /\ intent \in BOOLEAN

(***************************************************************************)
(* The client.                                                             *)
(***************************************************************************)

SendHeader(a) ==
    /\ ~gone /\ owed = 0 /\ Len(asked) < MaxRequests
    /\ a.verb \in {"get", "line", "shutdown"} => a.body = 0
    /\ asked' = Append(asked, a)
    /\ start' = Append(start, sent)
    /\ sent' = sent + 1
    /\ owed' = a.body
    /\ UNCHANGED <<gone, daemon>>

SendRaw ==
    /\ ~gone /\ owed > 0
    /\ owed' = owed - 1
    /\ sent' = sent + 1
    /\ UNCHANGED <<asked, start, gone, daemon>>

Leave ==
    /\ ~gone /\ gone' = TRUE
    /\ UNCHANGED <<asked, start, sent, owed, daemon>>

(***************************************************************************)
(* The daemon.                                                             *)
(***************************************************************************)

\* The request being handled; a raw unit is a malformed line.
Cur == IF took = 0 THEN [verb |-> "line", body |-> 0] ELSE asked[took]

\* The units of the next recvAtLeast() or read() of a body.
NextChunk == IF Chunk < left THEN Chunk ELSE left

\* A whole chunk is there.
Arrived == taken + NextChunk <= sent

Say(ok, n) ==
    down' = Append(down, [req |-> took, ok |-> ok, body |-> n, raw |-> 0,
                          end |-> "whole"])

\* recvUntil( '\n' ) takes whatever comes next for a line.
TakeLine ==
    /\ at = "recv" /\ taken < sent
    /\ at' = "header"
    /\ took' = IF \E r \in DOMAIN start : start[r] = taken
               THEN CHOOSE r \in DOMAIN start : start[r] = taken ELSE 0
    /\ taken' = taken + 1
    /\ UNCHANGED <<client, intent, left, down>>

\* The client has left: recvUntil() or recvAtLeast() throws.
ReceiveThrows ==
    /\ gone
    /\ \/ at = "recv" /\ taken = sent
       \/ at \in {"body", "drain"} /\ left > 0 /\ ~Arrived
    /\ at' = "closed"
    /\ UNCHANGED <<client, intent, took, taken, left, down>>

\* What dispatching the request may do to the intent: a shutdown that is
\* authorized sets it.
Dispatched(ok) == intent \/ (Cur.verb = "shutdown" /\ ok)

\* Mutant of Plain: the intent is not looked at.
Plain_GoesOn ==
    /\ at = "header" /\ Cur.verb \in {"line", "shutdown"}
    /\ at' = "recv"
    /\ \E ok \in BOOLEAN : intent' = Dispatched(ok) /\ Say(ok, 0)
    /\ UNCHANGED <<client, took, taken, left>>

\* A request of one line: the dispatcher answers, and the connection ends if the
\* process is to shut the system down.
Plain ==
    /\ at = "header" /\ Cur.verb \in {"line", "shutdown"}
    /\ \E ok \in BOOLEAN : intent' = Dispatched(ok) /\ Say(ok, 0)
    /\ at' = IF intent' THEN "closed" ELSE "recv"
    /\ UNCHANGED <<client, took, taken, left>>

\* No path, no byte count, or not authorized: answer and close.
Unframed ==
    /\ at = "header" /\ Cur.verb = "unframed"
    /\ at' = "closed"
    /\ Say(FALSE, 0)
    /\ UNCHANGED <<client, intent, took, taken, left>>

\* Mutant of PutRefused: the refusal is answered, the body is left there.
PutRefused_NoDrain ==
    /\ at = "header" /\ Cur.verb = "put"
    /\ at' = "recv"
    /\ Say(FALSE, 0)
    /\ UNCHANGED <<client, intent, took, taken, left>>

\* put_file: unknown user, not a regular file, no temp file: the body is
\* drained before the answer.
PutRefused ==
    /\ at = "header" /\ Cur.verb = "put"
    /\ at' = "drain" /\ left' = Cur.body
    /\ UNCHANGED <<client, intent, took, taken, down>>

PutStart ==
    /\ at = "header" /\ Cur.verb = "put"
    /\ at' = "body" /\ left' = Cur.body
    /\ UNCHANGED <<client, intent, took, taken, down>>

\* One turn of the loop: a chunk arrives and is written.
PutChunk ==
    /\ at = "body" /\ left > 0 /\ Arrived
    /\ taken' = taken + NextChunk
    /\ left' = left - NextChunk
    /\ UNCHANGED <<client, intent, at, took, down>>

\* Mutant of PutChunkFails: the chunk just received is drained again.
PutChunkFails_DrainsAll ==
    /\ at = "body" /\ left > 0 /\ Arrived
    /\ at' = "drain"
    /\ taken' = taken + NextChunk
    /\ UNCHANGED <<client, intent, took, left, down>>

\* The chunk arrives but write() fails: what is left after it is drained.
PutChunkFails ==
    /\ at = "body" /\ left > 0 /\ Arrived
    /\ at' = "drain"
    /\ taken' = taken + NextChunk
    /\ left' = left - NextChunk
    /\ UNCHANGED <<client, intent, took, down>>

\* The body is complete: rename() works, or does not.
PutEnd ==
    /\ at = "body" /\ left = 0
    /\ at' = "recv"
    /\ \E ok \in BOOLEAN : Say(ok, 0)
    /\ UNCHANGED <<client, intent, took, taken, left>>

\* streamDrain( conn, left ).
Drain ==
    /\ at = "drain" /\ left > 0 /\ Arrived
    /\ taken' = taken + NextChunk
    /\ left' = left - NextChunk
    /\ UNCHANGED <<client, intent, at, took, down>>

\* Mutant of DrainEnd: the error is not reported.
DrainEnd_Silent ==
    /\ at = "drain" /\ left = 0
    /\ at' = "recv"
    /\ UNCHANGED <<client, intent, took, taken, left, down>>

DrainEnd ==
    /\ at = "drain" /\ left = 0
    /\ at' = "recv"
    /\ Say(FALSE, 0)
    /\ UNCHANGED <<client, intent, took, taken, left>>

\* get_file: no path, unknown user, cannot open, not a regular file.
GetRefused ==
    /\ at = "header" /\ Cur.verb = "get"
    /\ at' = "recv"
    /\ Say(FALSE, 0)
    /\ UNCHANGED <<client, intent, took, taken, left>>

\* The header of the reply announces the size of the file.
GetStart ==
    /\ at = "header" /\ Cur.verb = "get"
    /\ \E n \in 0..MaxBody : left' = n /\ Say(TRUE, n)
    /\ at' = "send"
    /\ UNCHANGED <<client, intent, took, taken>>

SendUnits(n) == down' = [down EXCEPT ![Len(down)].raw = @ + n]

\* Mutant of GetChunk: a chunk is sent, however little was read.
GetChunk_AsAsked ==
    /\ at = "send" /\ left > 0
    /\ \E n \in 1..NextChunk : SendUnits(NextChunk) /\ left' = left - n
    /\ UNCHANGED <<client, intent, at, took, taken>>

\* read() returns up to a chunk, and that much is sent.
GetChunk ==
    /\ at = "send" /\ left > 0
    /\ \E n \in 1..NextChunk : SendUnits(n) /\ left' = left - n
    /\ UNCHANGED <<client, intent, at, took, taken>>

\* Everything was sent; the connection is kept.
GetEnd ==
    /\ at = "send" /\ left = 0
    /\ at' = "recv"
    /\ UNCHANGED <<client, intent, took, taken, left, down>>

\* read() fails or meets an early end of file: the verb says nothing and keeps
\* the connection all the same.
GetShort ==
    /\ at = "send" /\ left > 0
    /\ at' = "recv"
    /\ down' = [down EXCEPT ![Len(down)].end = "short"]
    /\ UNCHANGED <<client, intent, took, taken, left>>

\* The client has left: a send throws, that of a line after its dispatch.
SendThrows ==
    /\ gone
    /\ \/ at = "header" /\ Cur.verb # "put"
       \/ at = "send"
       \/ at \in {"body", "drain"} /\ left = 0
    /\ at' = "closed"
    /\ \/ UNCHANGED intent
       \/ at = "header" /\ intent' = Dispatched(TRUE)
    /\ UNCHANGED <<client, took, taken, left, down>>

Daemon ==
    \/ TakeLine \/ ReceiveThrows \/ Plain \/ Unframed \/ PutRefused \/ PutStart
    \/ PutChunk \/ PutChunkFails \/ PutEnd \/ Drain \/ DrainEnd \/ GetRefused
    \/ GetStart \/ GetChunk \/ GetEnd \/ GetShort \/ SendThrows

Client == SendRaw \/ Leave \/ \E a \in Ask : SendHeader(a)

Next == Client \/ Daemon

\* The serving child runs when it can; the client owes nothing.
Spec == Init /\ [][Next]_vars
FairSpec == Spec /\ WF_vars(Daemon)

(***************************************************************************)
(* Properties.                                                             *)
(***************************************************************************)

TypeOK ==
    /\ asked \in Seq(Ask) /\ start \in Seq(Nat) /\ Len(start) = Len(asked)
    /\ Len(asked) <= MaxRequests
    /\ sent \in Nat /\ owed \in 0..MaxBody /\ gone \in BOOLEAN
    /\ at \in {"recv", "header", "body", "drain", "send", "closed"}
    /\ took \in 0..Len(asked) /\ taken \in 0..sent /\ left \in 0..MaxBody
    /\ down \in Seq(Reply) /\ intent \in BOOLEAN

\* The daemon never takes a piece of a body for a request: whenever it is
\* about to read a line, what comes next is the header of the next request.
DaemonFramed ==
    at = "recv" /\ taken < sent =>
        took < Len(asked) /\ start[took + 1] = taken

\* Every request read is answered once, in order; the one being handled is the
\* only one that may not be answered yet.
OneReplyEach ==
    /\ \A k \in DOMAIN down : down[k].req = k
    /\ at = "recv" => Len(down) = took

\* The client never takes a reply for a piece of a file or the reverse: after
\* a reply come as many raw units as it announces, and then the next reply,
\* unless the file has become shorter than announced.
ClientFramed ==
    \A k \in DOMAIN down :
        /\ down[k].raw <= down[k].body
        /\ k < Len(down) /\ down[k].end = "whole" => down[k].raw = down[k].body

\* The same without the exception: "followed by exactly N raw bytes"
\* (PROTOCOL.md).
ExactlyAsAnnounced ==
    \A k \in DOMAIN down : k < Len(down) => down[k].raw = down[k].body

\* A request that arrived whole is answered, or the connection is closed.
Answered ==
    \A r \in 1..MaxRequests :
        (r < Len(asked) \/ (r = Len(asked) /\ owed = 0))
            ~> Len(down) >= r \/ at = "closed"

(***************************************************************************)
(* The verbs implement Exchange.                                           *)
(***************************************************************************)

Kind(a) == IF a.verb \in {"put", "get"} THEN "stream" ELSE a.verb

Requests == INSTANCE Exchange WITH
    asked   <- [r \in DOMAIN asked |-> Kind(asked[r])],
    whole   <- IF owed = 0 THEN Len(asked) ELSE Len(asked) - 1,
    replies <- [k \in DOMAIN down |-> down[k].req],
    open    <- at # "closed",
    halting <- intent

\* Every request is answered once, in order, and when it has arrived whole; the
\* connection is ended with the answer to a shutdown, or to any line once the
\* process is to shut down, with the answer to one that cannot be framed, or after
\* the client has left, and never otherwise.
ImplementsExchange == Requests!Spec

(***************************************************************************)
(* The inductive invariant of the proofs.                                  *)
(***************************************************************************)

\* Headers lie where the bodies before them end.
LayoutInv ==
    /\ Len(asked) > 0 =>
         /\ start[1] = 0
         /\ start[Len(asked)] + 1 + asked[Len(asked)].body = sent + owed
    /\ Len(asked) = 0 => sent = 0 /\ owed = 0
    /\ \A r \in 1..Len(asked) - 1 :
         start[r + 1] = start[r] + 1 + asked[r].body
    /\ \A i, j \in 1..Len(asked) : i < j => start[i] < start[j]
    /\ \A r \in 1..Len(asked) : asked[r].verb \in {"get", "line", "shutdown"} => asked[r].body = 0

\* What the daemon has received, and what it has still to receive before the
\* next header.
Position ==
    /\ at \in {"recv", "send"} =>
         IF took = 0 THEN taken = 0
         ELSE taken = start[took] + 1 + asked[took].body
    /\ at = "header" => took > 0 /\ taken = start[took] + 1
    /\ at \in {"body", "drain"} =>
         took > 0 /\ taken + left = start[took] + 1 + asked[took].body

\* The replies so far, and the one being sent.
ReplyInv ==
    /\ \A k \in DOMAIN down : down[k].req = k
    /\ at \in {"recv", "send"} => Len(down) = took
    /\ at \in {"header", "body", "drain"} => Len(down) + 1 = took
    /\ \A k \in DOMAIN down : k < Len(down) =>
         down[k].end = "short" \/ down[k].raw = down[k].body
    /\ at \in {"header", "body", "drain", "recv"} => \A k \in DOMAIN down :
         down[k].end = "short" \/ down[k].raw = down[k].body
    /\ \A k \in DOMAIN down : down[k].raw <= down[k].body
    /\ at = "send" => took > 0 /\ down[took].raw + left = down[took].body

Inv == TypeOK /\ LayoutInv /\ Position /\ ReplyInv
=============================================================================
