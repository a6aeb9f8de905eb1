------------------------- MODULE StreamFraming_proofs -------------------------
(***************************************************************************)
(* Proofs about StreamFraming: however requests are pipelined, and         *)
(* whatever fails, the two ends agree on where bodies end.                 *)
(***************************************************************************)
EXTENDS StreamFraming, SequenceTheorems, TLAPS

LEMMA AppendFacts ==
    ASSUME NEW S, NEW s \in Seq(S), NEW x \in S
    PROVE  /\ Append(s, x) \in Seq(S)
           /\ Len(Append(s, x)) = Len(s) + 1
           /\ Append(s, x)[Len(s) + 1] = x
           /\ \A i \in 1..Len(s) : Append(s, x)[i] = s[i]
           /\ Len(s) \in Nat /\ DOMAIN s = 1..Len(s)
           /\ DOMAIN Append(s, x) = 1..(Len(s) + 1)
OBVIOUS

\* What the type invariant says of the sequences.
LEMMA TypeFacts ==
    ASSUME TypeOK
    PROVE  /\ Len(asked) \in Nat /\ MaxBody \in Nat /\ left \in Nat
           /\ sent \in Nat /\ owed \in Nat /\ taken \in Nat /\ took \in Nat
           /\ DOMAIN start = 1..Len(asked)
           /\ \A r \in 1..Len(asked) :
                start[r] \in Nat /\ asked[r].body \in 0..MaxBody /\ asked[r].body \in Nat
           /\ Len(down) \in Nat /\ DOMAIN down = 1..Len(down)
           /\ \A k \in 1..Len(down) :
                down[k] \in Reply /\ down[k].raw \in Nat /\ down[k].body \in Nat
<1> USE DEF TypeOK
<1>1. /\ Len(asked) \in Nat /\ MaxBody \in Nat /\ left \in Nat
      /\ sent \in Nat /\ owed \in Nat /\ taken \in Nat /\ took \in Nat
      /\ DOMAIN start = 1..Len(asked) /\ DOMAIN asked = 1..Len(asked)
      /\ Len(down) \in Nat /\ DOMAIN down = 1..Len(down)
    BY BoundAssumption
<1>2. \A r \in 1..Len(asked) : start[r] \in Nat
    BY <1>1
<1>3. \A r \in 1..Len(asked) : asked[r] \in Ask
    BY <1>1
<1>4. \A k \in 1..Len(down) : down[k] \in Reply
    BY <1>1
<1> QED
    BY <1>1, <1>2, <1>3, <1>4 DEF Ask, Reply

LEMMA InitInv == Init => Inv
<1> SUFFICES ASSUME Init PROVE Inv
    OBVIOUS
<1>1. TypeOK
  <2>1. <<>> \in Seq(Ask) /\ <<>> \in Seq(Nat) /\ <<>> \in Seq(Reply)
      OBVIOUS
  <2>2. gone \in BOOLEAN /\ intent \in BOOLEAN
      BY Zenon DEF Init
  <2>3. Len(<<>>) = 0
      OBVIOUS
  <2> QED
      BY <2>1, <2>2, <2>3, BoundAssumption DEF Init, TypeOK
<1>2. LayoutInv
    BY DEF Init, LayoutInv
<1>3. Position /\ ReplyInv
    BY DEF Init, Position, ReplyInv
<1> QED
    BY <1>1, <1>2, <1>3 DEF Inv

\* The next chunk is not empty and not more than what is left.
LEMMA ChunkFacts ==
    ASSUME TypeOK
    PROVE  /\ left > 0 => NextChunk \in 1..left
           /\ NextChunk \in Nat
BY ChunkAssumption, BoundAssumption DEF TypeOK, NextChunk

(***************************************************************************)
(* The client.                                                             *)
(***************************************************************************)

LEMMA SendHeaderInv == ASSUME Inv, NEW a \in Ask, SendHeader(a) PROVE Inv'
<1> USE BoundAssumption DEF SendHeader, daemon
<1> TypeOK /\ LayoutInv /\ Position /\ ReplyInv
    BY DEF Inv
<1> DEFINE n == Len(asked)
<1>1. /\ n \in Nat /\ Len(asked') = n + 1 /\ Len(start') = n + 1
      /\ asked' \in Seq(Ask) /\ start' \in Seq(Nat)
      /\ asked'[n + 1] = a /\ start'[n + 1] = sent
      /\ \A i \in 1..n : asked'[i] = asked[i] /\ start'[i] = start[i]
    BY AppendFacts DEF TypeOK
<1>2. TypeOK'
    BY <1>1 DEF TypeOK, Ask
<1>3. \A i \in 1..n : start[i] < sent
  <2> SUFFICES ASSUME NEW i \in 1..n PROVE start[i] < sent
      OBVIOUS
  <2>1. start[n] + 1 + asked[n].body = sent
    <3>1. n # 0
        BY <1>1
    <3> QED
        BY <1>1, <3>1 DEF LayoutInv, TypeOK
  <2>2. i = n \/ start[i] < start[n]
      BY <1>1 DEF LayoutInv
  <2>3. /\ start[i] \in Nat /\ start[n] \in Nat /\ asked[n].body \in Nat
        /\ sent \in Nat
    <3> HIDE DEF SendHeader
    <3>1. n \in 1..n
        BY <1>1
    <3> QED
        BY <3>1, TypeFacts
  <2>4. start[n] < sent
    <3>1. \A j, k, l \in Nat : j + 1 + k = l => j < l
        OBVIOUS
    <3> QED
        BY <3>1, <2>1, <2>3, Zenon
  <2> QED
      BY <2>2, <2>3, <2>4
<1>4. LayoutInv'
  <2>1. a.body \in Nat
      BY DEF Ask
  <2>2. /\ Len(asked') # 0 /\ start'[1] = 0
        /\ start'[n + 1] + 1 + asked'[n + 1].body = sent' + owed'
      BY <1>1, <2>1 DEF TypeOK, LayoutInv
  <2>3. ASSUME NEW r \in 1..n PROVE start'[r + 1] = start'[r] + 1 + asked'[r].body
    <3>1. r = n \/ r + 1 \in 1..n
        BY <1>1
    <3>2. r = n => sent = start[r] + 1 + asked[r].body
      <4>1. n > 0 /\ owed = 0 /\ sent \in Nat
          BY <1>1 DEF TypeOK
      <4>2. start[n] + 1 + asked[n].body = sent + owed
          BY <4>1 DEF LayoutInv
      <4> QED
          BY <4>1, <4>2
    <3>3. r + 1 \in 1..n => start[r + 1] = start[r] + 1 + asked[r].body
        BY <1>1 DEF LayoutInv
    <3> HIDE DEF n, SendHeader
    <3> QED
        BY <1>1, <3>1, <3>2, <3>3
  <2>4. ASSUME NEW i \in 1..(n + 1), NEW j \in 1..(n + 1), i < j
        PROVE  start'[i] < start'[j]
    <3>1. \A k, l \in 1..Len(asked) : k < l => start[k] < start[l]
        BY DEF LayoutInv
    <3> HIDE DEF n, SendHeader
    <3>2. i \in 1..n /\ (j = n + 1 \/ j \in 1..n)
        BY <1>1, <2>4
    <3>3. j \in 1..n => start[i] < start[j]
        BY <2>4, <3>1, <3>2 DEF n
    <3> QED
        BY <1>1, <1>3, <3>2, <3>3
  <2>5. \A r \in 1..(n + 1) :
            asked'[r].verb \in {"get", "line", "shutdown"} => asked'[r].body = 0
    <3>1. a.verb \in {"get", "line", "shutdown"} => a.body = 0
        OBVIOUS
    <3>2. \A r \in 1..n :
              asked[r].verb \in {"get", "line", "shutdown"} => asked[r].body = 0
        BY DEF LayoutInv
    <3> HIDE DEF n, SendHeader
    <3>3. \A r \in 1..(n + 1) : r = n + 1 \/ r \in 1..n
        BY <1>1
    <3> QED
        BY <1>1, <3>1, <3>2, <3>3
  <2> QED
    <3> HIDE DEF n, SendHeader
    <3>1. n + 1 = Len(asked') /\ n + 1 - 1 = n
        BY <1>1
    <3> QED
        BY <1>1, <2>2, <2>3, <2>4, <2>5, <3>1 DEF LayoutInv
<1>5. Position' /\ ReplyInv'
  <2>1. took \in 0..n
      BY DEF TypeOK
  <2> QED
      BY <1>1, <2>1 DEF Position, ReplyInv
<1> QED
    BY <1>2, <1>4, <1>5 DEF Inv

LEMMA ClientInv == ASSUME Inv, SendRaw \/ Leave PROVE Inv'
<1> USE DEF SendRaw, Leave, daemon
<1> TypeOK /\ LayoutInv /\ Position /\ ReplyInv
    BY DEF Inv
<1>1. TypeOK'
  <2>1. sent' \in Nat /\ sent <= sent' /\ owed' \in 0..MaxBody
    <3>1. CASE SendRaw
        BY <3>1, BoundAssumption DEF TypeOK
    <3>2. CASE Leave
        BY <3>2 DEF TypeOK
    <3> QED
        BY <3>1, <3>2
  <2>3. gone' \in BOOLEAN
      BY Zenon DEF TypeOK
  <2>2. taken \in 0..sent'
      BY <2>1, TypeFacts DEF TypeOK
  <2> QED
      BY <2>1, <2>2, <2>3 DEF TypeOK
<1>2. LayoutInv'
  <2>1. sent' + owed' = sent + owed /\ (owed = 0 /\ sent = 0 => sent' = 0 /\ owed' = 0)
      BY TypeFacts
  <2>2. asked' = asked /\ start' = start
      OBVIOUS
  <2> HIDE DEF SendRaw, Leave
  <2> QED
      BY <2>1, <2>2 DEF LayoutInv
<1>3. Position' /\ ReplyInv'
    BY DEF Position, ReplyInv
<1> QED
    BY <1>1, <1>2, <1>3 DEF Inv

(***************************************************************************)
(* The daemon: reading.                                                    *)
(***************************************************************************)

\* Before it reads a line the daemon is at the header of the next request.
LEMMA AtHeader ==
    ASSUME Inv, at = "recv", taken < sent
    PROVE  took < Len(asked) /\ start[took + 1] = taken
<1> TypeOK /\ LayoutInv /\ Position
    BY DEF Inv
<1>1. took \in 0..Len(asked) /\ Len(asked) \in Nat /\ taken \in Nat /\ sent \in Nat
    BY TypeFacts DEF TypeOK
<1>2. CASE took = 0
    BY <1>1, <1>2 DEF LayoutInv, Position
<1>3. CASE took > 0 /\ took = Len(asked)
    BY <1>1, <1>3, TypeFacts DEF LayoutInv, Position
<1>4. CASE took > 0 /\ took < Len(asked)
  <2>1. took \in 1..Len(asked) - 1
      BY <1>1, <1>4
  <2>2. start[took + 1] = start[took] + 1 + asked[took].body
      BY <2>1 DEF LayoutInv
  <2> QED
      BY <1>4, <2>2 DEF Position
<1> QED
    BY <1>1, <1>2, <1>3, <1>4

LEMMA TakeLineInv == ASSUME Inv, TakeLine PROVE Inv'
<1> USE DEF TakeLine, client
<1> TypeOK /\ LayoutInv /\ Position /\ ReplyInv
    BY DEF Inv
<1>1. took + 1 \in 1..Len(asked) /\ start[took + 1] = taken
    BY AtHeader DEF TypeOK
<1>2. took' = took + 1
  <2>1. took + 1 \in DOMAIN start
      BY <1>1 DEF TypeOK
  <2>2. \A r \in DOMAIN start : start[r] = taken => r = took + 1
    <3> SUFFICES ASSUME NEW r \in 1..Len(asked), start[r] = taken
                 PROVE  r = took + 1
        BY TypeFacts
    <3>1. start[r] < start[took + 1] \/ start[took + 1] < start[r] \/ r = took + 1
        BY <1>1, TypeFacts DEF LayoutInv
    <3> QED
        BY <1>1, <3>1, TypeFacts
  <2> QED
      BY <1>1, <2>1, <2>2
<1>3. TypeOK'
    BY <1>1, <1>2 DEF TypeOK
<1>4. LayoutInv'
    BY DEF LayoutInv
<1>5. Position'
  <2>1. /\ at' = "header" /\ took' > 0 /\ start' = start
        /\ taken' = start'[took'] + 1
      BY <1>1, <1>2 DEF TypeOK
  <2> QED
      BY <2>1 DEF Position
<1>6. ReplyInv'
    BY <1>1, <1>2, TypeFacts DEF ReplyInv
<1> QED
    BY <1>3, <1>4, <1>5, <1>6 DEF Inv

\* What dispatching a request makes of the intent is an intent.
LEMMA IntentType ==
    ASSUME TypeOK, NEW ok \in BOOLEAN
    PROVE  Dispatched(ok) \in BOOLEAN
BY Zenon DEF Dispatched

LEMMA CloseInv == ASSUME Inv, ReceiveThrows \/ SendThrows PROVE Inv'
<1>1. intent' \in BOOLEAN
  <2>1. TypeOK /\ intent \in BOOLEAN
      BY DEF Inv, TypeOK
  <2>2. Dispatched(TRUE) \in BOOLEAN
      BY <2>1, IntentType
  <2>3. intent' = intent \/ intent' = Dispatched(TRUE)
      BY DEF ReceiveThrows, SendThrows
  <2> QED
      BY <2>1, <2>2, <2>3
<1>2. /\ UNCHANGED <<asked, start, sent, owed, gone, took, taken, left, down>>
      /\ at' = "closed"
    BY DEF ReceiveThrows, SendThrows, client
<1> QED
    BY <1>1, <1>2 DEF Inv, TypeOK, LayoutInv, Position, ReplyInv

LEMMA PutInv == ASSUME Inv, PutRefused \/ PutStart PROVE Inv'
<1> USE BoundAssumption DEF PutRefused, PutStart, client
<1> TypeOK /\ LayoutInv /\ Position /\ ReplyInv
    BY DEF Inv
<1>1. took \in 1..Len(asked) /\ Cur = asked[took] /\ asked[took].body \in 0..MaxBody
  <2>1. took \in 1..Len(asked)
      BY TypeFacts DEF TypeOK, Position
  <2> QED
      BY <2>1, TypeFacts DEF Cur
<1> QED
    BY <1>1 DEF Inv, TypeOK, LayoutInv, Position, ReplyInv

\* Receiving a chunk brings the daemon as much closer to the end of the body.
LEMMA ReceiveInv == ASSUME Inv, PutChunk \/ PutChunkFails \/ Drain PROVE Inv'
<1> USE BoundAssumption DEF PutChunk, PutChunkFails, Drain, Arrived, client
<1> TypeOK /\ LayoutInv /\ Position /\ ReplyInv
    BY DEF Inv
<1>1. NextChunk \in 1..left /\ left \in Nat /\ taken \in Nat /\ sent \in Nat
    BY ChunkFacts DEF TypeOK
<1>2. /\ at \in {"body", "drain"} /\ at' \in {"body", "drain"}
      /\ taken' = taken + NextChunk /\ left' = left - NextChunk
      /\ taken' <= sent
      /\ UNCHANGED <<asked, start, sent, owed, gone, took, down, intent>>
    OBVIOUS
<1> HIDE DEF PutChunk, PutChunkFails, Drain, Arrived
<1>3. TypeOK'
    BY <1>1, <1>2 DEF TypeOK
<1>4. LayoutInv' /\ Position'
    BY <1>1, <1>2 DEF LayoutInv, Position
<1>5. ReplyInv'
    BY <1>2 DEF ReplyInv
<1> QED
    BY <1>3, <1>4, <1>5 DEF Inv

(***************************************************************************)
(* The daemon: answering.                                                  *)
(***************************************************************************)

\* A reply is one more, to the request being handled.
LEMMA SayFacts ==
    ASSUME Inv, at \in {"header", "body", "drain"}, NEW ok \in BOOLEAN,
           NEW n \in 0..MaxBody, Say(ok, n)
    PROVE  /\ down' \in Seq(Reply)
           /\ Len(down) \in Nat /\ Len(down') = Len(down) + 1 /\ took = Len(down')
           /\ DOMAIN down = 1..Len(down) /\ DOMAIN down' = 1..Len(down')
           /\ \A k \in 1..Len(down) : down'[k] = down[k]
           /\ down'[took].req = took /\ down'[took].body = n /\ down'[took].raw = 0
<1>1. took \in 0..MaxRequests /\ down \in Seq(Reply) /\ Len(down) + 1 = took
    BY BoundAssumption DEF Inv, TypeOK, ReplyInv
<1>2. [req |-> took, ok |-> ok, body |-> n, raw |-> 0, end |-> "whole"] \in Reply
    BY <1>1 DEF Reply
<1> QED
    BY <1>1, <1>2, AppendFacts DEF Say

\* A reply without a body, after which the daemon is back at a header or has
\* closed the connection.
LEMMA AnswerInv ==
    ASSUME Inv, at \in {"header", "body", "drain"}, NEW ok \in BOOLEAN, Say(ok, 0),
           at' \in {"recv", "closed"}, intent' \in BOOLEAN,
           UNCHANGED <<client, took, taken, left>>,
           at' = "recv" => taken = start[took] + 1 + asked[took].body
    PROVE  Inv'
<1> USE BoundAssumption DEF client
<1> TypeOK /\ LayoutInv /\ Position /\ ReplyInv
    BY DEF Inv
<1>1. 0 \in 0..MaxBody /\ took > 0
    BY DEF Position
<1>2. /\ down' \in Seq(Reply)
      /\ Len(down) \in Nat /\ Len(down') = Len(down) + 1 /\ took = Len(down')
      /\ DOMAIN down = 1..Len(down) /\ DOMAIN down' = 1..Len(down')
      /\ \A k \in 1..Len(down) : down'[k] = down[k]
      /\ down'[took].req = took /\ down'[took].body = 0 /\ down'[took].raw = 0
    BY <1>1, SayFacts
<1>3. TypeOK' /\ LayoutInv' /\ Position'
    BY <1>1, <1>2 DEF TypeOK, LayoutInv, Position
<1>4. ReplyInv'
  <2>1. at' = "recv" \/ at' = "closed"
      OBVIOUS
  <2>2. took' = took /\ took \in Nat
      BY TypeFacts
  <2>3. \A k \in 1..Len(down) : down[k].raw <= down[k].body
      BY TypeFacts DEF ReplyInv
  <2>4. \A k \in 1..Len(down) : down[k].end = "short" \/ down[k].raw = down[k].body
      BY <1>2 DEF ReplyInv
  <2>5. \A k \in 1..Len(down) : down[k].req = k
      BY TypeFacts DEF ReplyInv
  <2>6. \A k \in DOMAIN down' : k \in 1..Len(down) \/ k = took
      BY <1>2
  <2>7. \A k \in DOMAIN down' :
            /\ down'[k].req = k /\ down'[k].raw <= down'[k].body
            /\ down'[k].end = "short" \/ down'[k].raw = down'[k].body
      BY <1>2, <2>2, <2>3, <2>4, <2>5, <2>6
  <2> QED
      BY <1>2, <2>1, <2>2, <2>7 DEF ReplyInv
<1> QED
    BY <1>3, <1>4 DEF Inv

LEMMA RepliesInv ==
    ASSUME Inv, Plain \/ Unframed \/ PutEnd \/ DrainEnd \/ GetRefused PROVE Inv'
<1> TypeOK /\ LayoutInv /\ Position /\ ReplyInv
    BY DEF Inv
<1>0. intent \in BOOLEAN
    BY DEF TypeOK
<1>1. at = "header" => took \in 1..Len(asked) /\ Cur = asked[took]
    BY DEF TypeOK, Position, Cur
<1>2. CASE Plain \/ GetRefused
  <2>1. asked[took].body = 0 /\ taken = start[took] + 1 /\ start[took] \in Nat
      BY <1>1, <1>2, TypeFacts DEF Plain, GetRefused, LayoutInv, Position
  <2>2. PICK ok \in BOOLEAN : Say(ok, 0) /\ (intent' = intent \/ intent' = Dispatched(ok))
      BY <1>2 DEF Plain, GetRefused
  <2>3. taken = start[took] + 1 + asked[took].body
      BY <2>1
  <2>4. intent' \in BOOLEAN
      BY <1>0, <2>2, IntentType
  <2> QED
      BY <1>2, <2>2, <2>3, <2>4, AnswerInv DEF Plain, GetRefused
<1>3. CASE Unframed
    BY <1>0, <1>3, AnswerInv DEF Unframed
<1>4. CASE PutEnd \/ DrainEnd
  <2>1. taken = start[took] + 1 + asked[took].body
    <3>1. taken + left = start[took] + 1 + asked[took].body /\ left = 0
        BY <1>4 DEF PutEnd, DrainEnd, Position
    <3> QED
        BY <3>1, TypeFacts
  <2>2. PICK ok \in BOOLEAN : Say(ok, 0)
      BY <1>4 DEF PutEnd, DrainEnd
  <2> QED
      BY <1>0, <1>4, <2>1, <2>2, AnswerInv DEF PutEnd, DrainEnd
<1> QED
    BY <1>2, <1>3, <1>4

LEMMA GetStartInv == ASSUME Inv, GetStart PROVE Inv'
<1> USE DEF client
<1> TypeOK /\ LayoutInv /\ Position /\ ReplyInv
    BY DEF Inv
<1>1. PICK n \in 0..MaxBody : left' = n /\ Say(TRUE, n)
    BY DEF GetStart
<1>2. /\ at = "header" /\ at' = "send" /\ took \in 1..Len(asked)
      /\ asked[took].body = 0
      /\ UNCHANGED <<asked, start, sent, owed, gone, took, taken, intent>>
    BY DEF GetStart, TypeOK, LayoutInv, Position, Cur
<1>3. /\ down' \in Seq(Reply)
      /\ Len(down) \in Nat /\ Len(down') = Len(down) + 1 /\ took = Len(down')
      /\ DOMAIN down = 1..Len(down) /\ DOMAIN down' = 1..Len(down')
      /\ \A k \in 1..Len(down) : down'[k] = down[k]
      /\ down'[took].req = took /\ down'[took].body = n /\ down'[took].raw = 0
    BY <1>1, <1>2, SayFacts
<1>4. TypeOK' /\ LayoutInv'
    BY <1>1, <1>2, <1>3 DEF TypeOK, LayoutInv
<1>5. Position'
    BY <1>2 DEF Position, TypeOK
<1>6. ReplyInv'
    BY <1>1, <1>2, <1>3, BoundAssumption DEF ReplyInv
<1> QED
    BY <1>4, <1>5, <1>6 DEF Inv

LEMMA GetChunkInv == ASSUME Inv, GetChunk PROVE Inv'
<1> USE DEF client
<1> TypeOK /\ LayoutInv /\ Position /\ ReplyInv
    BY DEF Inv
<1>1. PICK n \in 1..left : SendUnits(n) /\ left' = left - n
    BY ChunkFacts DEF GetChunk, TypeOK
<1>2. /\ at = "send" /\ at' = at /\ took > 0 /\ Len(down) = took
      /\ UNCHANGED <<asked, start, sent, owed, gone, took, taken, intent>>
    BY DEF GetChunk, ReplyInv
<1>3. took \in DOMAIN down /\ down[took] \in Reply
    BY <1>2 DEF TypeOK
<1>8. n \in Nat /\ left' \in Nat /\ down[took].raw \in Nat /\ down[took].raw + n \in Nat
  <2>1. down[took].raw \in Nat
      BY <1>3 DEF Reply
  <2>2. left \in Nat
      BY TypeFacts
  <2>3. n \in Nat /\ left - n \in Nat
      BY <2>2
  <2> QED
      BY <1>1, <2>1, <2>3
<1>4. /\ down' \in Seq(Reply) /\ Len(down') = Len(down) /\ DOMAIN down' = DOMAIN down
      /\ down'[took].raw = down[took].raw + n
      /\ down'[took].req = down[took].req /\ down'[took].body = down[took].body
      /\ \A k \in DOMAIN down : k # took => down'[k] = down[k]
  <2> DEFINE d == down[took]
  <2>1. down' = [down EXCEPT ![took] = [d EXCEPT !.raw = @ + n]]
      BY <1>1, <1>2 DEF SendUnits
  <2>2. [d EXCEPT !.raw = @ + n] \in Reply
    <3>1. d.raw + n \in Nat
        BY <1>8, Zenon
    <3> QED
        BY <1>3, <3>1 DEF Reply
  <2>3. down \in Seq(Reply)
      BY DEF TypeOK
  <2> HIDE DEF d
  <2>4. /\ down' \in Seq(Reply) /\ Len(down') = Len(down)
        /\ DOMAIN down' = DOMAIN down
        /\ down'[took] = [d EXCEPT !.raw = @ + n]
        /\ \A k \in DOMAIN down : k # took => down'[k] = down[k]
      BY <1>3, <2>1, <2>2, <2>3
  <2> QED
      BY <1>3, <2>4 DEF d, Reply
<1>5. TypeOK'
    BY <1>1, <1>2, <1>4, TypeFacts DEF TypeOK
<1>6. LayoutInv' /\ Position'
    BY <1>1, <1>2, <1>4 DEF LayoutInv, Position
<1>7. ReplyInv'
  <2>1. down'[took].raw + left' = down'[took].body
      BY <1>1, <1>2, <1>3, <1>4, TypeFacts DEF ReplyInv
  <2>2. down'[took].raw <= down'[took].body
    <3>1. left' \in Nat /\ down'[took].raw \in Nat
        BY <1>4, <1>8
    <3> HIDE DEF client
    <3> QED
        BY <2>1, <3>1
  <2>3. \A k \in DOMAIN down' : /\ down'[k].req = k /\ down'[k].raw <= down'[k].body
                                /\ k # took => down'[k] = down[k]
      BY <1>3, <1>4, <2>2 DEF ReplyInv
  <2>4. \A k \in DOMAIN down' : k < Len(down') =>
            down'[k].end = "short" \/ down'[k].raw = down'[k].body
    <3> SUFFICES ASSUME NEW k \in 1..Len(down), k < Len(down)
                 PROVE  down'[k].end = "short" \/ down'[k].raw = down'[k].body
        BY <1>4, TypeFacts
    <3>1. k # took /\ k \in DOMAIN down
        BY <1>2, TypeFacts
    <3>2. down[k].end = "short" \/ down[k].raw = down[k].body
        BY <3>1 DEF ReplyInv
    <3> QED
        BY <1>4, <3>1, <3>2
  <2> QED
      BY <1>2, <1>4, <2>1, <2>3, <2>4 DEF ReplyInv
<1> QED
    BY <1>5, <1>6, <1>7 DEF Inv

LEMMA GetEndInv == ASSUME Inv, GetEnd PROVE Inv'
<1> USE DEF GetEnd, client
<1> TypeOK /\ LayoutInv /\ Position /\ ReplyInv
    BY DEF Inv
<1>1. TypeOK' /\ LayoutInv' /\ Position'
    BY DEF TypeOK, LayoutInv, Position
<1>2. ReplyInv'
    BY TypeFacts DEF ReplyInv
<1> QED
    BY <1>1, <1>2 DEF Inv

LEMMA GetShortInv == ASSUME Inv, GetShort PROVE Inv'
<1> USE DEF GetShort, client
<1> TypeOK /\ LayoutInv /\ Position /\ ReplyInv
    BY DEF Inv
<1>1. took > 0 /\ Len(down) = took /\ took \in DOMAIN down /\ down[took] \in Reply
    BY DEF ReplyInv, TypeOK
<1>2. /\ down' \in Seq(Reply) /\ Len(down') = Len(down) /\ DOMAIN down' = DOMAIN down
      /\ down'[took].raw = down[took].raw /\ down'[took].end = "short"
      /\ down'[took].req = down[took].req /\ down'[took].body = down[took].body
      /\ \A k \in DOMAIN down : k # took => down'[k] = down[k]
  <2> DEFINE d == down[took]
  <2> DEFINE e == [d EXCEPT !.end = "short"]
  <2>1. down' = [down EXCEPT ![took] = e]
      BY <1>1
  <2>2. /\ e \in Reply /\ e.end = "short"
        /\ e.raw = d.raw /\ e.req = d.req /\ e.body = d.body
      BY <1>1 DEF Reply
  <2>3. down \in Seq(Reply) /\ took \in 1..Len(down)
      BY <1>1 DEF TypeOK
  <2> HIDE DEF e
  <2>4. /\ down' \in Seq(Reply) /\ Len(down') = Len(down)
        /\ DOMAIN down' = DOMAIN down
        /\ down'[took] = e
        /\ \A k \in DOMAIN down : k # took => down'[k] = down[k]
      BY <2>1, <2>2, <2>3
  <2> QED
      BY <2>2, <2>4
<1>3. TypeOK' /\ LayoutInv' /\ Position'
    BY <1>2 DEF TypeOK, LayoutInv, Position
<1>4. ReplyInv'
    BY <1>1, <1>2, TypeFacts DEF ReplyInv
<1> QED
    BY <1>3, <1>4 DEF Inv

(***************************************************************************)
(* The theorems.                                                           *)
(***************************************************************************)

\* The invariant holds for any number of requests, any body and any buffer.
THEOREM Invariance == Spec => []Inv
<1>1. Inv /\ [Next]_vars => Inv'
  <2> SUFFICES ASSUME Inv, [Next]_vars PROVE Inv'
      OBVIOUS
  <2>1. CASE UNCHANGED vars
      BY <2>1 DEF vars, client, daemon, Inv, TypeOK, LayoutInv, Position, ReplyInv
  <2> QED
      BY <2>1, SendHeaderInv, ClientInv, GetShortInv, TakeLineInv, CloseInv, PutInv, ReceiveInv,
         RepliesInv, GetStartInv, GetChunkInv, GetEndInv
      DEF Next, Client, Daemon
<1> QED
    BY <1>1, InitInv, PTL DEF Spec

\* No piece of a put_file body is ever taken for a request, whichever of the
\* verb's failures happens in whichever chunk (streamDrain).
THEOREM DaemonStaysFramed == Spec => []DaemonFramed
<1>1. Inv => DaemonFramed
    BY AtHeader DEF DaemonFramed
<1> QED
    BY <1>1, Invariance, PTL

\* Every request is answered once, in the order of the requests.
THEOREM RepliesInOrder == Spec => []OneReplyEach
<1>1. Inv => OneReplyEach
    BY DEF Inv, ReplyInv, OneReplyEach
<1> QED
    BY <1>1, Invariance, PTL

\* As long as get_file can read what it announced, its client stays framed too.
THEOREM ClientStaysFramed == Spec => []ClientFramed
<1>1. Inv => ClientFramed
    BY DEF Inv, ReplyInv, ClientFramed
<1> QED
    BY <1>1, Invariance, PTL

(***************************************************************************)
(* Progress.  The daemon is never stuck with something to do, and every    *)
(* step of its own brings it on: what is behind Answered, which itself is  *)
(* about fairness and is left to TLC.                                      *)
(***************************************************************************)

\* The daemon is in recvUntil() or recvAtLeast() and what it waits for is not there.
Blocked ==
    \/ at = "recv" /\ taken = sent
    \/ at \in {"body", "drain"} /\ left > 0 /\ ~Arrived

\* Request r has arrived whole.
Whole(r) == r < Len(asked) \/ (r = Len(asked) /\ owed = 0)

\* The client owes no more than the body of its last request.
OwedInv == Len(asked) > 0 => owed <= asked[Len(asked)].body

LEMMA OwedStep == ASSUME TypeOK, OwedInv, [Next]_vars PROVE OwedInv'
<1>1. ASSUME NEW a \in Ask, SendHeader(a) PROVE OwedInv'
  <2>1. a.body \in Nat /\ owed' = a.body /\ asked' = Append(asked, a)
    BY <1>1, BoundAssumption DEF SendHeader, Ask
  <2>2. asked'[Len(asked')] = a
    BY <2>1 DEF TypeOK
  <2>. QED  BY <2>1, <2>2 DEF OwedInv
<1>2. CASE SendRaw
  <2>1. asked' = asked /\ owed \in Nat /\ owed' = owed - 1
    BY <1>2, TypeFacts DEF SendRaw
  <2>2. CASE Len(asked) > 0
    BY <2>1, <2>2, TypeFacts DEF OwedInv
  <2>. QED  BY <2>1, <2>2 DEF OwedInv
<1>3. CASE Leave \/ Daemon \/ UNCHANGED vars
  <2>1. asked' = asked /\ owed' = owed
    BY <1>3 DEF Leave, Daemon, TakeLine, ReceiveThrows, Plain, Unframed, PutRefused, PutStart,
       PutChunk, PutChunkFails, PutEnd, Drain, DrainEnd, GetRefused, GetStart, GetChunk,
       GetEnd, GetShort, SendThrows, client, vars
  <2>. QED  BY <2>1 DEF OwedInv
<1>. QED  BY <1>1, <1>2, <1>3 DEF Next, Client

\* put_file, streamDrain(): the daemon waits for no byte that the client does not
\* owe: when it waits, every request that has arrived whole is answered.
WaitsForClientOnly ==
    Blocked => \A r \in 1..Len(asked) : Whole(r) => r <= Len(down)

THEOREM NeverStuck == Spec => []WaitsForClientOnly
<1>1. Inv /\ OwedInv => WaitsForClientOnly
  <2>. SUFFICES ASSUME Inv, OwedInv, Blocked, NEW r \in 1..Len(asked), Whole(r)
                PROVE  r <= Len(down)
    BY DEF WaitsForClientOnly
  <2>. DEFINE n == Len(asked)
  <2>1. TypeOK /\ LayoutInv /\ Position /\ ReplyInv
    BY DEF Inv
  <2>2. /\ n \in Nat \ {0} /\ Len(down) \in Nat /\ took \in 0..n
        /\ sent \in Nat /\ taken \in 0..sent /\ left \in Nat /\ owed \in Nat
        /\ start[n] \in Nat /\ asked[n].body \in Nat
    BY <2>1, TypeFacts DEF TypeOK
  <2>3. start[n] + 1 + asked[n].body = sent + owed /\ owed <= asked[n].body
    BY <2>1, <2>2 DEF LayoutInv, OwedInv
  \* The bodies before the last header have been sent, and so has it.
  <2>4. ASSUME NEW k \in 1..n - 1
        PROVE  start[k] + 1 + asked[k].body < sent
    <3>1. start[k + 1] = start[k] + 1 + asked[k].body /\ start[k + 1] \in Nat
      BY <2>1, <2>2, TypeFacts DEF LayoutInv
    <3>2. k + 1 = n \/ start[k + 1] < start[n]
      BY <2>1, <2>2 DEF LayoutInv
    <3>3. start[k + 1] <= start[n]
      BY <3>1, <3>2, <2>2
    <3>4. start[n] < sent
      <4>1. \A i, j, l, m \in Nat : i + 1 + j = l + m /\ m <= j => i < l
        OBVIOUS
      <4>. QED  BY <4>1, <2>2, <2>3
    <3>. QED  BY <3>1, <3>3, <3>4, <2>2
  <2>5. sent > 0
    BY <2>2, <2>3
  <2>7. CASE at = "recv" /\ taken = sent
    <3>1. Len(down) = took /\ took # 0
      BY <2>1, <2>5, <2>7 DEF ReplyInv, Position
    <3>2. sent = start[took] + 1 + asked[took].body
      BY <2>1, <2>7, <3>1 DEF Position
    <3>3. took = n
      BY <2>2, <2>4, <3>1, <3>2
    <3>. QED  BY <2>2, <3>1, <3>3
  <2>8. CASE at \in {"body", "drain"} /\ left > 0 /\ ~Arrived
    <3>1. /\ Len(down) + 1 = took /\ took > 0
          /\ taken + left = start[took] + 1 + asked[took].body
      BY <2>1, <2>8 DEF Position, ReplyInv
    <3>2. sent < taken + left
      <4>1. NextChunk \in 1..left
        BY <2>1, <2>8, ChunkFacts
      <4>. QED  BY <4>1, <2>2, <2>8 DEF Arrived
    <3>3. took = n
      <4>1. CASE took \in 1..n - 1
        <5>1. taken + left < sent
          BY <4>1, <2>4, <3>1
        <5>. QED  BY <5>1, <3>2, <2>2
      <4>. QED  BY <4>1, <3>1, <2>2
    <3>4. owed # 0
      BY <3>1, <3>2, <3>3, <2>2, <2>3
    <3>. QED  BY <3>1, <3>3, <3>4, <2>2 DEF Whole
  <2>. QED  BY <2>7, <2>8 DEF Blocked
<1>2. Init => OwedInv
  BY DEF Init, OwedInv
<1>3. Inv /\ OwedInv /\ [Next]_vars => OwedInv'
  BY OwedStep DEF Inv
<1>. QED  BY <1>1, <1>2, <1>3, Invariance, PTL DEF Spec


\* What the daemon has still to do before it reads on.
StageAt(place, n) ==
    CASE place = "closed" -> 0
      [] place = "recv"   -> 1
      [] place = "send"   -> 2 + n
      [] place = "drain"  -> 2
      [] place = "body"   -> 3
      [] place = "header" -> 4 + MaxBody

Stage == StageAt(at, left)

LEMMA StageFacts ==
    ASSUME NEW n \in 0..MaxBody
    PROVE  /\ StageAt("closed", n) = 0 /\ StageAt("recv", n) = 1
           /\ StageAt("send", n) = 2 + n /\ StageAt("drain", n) = 2
           /\ StageAt("body", n) = 3 /\ StageAt("header", n) = 4 + MaxBody
           /\ MaxBody \in Nat /\ n \in Nat /\ n <= MaxBody
BY BoundAssumption DEF StageAt

\* The loops of put_file, get_file and streamDrain() end: every step of the daemon
\* takes some of what was sent, or else gets on with what it does; so between two
\* steps of the client it takes finitely many.
THEOREM EveryStepCounts ==
    Spec => [][Daemon => /\ sent' = sent /\ taken' <= sent
                         /\ Stage \in Nat /\ Stage' \in Nat
                         /\ taken < taken' \/ (taken' = taken /\ Stage' < Stage)]_vars
<1>. DEFINE Counts == /\ sent' = sent /\ taken' <= sent
                      /\ Stage \in Nat /\ Stage' \in Nat
                      /\ taken < taken' \/ (taken' = taken /\ Stage' < Stage)
<1>1. \A n \in 0..MaxBody, place \in {"recv", "header", "body", "drain", "send", "closed"} :
        StageAt(place, n) \in Nat
  BY StageFacts
<1>2. ASSUME Inv, Inv', Daemon PROVE Counts
  <2>1. /\ TypeOK /\ Stage \in Nat /\ Stage' \in Nat /\ sent' = sent
        /\ taken \in Nat /\ left \in 0..MaxBody /\ MaxBody \in Nat
        /\ left' \in 0..MaxBody /\ sent \in Nat /\ taken' \in 0..sent
    <3>1. sent' = sent
      BY <1>2 DEF Daemon, TakeLine, ReceiveThrows, Plain, Unframed, PutRefused, PutStart,
         PutChunk, PutChunkFails, PutEnd, Drain, DrainEnd, GetRefused, GetStart, GetChunk,
         GetEnd, GetShort, SendThrows, client
    <3>2. TypeOK /\ TypeOK'
      BY <1>2 DEF Inv
    <3>3. Stage \in Nat
      BY <1>1, <3>2 DEF TypeOK, Stage
    <3>4. Stage' \in Nat
      BY <1>1, <3>2 DEF TypeOK, Stage
    <3>. QED  BY <3>1, <3>2, <3>3, <3>4, BoundAssumption DEF TypeOK
  <2>. USE <2>1
  <2>2. CASE TakeLine
    BY <2>2 DEF TakeLine
  <2>3. CASE PutChunk \/ PutChunkFails \/ Drain
    <3>1. NextChunk \in 1..left /\ taken' = taken + NextChunk
      BY <2>3, ChunkFacts DEF PutChunk, PutChunkFails, Drain
    <3>. QED  BY <3>1
  <2>4. CASE ReceiveThrows \/ SendThrows
    <3>1. /\ at \in {"recv", "header", "body", "drain", "send"} /\ at' = "closed"
          /\ taken' = taken
      BY <2>4 DEF ReceiveThrows, SendThrows
    <3>2. Stage >= 1 /\ Stage' = 0
      BY <3>1, StageFacts DEF Stage
    <3>. QED  BY <3>1, <3>2
  <2>5. CASE Plain \/ Unframed \/ PutRefused \/ PutStart \/ GetRefused
    <3>1. at = "header" /\ taken' = taken /\ at' \in {"recv", "closed", "drain", "body"}
      BY <2>5 DEF Plain, Unframed, PutRefused, PutStart, GetRefused
    <3>2. Stage = 4 + MaxBody /\ Stage' <= 3
      BY <3>1, StageFacts DEF Stage
    <3>. QED  BY <3>1, <3>2
  <2>6. CASE PutEnd \/ DrainEnd \/ GetEnd \/ GetShort
    <3>1. at \in {"body", "drain", "send"} /\ taken' = taken /\ at' = "recv"
      BY <2>6 DEF PutEnd, DrainEnd, GetEnd, GetShort
    <3>2. Stage >= 2 /\ Stage' = 1
      BY <3>1, StageFacts DEF Stage
    <3>. QED  BY <3>1, <3>2
  <2>7. CASE GetStart
    BY <2>7, StageFacts DEF GetStart, Stage
  <2>8. CASE GetChunk
    <3>1. PICK n \in 1..NextChunk : left' = left - n
      BY <2>8 DEF GetChunk
    <3>2. NextChunk \in 1..left /\ at = "send" /\ at' = at /\ taken' = taken
      BY <2>8, ChunkFacts DEF GetChunk
    <3>3. left' < left
      BY <3>1, <3>2
    <3>. QED  BY <3>2, <3>3, StageFacts DEF Stage
  <2>. QED
    BY <1>2, <2>2, <2>3, <2>4, <2>5, <2>6, <2>7, <2>8 DEF Daemon
<1>3. Inv /\ Inv' /\ [Next]_vars => [Daemon => Counts]_vars
  BY <1>2
<1>. QED  BY <1>3, Invariance, PTL DEF Spec


(***************************************************************************)
(* StreamFraming implements Exchange.                                      *)
(***************************************************************************)

\* The abstract state.
AAsked == [r \in DOMAIN asked |-> Kind(asked[r])]
AWhole == IF owed = 0 THEN Len(asked) ELSE Len(asked) - 1
AReplies == [k \in DOMAIN down |-> down[k].req]
AOpen == at # "closed"

K == {"stream", "line", "shutdown", "unframed"}

LEMMA KindType == ASSUME NEW a \in Ask PROVE Kind(a) \in K
BY DEF Kind, K, Ask, Verb

LEMMA AbstractState ==
    ASSUME Inv
    PROVE  /\ Len(asked) \in Nat /\ Len(down) \in Nat
           /\ AAsked \in Seq(K) /\ Len(AAsked) = Len(asked)
           /\ \A r \in 1..Len(asked) : AAsked[r] = Kind(asked[r])
           /\ AReplies \in Seq(Nat) /\ Len(AReplies) = Len(down)
           /\ \A k \in 1..Len(down) : AReplies[k] = k
<1>1. /\ Len(asked) \in Nat /\ Len(down) \in Nat
      /\ DOMAIN asked = 1..Len(asked) /\ DOMAIN down = 1..Len(down)
  BY DEF Inv, TypeOK
<1>2. AAsked \in [1..Len(asked) -> K]
  <2>1. \A r \in 1..Len(asked) : asked[r] \in Ask
    BY <1>1 DEF Inv, TypeOK
  <2>. QED  BY <1>1, <2>1, KindType DEF AAsked
<1>3. \A k \in 1..Len(down) : down[k].req = k
  BY <1>1 DEF Inv, ReplyInv
<1>4. AReplies \in [1..Len(down) -> Nat] /\ \A k \in 1..Len(down) : AReplies[k] = k
  BY <1>1, <1>3 DEF AReplies
<1>. QED  BY <1>1, <1>2, <1>4 DEF AAsked

\* A request is one more.
LEMMA AskedGrows ==
    ASSUME Inv, Inv', NEW a \in Ask, asked' = Append(asked, a)
    PROVE  AAsked' = Append(AAsked, Kind(a)) /\ Kind(a) \in K
<1>. DEFINE n == Len(asked)
            t == Append(AAsked, Kind(a))
<1>1. Kind(a) \in K
  BY KindType
<1>2. /\ asked \in Seq(Ask) /\ n \in Nat /\ AAsked \in Seq(K) /\ Len(AAsked) = n
      /\ \A r \in 1..n : AAsked[r] = Kind(asked[r])
  BY AbstractState DEF Inv, TypeOK
<1>3. /\ Len(asked') = n + 1 /\ asked'[n + 1] = a /\ \A r \in 1..n : asked'[r] = asked[r]
      /\ DOMAIN asked' = 1..n + 1
  BY <1>2
<1>4. /\ t \in Seq(K) /\ Len(t) = n + 1 /\ t[n + 1] = Kind(a)
      /\ \A r \in 1..n : t[r] = AAsked[r]
  BY <1>1, <1>2
<1>5. AAsked' \in Seq(K) /\ Len(AAsked') = n + 1
  <2>1. AAsked' \in [1..n + 1 -> K]
    <3>1. \A r \in 1..n + 1 : asked'[r] \in Ask
      <4>1. asked' \in Seq(Ask)
        BY DEF Inv, TypeOK
      <4>2. DOMAIN asked' = 1..Len(asked')
        BY <4>1
      <4>. HIDE DEF n, t
      <4>. QED  BY <1>3, <4>1, <4>2
    <3>. HIDE DEF n
    <3>. QED  BY <1>3, <3>1, KindType DEF AAsked
  <2>. QED  BY <2>1, <1>2
<1>6. ASSUME NEW r \in 1..n + 1 PROVE AAsked'[r] = t[r]
  <2>1. AAsked'[r] = Kind(asked'[r])
    BY <1>3 DEF AAsked
  <2>. QED  BY <2>1, <1>2, <1>3, <1>4
<1>7. AAsked' = t
  <2>. HIDE DEF t, n
  <2>. QED  BY <1>4, <1>5, <1>6, SeqEqual
<1>. QED  BY <1>1, <1>7

\* A reply is one more, and answers the request of its number.
LEMMA RepliesGrow ==
    ASSUME Inv, Inv', Len(down') = Len(down) + 1
    PROVE  AReplies' = Append(AReplies, Len(AReplies) + 1)
<1>. DEFINE n == Len(down)
            t == Append(AReplies, n + 1)
<1>1. /\ n \in Nat /\ AReplies \in Seq(Nat) /\ Len(AReplies) = n
      /\ \A k \in 1..n : AReplies[k] = k
  BY AbstractState
<1>2. /\ t \in Seq(Nat) /\ Len(t) = n + 1 /\ \A k \in 1..n + 1 : t[k] = k
  BY <1>1
<1>3. DOMAIN down' = 1..n + 1 /\ \A k \in 1..n + 1 : down'[k].req = k
  <2>1. DOMAIN down' = 1..Len(down')
    BY DEF Inv, TypeOK
  <2>2. \A k \in DOMAIN down' : down'[k].req = k
    BY DEF Inv, ReplyInv
  <2>. HIDE DEF n
  <2>3. Len(down') = n + 1
    BY DEF n
  <2>. QED  BY <2>1, <2>2, <2>3
<1>4. AReplies' \in [1..n + 1 -> Nat] /\ \A k \in 1..n + 1 : AReplies'[k] = k
  BY <1>3 DEF AReplies
<1>5. AReplies' \in Seq(Nat) /\ Len(AReplies') = n + 1
  BY <1>1, <1>4
<1>6. AReplies' = t
  <2>. HIDE DEF t, n
  <2>. QED  BY <1>1, <1>2, <1>4, <1>5, SeqEqual
<1>. QED  BY <1>1, <1>6

\* As long as there are as many replies they are the same.
LEMMA RepliesStay ==
    ASSUME Inv, Inv', Len(down') = Len(down)
    PROVE  AReplies' = AReplies
<1>. DEFINE n == Len(down)
<1>1. /\ DOMAIN down = 1..n /\ \A k \in 1..n : down[k].req = k
      /\ DOMAIN down' = 1..n /\ \A k \in 1..n : down'[k].req = k
  <2>1. DOMAIN down = 1..Len(down) /\ DOMAIN down' = 1..Len(down')
    BY DEF Inv, TypeOK
  <2>2. \A k \in DOMAIN down : down[k].req = k
    BY DEF Inv, ReplyInv
  <2>3. \A k \in DOMAIN down' : down'[k].req = k
    BY DEF Inv, ReplyInv
  <2>. QED  BY <2>1, <2>2, <2>3
<1>. HIDE DEF n
<1>. QED  BY <1>1 DEF AReplies

\* The client's steps.
LEMMA ClientRefines ==
    ASSUME Inv, Inv', Client
    PROVE  [Requests!Next]_(Requests!vars)
<1>1. down' = down /\ at' = at /\ taken' = taken /\ intent' = intent
  BY DEF Client, SendHeader, SendRaw, Leave, daemon
<1>2. AReplies' = AReplies /\ AOpen' = AOpen
  BY <1>1 DEF AReplies, AOpen
<1>3. ASSUME NEW a \in Ask, SendHeader(a) PROVE Requests!Request(Kind(a))
  <2>1. /\ ~gone /\ owed = 0 /\ asked' = Append(asked, a) /\ gone' = gone
        /\ owed' = a.body /\ Len(asked') = Len(asked) + 1 /\ Len(asked) \in Nat
    BY <1>3 DEF SendHeader, Inv, TypeOK
  <2>2. AWhole = Len(AAsked) /\ AWhole' \in {AWhole, AWhole + 1}
    BY <2>1, AbstractState DEF AWhole
  <2>. QED  BY <2>1, <2>2, <1>1, <1>2, AskedGrows DEF Requests!Request, AAsked, AWhole, AReplies, AOpen
<1>4. CASE SendRaw
  <2>1. /\ ~gone /\ owed \in Nat /\ owed > 0 /\ owed' = owed - 1 /\ asked' = asked
        /\ gone' = gone /\ Len(asked) \in Nat
    BY <1>4, TypeFacts DEF SendRaw, Inv
  <2>2. AAsked' = AAsked
    BY <2>1 DEF AAsked
  <2>3. CASE owed' = 0
    <3>1. AWhole < Len(AAsked) /\ AWhole' = Len(AAsked)
      BY <2>1, <2>3, AbstractState DEF AWhole
    <3>2. Requests!Complete
      BY <2>1, <2>2, <3>1, <1>1, <1>2 DEF Requests!Complete, AAsked, AWhole, AReplies, AOpen
    <3>. QED  BY <3>2 DEF Requests!Next
  <2>4. CASE owed' # 0
    <3>1. AWhole' = AWhole
      BY <2>1, <2>4 DEF AWhole
    <3>. QED  BY <2>1, <2>2, <3>1, <1>1, <1>2 DEF Requests!vars, AAsked, AWhole, AReplies, AOpen
  <2>. QED  BY <2>3, <2>4
<1>5. CASE Leave
  <2>1. ~gone /\ gone' = TRUE /\ asked' = asked /\ owed' = owed
    BY <1>5 DEF Leave
  <2>. QED  BY <2>1, <1>1 DEF Requests!Next, Requests!Leave
<1>. QED  BY <1>3, <1>4, <1>5, KindType DEF Client, Requests!Next, Requests!Kinds, K

\* Only the body of a put_file is received or drained.
InPut == at \in {"body", "drain"} => asked[took].verb = "put"

LEMMA InPutStep == ASSUME Inv, InPut, [Next]_vars PROVE InPut'
<1>1. ASSUME NEW a \in Ask, SendHeader(a) PROVE InPut'
  <2>1. asked' = Append(asked, a) /\ at' = at /\ took' = took
    BY <1>1 DEF SendHeader, daemon
  <2>2. CASE at \in {"body", "drain"}
    <3>1. took \in 1..Len(asked)
      BY <2>2 DEF Inv, TypeOK, Position
    <3>2. asked'[took] = asked[took]
      BY <2>1, <3>1 DEF Inv, TypeOK
    <3>. QED  BY <2>1, <2>2, <3>2 DEF InPut
  <2>. QED  BY <2>1, <2>2 DEF InPut
<1>2. CASE PutRefused \/ PutStart
  <2>1. at = "header" /\ Cur.verb = "put" /\ took' = took /\ asked' = asked
    BY <1>2 DEF PutRefused, PutStart, client
  <2>2. took # 0
    BY <2>1 DEF Inv, TypeOK, Position
  <2>. QED  BY <2>1, <2>2 DEF Cur, InPut
<1>3. CASE PutChunk \/ PutChunkFails \/ Drain \/ SendRaw \/ Leave \/ UNCHANGED vars
  <2>1. /\ asked' = asked /\ took' = took
        /\ at' \in {"body", "drain"} => at \in {"body", "drain"}
    BY <1>3 DEF PutChunk, PutChunkFails, Drain, SendRaw, Leave, vars, client, daemon
  <2>. QED  BY <2>1 DEF InPut
<1>4. CASE \/ TakeLine \/ ReceiveThrows \/ Plain \/ Unframed \/ PutEnd \/ DrainEnd
           \/ GetRefused \/ GetStart \/ GetChunk \/ GetEnd \/ GetShort \/ SendThrows
  <2>1. at' \notin {"body", "drain"}
    BY <1>4 DEF TakeLine, ReceiveThrows, Plain, Unframed, PutEnd, DrainEnd, GetRefused,
       GetStart, GetChunk, GetEnd, GetShort, SendThrows
  <2>. QED  BY <2>1 DEF InPut
<1>. QED  BY <1>1, <1>2, <1>3, <1>4 DEF Next, Client, Daemon

\* One reply.
LEMMA SayIsOne ==
    ASSUME TypeOK, Plain \/ Unframed \/ PutEnd \/ DrainEnd \/ GetRefused \/ GetStart
    PROVE  Len(down') = Len(down) + 1
<1>1. \A x : Len(Append(down, x)) = Len(down) + 1
  BY DEF TypeOK
<1>2. CASE Plain \/ PutEnd
  <2>1. PICK ok \in BOOLEAN : Say(ok, 0)
    BY <1>2 DEF Plain, PutEnd
  <2>. QED  BY <1>1, <2>1 DEF Say
<1>3. CASE Unframed \/ DrainEnd \/ GetRefused
  BY <1>1, <1>3 DEF Unframed, DrainEnd, GetRefused, Say
<1>4. CASE GetStart
  <2>1. PICK n \in 0..MaxBody : Say(TRUE, n)
    BY <1>4 DEF GetStart
  <2>. QED  BY <1>1, <2>1 DEF Say
<1>. QED  BY <1>2, <1>3, <1>4

\* A request of one line has arrived whole when its header has.
LEMMA HeaderIsDue ==
    ASSUME Inv, OwedInv, at = "header", took \in 1..Len(asked),
           asked[took].verb \in {"get", "line", "shutdown"}
    PROVE  took <= AWhole
<1>1. TypeOK /\ LayoutInv /\ Len(asked) \in Nat /\ took \in Nat /\ owed \in Nat
  BY TypeFacts DEF Inv
<1>2. asked[took].body = 0
  BY <1>1 DEF LayoutInv
<1>3. took = Len(asked) => owed = 0
  BY <1>1, <1>2 DEF OwedInv
<1>. QED  BY <1>1, <1>3 DEF AWhole

\* A request is answered when it has arrived whole: a put_file when its body is
\* taken, a request of one line or a get_file when its header is.
LEMMA AnswerIsDue ==
    ASSUME Inv, OwedInv, Plain \/ PutEnd \/ DrainEnd \/ GetRefused \/ GetStart
    PROVE  took \in 1..Len(asked) /\ took <= AWhole
<1>1. at \in {"header", "body", "drain"}
  BY DEF Plain, PutEnd, DrainEnd, GetRefused, GetStart
<1>2. TypeOK /\ LayoutInv /\ Position
  BY DEF Inv
<1>3. took \in 1..Len(asked)
  BY <1>1, <1>2 DEF TypeOK, Position
<1>4. /\ Len(asked) \in Nat /\ took \in Nat /\ owed \in Nat /\ sent \in Nat
      /\ taken \in 0..sent /\ start[took] \in Nat /\ asked[took].body \in Nat
  BY <1>2, <1>3, TypeFacts DEF TypeOK
<1>5. CASE took < Len(asked)
  BY <1>3, <1>4, <1>5 DEF AWhole
<1>6. CASE took = Len(asked)
  <2>1. start[took] + 1 + asked[took].body = sent + owed /\ owed <= asked[took].body
    BY <1>2, <1>3, <1>6 DEF LayoutInv, OwedInv
  <2>2. CASE PutEnd \/ DrainEnd
    <3>1. at \in {"body", "drain"} /\ left = 0
      BY <2>2 DEF PutEnd, DrainEnd
    <3>2. taken + 0 = start[took] + 1 + asked[took].body
      BY <1>2, <3>1 DEF Position
    <3>3. owed = 0
      BY <2>1, <3>2, <1>4
    <3>. QED  BY <3>3, <1>3, <1>4, <1>6 DEF AWhole
  <2>3. CASE Plain \/ GetRefused \/ GetStart
    <3>1. asked[took].verb \in {"get", "line", "shutdown"}
      <4>1. Cur.verb \in {"get", "line", "shutdown"}
        BY <2>3 DEF Plain, GetRefused, GetStart
      <4>2. took # 0
        BY <1>3, <1>4
      <4>. QED  BY <4>1, <4>2 DEF Cur
    <3>2. at = "header"
      BY <2>3 DEF Plain, GetRefused, GetStart
    <3>. QED  BY <1>3, <3>1, <3>2, HeaderIsDue
  <2>. QED  BY <2>2, <2>3
<1>. QED  BY <1>3, <1>4, <1>5, <1>6

\* The daemon's steps.
LEMMA DaemonRefines ==
    ASSUME Inv, Inv', OwedInv, InPut, Daemon
    PROVE  [Requests!Next]_(Requests!vars)
<1>1. asked' = asked /\ owed' = owed /\ gone' = gone /\ at # "closed"
  BY DEF Daemon, TakeLine, ReceiveThrows, Plain, Unframed, PutRefused, PutStart,
     PutChunk, PutChunkFails, PutEnd, Drain, DrainEnd, GetRefused, GetStart, GetChunk,
     GetEnd, GetShort, SendThrows, client
<1>2. AAsked' = AAsked /\ AWhole' = AWhole /\ AOpen
  BY <1>1 DEF AAsked, AWhole, AOpen
<1>3. CASE ReceiveThrows \/ SendThrows
  <2>1. gone /\ down' = down /\ at' = "closed"
    BY <1>3 DEF ReceiveThrows, SendThrows
  <2>2. CASE intent' = intent
    <3>1. Requests!HangUp
      BY <1>1, <1>2, <2>1, <2>2 DEF Requests!HangUp, AAsked, AWhole, AReplies, AOpen
    <3>. QED  BY <3>1 DEF Requests!Next
  \* A shutdown was dispatched, and the client was gone before its answer.
  <2>3. CASE intent' # intent
    <3>1. at = "header" /\ intent' = Dispatched(TRUE)
      BY <1>3, <2>3 DEF ReceiveThrows, SendThrows
    <3>2. /\ took \in 1..Len(asked) /\ Len(down) + 1 = took
      BY <3>1 DEF Inv, TypeOK, Position, ReplyInv
    <3>3. Dispatched(TRUE) \in BOOLEAN /\ intent \in BOOLEAN
      BY IntentType DEF Inv, TypeOK
    <3>4. intent' = TRUE /\ intent = FALSE
      BY <2>3, <3>1, <3>3, Zenon DEF Dispatched
    <3>5. asked[took].verb = "shutdown"
      <4>1. Cur.verb = "shutdown"
        BY <3>1, <3>4 DEF Dispatched
      <4>. QED  BY <3>2, <4>1 DEF Cur
    <3>6. AAsked[took] = "shutdown" /\ Len(AReplies) + 1 = took
      BY <3>2, <3>5, AbstractState DEF Kind
    <3>7. took <= AWhole
      BY <3>1, <3>2, <3>5, HeaderIsDue
    <3>8. Requests!HangUp
      BY <1>1, <1>2, <2>1, <3>4, <3>6, <3>7
      DEF Requests!HangUp, Requests!Due, AAsked, AWhole, AReplies, AOpen
    <3>. QED  BY <3>8 DEF Requests!Next
  <2>. QED  BY <2>2, <2>3
<1>4. CASE TakeLine \/ PutRefused \/ PutStart \/ PutChunk \/ PutChunkFails \/ Drain
            \/ GetChunk \/ GetEnd \/ GetShort
  <2>1. at' # "closed" /\ intent' = intent
    BY <1>4, <1>1 DEF TakeLine, PutRefused, PutStart, PutChunk, PutChunkFails, Drain,
       GetChunk, GetEnd, GetShort
  <2>2. Len(down') = Len(down)
    BY <1>4 DEF TakeLine, PutRefused, PutStart, PutChunk, PutChunkFails, Drain,
       GetChunk, GetEnd, GetShort, SendUnits, Inv, TypeOK
  <2>3. AReplies' = AReplies
    BY <2>2, RepliesStay
  <2>. QED  BY <1>1, <1>2, <2>1, <2>3 DEF Requests!vars, AAsked, AWhole, AReplies, AOpen
<1>5. CASE Plain \/ Unframed \/ PutEnd \/ DrainEnd \/ GetRefused \/ GetStart
  <2>1. at \in {"header", "body", "drain"}
    BY <1>5 DEF Plain, Unframed, PutEnd, DrainEnd, GetRefused, GetStart
  <2>2. took \in 1..Len(asked) /\ Len(down) + 1 = took
    <3>1. took > 0 /\ Len(down) + 1 = took
      BY <2>1 DEF Inv, Position, ReplyInv
    <3>. QED  BY <3>1 DEF Inv, TypeOK
  <2>3. AReplies' = Append(AReplies, Len(AReplies) + 1) /\ Len(AReplies) + 1 = took
    <3>1. Len(down') = Len(down) + 1
      BY <1>5, SayIsOne DEF Inv
    <3>. QED  BY <2>2, <3>1, RepliesGrow, AbstractState
  <2>4. AAsked[took] = Kind(asked[took]) /\ Len(AAsked) = Len(asked)
    BY <2>2, AbstractState
  <2>5. CASE Unframed
    <3>1. AAsked[took] = "unframed" /\ at' = "closed" /\ intent' = intent
      BY <2>2, <2>4, <2>5 DEF Unframed, Cur, Kind
    <3>2. Requests!Due = took /\ AOpen' = FALSE
      BY <2>3, <3>1 DEF Requests!Due, AReplies, AOpen
    <3>3. took <= Len(AAsked)
      BY <2>2, <2>4
    <3>4. Requests!Refuse
      BY <1>1, <1>2, <2>3, <3>1, <3>2, <3>3
      DEF Requests!Refuse, AAsked, AWhole, AReplies, AOpen
    <3>. QED  BY <3>4 DEF Requests!Next
  <2>6. CASE PutEnd \/ DrainEnd \/ GetRefused \/ GetStart
    <3>1. at' \in {"recv", "send"} /\ intent' = intent
      BY <2>6 DEF PutEnd, DrainEnd, GetRefused, GetStart
    <3>2. asked[took].verb \in {"put", "get"}
      <4>1. CASE at = "header"
        <5>1. Cur.verb = "get"
          BY <2>6, <4>1 DEF PutEnd, DrainEnd, GetRefused, GetStart
        <5>. QED  BY <5>1, <2>2 DEF Cur
      <4>. QED  BY <4>1, <2>1 DEF InPut
    <3>3. AAsked[took] = "stream" /\ AOpen' = AOpen
      BY <1>2, <2>4, <3>1, <3>2 DEF Kind, AOpen
    <3>4. Requests!Due = took /\ took <= AWhole
      BY <2>3, <2>6, AnswerIsDue DEF Requests!Due, AReplies
    <3>5. Requests!Answer
      BY <1>1, <1>2, <2>3, <3>1, <3>3, <3>4
      DEF Requests!Answer, AAsked, AWhole, AReplies, AOpen
    <3>. QED  BY <3>5 DEF Requests!Next
  <2>7. CASE Plain
    <3>1. /\ AAsked[took] = asked[took].verb /\ asked[took].verb \in {"line", "shutdown"}
          /\ Cur = asked[took]
      BY <2>2, <2>4, <2>7 DEF Plain, Cur, Kind
    <3>2. Requests!Due = took /\ took <= AWhole
      BY <2>3, <2>7, AnswerIsDue DEF Requests!Due, AReplies
    <3>3. PICK ok \in BOOLEAN : intent' = Dispatched(ok)
      BY <2>7 DEF Plain
    <3>4. intent \in BOOLEAN /\ intent' \in BOOLEAN
      BY <3>3, IntentType DEF Inv, TypeOK
    <3>5. CASE intent' = TRUE
      <4>1. at' = "closed"
        BY <2>7, <3>5 DEF Plain
      <4>2. asked[took].verb = "shutdown" \/ intent
        BY <3>1, <3>3, <3>5 DEF Dispatched
      <4>3. Requests!LastAnswer
        BY <1>1, <1>2, <2>3, <3>1, <3>2, <3>5, <4>1, <4>2
        DEF Requests!LastAnswer, AAsked, AWhole, AReplies, AOpen
      <4>. QED  BY <4>3 DEF Requests!Next
    <3>6. CASE intent' = FALSE
      <4>1. at' = "recv"
        BY <2>7, <3>6 DEF Plain
      <4>2. intent = FALSE
        BY <3>3, <3>4, <3>6, Zenon DEF Dispatched
      <4>3. Requests!Answer
        BY <1>1, <1>2, <2>3, <3>1, <3>2, <3>6, <4>1, <4>2
        DEF Requests!Answer, AAsked, AWhole, AReplies, AOpen
      <4>. QED  BY <4>3 DEF Requests!Next
    <3>. QED  BY <3>4, <3>5, <3>6
  <2>. QED  BY <1>5, <2>5, <2>6, <2>7
<1>. QED  BY <1>3, <1>4, <1>5 DEF Daemon

\* However bodies are cut into chunks and requests are pipelined, and whatever
\* fails in the verbs, the client of put_file and get_file has what it relies on:
\* one reply to each request, in order, none before the request is there, and an
\* open connection unless it has left or sent what cannot be framed, or the process
\* that serves it is to shut the system down.
THEOREM Refinement == Spec => ImplementsExchange
<1>1. Init => Requests!Init
  <2>. SUFFICES ASSUME Init PROVE Requests!Init
    OBVIOUS
  <2>1. asked = <<>> /\ down = <<>> /\ owed = 0 /\ gone = FALSE /\ at = "recv"
    BY DEF Init
  <2>2. AAsked = <<>> /\ AReplies = <<>>
    BY <2>1 DEF AAsked, AReplies
  <2>3. AWhole = 0 /\ AOpen
    BY <2>1 DEF AWhole, AOpen
  <2>4. intent \in BOOLEAN
    BY DEF Init
  <2>. QED  BY <2>1, <2>2, <2>3, <2>4 DEF Requests!Init, AAsked, AWhole, AReplies, AOpen
<1>2. Init => OwedInv /\ InPut
  BY DEF Init, OwedInv, InPut
<1>3. Inv /\ OwedInv /\ InPut /\ [Next]_vars => OwedInv' /\ InPut'
  BY OwedStep, InPutStep DEF Inv
<1>4. Inv /\ Inv' /\ OwedInv /\ InPut /\ [Next]_vars => [Requests!Next]_(Requests!vars)
  <2>1. UNCHANGED vars => UNCHANGED Requests!vars
    BY DEF vars, client, daemon, Requests!vars
  <2>. QED  BY <2>1, ClientRefines, DaemonRefines DEF Next
<1>. QED  BY <1>1, <1>2, <1>3, <1>4, Invariance, PTL DEF Spec, ImplementsExchange, Requests!Spec
=============================================================================
