------------------------------ MODULE Exchange ------------------------------
(***************************************************************************)
(* What a connection of heliosAgent promises its client, with no unit,     *)
(* chunk or buffer in sight: requests are answered once each, in their     *)
(* order and only when they have arrived whole; the daemon ends the        *)
(* connection with the answer to a shutdown it performs, or to a line when *)
(* its process has one to perform, with the answer to a request whose end  *)
(* it cannot tell, and otherwise only when the client has left.            *)
(*                                                                         *)
(* StreamFraming.tla is shown to implement this module.                    *)
(***************************************************************************)
EXTENDS Naturals, Sequences

VARIABLES
    asked,    \* asked[r]: what request r is
    whole,    \* how many of them have arrived whole
    gone,     \* the client has left
    replies,  \* replies[k]: the request that the k-th reply answers
    open,     \* the daemon has not ended the connection
    halting   \* its process is to shut the system down

vars == <<asked, whole, gone, replies, open, halting>>

\* An upload or download, a line, a shutdown, or one whose end cannot be told.
Kinds == {"stream", "line", "shutdown", "unframed"}

Init ==
    /\ asked = <<>> /\ whole = 0 /\ gone = FALSE /\ replies = <<>> /\ open = TRUE
    /\ halting \in BOOLEAN

\* A request begins to arrive, or arrives; the one before has.
Request(kind) ==
    /\ ~gone /\ whole = Len(asked)
    /\ asked' = Append(asked, kind)
    /\ whole' \in {whole, whole + 1}
    /\ UNCHANGED <<gone, replies, open, halting>>

Complete ==
    /\ ~gone /\ whole < Len(asked)
    /\ whole' = Len(asked)
    /\ UNCHANGED <<asked, gone, replies, open, halting>>

Leave ==
    /\ ~gone /\ gone' = TRUE
    /\ UNCHANGED <<asked, whole, replies, open, halting>>

Due == Len(replies) + 1

\* The next request is answered, and the connection kept: a line or a shutdown
\* that is refused only while nothing is to be shut down.
Answer ==
    /\ open /\ Due <= whole
    /\ asked[Due] = "stream" \/ (asked[Due] \in {"line", "shutdown"} /\ ~halting)
    /\ replies' = Append(replies, Due)
    /\ UNCHANGED <<asked, whole, gone, open, halting>>

\* It is the last.
LastAnswer ==
    /\ open /\ Due <= whole
    /\ asked[Due] = "shutdown" \/ (asked[Due] = "line" /\ halting)
    /\ replies' = Append(replies, Due)
    /\ open' = FALSE /\ halting' = TRUE
    /\ UNCHANGED <<asked, whole, gone>>

\* It is answered, whole or not, and nothing after it.
Refuse ==
    /\ open /\ Due <= Len(asked) /\ asked[Due] = "unframed"
    /\ replies' = Append(replies, Due)
    /\ open' = FALSE
    /\ UNCHANGED <<asked, whole, gone, halting>>

\* The client has left; a shutdown that it had asked for is not forgotten.
HangUp ==
    /\ open /\ gone
    /\ open' = FALSE
    /\ \/ UNCHANGED halting
       \/ Due <= whole /\ asked[Due] = "shutdown" /\ halting' = TRUE
    /\ UNCHANGED <<asked, whole, gone, replies>>

Next ==
    \/ \E kind \in Kinds : Request(kind)
    \/ Complete \/ Leave \/ Answer \/ LastAnswer \/ Refuse \/ HangUp

Spec == Init /\ [][Next]_vars
=============================================================================
