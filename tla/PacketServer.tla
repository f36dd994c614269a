---------------------------- MODULE PacketServer ----------------------------
(***************************************************************************)
(* What the streaming wrapper promises (header of                          *)
(* src/rtl/stream_wrapper.sv): a request is eight words, a response three; *)
(* no word is taken in until the whole response has left; a reset discards *)
(* what is there.  Words are numbered as on the stream.                    *)
(***************************************************************************)
EXTENDS Naturals, Sequences

CONSTANTS
    Field,       \* contents of a request word that matter (reserved bits dropped)
    Words,       \* number of words of a request
    ReplyTo(_)   \* the words that answer a request of that many fields

VARIABLES
    inbox,       \* fields of the request received so far
    outbox       \* words of the response still to be taken

vars == <<inbox, outbox>>

Init == inbox = <<>> /\ outbox = <<>>

Take(f) ==
    /\ Len(inbox) < Words
    /\ inbox' = Append(inbox, f)
    /\ UNCHANGED outbox

Serve ==
    /\ Len(inbox) = Words /\ outbox = <<>>
    /\ outbox' = ReplyTo(inbox)
    /\ UNCHANGED inbox

(* The last word to leave opens the stream for the next request.            *)
Give ==
    /\ outbox # <<>>
    /\ outbox' = Tail(outbox)
    /\ inbox' = IF Len(outbox) = 1 THEN <<>> ELSE inbox

Discard == inbox' = <<>> /\ outbox' = <<>>

Next == (\E f \in Field : Take(f)) \/ Serve \/ Give \/ Discard

Promise == Init /\ [][Next]_vars

(* A complete request is answered unless it is discarded.                   *)
Progress == (Len(inbox) = Words) ~> (outbox # <<>> \/ inbox = <<>>)
=============================================================================
