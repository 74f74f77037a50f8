---------------------------- MODULE ReliableStream ----------------------------
(***************************************************************************)
(* What a channel promises to the two local TCP streams it joins: each     *)
(* direction delivers a prefix of what was read, in order and once, and an *)
(* end that finishes cleanly does so because one of the two streams was    *)
(* closed by its reader and has been delivered to the last chunk.  A       *)
(* channel may break at any time, and then promises no more.               *)
(*                                                                         *)
(* The channel has no half-close: when one direction is complete, both     *)
(* ends may finish, whatever the other direction still holds.              *)
(***************************************************************************)
EXTENDS Integers

CONSTANTS Ends, Other(_)

VARIABLES
    sent,       \* chunks read from the local stream of an end
    eof,        \* that stream is at its end
    received,   \* chunks of the other end's stream written to this one
    outcome     \* "running", "clean" or "broken"

streamVars == <<sent, eof, received, outcome>>

Running(e) == outcome[e] = "running"

\* Everything read at e has been written at the other end.
Complete(e) == eof[e] /\ received[Other(e)] = sent[e]

Init ==
    /\ sent = [e \in Ends |-> 0]
    /\ eof = [e \in Ends |-> FALSE]
    /\ received = [e \in Ends |-> 0]
    /\ outcome = [e \in Ends |-> "running"]

Read(e) ==
    /\ Running(e) /\ ~eof[e]
    /\ sent' = [sent EXCEPT ![e] = @ + 1]
    /\ UNCHANGED <<eof, received, outcome>>

ReadEnd(e) ==
    /\ Running(e) /\ ~eof[e]
    /\ eof' = [eof EXCEPT ![e] = TRUE]
    /\ UNCHANGED <<sent, received, outcome>>

\* Some more of the other end's stream, in order.
Advance(e) ==
    \E n \in received[e]..sent[Other(e)] : received' = [received EXCEPT ![e] = n]

Deliver(e) ==
    /\ Running(e)
    /\ Advance(e)
    /\ UNCHANGED <<sent, eof, outcome>>

Finish(e) ==
    /\ Running(e)
    /\ Complete(e) \/ Complete(Other(e))
    /\ outcome' = [outcome EXCEPT ![e] = "clean"]
    /\ UNCHANGED <<sent, eof, received>>

\* A break may come in the middle of a delivery.
Break(e) ==
    /\ Running(e)
    /\ Advance(e)
    /\ outcome' = [outcome EXCEPT ![e] = "broken"]
    /\ UNCHANGED <<sent, eof>>

Next == \E e \in Ends : Read(e) \/ ReadEnd(e) \/ Deliver(e) \/ Finish(e) \/ Break(e)

Spec == Init /\ [][Next]_streamVars
===============================================================================
