----------------------------- MODULE PushService -----------------------------
(***************************************************************************)
(* What the push relay promises to the HTTP server, without its threads,   *)
(* queues and locks: requests are taken up one by one in the order in      *)
(* which they were made; each is either refused, with one answer and no    *)
(* other, or delivered and from then on answered once per device reply.    *)
(***************************************************************************)
EXTENDS Integers

CONSTANTS
    MaxPush,     \* bound: push requests
    MaxReplies   \* bound: replies a device sends to one push

Pushes == 1 .. MaxPush

VARIABLES
    asked,     \* requests made
    handled,   \* requests delivered or refused
    refused,   \* the ones refused
    answers    \* completions made for each request

vars == <<asked, handled, refused, answers>>

Init ==
    /\ asked = 0 /\ handled = 0
    /\ refused = {}
    /\ answers = [p \in Pushes |-> 0]

Ask ==
    /\ asked < MaxPush
    /\ asked' = asked + 1
    /\ UNCHANGED <<handled, refused, answers>>

Deliver ==
    /\ handled < asked
    /\ handled' = handled + 1
    /\ UNCHANGED <<asked, refused, answers>>

Refuse ==
    /\ handled < asked
    /\ handled' = handled + 1
    /\ refused' = refused \cup {handled + 1}
    /\ answers' = [answers EXCEPT ![handled + 1] = @ + 1]
    /\ UNCHANGED asked

Answer(p) ==
    /\ p <= handled /\ p \notin refused
    /\ answers[p] < MaxReplies
    /\ answers' = [answers EXCEPT ![p] = @ + 1]
    /\ UNCHANGED <<asked, handled, refused>>

Next == Ask \/ Deliver \/ Refuse \/ \E p \in Pushes : Answer(p)

Spec == Init /\ [][Next]_vars
=============================================================================
