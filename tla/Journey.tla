------------------------------- MODULE Journey -------------------------------
(***************************************************************************)
(* What the path from the webhook to the handler promises of each          *)
(* notification: once it is stored it is always somewhere, until it is     *)
(* done; and it is given up only where it can be seen.                     *)
(***************************************************************************)
CONSTANTS
    Events,
    Valid,      \* notifications with an amount
    OneRelay,   \* one process runs the relay, as deployed
    OneWorker   \* one process takes from the stream, as deployed

VARIABLE place

\* The relay may give up several at once; nothing leaves failed or done.
Moves ==
    {<<"nowhere", "outbox">>,                          \* stored
     <<"outbox", "stream">>, <<"letters", "stream">>,  \* sent; replayed
     <<"outbox", "letters">>, <<"stream", "letters">>, \* without an amount; buried
     <<"outbox", "failed">>,                           \* given up
     <<"stream", "done">>}                             \* handled

\* What a second process can add: a relay that was overtaken while it held an
\* event sends what another has given up, or writes its own outcome over it; a
\* worker handles a message that another has buried.
Overtaken ==
    (IF OneRelay THEN {} ELSE {"failed"} \X {"outbox", "stream", "letters"}) \cup
    (IF OneWorker THEN {} ELSE {<<"letters", "done">>})

JourneyInit == place = [e \in Events |-> "nowhere"]

Travel ==
    /\ place' \in [Events -> {"nowhere", "outbox", "stream", "letters", "failed", "done"}]
    /\ \A e \in Events :
          \/ place'[e] = place[e]
          \/ <<place[e], place'[e]>> \in Moves \cup Overtaken
             /\ (place'[e] = "done" => e \in Valid)

JourneySpec == JourneyInit /\ [][Travel]_place
=============================================================================
