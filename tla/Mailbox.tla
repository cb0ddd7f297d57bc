------------------------------ MODULE Mailbox ------------------------------
(***************************************************************************)
(* What ipc.c promises its callers, without rings, registers or caches: a  *)
(* bounded first-in first-out queue of requests to MINI, a bounded queue   *)
(* of replies back, and one caller that sends a request, takes replies in  *)
(* order, drops those of another request and keeps the one of its own.     *)
(***************************************************************************)
EXTENDS Integers, Sequences, FiniteSets

CONSTANTS ExchangeCodes, PostCodes, Args, Leftover, Tags, NoMsg,
          InRoom, OutRoom,   \* how many messages each queue holds
          Backlog, AnswersPosts

Request == [code : ExchangeCodes \cup PostCodes, tag : Tags, args : Args]

VARIABLES
    caller,    \* "idle", "send", "wait" or "hold"
    call,      \* the request being sent or waited for
    hold,      \* the reply last taken
    open,      \* the mailbox is initialized
    requests, replies, working

vars == <<caller, call, hold, open, requests, replies, working>>

Init ==
    /\ caller = "idle" /\ call = NoMsg /\ hold = NoMsg /\ open = FALSE
    /\ requests = <<>> /\ working = {}
    /\ replies \in UNION {[1 .. n -> Leftover] : n \in 0 .. OutRoom}

Open == /\ caller = "idle" /\ ~open
        /\ open' = TRUE
        /\ UNCHANGED <<caller, call, hold, requests, replies, working>>

\* The mailbox closes only when MINI has taken every request.
Close == /\ caller = "idle" /\ open /\ requests = <<>>
         /\ open' = FALSE
         /\ UNCHANGED <<caller, call, hold, requests, replies, working>>

\* An exchange through a closed mailbox sends nothing and waits.
Begin == \E r \in Request :
    /\ caller = "idle"
    /\ call' = r
    /\ \/ open /\ caller' = "send"
       \/ ~open /\ r.code \in ExchangeCodes /\ caller' = "wait"
    /\ UNCHANGED <<hold, open, requests, replies, working>>

Send == /\ caller = "send" /\ Len(requests) < InRoom
        /\ requests' = Append(requests, call)
        /\ caller' = IF call.code \in ExchangeCodes THEN "wait" ELSE "idle"
        /\ UNCHANGED <<call, hold, open, replies, working>>

Take == /\ caller = "wait" /\ replies # <<>>
        /\ hold' = Head(replies)
        /\ replies' = Tail(replies)
        /\ caller' = "hold"
        /\ UNCHANGED <<call, open, requests, working>>

Mine == hold.code = call.code /\ hold.tag = call.tag

Drop == /\ caller = "hold" /\ ~Mine
        /\ caller' = "wait"
        /\ UNCHANGED <<call, hold, open, requests, replies, working>>

Keep == /\ caller = "hold" /\ Mine
        /\ caller' = "idle"
        /\ UNCHANGED <<call, hold, open, requests, replies, working>>

Serve == /\ requests # <<>> /\ Cardinality(working) < Backlog
         /\ requests' = Tail(requests)
         /\ \/ /\ Head(requests).code \in ExchangeCodes \/ AnswersPosts
               /\ working' = working \cup {Head(requests)}
            \/ Head(requests).code \in PostCodes /\ UNCHANGED working
         /\ UNCHANGED <<caller, call, hold, open, replies>>

Answer == \E m \in working :
    /\ Len(replies) < OutRoom
    /\ replies' = Append(replies, m)
    /\ working' = working \ {m}
    /\ UNCHANGED <<caller, call, hold, open, requests>>

Next == Open \/ Close \/ Begin \/ Send \/ Take \/ Drop \/ Keep \/ Serve \/ Answer

Spec == Init /\ [][Next]_vars
=============================================================================
